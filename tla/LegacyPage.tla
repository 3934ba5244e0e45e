----------------------------- MODULE LegacyPage -----------------------------
(***************************************************************************)
(* The page of wallet-ui/src/app.js: one document, one module-wide state   *)
(* object, and many asynchronous handlers that read it, wait for the       *)
(* network, a file or a camera, and write it again.  Between two waits of  *)
(* a handler nothing else runs; while every handler waits, the user may    *)
(* log out, log in again, or start another one.  Each handler captures the *)
(* session generation when it starts and is expected to look whether that  *)
(* is still the current one before it writes.                              *)
(*                                                                         *)
(* The handlers differ in the order of their waits, looks and writes, so   *)
(* each one is a PROGRAM (its definition is in LegacyHandlers) and this    *)
(* module is the page they run in.  What a handler can write is a SINK: a  *)
(* part of the state and the elements that show it.  Sinks do not depend   *)
(* on each other, so a behaviour observes one of them, "watch", and runs   *)
(* the handlers that touch it.                                             *)
(*                                                                         *)
(* A program has five parts: "pre" is before the try, "body" inside it,    *)
(* "caught" its catch, "fin" its finally, "post" what follows.  A return   *)
(* or an exception in the body or the catch still runs the finally.        *)
(***************************************************************************)
EXTENDS Integers, Sequences, FiniteSets

CONSTANTS
    HandlerCalls,        \* calls in progress at the same time
    HandlerPrograms,     \* the handlers
    Watched,      \* the sinks the behaviours observe
    Concurrent,   \* the handlers that run beside one another
    OverLogins,   \* the kinds of login possible while logged in
    MaxLogins     \* bound on the number of logins

ASSUME PageAssumption == MaxLogins \in Nat \ {0} /\ OverLogins \subseteq {"keys", "external"}

VARIABLES
    watch,        \* the sink this behaviour observes
    holds,        \* the login whose data it holds, or Nobody
    stored,       \* the login whose accounts localStorage has, or Nobody
    session,      \* the login the page is in, or Nobody
    hasKeys,      \* state.hdRoot is there
    generation,   \* of legacySessionGuard
    logins,       \* how many logins there have been
    scanning,     \* for each kind of scan the generation that runs one, or NoScan
    calls         \* the calls: their program, its part and step, the
                  \* generation they captured and the login they are of

sessionVars == <<session, hasKeys, generation, logins>>
pageVars == <<watch, holds, stored, scanning, calls, sessionVars>>

Nobody == 0

NoScan == -1

(* The balance scan and the trust scan.                                    *)
Scans == {"balances", "trust"}

Nothing == [pre |-> <<>>, body |-> <<>>, caught |-> <<>>, fin |-> <<>>, post |-> <<>>]

-----------------------------------------------------------------------------
(***************************************************************************)
(* The steps a handler is made of.                                         *)
(***************************************************************************)
Still     == [op |-> "still"]              \* if (!isCurrentLegacySession(gen)) return
LoggedIn  == [op |-> "loggedIn"]           \* if (!state.loggedIn) return
HasKeys   == [op |-> "hasKeys"]            \* if (!state.hdRoot) return
Maybe     == [op |-> "maybe"]              \* a return that depends on the input
External  == [op |-> "external"]           \* if (!state.externalAccount) throw
Risky     == [op |-> "risky"]              \* synchronous code that may throw
Throws    == [op |-> "throws"]             \* synchronous code that always throws
NeedsKeys == [op |-> "needsKeys"]          \* throws when there is no state.hdRoot
Wait      == [op |-> "wait"]               \* an await that may reject
Sleep     == [op |-> "sleep"]              \* an await that does not
Show(s)   == [op |-> "show", sink |-> s]   \* writes what the call read or was given
Now(s)    == [op |-> "now", sink |-> s]    \* writes what the state holds at this moment
Clear(s)  == [op |-> "clear", sink |-> s]
Undo(s)   == [op |-> "undo", sink |-> s]   \* Still, and clears the sink when it is not
Lock(s)   == [op |-> "lock", scan |-> s]   \* returns when this session runs one
Unlock(s) == [op |-> "unlock", scan |-> s]
Again(k)  == [op |-> "again", to |-> k]    \* the end of a loop that begins at step k

Handler(body) == [Nothing EXCEPT !.pre = body]

Trying(pre, body, caught, fin, post) ==
    [pre |-> pre, body |-> body, caught |-> caught, fin |-> fin, post |-> post]

Parts == DOMAIN Nothing

StepsOf(p) == UNION {{p[part][i] : i \in 1..Len(p[part])} : part \in Parts}

Touches(p, s) == \E step \in StepsOf(p) : "sink" \in DOMAIN step /\ step.sink = s

-----------------------------------------------------------------------------
HandlerEnded(c) == calls[c].part = "done"

ThisCall(c) == calls[c].prog[calls[c].part][calls[c].at]

Inside(c) == ~HandlerEnded(c) /\ calls[c].at <= Len(calls[c].prog[calls[c].part])

Waits(c) == Inside(c) /\ ThisCall(c).op \in {"wait", "sleep"}

(* Only one handler runs at a time, and until it waits or ends.            *)
Parked(c) == HandlerEnded(c) \/ Waits(c)

Settled == \A c \in HandlerCalls : Parked(c)

IdleHandler == [prog |-> Nothing, part |-> "done", at |-> 1, gen |-> 0, owner |-> Nobody,
         leaving |-> FALSE]

PageInit ==
    /\ watch \in Watched
    /\ holds = Nobody
    /\ stored = Nobody
    /\ session = Nobody
    /\ hasKeys = FALSE
    /\ generation = 0
    /\ logins = 0
    /\ scanning = [s \in Scans |-> NoScan]
    /\ calls = [c \in HandlerCalls |-> IdleHandler]

(* isCurrentLegacySession: logged in, and no login or logout since.        *)
IsCurrent(c) == session # Nobody /\ calls[c].gen = generation

(* A handler is called: by a click, by login() or by another handler that  *)
(* has just looked.                                                        *)
Start(c, p) ==
    /\ Settled /\ HandlerEnded(c)
    /\ Touches(p, watch)
    /\ \A d \in HandlerCalls \ {c} : HandlerEnded(d) \/ {p, calls[d].prog} \subseteq Concurrent
    /\ calls' = [calls EXCEPT ![c] =
           [IdleHandler EXCEPT !.prog = p, !.part = "pre", !.gen = generation, !.owner = session]]
    /\ UNCHANGED <<watch, holds, stored, scanning, sessionVars>>

-----------------------------------------------------------------------------
Runs(c, ops) ==
    /\ Inside(c) /\ ThisCall(c).op \in ops
    /\ \A d \in HandlerCalls \ {c} : Parked(d)

Step(c, step) == calls' = [calls EXCEPT ![c].at = step]

HandlerAdvances(c) == Step(c, calls[c].at + 1)

(* A return: the finally of the try it is in, then out.                    *)
Leave(c) ==
    calls' = [calls EXCEPT ![c] =
        IF @.part \in {"body", "caught"}
        THEN [@ EXCEPT !.part = "fin", !.at = 1, !.leaving = TRUE]
        ELSE IdleHandler]

(* An exception: the catch of the try it is in.                            *)
HandlerThrows(c) ==
    IF calls[c].part = "body"
    THEN calls' = [calls EXCEPT ![c].part = "caught", ![c].at = 1]
    ELSE Leave(c)

Untouched == UNCHANGED <<watch, holds, stored, scanning, sessionVars>>

Passes(c) ==
    CASE ThisCall(c).op \in {"still", "undo"} -> IsCurrent(c)
      [] ThisCall(c).op = "loggedIn" -> session # Nobody
      [] ThisCall(c).op \in {"hasKeys", "needsKeys"} -> hasKeys
      [] ThisCall(c).op = "external" -> session # Nobody /\ ~hasKeys
      [] ThisCall(c).op = "throws" -> FALSE
      [] OTHER -> TRUE

Looks == {"still", "loggedIn", "hasKeys", "undo", "maybe"}

Demands == {"needsKeys", "external", "throws"}

Continues(c) ==
    Runs(c, Looks \cup Demands \cup {"risky"}) /\ Passes(c) /\ HandlerAdvances(c) /\ Untouched

Returns(c) ==
    /\ Runs(c, Looks \ {"undo"})
    /\ ThisCall(c).op = "maybe" \/ ~Passes(c)
    /\ Leave(c) /\ Untouched

Undone(c) ==
    /\ Runs(c, {"undo"}) /\ ~Passes(c)
    /\ holds' = IF ThisCall(c).sink = watch THEN Nobody ELSE holds
    /\ Leave(c)
    /\ UNCHANGED <<watch, stored, scanning, sessionVars>>

(* What a promise brings, at some later time: the answer or its rejection. *)
Answered(c) == Runs(c, {"wait", "sleep"}) /\ HandlerAdvances(c) /\ Untouched

Fails(c) ==
    /\ Runs(c, Demands \cup {"wait", "risky"})
    /\ ThisCall(c).op \in Demands => ~Passes(c)
    /\ HandlerThrows(c) /\ Untouched

Writes(c) ==
    /\ Runs(c, {"show", "now", "clear"})
    /\ holds' = IF ThisCall(c).sink # watch THEN holds
                ELSE CASE ThisCall(c).op = "show" -> calls[c].owner
                       [] ThisCall(c).op = "now" -> session
                       [] OTHER -> Nobody
    /\ stored' = IF watch = "accounts" THEN holds' ELSE stored
    /\ HandlerAdvances(c)
    /\ UNCHANGED <<watch, scanning, sessionVars>>

Repeats(c) ==
    /\ Runs(c, {"again"})
    /\ \E next \in {ThisCall(c).to, calls[c].at + 1} : Step(c, next)
    /\ Untouched

(* The end of a part.                                                      *)
NextHandlerPart(c) ==
    /\ ~HandlerEnded(c) /\ ~Inside(c)
    /\ \A d \in HandlerCalls \ {c} : Parked(d)
    /\ calls' = [calls EXCEPT ![c] =
           CASE @.part = "pre" -> [@ EXCEPT !.part = "body", !.at = 1]
             [] @.part \in {"body", "caught"} -> [@ EXCEPT !.part = "fin", !.at = 1]
             [] @.part = "fin" /\ ~@.leaving -> [@ EXCEPT !.part = "post", !.at = 1]
             [] OTHER -> IdleHandler]
    /\ Untouched

-----------------------------------------------------------------------------
(* One scan of a kind and a session at a time.                             *)
ScanStarts(c) ==
    /\ Runs(c, {"lock"})
    /\ scanning[ThisCall(c).scan] # calls[c].gen
    /\ scanning' = [scanning EXCEPT ![ThisCall(c).scan] = calls[c].gen]
    /\ HandlerAdvances(c)
    /\ UNCHANGED <<watch, holds, stored, sessionVars>>

ScanRefused(c) ==
    Runs(c, {"lock"}) /\ scanning[ThisCall(c).scan] = calls[c].gen /\ Leave(c) /\ Untouched

(* A variant the lock must refute: every finally frees it.                 *)
ScanEndsAnyLock(c) ==
    /\ Runs(c, {"unlock"})
    /\ scanning' = [scanning EXCEPT ![ThisCall(c).scan] = NoScan]
    /\ HandlerAdvances(c)
    /\ UNCHANGED <<watch, holds, stored, sessionVars>>

(* Its finally: the scan of a later login keeps its lock.                  *)
ScanEnds(c) ==
    /\ Runs(c, {"unlock"})
    /\ scanning' = [scanning EXCEPT ![ThisCall(c).scan] = IF @ = calls[c].gen THEN NoScan ELSE @]
    /\ HandlerAdvances(c)
    /\ UNCHANGED <<watch, holds, stored, sessionVars>>

-----------------------------------------------------------------------------
(***************************************************************************)
(* Logins and logout.                                                      *)
(***************************************************************************)
(* What login() writes: the keys its caller derived and the addresses.     *)
(* Scanning, names, trust and PKI start as handlers of their own.          *)
LoginWrites == {"keys", "addresses"}

(* The accounts of a login are those of localStorage and the default ones  *)
(* that are missing there.                                                 *)
Loaded(login) == IF stored = Nobody THEN login ELSE stored

(* login(), after the derivation of the keys: their awaits only wait for   *)
(* work of the same turn.                                                  *)
Login ==
    /\ Settled /\ logins < MaxLogins
    /\ session = Nobody \/ "keys" \in OverLogins
    /\ logins' = logins + 1
    /\ session' = logins'
    /\ hasKeys' = TRUE
    /\ generation' = generation + 1
    /\ scanning' = [scanning EXCEPT !["balances"] = NoScan]
    /\ holds' = IF watch \in LoginWrites THEN logins'
                ELSE IF watch = "accounts" THEN Loaded(logins') ELSE holds
    /\ stored' = IF watch = "accounts" THEN Loaded(logins') ELSE stored
    /\ UNCHANGED <<watch, calls>>

(* The synchronous part of loginExternal, which begins no generation.      *)
LoginExternal ==
    /\ Settled /\ logins < MaxLogins
    /\ session = Nobody \/ "external" \in OverLogins
    /\ logins' = logins + 1
    /\ session' = logins'
    /\ holds' = IF watch \in {"addresses", "external"} THEN logins' ELSE holds
    /\ UNCHANGED <<watch, stored, calls, hasKeys, generation, scanning>>

(* What logout() clears, by the function that does.                        *)
clearSensitiveWalletUI == {"accounts", "bond", "send", "receive", "derived", "addresses"}

clearSignedVCardStateAndUI == {"vcard"}

(* A variant that leaves the trust map on the page.                        *)
clearNoTrustState == {}

clearTrustStateAndUI == {"trust"}

stopCamera == {"camera"}

resetMessagingStateAndUI == {"messages"}

LogoutClears ==
    {"keys", "external", "balances", "names", "pki", "storedPki", "photo"}
    \cup clearSensitiveWalletUI \cup clearSignedVCardStateAndUI \cup clearTrustStateAndUI
    \cup stopCamera \cup resetMessagingStateAndUI

Logout ==
    /\ Settled
    /\ session # Nobody
    /\ session' = Nobody
    /\ hasKeys' = FALSE
    /\ generation' = generation + 1
    /\ scanning' = [s \in Scans |-> NoScan]
    /\ holds' = IF watch \in LogoutClears THEN Nobody ELSE holds
    /\ UNCHANGED <<watch, stored, calls, logins>>

-----------------------------------------------------------------------------
PageNext ==
    \/ Login \/ LoginExternal \/ Logout
    \/ \E c \in HandlerCalls :
        \/ \E p \in HandlerPrograms : Start(c, p)
        \/ Continues(c) \/ Returns(c) \/ Undone(c)
        \/ Answered(c) \/ Fails(c)
        \/ Writes(c) \/ Repeats(c) \/ NextHandlerPart(c)
        \/ ScanStarts(c) \/ ScanRefused(c) \/ ScanEnds(c)

PageSpec == PageInit /\ [][PageNext]_pageVars

-----------------------------------------------------------------------------
(* Nothing that belongs to a login that is over is put into the page: what *)
(* a handler writes is of the login it runs in or of nobody.  A handler of *)
(* an earlier login that finds its answer after a logout, or in the next   *)
(* login, has to see that before it writes (the looks at                   *)
(* isCurrentLegacySession after each await).                               *)
EndedSessionWritesNothing ==
    [][logins' = logins /\ holds' # holds => holds' \in {Nobody, session'}]_pageVars

(* What leaves the page, or is shared by all logins, is not the logout's   *)
(* to clear.                                                               *)
Outlives == {"taken", "broadcast", "storedTrust", "baselines", "revocation"}

(* After logout() the page holds nothing of any login, whatever was under  *)
(* way when it was called and however late that ends.                      *)
LogoutLeavesNothing ==
    Settled /\ session = Nobody /\ watch \notin Outlives => holds = Nobody

Scanning(c, s) ==
    calls[c].part \in {"body", "caught"} /\ Lock(s) \in StepsOf(calls[c].prog)

(* A session never runs two scans of a kind at once: a scan of an ended    *)
(* session that stops late does not free the lock of the next one.         *)
OneScanOfASession ==
    \A s \in Scans, c, d \in HandlerCalls :
        c # d /\ Scanning(c, s) /\ Scanning(d, s) => calls[c].gen # calls[d].gen

(* The two together: no login leaves a trace in the next.                  *)
LoginsAreSeparate == LogoutLeavesNothing /\ OneScanOfASession
=============================================================================
