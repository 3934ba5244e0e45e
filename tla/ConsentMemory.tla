---------------------------- MODULE ConsentMemory ----------------------------
(***************************************************************************)
(* "Don't ask again for this site": the grants that the wallet origin      *)
(* keeps in localStorage (wallet-ui/origin-app/consent-memory.mjs) and the *)
(* pages that use them (controller.mjs).                                   *)
(*                                                                         *)
(* Every tab runs one page at a time and the tabs share the storage.  An   *)
(* update reads the grants, changes them and writes them back: one turn of *)
(* a tab's event loop, but two accesses of the storage, between which      *)
(* another tab may write, since browsers lock localStorage for neither.    *)
(* A write may throw (quota, storage disabled) and the clock may be set.   *)
(***************************************************************************)
EXTENDS Naturals, FiniteSets, Functions

CONSTANTS
  ConsentTabs,    \* the browser tabs that show the wallet
  Scopes,         \* what a grant covers: client, origin, operation and key
  Watched,        \* the scope that the histories follow: any one of Scopes
  Session,        \* SESSION_MS, in ticks of the clock
  MaxUnattended,  \* MAX_UNATTENDED
  MaxGrants,      \* MAX_GRANTS
  MaxNow,         \* bound: the clock stays below it
  ClockMayStep,   \* may the clock be set back?
  WritesMayFail   \* may the storage refuse a write?

ASSUME ConsentAssumption ==
  /\ Watched \in Scopes
  /\ {Session, MaxUnattended, MaxGrants} \subseteq Nat \ {0}
  /\ MaxNow \in Nat
  /\ {ClockMayStep, WritesMayFail} \subseteq BOOLEAN

VARIABLES
  now,     \* Date.now
  stored,  \* the item in localStorage: scope -> grant
  page,    \* tab -> the transaction its page is at
  given,   \* history: when grants of Watched were stored
  used,    \* history: unattended openings of Watched since the latest of them,
           \* counted up to one more than MaxUnattended (a bound)
  forgotten  \* history: a logout has ended and no grant was given since

consentVars == <<now, stored, page, given, used, forgotten>>

Grant == [expiresAt : 0..(MaxNow + Session), remaining : 1..MaxUnattended]
IsGrants(g) == DOMAIN g \subseteq Scopes /\ \A s \in DOMAIN g : g[s] \in Grant
NoGrants == [s \in {} |-> 0]

(* "taking" and "granting" pages have read the storage and not yet written *)
(* it; "asking" ones show the confirmation, "account" ones the account.    *)
PageStages == {"idle", "validated", "taking", "asking", "granting", "opening", "confirming", "account"}
IdlePage == [stage |-> "idle", scope |-> {}, read |-> NoGrants, at |-> 0]

ConsentInit ==
  /\ now = 0
  /\ stored = NoGrants
  /\ page = [t \in ConsentTabs |-> IdlePage]
  /\ given = {}
  /\ used = 0
  /\ forgotten = FALSE

-----------------------------------------------------------------------------
(* Fault: a grant from the future of a clock that was set back is used. *)
LiveWhateverTheClock(g, n) == g.expiresAt > n /\ g.remaining > 0

Live(g, n) ==
  /\ g.expiresAt > n /\ g.expiresAt <= n + Session
  /\ g.remaining > 0 /\ g.remaining <= MaxUnattended

(* readGrants: what is stored, without what is not live at n.              *)
ReadGrants(n) == Restrict(stored, {s \in DOMAIN stored : Live(stored[s], n)})

(* writeGrants.                                                            *)
WriteGrants(g) == stored' = g
WriteFails == WritesMayFail /\ UNCHANGED stored

(* take: one opening of the grant is used up, the last one with the grant. *)
Taken(g, s) ==
  IF g[s].remaining = 1 THEN Restrict(g, DOMAIN g \ {s})
  ELSE [g EXCEPT ![s].remaining = @ - 1]

(* grant: the new grant is added ...                                       *)
With(g, s, n) ==
  [x \in DOMAIN g \cup {s} |->
     IF x = s THEN [expiresAt |-> n + Session, remaining |-> MaxUnattended] ELSE g[x]]

(* Fault: grants pile up. *)
EvictionsNone(g, s) == {g}

(* ... and, when there are too many, the one that ends first is dropped.   *)
(* Array.prototype.sort is stable and the new scope is the last key, so it *)
(* comes last among those that end together with it.                       *)
Evictions(g, s) ==
  LET earliest == {x \in DOMAIN g : \A y \in DOMAIN g : g[x].expiresAt <= g[y].expiresAt}
      victims == IF earliest = {s} THEN {s} ELSE earliest \ {s}
  IN  IF Cardinality(DOMAIN g) <= MaxGrants THEN {g}
      ELSE {Restrict(g, DOMAIN g \ {x}) : x \in victims}

-----------------------------------------------------------------------------
PageAt(t, stage) == page[t].stage = stage
Goes(t, stage) == page' = [page EXCEPT ![t].stage = stage]

(* A page is opened and its transaction validated.  Only field openings    *)
(* and key unwrappings have a scope (consentScope); an account transaction *)
(* is confirmed each time.                                                 *)
OpenPage(t) ==
  /\ PageAt(t, "idle")
  /\ \/ \E s \in Scopes : page' = [page EXCEPT ![t] = [@ EXCEPT !.stage = "validated", !.scope = {s}]]
     \/ Goes(t, "confirming")
  /\ UNCHANGED <<now, stored, given, used, forgotten>>

Scope(t) == CHOOSE s \in Scopes : page[t].scope = {s}

TakeReads(t) ==
  /\ PageAt(t, "validated")
  /\ LET g == ReadGrants(now) IN
     page' = [page EXCEPT ![t] =
       [@ EXCEPT !.stage = IF Scope(t) \in DOMAIN g THEN "taking" ELSE "asking",
                 !.read = IF Scope(t) \in DOMAIN g THEN g ELSE NoGrants]]
  /\ UNCHANGED <<now, stored, given, used, forgotten>>

Left(t, stage) == page' = [page EXCEPT ![t] = [@ EXCEPT !.stage = stage, !.read = NoGrants, !.at = 0]]

Opened(s) == used' = IF s = Watched /\ used <= MaxUnattended THEN used + 1 ELSE used

TakeWrites(t) ==
  /\ PageAt(t, "taking")
  /\ WriteGrants(Taken(page[t].read, Scope(t)))
  /\ Opened(Scope(t))
  /\ Left(t, "opening")
  /\ UNCHANGED <<now, given, forgotten>>

(* Fault: the page opens although the use could not be recorded. *)
TakeFailsOpen(t) ==
  /\ PageAt(t, "taking") /\ WriteFails
  /\ Opened(Scope(t))
  /\ Left(t, "opening")
  /\ UNCHANGED <<now, given, forgotten>>

TakeFails(t) ==
  /\ PageAt(t, "taking") /\ WriteFails
  /\ Left(t, "asking")
  /\ UNCHANGED <<now, given, used, forgotten>>

(* The person agrees, this time only ...                                   *)
Agree(t) ==
  /\ PageAt(t, "asking") /\ Goes(t, "opening")
  /\ UNCHANGED <<now, stored, given, used, forgotten>>

(* ... or for the session.                                                 *)
GrantReads(t) ==
  /\ PageAt(t, "asking")
  /\ page' = [page EXCEPT ![t] = [@ EXCEPT !.stage = "granting", !.read = ReadGrants(now), !.at = now]]
  /\ UNCHANGED <<now, stored, given, used, forgotten>>

GrantWrites(t) ==
  /\ PageAt(t, "granting")
  /\ \E g \in Evictions(With(page[t].read, Scope(t), page[t].at), Scope(t)) : WriteGrants(g)
  /\ given' = IF Scope(t) = Watched THEN given \cup {page[t].at} ELSE given
  /\ used' = IF Scope(t) = Watched THEN 0 ELSE used
  /\ forgotten' = FALSE
  /\ Left(t, "opening")
  /\ UNCHANGED now

GrantFails(t) ==
  /\ PageAt(t, "granting") /\ WriteFails
  /\ Left(t, "opening")
  /\ UNCHANGED <<now, given, used, forgotten>>

(* The account transaction is confirmed and its page shows the account.    *)
ShowAccount(t) ==
  /\ PageAt(t, "confirming") /\ Goes(t, "account")
  /\ UNCHANGED <<now, stored, given, used, forgotten>>

(* logout on the account page: the pending publication is completed.       *)
LogoutAccount(t) ==
  /\ PageAt(t, "account")
  /\ page' = [page EXCEPT ![t] = IdlePage]
  /\ forgotten' = TRUE
  /\ UNCHANGED <<now, stored, given, used>>

(* logout anywhere else: clear, then revokeNow.                            *)
LogoutPage(t) ==
  /\ page[t].stage \in {"validated", "asking", "opening", "confirming"}
  /\ WriteGrants(NoGrants) \/ WriteFails
  /\ page' = [page EXCEPT ![t] = IdlePage]
  /\ forgotten' = TRUE
  /\ UNCHANGED <<now, given, used>>

(* The page is done, refused, hidden, or its tab is closed.                *)
PageEnds(t) ==
  /\ ~PageAt(t, "idle")
  /\ page' = [page EXCEPT ![t] = IdlePage]
  /\ UNCHANGED <<now, stored, given, used, forgotten>>

(* Date.now: time passes, or the clock is set back.                        *)
Tick ==
  /\ now < MaxNow
  /\ now' = now + 1
  /\ UNCHANGED <<stored, page, given, used, forgotten>>

StepBack ==
  /\ ClockMayStep
  /\ \E n \in 0..MaxNow : n < now /\ now' = n
  /\ UNCHANGED <<stored, page, given, used, forgotten>>

ConsentNext ==
  \/ \E t \in ConsentTabs :
       \/ OpenPage(t) \/ TakeReads(t) \/ TakeWrites(t) \/ TakeFails(t)
       \/ Agree(t) \/ GrantReads(t) \/ GrantWrites(t) \/ GrantFails(t)
       \/ ShowAccount(t) \/ LogoutAccount(t) \/ LogoutPage(t) \/ PageEnds(t)
  \/ Tick \/ StepBack

ConsentSpec == ConsentInit /\ [][ConsentNext]_consentVars

-----------------------------------------------------------------------------
(* Every variable has its type; in particular the storage never holds more *)
(* than MaxGrants grants, nor one without a use left.                      *)
ConsentTypeOK ==
  /\ now \in 0..MaxNow
  /\ IsGrants(stored) /\ Cardinality(DOMAIN stored) <= MaxGrants
  /\ DOMAIN page = ConsentTabs
  /\ \A t \in ConsentTabs :
       /\ page[t].stage \in PageStages
       /\ \E S \in SUBSET Scopes : page[t].scope = S /\ Cardinality(S) <= 1
       /\ IsGrants(page[t].read) /\ page[t].at \in 0..MaxNow
  /\ given \subseteq 0..MaxNow
  /\ used \in 0..(MaxUnattended + 1)
  /\ forgotten \in BOOLEAN

(* After a person's "don't ask again" the site opens at most MaxUnattended *)
(* fields before it has to ask, whatever writes fail and wherever the      *)
(* clock goes.                                                             *)
BoundedOpenings == used <= MaxUnattended

(* Together, in states of the right type: the openings of a grant and the  *)
(* grants themselves stay within their limits.                             *)
ConsentIsBounded == ConsentTypeOK /\ BoundedOpenings

(* take lets a page through only in the session of a grant: not before the *)
(* person gave it, by a clock that was set back, and not after it ended.   *)
OpenedInSession ==
  [][\A t \in ConsentTabs :
       PageAt(t, "validated") /\ page'[t].stage = "taking" /\ Scope(t) = Watched =>
         \E n \in given : n <= now /\ now < n + Session]_consentVars

(* "Logging out of the wallet forgets every grant."                        *)
LogoutForgets == forgotten => DOMAIN stored = {}
=============================================================================
