----------------------------- MODULE RelayStore -----------------------------
(***************************************************************************)
(* The transaction table of the wallet relay:                              *)
(* wallet-ui/relay/src/store.ts, class RelayStore.                         *)
(*                                                                         *)
(* A requesting site registers a transaction, the wallet origin fetches    *)
(* it, posts one result against it, and the site redeems that result once  *)
(* with the authorization code.  Every public method of the class is one   *)
(* SQLite IMMEDIATE transaction and so one action here.  Every method is   *)
(* handed the wall clock by its caller, and that clock may be stepped      *)
(* backwards, so `now' is any instant at every call.                       *)
(*                                                                         *)
(* Data.  The columns fixed by the registry (origin, client, operation,    *)
(* callback, registry version) are one `binding' record.  JSON texts are   *)
(* members of small sets; the two SHA-256 columns are functions of the     *)
(* texts, nobody reads them back to decide anything, and are left out.     *)
(* The CSPRNG is a serial number: a fresh value was never drawn before.    *)
(***************************************************************************)
EXTENDS Integers, FiniteSets

CONSTANTS
  TransactionIds,  \* ids the clients choose (64 hex digits in the code)
  Bindings,        \* registry bindings: [origin, client, operation, lifetime]
  StateValues,     \* the clients' `state' values
  Challenges,      \* S256 code challenges
  Requests,        \* request JSON texts
  Results,         \* result JSON texts
  Times,           \* wall-clock readings
  Lifetimes,       \* distances from creation to deadline
  MaximumRows,     \* maximumRows of the constructor
  MaxSerial,       \* bound: values drawn from the CSPRNG in one behaviour
  Null             \* SQL NULL

ASSUME RelayStoreAssumption ==
  /\ IsFiniteSet(TransactionIds)
  /\ MaximumRows \in Nat \ {0}
  /\ MaxSerial \in Nat
  /\ Times \subseteq Nat
  /\ Lifetimes \subseteq Nat
  /\ Null \notin Requests \cup Results \cup Nat
  /\ \A b \in Bindings : b.lifetime \in Lifetimes

VARIABLES
  rows,        \* the table: transaction id -> row, or NoRow
  serial,      \* how many values the CSPRNG has produced
  registered,  \* history: token -> what create was given with it
  minted,      \* history: code -> the token and result complete was given
  released     \* history: code -> how often, and last to whom, redeem gave it out

storeVars == <<rows, serial, registered, minted, released>>
histVars  == <<registered, minted, released>>

Live     == {"pending", "completed"}
Terminal == {"consumed", "cancelled", "expired"}

Serials == 1..MaxSerial

Row == [binding   : Bindings,
        state     : StateValues,
        challenge : Challenges,
        request   : Requests \cup {Null},
        token     : Serials \cup {Null},
        result    : Results \cup {Null},
        code      : Serials \cup {Null},
        status    : Live \cup Terminal,
        expiresAt : Nat]

NoRow == [status |-> "absent"]

Origins == {b.origin : b \in Bindings}

(* The history: nothing here is read by an action. *)
Registration == [id : TransactionIds, origin : Origins, state : StateValues,
                 challenge : Challenges, deadline : Nat]
Minting      == [token : Serials, result : Results]
NeverReleased == [count |-> 0]
Release      == [count : Nat \ {0}, id : TransactionIds, origin : Origins,
                 state : StateValues, challenge : Challenges,
                 result : Results, at : Times]

(* NULL is no history record either. *)
ASSUME NullAssumption == Null \notin Registration \cup Minting

Present(tbl) == {t \in TransactionIds : tbl[t].status # "absent"}

-----------------------------------------------------------------------------
(* The SQL statements the methods share. *)

(* The SET clause common to expire, redeem and cancel. *)
Scrub(row, status) ==
  [row EXCEPT !.request = Null, !.result = Null, !.token = Null,
              !.code = Null, !.status = status]

(* Fault: the UPDATE has no status condition. *)
ExpireAnyStatus(tbl, now) ==
  [t \in TransactionIds |->
     IF tbl[t].status # "absent" /\ tbl[t].expiresAt <= now
       THEN Scrub(tbl[t], "expired")
       ELSE tbl[t]]

(* #expireAll(nowMs) *)
ExpireAll(tbl, now) ==
  [t \in TransactionIds |->
     IF tbl[t].status \in Live /\ tbl[t].expiresAt <= now
       THEN Scrub(tbl[t], "expired")
       ELSE tbl[t]]

(* Fault: the DELETE does not look at the deadline. *)
PruneHeld(tbl, now) ==
  [t \in TransactionIds |-> IF tbl[t].status \in Terminal THEN NoRow ELSE tbl[t]]

(* The DELETE in create: spent rows whose deadline has passed. *)
PruneSpent(tbl, now) ==
  [t \in TransactionIds |->
     IF tbl[t].status \in Terminal /\ tbl[t].expiresAt <= now
       THEN NoRow
       ELSE tbl[t]]

(* create prunes only when the table has reached maximumRows. *)
MakeRoom(tbl, now) ==
  IF Cardinality(Present(tbl)) >= MaximumRows THEN PruneSpent(tbl, now) ELSE tbl

-----------------------------------------------------------------------------
(* What each method answers, given the table after #expireAll. *)

CreateKind(tbl, id, now) ==
  IF tbl[id] # NoRow THEN "conflict"
  ELSE IF Cardinality(Present(MakeRoom(tbl, now))) >= MaximumRows THEN "full"
  ELSE "ok"

GetKind(tbl, id) ==
  CASE tbl[id] = NoRow                             -> "not-found"
    [] tbl[id].status \in {"expired", "cancelled"} -> "gone"
    [] tbl[id].status \in {"completed", "consumed"} -> "conflict"
    [] OTHER                                       -> "ok"

(* Fault: a completed row accepts another result. *)
CompleteAgain(tbl, id, token) ==
  IF GetKind(tbl, id) # "ok" /\ tbl[id].status # "completed" THEN GetKind(tbl, id)
  ELSE IF tbl[id].token = Null \/ tbl[id].token # token THEN "invalid-binding"
  ELSE "ok"

(* Fault: the result token is not compared. *)
CompleteAnyToken(tbl, id, token) == GetKind(tbl, id)

CompleteKind(tbl, id, token) ==
  IF GetKind(tbl, id) # "ok" THEN GetKind(tbl, id)
  ELSE IF tbl[id].token = Null \/ tbl[id].token # token THEN "invalid-binding"
  ELSE "ok"

(* Fault: the code verifier is not compared with the challenge. *)
RedeemWithoutVerifier(tbl, id, origin, state, code, challenge) ==
  CASE tbl[id] = NoRow                             -> "not-found"
    [] tbl[id].status \in {"expired", "cancelled"} -> "gone"
    [] tbl[id].status \in {"consumed", "pending"}  -> "conflict"
    [] OTHER ->
         IF tbl[id].binding.origin # origin THEN "unregistered"
         ELSE IF tbl[id].state # state \/ tbl[id].code # code THEN "invalid-binding"
         ELSE "ok"

RedeemKind(tbl, id, origin, state, code, challenge) ==
  CASE tbl[id] = NoRow ->
         IF \E t \in TransactionIds : tbl[t] # NoRow /\ tbl[t].code = code
           THEN "invalid-binding" ELSE "not-found"
    [] tbl[id].status \in {"expired", "cancelled"} -> "gone"
    [] \/ tbl[id].status \in {"consumed", "pending"}
       \/ tbl[id].status = "completed"
          /\ (tbl[id].result = Null \/ tbl[id].code = Null) -> "conflict"
    [] OTHER ->
         IF tbl[id].binding.origin # origin THEN "unregistered"
         ELSE IF \/ tbl[id].state # state
                 \/ tbl[id].code # code
                 \/ tbl[id].challenge # challenge
           THEN "invalid-binding"
         ELSE "ok"

CancelKind(tbl, id, bodyId, origin, state, challenge) ==
  CASE tbl[id] = NoRow                             -> "not-found"
    [] tbl[id].status \in {"expired", "cancelled"} -> "gone"
    [] tbl[id].status = "consumed"                 -> "conflict"
    [] OTHER ->
         IF tbl[id].binding.origin # origin THEN "unregistered"
         ELSE IF \/ id # bodyId
                 \/ tbl[id].state # state
                 \/ tbl[id].challenge # challenge
           THEN "invalid-binding"
         ELSE "ok"

-----------------------------------------------------------------------------
(* The constructor empties the table: "Nothing survives a restart." *)
Init ==
  /\ rows = [t \in TransactionIds |-> NoRow]
  /\ serial = 0
  /\ registered = [k \in Serials |-> Null]
  /\ minted = [c \in Serials |-> Null]
  /\ released = [c \in Serials |-> NeverReleased]

(* create(input).  The result token is drawn by the caller before the      *)
(* transaction starts, so it is used up even when the row is refused.      *)
Create(id, binding, state, challenge, request, now) ==
  LET live == ExpireAll(rows, now) IN
  /\ serial < MaxSerial
  /\ serial' = serial + 1
  /\ rows' = IF CreateKind(live, id, now) = "conflict" THEN live
             ELSE IF CreateKind(live, id, now) = "full" THEN MakeRoom(live, now)
             ELSE [MakeRoom(live, now) EXCEPT ![id] =
                     [binding   |-> binding,
                      state     |-> state,
                      challenge |-> challenge,
                      request   |-> request,
                      token     |-> serial + 1,
                      result    |-> Null,
                      code      |-> Null,
                      status    |-> "pending",
                      expiresAt |-> now + binding.lifetime]]
  /\ registered' = [registered EXCEPT ![serial + 1] =
                      IF CreateKind(live, id, now) = "ok"
                        THEN [id |-> id, origin |-> binding.origin,
                              state |-> state, challenge |-> challenge,
                              deadline |-> now + binding.lifetime]
                        ELSE @]
  /\ UNCHANGED <<minted, released>>

(* get(transactionId, nowMs) reads the row GetKind judges; expire(nowMs),  *)
(* the timer's callback, reads nothing.  What both change is the sweep.    *)
Get(id, now) ==
  /\ rows' = ExpireAll(rows, now)
  /\ UNCHANGED <<serial, histVars>>

Expire(now) ==
  /\ rows' = ExpireAll(rows, now)
  /\ UNCHANGED <<serial, histVars>>

(* complete(input).  A completed row keeps its result token and request.   *)
Complete(id, token, result, now) ==
  LET live == ExpireAll(rows, now) IN
  IF CompleteKind(live, id, token) = "ok"
    THEN /\ serial < MaxSerial
         /\ serial' = serial + 1
         /\ rows' = [live EXCEPT ![id].result = result,
                                 ![id].code   = serial + 1,
                                 ![id].status = "completed"]
         /\ minted' = [minted EXCEPT ![serial + 1] =
                         [token |-> token, result |-> result]]
         /\ UNCHANGED <<registered, released>>
    ELSE /\ rows' = live
         /\ UNCHANGED <<serial, histVars>>

(* Fault: the result is answered but the row is left completed. *)
RedeemLeavesRow(id, origin, state, code, challenge, now) ==
  LET live == ExpireAll(rows, now) IN
  /\ rows' = live
  /\ released' = IF RedeemKind(live, id, origin, state, code, challenge) = "ok"
                   THEN [released EXCEPT ![code] =
                          [count |-> @.count + 1, id |-> id, origin |-> origin,
                           state |-> state, challenge |-> challenge,
                           result |-> live[id].result, at |-> now]]
                   ELSE released
  /\ UNCHANGED <<serial, registered, minted>>

(* redeem(input) *)
Redeem(id, origin, state, code, challenge, now) ==
  LET live == ExpireAll(rows, now) IN
  IF RedeemKind(live, id, origin, state, code, challenge) = "ok"
    THEN /\ rows' = [live EXCEPT ![id] = Scrub(live[id], "consumed")]
         /\ released' = [released EXCEPT ![code] =
              [count |-> @.count + 1,
               id |-> id, origin |-> origin, state |-> state,
               challenge |-> challenge, result |-> live[id].result,
               at |-> now]]
         /\ UNCHANGED <<serial, registered, minted>>
    ELSE /\ rows' = live
         /\ UNCHANGED <<serial, histVars>>

(* cancel(input) *)
Cancel(id, bodyId, origin, state, challenge, now) ==
  LET live == ExpireAll(rows, now) IN
  /\ rows' = IF CancelKind(live, id, bodyId, origin, state, challenge) = "ok"
               THEN [live EXCEPT ![id] = Scrub(live[id], "cancelled")]
               ELSE live
  /\ UNCHANGED <<serial, histVars>>

(* A process start: the constructor deletes every row. *)
Restart ==
  /\ rows' = [t \in TransactionIds |-> NoRow]
  /\ UNCHANGED <<serial, histVars>>

Next ==
  \/ \E id \in TransactionIds, b \in Bindings, s \in StateValues,
        h \in Challenges, q \in Requests, now \in Times :
        Create(id, b, s, h, q, now)
  \/ \E id \in TransactionIds, now \in Times : Get(id, now)
  \/ \E now \in Times : Expire(now)
  \/ \E id \in TransactionIds, k \in Serials, r \in Results, now \in Times :
        Complete(id, k, r, now)
  \/ \E id \in TransactionIds, o \in Origins, s \in StateValues,
        c \in Serials, h \in Challenges, now \in Times :
        Redeem(id, o, s, c, h, now)
  \/ \E id, body \in TransactionIds, o \in Origins, s \in StateValues,
        h \in Challenges, now \in Times :
        Cancel(id, body, o, s, h, now)
  \/ Restart

Spec == Init /\ [][Next]_storeVars

-----------------------------------------------------------------------------
(* Properties *)

ColumnsOK(r) ==
  /\ r.status \in Live <=> r.request # Null
  /\ r.status \in Live <=> r.token # Null
  /\ r.status = "completed" <=> r.result # Null
  /\ r.status = "completed" <=> r.code # Null

(* Every column holds a value of its SQL type; the history is well formed. *)
TypeOK ==
  /\ rows \in [TransactionIds -> Row \cup {NoRow}]
  /\ serial \in 0..MaxSerial
  /\ registered \in [Serials -> Registration \cup {Null}]
  /\ minted \in [Serials -> Minting \cup {Null}]
  /\ released \in [Serials -> Release \cup {NeverReleased}]

(* The nullable columns agree with the status: a pending row carries its   *)
(* request and result token and nothing else, a completed one all four,    *)
(* and a spent row (consumed, cancelled or expired) keeps no secret at all,*)
(* on whatever path it was spent.                                          *)
ColumnsMatchStatus == \A t \in Present(rows) : ColumnsOK(rows[t])

(* redeem hands the result behind one authorization code out at most once, *)
(* however redeems, cancels, sweeps, restarts and re-created ids interleave*)
SingleRelease == \A c \in Serials : released[c].count <= 1

(* Each registration takes at most one result: two codes are never minted  *)
(* against the same result token, which a completed row still holds.       *)
OneResultPerRegistration ==
  \A c, d \in Serials :
    (minted[c] # Null /\ minted[d] # Null /\ minted[c].token = minted[d].token)
      => c = d

(* What redeem gives out is the result posted under that very code, to the *)
(* origin, state and challenge that registered the transaction it was      *)
(* posted for, and by a clock reading before the deadline set at creation. *)
ReleaseFollowsRegistration ==
  \A c \in Serials :
    released[c].count > 0 =>
      /\ minted[c] # Null
      /\ released[c].result = minted[c].result
      /\ LET reg == registered[minted[c].token] IN
         /\ reg # Null
         /\ released[c].id = reg.id
         /\ released[c].origin = reg.origin
         /\ released[c].state = reg.state
         /\ released[c].challenge = reg.challenge
         /\ released[c].at < reg.deadline

(* The table never outgrows maximumRows. *)
WithinCapacity == Cardinality(Present(rows)) <= MaximumRows

(* This step registered u, by a reading of the clock at or past `instant'. *)
RegisteredAfter(u, instant) ==
  /\ rows'[u].status = "pending"
  /\ rows'[u].token = serial + 1
  /\ instant + rows'[u].binding.lifetime <= rows'[u].expiresAt

(* A spent id is held: its row stays as it is until the process starts     *)
(* again and empties the table, or until create needs the room and reads   *)
(* the clock at or past the deadline of that very row (the deadline of the *)
(* row it makes says what it read).  And nothing revives an id that is     *)
(* spent or gone, but a registration under a token never drawn before.     *)
SpentIdsStaySpent ==
  [][\A t \in TransactionIds :
       /\ rows[t].status \in Terminal =>
            \/ rows'[t] = rows[t]
            \/ /\ rows'[t] = NoRow
               /\ \/ Present(rows') = {}
                  \/ \E u \in TransactionIds : RegisteredAfter(u, rows[t].expiresAt)
       /\ (rows[t].status \notin Live /\ rows'[t].status \in Live) =>
            RegisteredAfter(t, 0)]_storeVars

-----------------------------------------------------------------------------
(* The inductive invariant: each live row against the history of its token.*)

(* A row present in the table has consistent columns; a live one is the    *)
(* registration its token names, a pending one has no code minted yet, and *)
(* a completed one carries a code that was minted for it and never used.   *)
RowOK(t, r) ==
  r # NoRow =>
    /\ ColumnsOK(r)
    /\ r.status \in Live =>
         registered[r.token] = [id |-> t, origin |-> r.binding.origin,
                                state |-> r.state, challenge |-> r.challenge,
                                deadline |-> r.expiresAt]
    /\ r.status = "pending" =>
         \A c \in Serials : minted[c] # Null => minted[c].token # r.token
    /\ r.status = "completed" =>
         /\ minted[r.code] = [token |-> r.token, result |-> r.result]
         /\ released[r.code] = NeverReleased

(* Values not drawn yet have no history, and a code's token is registered. *)
HistoryOK ==
  /\ \A k \in Serials : k > serial =>
       /\ registered[k] = Null
       /\ minted[k] = Null
       /\ released[k] = NeverReleased
  /\ \A c \in Serials : minted[c] # Null => registered[minted[c].token] # Null

(* The strengthening that the proof of the properties above goes through:  *)
(* every live row agrees with what create and complete recorded for it.    *)
IInv ==
  /\ TypeOK
  /\ \A t \in TransactionIds : RowOK(t, rows[t])
  /\ HistoryOK
  /\ OneResultPerRegistration
  /\ SingleRelease
  /\ ReleaseFollowsRegistration
  /\ WithinCapacity

=============================================================================
