----------------------------- MODULE RelayServer -----------------------------
(***************************************************************************)
(* The HTTP handlers of the wallet relay around its table:                 *)
(* wallet-ui/relay/src/server.ts, createRelayServer.                       *)
(*                                                                         *)
(* Node runs one handler step at a time, and a handler yields only while   *)
(* it awaits the request body (readJsonBody).  So each POST is two steps:  *)
(* Arrive, up to the await, and a Finish step from the body to the answer. *)
(* Before the await a handler has the path and what it peeked at; what the *)
(* body says is chosen when it ends, and may name what came to be while it *)
(* was awaited.  In between, other requests, expiry timers, clock steps    *)
(* and a shutdown may run.                                                 *)
(*                                                                         *)
(* A refusal (rate limit, unregistered origin, malformed body, a peer that *)
(* hangs up) ends the handler without touching the table: before the await *)
(* it is a stuttering step, after it the action Reject.  The counters that *)
(* decide a rate-limit refusal are modelled in RateLimiter.                *)
(***************************************************************************)
EXTENDS RelayStore

CONSTANTS
  Slots,      \* bound: handlers suspended at the same time
  MaxUptime   \* bound: ticks of the monotonic clock

ASSUME RelayServerAssumption == MaxUptime \in Nat

VARIABLES
  slots,    \* slot -> the suspended handler, or Idle
  wall,     \* Date.now(): may step backwards
  uptime,   \* the timer clock: never does
  timers,   \* expiryTimers: [due, deadline]
  phase     \* "up", "closing" (server.close() called) or "down"

serverVars == <<slots, wall, uptime, timers, phase>>
vars == <<storeVars, serverVars>>

Idle == [op |-> "idle"]
Seen == Row \cup {NoRow}

(* What a suspended handler has: the id in its path and, for POST result,  *)
(* the row it saw there.  `drawn' is history: how many values the CSPRNG   *)
(* had produced when the request came.                                     *)
CreateRequest == [op : {"create"}]
ResultRequest == [op : {"result"}, id : TransactionIds, seen : Seen,
                  drawn : 0..MaxSerial]
CancelRequest == [op : {"cancel"}, id : TransactionIds]
RedeemRequest == [op : {"redeem"}]

Timer == [due : Nat, deadline : Nat]

MaxOf(a, b) == IF a >= b THEN a ELSE b

(* The row of the transaction a registration under this token made. *)
LiveUnder(k) == \E t \in TransactionIds : rows[t].status \in Live /\ rows[t].token = k

-----------------------------------------------------------------------------
ServerInit ==
  /\ Init
  /\ slots = [s \in Slots |-> Idle]
  /\ wall \in Times
  /\ uptime = 0
  /\ timers = {}
  /\ phase = "up"

(* GET /relay/v1/transactions/:id has no body and never yields.            *)
GetTransaction(id) ==
  /\ phase = "up"
  /\ Get(id, wall)
  /\ UNCHANGED serverVars

(* A POST up to its await.  POST cancel reads the row too, to pick the     *)
(* rate-limit bucket and the CORS header, and decides nothing more with it.*)
Suspend(s, req) ==
  /\ phase = "up"
  /\ slots[s] = Idle
  /\ slots' = [slots EXCEPT ![s] = req]
  /\ UNCHANGED <<storeVars, wall, uptime, timers, phase>>

ArriveCreate(s) == Suspend(s, [op |-> "create"])

ArriveResult(s) ==
  \E id \in TransactionIds :
    Suspend(s, [op |-> "result", id |-> id, seen |-> rows[id], drawn |-> serial])

ArriveCancel(s) ==
  \E id \in TransactionIds : Suspend(s, [op |-> "cancel", id |-> id])

ArriveRedeem(s) == Suspend(s, [op |-> "redeem"])

Free(s) == slots' = [slots EXCEPT ![s] = Idle]

(* The handler ends between the body and the table. *)
Reject(s) ==
  /\ slots[s] # Idle
  /\ Free(s)
  /\ UNCHANGED <<storeVars, wall, uptime, timers, phase>>

(* Fault: the expiry timer is not armed. *)
FinishCreateWithoutTimer(s) ==
  /\ slots[s].op = "create"
  /\ \E id \in TransactionIds, b \in Bindings, st \in StateValues,
        h \in Challenges, q \in Requests :
       uptime + b.lifetime <= MaxUptime /\ Create(id, b, st, h, q, wall)
  /\ Free(s)
  /\ UNCHANGED <<wall, uptime, timers, phase>>

(* Fault: the timer is armed for before the registration. *)
FinishCreateDeadlineBefore(s) ==
  /\ slots[s].op = "create"
  /\ \E id \in TransactionIds, b \in Bindings, st \in StateValues,
        h \in Challenges, q \in Requests :
       /\ uptime + b.lifetime <= MaxUptime
       /\ Create(id, b, st, h, q, wall)
       /\ timers' = timers \cup {[due      |-> uptime + b.lifetime,
                                  deadline |-> wall - b.lifetime]}
  /\ Free(s)
  /\ UNCHANGED <<wall, uptime, phase>>

(* POST create after the body: the row, then scheduleExpiry, in one step.  *)
FinishCreate(s) ==
  /\ slots[s].op = "create"
  /\ \E id \in TransactionIds, b \in Bindings, st \in StateValues,
        h \in Challenges, q \in Requests :
       /\ uptime + b.lifetime <= MaxUptime
       /\ Create(id, b, st, h, q, wall)
       /\ timers' = IF CreateKind(ExpireAll(rows, wall), id, wall) = "ok"
                      THEN timers \cup {[due      |-> uptime + b.lifetime,
                                         deadline |-> wall + b.lifetime]}
                      ELSE timers
  /\ Free(s)
  /\ UNCHANGED <<wall, uptime, phase>>

(* POST result after the body, which must repeat the id of the path: the   *)
(* row seen before the await picks the parser, the table judges the rest.  *)
(* A token nobody has drawn yet is in no body.                             *)
FinishResult(s) ==
  LET req == slots[s] IN
  /\ req.op = "result"
  /\ req.seen # NoRow
  /\ \E k \in 1..serial, r \in Results :
       /\ r.operation = req.seen.binding.operation
       /\ Complete(req.id, k, r, wall)
  /\ Free(s)
  /\ UNCHANGED <<wall, uptime, timers, phase>>

FinishCancel(s) ==
  /\ slots[s].op = "cancel"
  /\ \E bodyId \in TransactionIds, o \in Origins, st \in StateValues,
        h \in Challenges :
       Cancel(slots[s].id, bodyId, o, st, h, wall)
  /\ Free(s)
  /\ UNCHANGED <<wall, uptime, timers, phase>>

FinishRedeem(s) ==
  /\ slots[s].op = "redeem"
  /\ \E id \in TransactionIds, o \in Origins, st \in StateValues,
        h \in Challenges, c \in 1..serial :
       Redeem(id, o, st, c, h, wall)
  /\ Free(s)
  /\ UNCHANGED <<wall, uptime, timers, phase>>

(* Fault: the callback believes the wall clock. *)
TimerTrustsWall(tm) ==
  /\ tm.due <= uptime
  /\ timers' = timers \ {tm}
  /\ Expire(wall)
  /\ UNCHANGED <<slots, wall, uptime, phase>>

(* An expiry timer: it stands for its own deadline, whatever the wall says.*)
TimerFires(tm) ==
  /\ tm.due <= uptime
  /\ timers' = timers \ {tm}
  /\ Expire(MaxOf(wall, tm.deadline))
  /\ UNCHANGED <<slots, wall, uptime, phase>>

(* Time passes on the timer clock; the wall clock is set to any reading.   *)
Tick ==
  /\ uptime < MaxUptime
  /\ uptime' = uptime + 1
  /\ UNCHANGED <<storeVars, slots, wall, timers, phase>>

SetWall ==
  /\ \E w \in Times : w # wall /\ wall' = w
  /\ UNCHANGED <<storeVars, slots, uptime, timers, phase>>

(* SIGINT or SIGTERM: no new request; the suspended ones run to their end, *)
(* then 'close' clears the timers and closes the database file.            *)
Stop ==
  /\ phase = "up"
  /\ phase' = "closing"
  /\ UNCHANGED <<storeVars, slots, wall, uptime, timers>>

Closed ==
  /\ phase = "closing"
  /\ \A s \in Slots : slots[s] = Idle
  /\ phase' = "down"
  /\ timers' = {}
  /\ UNCHANGED <<storeVars, slots, wall, uptime>>

(* The process dies; the file keeps what SQLite had committed. *)
Crash ==
  /\ phase \in {"up", "closing"}
  /\ phase' = "down"
  /\ timers' = {}
  /\ slots' = [s \in Slots |-> Idle]
  /\ UNCHANGED <<storeVars, wall, uptime>>

Start ==
  /\ phase = "down"
  /\ Restart
  /\ phase' = "up"
  /\ UNCHANGED <<slots, wall, uptime, timers>>

ServerNext ==
  \/ \E id \in TransactionIds : GetTransaction(id)
  \/ \E s \in Slots : \/ ArriveCreate(s) \/ ArriveResult(s)
                      \/ ArriveCancel(s) \/ ArriveRedeem(s)
                      \/ Reject(s)
                      \/ FinishCreate(s) \/ FinishResult(s)
                      \/ FinishCancel(s) \/ FinishRedeem(s)
  \/ \E tm \in timers : TimerFires(tm)
  \/ Tick \/ SetWall \/ Stop \/ Closed \/ Crash \/ Start

(* Node runs due timers, and time passes.  Nothing says a request comes,   *)
(* a body arrives, the clock is stepped, or a stopped relay is restarted.  *)
ServerSpec ==
  /\ ServerInit
  /\ [][ServerNext]_vars
  /\ WF_vars(Tick)
  /\ WF_vars(\E tm \in timers : TimerFires(tm))

-----------------------------------------------------------------------------
(* Properties *)

(* Suspended handlers, timers and clocks have their types. *)
ServerTypeOK ==
  /\ slots \in [Slots -> CreateRequest \cup ResultRequest \cup CancelRequest
                          \cup RedeemRequest \cup {Idle}]
  /\ wall \in Times
  /\ uptime \in 0..MaxUptime
  /\ timers \subseteq Timer
  /\ phase \in {"up", "closing", "down"}

(* POST result picks its parser from the row it saw before the await, and  *)
(* by the time the body is there the id may name another registration.  A  *)
(* result posted under a token that was drawn before its request came, as  *)
(* that of a wallet that fetched the transaction first, is of the operation*)
(* of the row it completes nevertheless.                                   *)
ResultFitsOperation ==
  [][\A s \in Slots, t \in TransactionIds :
       (/\ slots[s].op = "result" /\ slots'[s] = Idle
        /\ rows[t].status # "completed" /\ rows'[t].status = "completed"
        /\ minted'[rows'[t].code].token <= slots[s].drawn) =>
          rows'[t].result.operation = rows'[t].binding.operation]_vars

(* While the process runs, every row that still holds secrets has an armed *)
(* timer for its deadline: no path creates or keeps one without.           *)
TimersCoverLiveRows ==
  phase # "down" =>
    \A t \in TransactionIds :
      rows[t].status \in Live => \E tm \in timers : tm.deadline = rows[t].expiresAt

(* Together, in states of the right type.                                  *)
LiveRowsAreTimed == ServerTypeOK /\ TimersCoverLiveRows

(* A registration's secrets leave the table after its lifetime however the *)
(* wall clock is stepped, even if nobody ever calls the relay again.       *)
SecretsExpire ==
  \A k \in Serials :
    (LiveUnder(k) /\ phase # "down") ~> (~LiveUnder(k) \/ phase = "down")
=============================================================================
