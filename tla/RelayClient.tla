----------------------------- MODULE RelayClient -----------------------------
(***************************************************************************)
(* The relying site's end of the wallet relay: InternalWalletClient of     *)
(* wallet-ui/client/relay-client.mjs.                                      *)
(*                                                                         *)
(* The site's tab runs one step at a time, from one await to the next.  A  *)
(* step ends early in one other place: #publish calls the listeners, and a *)
(* listener may call execute, disconnect, destroy or getSnapshot before    *)
(* the code after the publish has run.  `frame' is that code, suspended.   *)
(* Calls made by a listener do not suspend again: their publishes are only *)
(* queued (#publishing).  A host whose crypto, window or abort hooks call  *)
(* back into the client is outside the model.                              *)
(*                                                                         *)
(* An operation is a `pending' object; its transactionId, state, verifier  *)
(* and the code of its callback are unique random values, so they are the  *)
(* operation's number.  Answers of the relay and callback records are any  *)
(* the network or the storage may yield; WalletProtocol ties them down.    *)
(***************************************************************************)
EXTENDS Integers, Sequences, FiniteSets, SequencesExt

CONSTANTS
  MaxOps,              \* bound: operations a client starts
  MaxNow,              \* bound: readings of Date.now() are 0..MaxNow
  MaxRetired,          \* MAX_RETIRED_CLEANUPS
  RegistrationWindow,  \* REGISTRATION_WINDOW_MS
  MaxTransaction,      \* MAX_TRANSACTION_MS
  MaxConnection,       \* MAX_CONNECTION_MS
  CallbackWindow,      \* MAX_CALLBACK_MS
  Kinds,               \* adapter.kind of the operations the site starts
  ClockMaySkew         \* may Date.now() step backwards?

ASSUME RelayClientAssumption ==
  /\ MaxOps \in Nat /\ MaxNow \in Nat
  /\ MaxRetired \in Nat \ {0}
  /\ {RegistrationWindow, MaxTransaction, MaxConnection, CallbackWindow} \subseteq Nat
  /\ Kinds \subseteq {"connect", "account", "sign"}
  /\ ClockMaySkew \in BOOLEAN

VARIABLES
  ops,         \* operation -> its pending object
  started,     \* number of operations created
  calls,       \* calls of execute that got past their first checks
  pending,     \* #pending: the current operation, or 0
  generation,  \* #generation
  retired,     \* #retired, in insertion order
  connection,  \* #connection
  connTimer,   \* the connection #connectionTimer was set for
  published,   \* #state
  destroyed,   \* #destroyed
  channel,     \* the callback channel: "off", "on" or "compromised"
  frame,       \* the code suspended behind a #publish
  outbox,      \* requests handed to fetch that the relay may still receive
  callbacks,   \* localStorage: the callback records
  now,         \* Date.now()
  skewed,      \* has Date.now() ever stepped backwards?
  sent,        \* history: every request ever handed to fetch
  evicted,     \* history: operations #addRetired pushed out
  forgotten    \* history: connections the user or the site ended

bookVars == <<ops, retired, outbox, sent, evicted>>
connVars == <<connection, connTimer, published, forgotten>>
envVars == <<callbacks, now, skewed>>
startVars == <<started, calls>>
clientVars == <<bookVars, startVars, pending, generation, connVars, destroyed,
                channel, frame, envVars>>

Ops == 1..MaxOps
Readings == 0..MaxNow

NoConnection == [op |-> 0, expires |-> 0]
Connection == [op : Ops, expires : Readings]

Phases == {"hashing", "registering", "waiting-callback", "redeeming"}
Outcomes == {"none", "not-started", "ambiguous", "definitive-failure", "registered"}

(* A pending object.  `task' is what #register or #consumeCallback awaits, *)
(* `cleaner' what #ensureCleanup awaits; `settlements' counts the calls of *)
(* its resolve and reject.                                                 *)
Operation ==
  [kind : Kinds, call : Nat, active : BOOLEAN, generation : Nat, phase : Phases,
   outcome : Outcomes, challenge : BOOLEAN, prior : Connection \cup {NoConnection},
   deadline : Readings, expires : Readings,
   operationTimer : BOOLEAN, expiryTimer : BOOLEAN, pollTimer : BOOLEAN,
   task : {"none", "hash", "register", "redeem"},
   cleaner : {"none", "cancel", "backoff"},
   cleanupStarted : BOOLEAN, cleanupFinished : BOOLEAN,
   settlements : Nat, resolved : BOOLEAN, redeems : Nat]

NoOperation == [phase |-> "unborn"]
Exists(p) == ops[p] # NoOperation

Request == [type : {"register", "redeem", "cancel"}, op : Ops]
CallbackRecord == [op : Ops, expires : Nat, wellFormed : BOOLEAN]

(* What is left to do when the listeners return.                           *)
NoFrame == [tail |-> "none"]
Frames ==
  {NoFrame}
    \cup [tail : {"execute"}, kind : Kinds, call : Nat, stale : BOOLEAN]
    \cup [tail : {"register", "complete"}, op : Ops]
    \cup [tail : {"retire"}, op : Ops, cleanup : BOOLEAN]

Running == frame = NoFrame      \* the event loop may start a task

ClientInit ==
  /\ ops = [p \in Ops |-> NoOperation]
  /\ started = 0 /\ calls = 0 /\ pending = 0 /\ generation = 0
  /\ retired = <<>>
  /\ connection = NoConnection /\ connTimer = NoConnection
  /\ published = [status |-> "dormant", conn |-> NoConnection]
  /\ destroyed = FALSE /\ channel = "off" /\ frame = NoFrame
  /\ outbox = {} /\ callbacks = {} /\ now = 0 /\ skewed = FALSE
  /\ sent = {} /\ evicted = {} /\ forgotten = {}

-----------------------------------------------------------------------------
(* The books of the operations, updated by calls within one step.          *)
Books == [ops |-> ops, retired |-> retired, outbox |-> outbox, sent |-> sent,
          evicted |-> evicted]

Becomes(b) ==
  /\ ops' = b.ops /\ retired' = b.retired /\ outbox' = b.outbox
  /\ sent' = b.sent /\ evicted' = b.evicted

Send(b, type, p) ==
  LET r == [type |-> type, op |-> p]
  IN  [b EXCEPT !.outbox = @ \cup {r}, !.sent = @ \cup {r}]

IsActive(p) ==
  /\ ~destroyed /\ p # 0 /\ pending = p
  /\ ops[p].active /\ ops[p].generation = generation

(* #finishCleanup: every timer and await of the operation is over.         *)
Finished(o) ==
  IF o.cleanupFinished THEN o
  ELSE [o EXCEPT !.cleanupFinished = TRUE, !.operationTimer = FALSE,
                 !.expiryTimer = FALSE, !.pollTimer = FALSE, !.task = "none",
                 !.cleaner = "none", !.challenge = FALSE, !.prior = NoConnection,
                 !.expires = 0]

(* A set of the code in insertion order: its delete leaves the others in   *)
(* theirs.                                                                 *)
Without(s, p) ==
  IF p \in Range(s) THEN RemoveAt(s, CHOOSE i \in DOMAIN s : s[i] = p) ELSE s

FinishCleanup(b, p) ==
  [b EXCEPT !.ops[p] = Finished(@), !.retired = Without(@, p)]

(* Fault: the set of unfinished cleanups has no limit. *)
AddRetiredUnbounded(b, p) ==
  IF b.ops[p].cleanupFinished \/ p \in Range(b.retired) THEN b
  ELSE [b EXCEPT !.retired = Append(@, p)]

(* Fault: a list where the code keeps a set. *)
AddRetiredTwice(b, p) ==
  IF b.ops[p].cleanupFinished THEN b ELSE [b EXCEPT !.retired = Append(@, p)]

(* #addRetired: beyond the limit the oldest cleanup is given up.           *)
AddRetired(b, p) ==
  IF b.ops[p].cleanupFinished \/ p \in Range(b.retired) THEN b
  ELSE LET added == [b EXCEPT !.retired = Append(@, p)]
           oldest == Head(added.retired)
       IN  IF Len(added.retired) <= MaxRetired THEN added
           ELSE [FinishCleanup(added, oldest) EXCEPT !.evicted = @ \cup {oldest}]

(* #cancelOnce up to its await.                                            *)
CancelOnce(b, p) ==
  IF ~b.ops[p].challenge THEN FinishCleanup(b, p)
  ELSE [Send(b, "cancel", p) EXCEPT !.ops[p].cleaner = "cancel"]

(* #ensureCleanup up to its first await.                                   *)
EnsureCleanup(b, p) ==
  IF b.ops[p].cleanupFinished \/ b.ops[p].cleanupStarted \/ destroyed THEN b
  ELSE CancelOnce(AddRetired([b EXCEPT !.ops[p].cleanupStarted = TRUE], p), p)

Settled(o, ok) == [o EXCEPT !.settlements = @ + 1, !.resolved = @ \/ ok]

(* Fault: the promise of a retired operation is left pending. *)
DeactivatedSilently(o) ==
  [o EXCEPT !.active = FALSE, !.expiryTimer = FALSE, !.pollTimer = FALSE,
            !.task = IF o.phase = "redeeming" THEN "none" ELSE @]

(* #retire up to the publish: the operation is no longer active, its       *)
(* promise is rejected, its redeem is aborted; a registration goes on.     *)
Deactivated(o) ==
  Settled([o EXCEPT !.active = FALSE, !.expiryTimer = FALSE, !.pollTimer = FALSE,
                    !.task = IF o.phase = "redeeming" THEN "none" ELSE @], FALSE)

(* Fault: an operation retired while its registration is in flight is      *)
(* finished at once, so nobody cancels what the relay then registers.      *)
RetireTailForgetsInFlight(b, p, cleanup) ==
  IF \/ ~cleanup
     \/ b.ops[p].outcome \in {"none", "definitive-failure", "not-started"}
  THEN FinishCleanup(b, p)
  ELSE EnsureCleanup(AddRetired(b, p), p)

(* #retire after the publish, in a client that is not destroyed.           *)
RetireTail(b, p, cleanup) ==
  LET o == b.ops[p] IN
  IF ~cleanup \/ o.outcome \in {"definitive-failure", "not-started"}
  THEN FinishCleanup(b, p)
  ELSE IF o.phase = "hashing"
  THEN FinishCleanup([b EXCEPT !.ops[p].outcome = "not-started"], p)
  ELSE IF o.phase = "registering" /\ o.outcome = "none"
  THEN AddRetired(b, p)
  ELSE EnsureCleanup(AddRetired(b, p), p)

(* #retire without a publish: a replacement or a disconnect.               *)
RetireQuietly(b, p) ==
  IF p = 0 \/ ~b.ops[p].active THEN b
  ELSE RetireTail([b EXCEPT !.ops[p] = Deactivated(@)], p, TRUE)

-----------------------------------------------------------------------------
(* The connection and what is published of it.                             *)
Publish(status, c) == published' = [status |-> status, conn |-> c]

ClearConnection ==
  /\ connection' = NoConnection
  /\ connTimer' = NoConnection

Unexpired(c) == c # NoConnection /\ c.expires > now
Forget(c) == forgotten' = forgotten \cup ({c} \ {NoConnection})

(* Fault: the failure restores the connection it started from unchecked. *)
PublishFailureUnchecked(prior) ==
  /\ IF prior # NoConnection
     THEN /\ connection' = prior /\ UNCHANGED connTimer
          /\ Publish("connected", prior)
     ELSE ClearConnection /\ Publish("error", NoConnection)
  /\ UNCHANGED forgotten

(* #publishFailure, and #restorePriorConnection where nothing failed.      *)
RestorePrior(prior, otherwise) ==
  /\ IF Unexpired(prior)
     THEN /\ connection' = prior /\ UNCHANGED connTimer
          /\ Publish("connected", prior)
     ELSE ClearConnection /\ Publish(otherwise, NoConnection)
  /\ UNCHANGED forgotten

PublishFailure(prior) == RestorePrior(prior, "error")

InstallConnection(c) ==
  /\ connection' = c
  /\ connTimer' = c
  /\ Publish("connected", c)
  /\ UNCHANGED forgotten

(* Fault: the listeners are not told that the connection is over. *)
ExpireConnectionSilently == ClearConnection /\ UNCHANGED <<published, forgotten>>

(* #expireConnectionIfNeeded                                               *)
NeedsExpiry == connection # NoConnection /\ ~Unexpired(connection)
ExpireConnection ==
  /\ ClearConnection
  /\ Publish(IF pending # 0 THEN "opening" ELSE "dormant", NoConnection)
  /\ UNCHANGED forgotten

-----------------------------------------------------------------------------
(* execute.  The calls of buildRequest, the entropy and window.open run to *)
(* completion; they fail or they do not.                                   *)
NewOperation(kind, call, prior, gen) ==
  [kind |-> kind, call |-> call, active |-> TRUE, generation |-> gen, phase |-> "hashing",
   outcome |-> "none", challenge |-> FALSE, prior |-> prior,
   deadline |-> now + RegistrationWindow, expires |-> 0,
   operationTimer |-> FALSE, expiryTimer |-> FALSE, pollTimer |-> FALSE,
   task |-> "none", cleaner |-> "none", cleanupStarted |-> FALSE,
   cleanupFinished |-> FALSE, settlements |-> 0, resolved |-> FALSE, redeems |-> 0]

(* #register up to its first await.                                        *)
Hashing(o) == [o EXCEPT !.operationTimer = TRUE, !.task = "hash"]

(* #retire advances #generation.                                           *)
GenerationAfterRetire == IF pending = 0 THEN generation ELSE generation + 1

MayStart ==                     \* bounds of the model
  /\ started < MaxOps
  /\ now + RegistrationWindow <= MaxNow

(* A call by a listener changes #entryEpoch under the suspended execute.   *)
MarkStale == IF frame.tail = "execute" THEN [frame EXCEPT !.stale = TRUE] ELSE frame

(* From the read of #connection to the end of execute: the previous        *)
(* operation is replaced, the new one installed and "opening" published.   *)
(* Behind that publish waits #register, except in a call by a listener.    *)
StartOperation(kind, call, prior, nested) ==
  /\ MayStart
  /\ LET p == started + 1
         gen == GenerationAfterRetire + 1
         o == NewOperation(kind, call, prior, gen)
         b == RetireQuietly(Books, pending)
     IN  /\ started' = p /\ pending' = p /\ generation' = gen
         /\ Becomes([b EXCEPT !.ops[p] = IF nested THEN Hashing(o) ELSE o])
         /\ frame' = IF nested THEN MarkStale ELSE [tail |-> "register", op |-> p]
  /\ Publish("opening", prior)

(* No entropy, no digest or no window.open: the previous operation is      *)
(* replaced all the same.                                                  *)
StartFails(prior) ==
  /\ Becomes(RetireQuietly(Books, pending))
  /\ pending' = 0
  /\ generation' = GenerationAfterRetire
  /\ PublishFailure(prior)
  /\ UNCHANGED started

(* #activateCallbackChannel at the first call, #removeExpiredCallbackRecords
   included: the storage and its events are there, or the client is of no
   use any more.                                                           *)
Activate ==
  IF channel = "off"
  THEN /\ channel' = "on"
       /\ callbacks' = {r \in callbacks : ~r.wellFormed \/ r.expires > now}
  ELSE channel = "on" /\ UNCHANGED <<channel, callbacks>>

ActivationFails ==
  /\ Running /\ ~destroyed /\ channel = "off"
  /\ channel' = "compromised"
  /\ UNCHANGED <<bookVars, startVars, pending, generation, connVars, destroyed, frame, envVars>>

Execute(kind) ==
  /\ Running /\ ~destroyed /\ ~NeedsExpiry
  /\ Activate
  /\ \/ /\ StartOperation(kind, calls + 1, connection, FALSE)
        /\ calls' = calls + 1
        /\ UNCHANGED <<connection, connTimer, forgotten>>
     \/ /\ StartFails(connection)
        /\ UNCHANGED <<calls, frame>>
  /\ UNCHANGED <<destroyed, now, skewed>>

(* execute finds an expired connection: it publishes that first.           *)
ExecuteExpiring(kind) ==
  /\ Running /\ ~destroyed /\ NeedsExpiry /\ channel = "on" /\ MayStart
  /\ ExpireConnection
  /\ frame' = [tail |-> "execute", kind |-> kind, call |-> calls + 1, stale |-> FALSE]
  /\ calls' = calls + 1
  /\ UNCHANGED <<bookVars, started, pending, generation, destroyed, channel, envVars>>

(* Fault: execute does not look whether a listener got ahead of it. *)
ExecuteTailIgnoresEpoch ==
  /\ frame.tail = "execute"
  /\ ~destroyed
  /\ StartOperation(frame.kind, frame.call, connection, FALSE)
  /\ UNCHANGED <<connection, connTimer, forgotten, calls, destroyed, channel, envVars>>

(* The rest of ExecuteExpiring, unless a listener called meanwhile.        *)
ExecuteTail ==
  /\ frame.tail = "execute"
  /\ IF destroyed \/ frame.stale
     THEN /\ frame' = NoFrame
          /\ UNCHANGED <<bookVars, started, pending, generation, connVars>>
     ELSE \/ /\ StartOperation(frame.kind, frame.call, connection, FALSE)
             /\ UNCHANGED <<connection, connTimer, forgotten>>
          \/ /\ StartFails(connection)
             /\ frame' = NoFrame
  /\ UNCHANGED <<calls, destroyed, channel, envVars>>

ExecuteNested(kind) ==
  /\ ~Running /\ ~destroyed
  /\ LET prior == IF NeedsExpiry THEN NoConnection ELSE connection
     IN  \/ /\ StartOperation(kind, calls + 1, prior, TRUE)
            /\ calls' = calls + 1
            /\ IF NeedsExpiry THEN ClearConnection ELSE UNCHANGED <<connection, connTimer>>
            /\ UNCHANGED forgotten
         \/ /\ StartFails(prior)
            /\ frame' = MarkStale
            /\ UNCHANGED calls
  /\ UNCHANGED <<destroyed, channel, envVars>>

(* The rest of execute behind its publish: #register up to its await.      *)
RegisterTail ==
  /\ frame.tail = "register"
  /\ LET p == frame.op
     IN  ops' = IF IsActive(p) THEN [ops EXCEPT ![p] = Hashing(@)] ELSE ops
  /\ frame' = NoFrame
  /\ UNCHANGED <<retired, outbox, sent, evicted, startVars, pending, generation,
                 connVars, destroyed, channel, envVars>>

-----------------------------------------------------------------------------
(* The other entry points; a listener may call them too.                   *)
GetSnapshot ==
  /\ NeedsExpiry
  /\ ExpireConnection
  /\ UNCHANGED <<bookVars, startVars, pending, generation, destroyed, channel, frame, envVars>>

(* Fault: disconnect ends the connection and leaves the operation alone. *)
DisconnectKeepsPending ==
  /\ ~destroyed
  /\ ClearConnection
  /\ Forget(connection)
  /\ Publish("dormant", NoConnection)
  /\ frame' = MarkStale
  /\ UNCHANGED <<bookVars, pending, generation, startVars, destroyed, channel, envVars>>

Disconnect ==
  /\ ~destroyed
  /\ ClearConnection
  /\ Forget(connection)
  /\ Becomes(RetireQuietly(Books, pending))
  /\ pending' = 0
  /\ generation' = GenerationAfterRetire
  /\ Publish("dormant", NoConnection)
  /\ frame' = MarkStale
  /\ UNCHANGED <<startVars, destroyed, channel, envVars>>

(* #destroyNow: the current operation is rejected; what it and the retired *)
(* ones may have registered is cancelled by a keepalive request that no    *)
(* abort reaches; every cleanup ends, every timer is cleared.              *)
DestroyBooks ==
  LET cut == {p \in Ops : p = pending \/ p \in Range(retired)}
      withdrawn == {[type |-> "cancel", op |-> p] : p \in {q \in cut : ops[q].challenge}}
      rejected(p) == IF p = pending THEN Settled([ops[p] EXCEPT !.active = FALSE], FALSE)
                     ELSE ops[p]
  IN  [ops |-> [p \in Ops |-> IF p \in cut THEN Finished(rejected(p)) ELSE ops[p]],
       retired |-> <<>>, outbox |-> outbox \cup withdrawn,
       sent |-> sent \cup withdrawn, evicted |-> evicted]

Destroy ==
  /\ ~destroyed
  /\ destroyed' = TRUE
  /\ generation' = generation + 1
  /\ ClearConnection /\ Forget(connection)
  /\ Becomes(DestroyBooks)
  /\ pending' = 0
  /\ Publish("error", NoConnection)
  /\ frame' = MarkStale
  /\ UNCHANGED <<startVars, channel, envVars>>

-----------------------------------------------------------------------------
(* #failActive: #retire with a publish, and the code behind that publish.  *)
FailActive(b, p, cleanup) ==
  /\ pending' = 0
  /\ generation' = generation + 1
  /\ Becomes([b EXCEPT !.ops[p] = Deactivated(@)])
  /\ PublishFailure(ops[p].prior)
  /\ frame' = [tail |-> "retire", op |-> p, cleanup |-> cleanup]

(* In a client destroyed by a listener the cancel is handed to fetch and   *)
(* aborted at once by #finishCleanup: it may never leave.                  *)
RetireDestroyed(p) ==
  \/ Becomes(FinishCleanup(Books, p))
  \/ ops[p].challenge /\ Becomes(FinishCleanup(Send(Books, "cancel", p), p))

RetireFrame ==
  /\ frame.tail = "retire"
  /\ IF destroyed THEN RetireDestroyed(frame.op)
     ELSE Becomes(RetireTail(Books, frame.op, frame.cleanup))
  /\ frame' = NoFrame
  /\ UNCHANGED <<startVars, pending, generation, connVars, destroyed, channel, envVars>>

(* An awaited step of operation p fails with the bookkeeping b: the active *)
(* operation is failed, one retired meanwhile goes on to its cleanup.      *)
Fails(b, p, cleanup) ==
  IF IsActive(p) THEN FailActive(b, p, cleanup)
  ELSE /\ Becomes(IF cleanup THEN EnsureCleanup(b, p) ELSE FinishCleanup(b, p))
       /\ UNCHANGED <<pending, generation, connVars, frame>>

-----------------------------------------------------------------------------
(* #consumeCallback after its guard, with the bookkeeping b.  The record   *)
(* is removed, then redeemed if it is acceptable; a record that cannot be  *)
(* removed is never redeemed.                                              *)
RecordsOf(p) == {r \in callbacks : r.op = p}
Acceptable(r) ==
  r.wellFormed /\ r.expires > now /\ r.expires - now <= CallbackWindow

Redeeming(o) ==
  [o EXCEPT !.phase = "redeeming", !.pollTimer = FALSE, !.task = "redeem", !.redeems = @ + 1]

Consume(b, p) ==
  \E r \in RecordsOf(p) :
    \/ /\ callbacks' = callbacks \ {r}
       /\ IF Acceptable(r)
          THEN /\ Becomes([Send(b, "redeem", p) EXCEPT !.ops[p] = Redeeming(@)])
               /\ UNCHANGED <<pending, generation, connVars, frame>>
          ELSE FailActive(b, p, TRUE)
    \/ FailActive(b, p, TRUE) /\ UNCHANGED callbacks

-----------------------------------------------------------------------------
(* #register.                                                              *)
Awaits(p, task) == Running /\ Exists(p) /\ ops[p].task = task

(* The seal and the digest are there.  An operation retired meanwhile was  *)
(* finished by #retire and awaits nothing.                                 *)
HashDone(p) ==
  /\ Awaits(p, "hash") /\ IsActive(p)
  /\ Becomes([Send(Books, "register", p) EXCEPT
       !.ops[p] = [@ EXCEPT !.challenge = TRUE, !.phase = "registering", !.task = "register"]])
  /\ UNCHANGED <<startVars, pending, generation, connVars, destroyed, channel, frame, envVars>>

(* The seal or the digest rejects.                                         *)
HashFails(p) ==
  /\ Awaits(p, "hash") /\ IsActive(p)
  /\ FailActive([Books EXCEPT !.ops[p] = [@ EXCEPT !.task = "none"]], p, FALSE)
  /\ UNCHANGED <<startVars, destroyed, channel, envVars>>

(* The books when the registration of p is answered: operationTimer is     *)
(* cleared on every path.                                                  *)
Answered(p, outcome) ==
  [Books EXCEPT !.ops[p] =
     [@ EXCEPT !.outcome = outcome, !.task = "none", !.operationTimer = FALSE]]

(* Fault: no answer is taken for a refusal. *)
RegisterFailsDefinitively(p) ==
  /\ Awaits(p, "register")
  /\ Fails(Answered(p, "definitive-failure"), p, FALSE)
  /\ UNCHANGED <<startVars, destroyed, channel, envVars>>

(* A network error, an unreadable status or a malformed 201.               *)
RegisterFails(p) ==
  /\ Awaits(p, "register")
  /\ Fails(Answered(p, "ambiguous"), p, TRUE)
  /\ UNCHANGED <<startVars, destroyed, channel, envVars>>

(* Any status but 201.                                                     *)
RegisterRefused(p) ==
  /\ Awaits(p, "register")
  /\ Fails(Answered(p, "definitive-failure"), p, FALSE)
  /\ UNCHANGED <<startVars, destroyed, channel, envVars>>

(* A well-formed 201 that expires at e: the wallet is awaited, and its     *)
(* callback consumed if it is there already.                               *)
WaitingCallback(o) ==
  [o EXCEPT !.phase = "waiting-callback", !.expiryTimer = TRUE, !.pollTimer = TRUE]

RegisterAccepted(p, e) ==
  /\ Awaits(p, "register")
  /\ e > now /\ e - now <= MaxTransaction
  /\ LET b == [Answered(p, "registered") EXCEPT !.ops[p].expires = e]
         w == [b EXCEPT !.ops[p] = WaitingCallback(@)]
     IN  IF IsActive(p)
         THEN \/ Consume(w, p)
              \/ Becomes(w)  \* no record, or a storage that cannot be read
                 /\ UNCHANGED <<pending, generation, connVars, frame, callbacks>>
         ELSE /\ Becomes(EnsureCleanup(b, p))
              /\ UNCHANGED <<pending, generation, connVars, frame, callbacks>>
  /\ UNCHANGED <<startVars, destroyed, channel, now, skewed>>

(* setTimeout counts on a clock of its own: once Date.now() has stepped    *)
(* back, a timer may fire at any reading of it.                            *)
Due(t) == t <= now \/ skewed

(* Fault: the registration window bounds the digest only. *)
OperationTimerHashingOnly(p) ==
  /\ Running /\ Exists(p) /\ ops[p].operationTimer /\ Due(ops[p].deadline)
  /\ ops[p].phase = "hashing" /\ IsActive(p)
  /\ FailActive([Books EXCEPT !.ops[p] = [@ EXCEPT !.operationTimer = FALSE, !.task = "none"]],
                p, FALSE)
  /\ UNCHANGED <<startVars, destroyed, channel, envVars>>

OperationTimer(p) ==
  /\ Running /\ Exists(p) /\ ops[p].operationTimer /\ Due(ops[p].deadline)
  /\ \/ /\ ops[p].phase = "hashing"
        /\ IsActive(p)
        /\ FailActive([Books EXCEPT !.ops[p] = [@ EXCEPT !.operationTimer = FALSE, !.task = "none"]],
                      p, FALSE)
     \/ /\ ops[p].phase = "registering"
        /\ Fails(Answered(p, "ambiguous"), p, TRUE)
  /\ UNCHANGED <<startVars, destroyed, channel, envVars>>

ExpiryTimer(p) ==
  /\ Running /\ Exists(p) /\ ops[p].expiryTimer /\ Due(ops[p].expires)
  /\ IsActive(p)
  /\ FailActive(Books, p, TRUE)
  /\ UNCHANGED <<startVars, destroyed, channel, envVars>>

-----------------------------------------------------------------------------
(* The guard of #consumeCallback; the poll and the storage event come here *)
(* as well as the end of #register.                                        *)
(* Fault: an operation that already redeems takes a second record. *)
ConsumesAnyPhase(p) == Running /\ IsActive(p) /\ ops[p].phase \in {"waiting-callback", "redeeming"}

Consumes(p) == Running /\ IsActive(p) /\ ops[p].phase = "waiting-callback"

ConsumeCallback(p) ==
  /\ Consumes(p)
  /\ Consume(Books, p)
  /\ UNCHANGED <<startVars, destroyed, channel, now, skewed>>

(* At a storage event the storage cannot be read.                          *)
StorageFails(p) ==
  /\ Consumes(p)
  /\ FailActive(Books, p, TRUE)
  /\ UNCHANGED <<startVars, destroyed, channel, envVars>>

(* No 200, a malformed body, a result that does not parse or open.         *)
RedeemFails(p) ==
  /\ Awaits(p, "redeem") /\ IsActive(p)
  /\ FailActive([Books EXCEPT !.ops[p] = [@ EXCEPT !.task = "none"]], p, TRUE)
  /\ UNCHANGED <<startVars, destroyed, channel, envVars>>

(* #complete up to its publish.  event: what the account page reports;     *)
(* e: connectionExpiresAt (#prepareConnection refuses it: RedeemFails).    *)
Connects(kind, event) == kind = "connect" \/ (kind = "account" /\ event = "connected")

Completes(p, event, e) ==
  /\ Awaits(p, "redeem") /\ IsActive(p)
  /\ Connects(ops[p].kind, event) => e > now /\ e - now <= MaxConnection
  /\ pending' = 0
  /\ ops' = [ops EXCEPT ![p] = [@ EXCEPT !.active = FALSE, !.expiryTimer = FALSE,
                                         !.pollTimer = FALSE, !.task = "none"]]
  /\ IF Connects(ops[p].kind, event) THEN InstallConnection([op |-> p, expires |-> e])
     ELSE IF ops[p].kind = "account"
     THEN ClearConnection /\ Forget(connection) /\ Publish("dormant", NoConnection)
     ELSE RestorePrior(ops[p].prior, "dormant")
  /\ frame' = [tail |-> "complete", op |-> p]
  /\ UNCHANGED <<retired, outbox, sent, evicted, startVars, generation, destroyed, channel, envVars>>

(* #complete after its publish.                                            *)
CompleteFrame ==
  /\ frame.tail = "complete"
  /\ Becomes(FinishCleanup([Books EXCEPT !.ops[frame.op] = Settled(@, TRUE)], frame.op))
  /\ frame' = NoFrame
  /\ UNCHANGED <<startVars, pending, generation, connVars, destroyed, channel, envVars>>

-----------------------------------------------------------------------------
(* #ensureCleanup after its awaits.                                        *)
Cleaning(p, stage) == Running /\ Exists(p) /\ ops[p].cleaner = stage

(* The statuses that say the relay holds nothing to cancel any more.  404  *)
(* is none of them: the registration may still be under way.               *)
(* Fault: 404 is one of them. *)
DoneStatusesWith404 == {204, 400, 403, 404, 409, 410}

DoneStatuses == {204, 400, 403, 409, 410}

(* 500 stands for every status #cancelOnce does not name.                  *)
CancelStatuses == {204, 400, 403, 404, 409, 410, 500}

CancelAnswered(p, status) ==
  /\ Cleaning(p, "cancel")
  /\ Becomes(IF status \in DoneStatuses \/ ops[p].deadline - now <= 0
             THEN FinishCleanup(Books, p)
             ELSE [Books EXCEPT !.ops[p].cleaner = "backoff"])
  /\ UNCHANGED <<startVars, pending, generation, connVars, destroyed, channel, frame, envVars>>

(* An error, or the attempt's own timer, is as good as another status.     *)
CancelFails(p) == CancelAnswered(p, 500)

RetryTimer(p) ==
  /\ Cleaning(p, "backoff")
  /\ Becomes(IF now <= ops[p].deadline THEN CancelOnce(Books, p) ELSE FinishCleanup(Books, p))
  /\ UNCHANGED <<startVars, pending, generation, connVars, destroyed, channel, frame, envVars>>

(* The timer #installConnection set for its connection.                    *)
ConnectionTimer ==
  /\ Running /\ ~destroyed
  /\ connTimer # NoConnection /\ Due(connTimer.expires)
  /\ IF connection = connTimer THEN ExpireConnection
     ELSE connTimer' = NoConnection /\ UNCHANGED <<connection, published, forgotten>>
  /\ UNCHANGED <<bookVars, startVars, pending, generation, destroyed, channel, frame, envVars>>

-----------------------------------------------------------------------------
(* The callback page (client/callback.mjs, completeWalletCallbackV1) has   *)
(* stored the record of operation p; wellFormed is false for a text that   *)
(* somebody else wrote under the same key.                                 *)
CallbackStored(p, wellFormed) ==
  /\ Exists(p) /\ RecordsOf(p) = {}
  /\ callbacks' = callbacks \cup
       {[op |-> p, expires |-> now + CallbackWindow, wellFormed |-> wellFormed]}
  /\ UNCHANGED <<bookVars, startVars, pending, generation, connVars, destroyed, channel,
                 frame, now, skewed>>

ClientTick ==
  /\ Running /\ now < MaxNow
  /\ now' = now + 1
  /\ UNCHANGED <<bookVars, startVars, pending, generation, connVars, destroyed, channel,
                 frame, callbacks, skewed>>

StepBack ==
  /\ Running /\ ClockMaySkew
  /\ \E t \in Readings : t < now /\ now' = t
  /\ skewed' = TRUE
  /\ UNCHANGED <<bookVars, startVars, pending, generation, connVars, destroyed, channel,
                 frame, callbacks>>

Calls ==
  \/ \E k \in Kinds : Execute(k) \/ ExecuteExpiring(k) \/ ExecuteNested(k)
  \/ ActivationFails \/ GetSnapshot \/ Disconnect \/ Destroy

Returns == ExecuteTail \/ RegisterTail \/ RetireFrame \/ CompleteFrame

Timers ==
  \/ \E p \in Ops : OperationTimer(p) \/ ExpiryTimer(p) \/ RetryTimer(p)
  \/ ConnectionTimer

LocalSteps ==
  \E p \in Ops : \/ HashDone(p) \/ HashFails(p) \/ ConsumeCallback(p) \/ StorageFails(p)
                 \/ RegisterFails(p) \/ RedeemFails(p) \/ CancelFails(p)

Answers ==
  \E p \in Ops : \/ RegisterRefused(p)
                 \/ \E s \in CancelStatuses : CancelAnswered(p, s)
                 \/ \E e \in Readings : \/ RegisterAccepted(p, e)
                                     \/ \E v \in {"connected", "disconnected"} : Completes(p, v, e)
                 \/ \E w \in BOOLEAN : CallbackStored(p, w)

ClientNext ==
  Calls \/ Returns \/ Timers \/ LocalSteps \/ Answers \/ ClientTick \/ StepBack

ClientSpec == ClientInit /\ [][ClientNext]_clientVars

-----------------------------------------------------------------------------
(* Every variable has its type; published statuses are those of #publish.  *)
ClientTypeOK ==
  /\ ops \in [Ops -> Operation \cup {NoOperation}]
  /\ started \in 0..MaxOps /\ calls \in Nat /\ pending \in 0..MaxOps /\ generation \in Nat
  /\ retired \in Seq(Ops) /\ IsInjective(retired)
  /\ connection \in Connection \cup {NoConnection}
  /\ connTimer \in Connection \cup {NoConnection}
  /\ published \in [status : {"dormant", "opening", "connected", "error"},
                    conn : Connection \cup {NoConnection}]
  /\ destroyed \in BOOLEAN /\ channel \in {"off", "on", "compromised"}
  /\ frame \in Frames
  /\ outbox \subseteq Request /\ sent \subseteq Request
  /\ callbacks \subseteq CallbackRecord
  /\ now \in Readings /\ skewed \in BOOLEAN
  /\ evicted \subseteq Ops /\ forgotten \subseteq Connection

(* The operation whose #complete or #retire is suspended behind a publish. *)
Suspended(p) == frame.tail \in {"complete", "retire"} /\ frame.op = p

(* Operations start in the order of the calls: an execute suspended behind *)
(* a publish never replaces what a listener started meanwhile.             *)
StartedInCallOrder ==
  \A p, q \in Ops : p < q /\ Exists(q) => ops[p].call < ops[q].call

(* The promise execute returned is settled once: not while the operation   *)
(* is active, and no later than the step that ends it (#retire, #complete, *)
(* #destroyNow).                                                           *)
SettledExactlyOnce ==
  \A p \in Ops : Exists(p) =>
    ops[p].settlements = IF ops[p].active \/ (Suspended(p) /\ frame.tail = "complete")
                         THEN 0 ELSE 1

(* The two together: each call's promise is settled once, in call order.   *)
CallsSettleInOrder == SettledExactlyOnce /\ StartedInCallOrder

(* #destroyNow reaches the current operation and #retired only: every      *)
(* operation with cleanup left to do is one of these, and #retired never   *)
(* grows beyond MAX_RETIRED_CLEANUPS.                                      *)
CleanupIsTracked ==
  /\ Len(retired) <= MaxRetired
  /\ \A p \in Ops : Exists(p) =>
       (~ops[p].cleanupFinished <=> p = pending \/ p \in Range(retired) \/ Suspended(p))

(* A connection ended by disconnect, by a logout on the account page or by *)
(* destroy is never the connection again, though operations started before *)
(* still hold it as priorConnection.                                       *)
EndedStaysEnded == connection \notin forgotten

(* What is published names the connection the client holds, no other.      *)
PublishedIsHeld == published.conn = connection

(* While Date.now() only moves forward, a connection has the timer that    *)
(* will end it, also one restored by a failed operation.                   *)
ConnectionIsTimed == skewed \/ connection = NoConnection \/ connTimer = connection

(* Together, in states of the right type: the page is shown the connection *)
(* that is held, and what is held ends.                                    *)
ConnectionIsAccountedFor == ClientTypeOK /\ PublishedIsHeld /\ ConnectionIsTimed

Handed(type, p) == [type |-> type, op |-> p] \in sent

(* A registration that was sent is withdrawn: when the cleanup of the      *)
(* operation is over, the relay refused it, its result was redeemed or a   *)
(* cancel was sent, unless #addRetired gave it up for newer ones.          *)
Withdrawn(p) ==
  Exists(p) /\ ops[p].cleanupFinished /\ Handed("register", p) =>
    \/ ops[p].outcome = "definitive-failure" \/ ops[p].resolved
    \/ Handed("cancel", p) \/ p \in evicted

RegistrationsWithdrawn == ~destroyed => \A p \in Ops : Withdrawn(p)

(* The two together: cleanup is neither lost here nor left undone at the   *)
(* relay.                                                                  *)
CleanupIsDone == CleanupIsTracked /\ RegistrationsWithdrawn

(* The same in a client that was destroyed: "destroy lets its keepalive    *)
(* cancellation pass CORS preflight before releasing local state".         *)
DestroyWithdraws == destroyed => \A p \in Ops : Withdrawn(p)

(* The poll, the storage event and the end of the registration race for    *)
(* the callback record; its code is redeemed once.                         *)
RedeemedOnce == \A p \in Ops : Exists(p) => ops[p].redeems <= 1

(* The two together: neither a code nor a connection is used once spent.   *)
SpentStaysSpent == EndedStaysEnded /\ RedeemedOnce

-----------------------------------------------------------------------------
(* Timers fire, code behind a publish runs, attempts to cancel end (their  *)
(* own timer aborts them) and time passes.                                 *)
Fairness ==
  /\ WF_clientVars(Returns)
  /\ WF_clientVars(ClientTick)
  /\ \A p \in Ops : /\ WF_clientVars(OperationTimer(p))
                    /\ WF_clientVars(ExpiryTimer(p))
                    /\ WF_clientVars(RetryTimer(p))
                    /\ WF_clientVars(\E s \in CancelStatuses : CancelAnswered(p, s))

FairClientSpec == ClientSpec /\ Fairness

(* Every operation ends and is cleaned up, whatever the relay, the wallet  *)
(* and the storage do not do: no promise and no disconnect() waits for     *)
(* ever.                                                                   *)
OperationsEnd == \A p \in Ops : Exists(p) ~> (Exists(p) /\ ops[p].cleanupFinished)
=============================================================================
