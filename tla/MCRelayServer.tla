---------------------------- MODULE MCRelayServer ----------------------------
(* RelayServer with two handlers at a time, a table of one row so that an  *)
(* id is soon pruned and registered again, and two operations so that a    *)
(* stale reading of the row can pick the wrong parser.                     *)
EXTENDS RelayServer, TLC

CONSTANTS t1, t2, slot1, slot2, s1, h1, q1

Client(op) == [origin |-> "site", client |-> "client", operation |-> op, lifetime |-> 1]
TwoOperations == {Client("connect"), Client("account")}
OneOperation == {Client("connect")}
ResultOf(op) == [operation |-> op]
TwoResults == {ResultOf("connect"), ResultOf("account")}
OneResult == {ResultOf("connect")}
TimesTo2 == 0..2
LifetimeOne == {1}
Symmetry == Permutations({t1, t2}) \cup Permutations({slot1, slot2})

(* The part of the system in which a reading goes stale: registrations and *)
(* results interleave while the wall clock moves.  Cancels, redeems, timers*)
(* and shutdowns only take rows away, as the sweep does.                   *)
StaleNext ==
  \/ \E s \in Slots : \/ ArriveCreate(s) \/ ArriveResult(s) \/ Reject(s)
                      \/ FinishCreate(s) \/ FinishResult(s)
  \/ SetWall
=============================================================================
