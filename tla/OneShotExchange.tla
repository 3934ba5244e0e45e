--------------------------- MODULE OneShotExchange ---------------------------
(***************************************************************************)
(* What the relay promises, without rows, clocks, codes or bindings: a     *)
(* ticket is opened once, filled at most once, and what it was filled with *)
(* is either taken, once and unchanged, or dropped.  Tickets may be        *)
(* dropped at any moment, several at a time: a sweep of expired rows, a    *)
(* cancellation and a restart all look the same from here.                 *)
(***************************************************************************)
CONSTANTS Tickets, Values

VARIABLES
  used,      \* tickets ever opened
  open,      \* tickets that wait for a value
  held,      \* ticket -> the value the exchange holds for it: {} or {v}
  delivered  \* ticket -> the value that was taken out: {} or {v}

exchangeVars == <<used, open, held, delivered>>

ExchangeInit ==
  /\ used = {}
  /\ open = {}
  /\ held = [k \in Tickets |-> {}]
  /\ delivered = [k \in Tickets |-> {}]

Kept(k, D) == IF k \in D THEN {} ELSE held[k]

(* The tickets in D are dropped and nothing else happens. *)
Drop(D) ==
  /\ open' = open \ D
  /\ held' = [k \in Tickets |-> Kept(k, D)]
  /\ UNCHANGED <<used, delivered>>

(* k, never used before, is opened. *)
OpenTicket(k, D) ==
  /\ k \notin used
  /\ used' = used \cup {k}
  /\ open' = (open \ D) \cup {k}
  /\ held' = [j \in Tickets |-> Kept(j, D)]
  /\ UNCHANGED delivered

(* k, open and not dropped in this step, is filled with v. *)
FillTicket(k, v, D) ==
  /\ k \in open \ D
  /\ open' = (open \ D) \ {k}
  /\ held' = [j \in Tickets |-> IF j = k THEN {v} ELSE Kept(j, D)]
  /\ UNCHANGED <<used, delivered>>

(* The value held for k is taken out; the exchange keeps no copy. *)
TakeTicket(k, D) ==
  /\ k \notin D
  /\ held[k] # {}
  /\ delivered[k] = {}
  /\ delivered' = [delivered EXCEPT ![k] = held[k]]
  /\ held' = [j \in Tickets |-> IF j = k THEN {} ELSE Kept(j, D)]
  /\ open' = open \ D
  /\ UNCHANGED used

ExchangeNext ==
  \E D \in SUBSET Tickets :
    \/ Drop(D)
    \/ \E k \in Tickets : OpenTicket(k, D)
    \/ \E k \in Tickets, v \in Values : FillTicket(k, v, D)
    \/ \E k \in Tickets : TakeTicket(k, D)

ExchangeSpec == ExchangeInit /\ [][ExchangeNext]_exchangeVars
=============================================================================
