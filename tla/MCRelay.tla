------------------------------ MODULE MCRelay ------------------------------
(***************************************************************************)
(* The relay from both sides: its table, shown to implement the one-shot   *)
(* exchange, and the parties, who talk to that exchange.  The two have no  *)
(* variable in common, so each behaviour is of one of them and the other   *)
(* stands still.                                                           *)
(*                                                                         *)
(* The table has two ids for one row, and enough CSPRNG draws for an id to *)
(* be used up, pruned, registered again, completed and redeemed.  Two      *)
(* challenges make the verifier of a redeem right or wrong.                *)
(***************************************************************************)
EXTENDS RelayStoreRefinement, WalletProtocol, TLC

CONSTANTS t1, t2, s1, h1, h2, q1, r1

VARIABLE side   \* which of the two a behaviour is of

SiteA == [origin |-> "siteA", client |-> "clientA", operation |-> "connect", lifetime |-> 1]
OneSite == {SiteA}
TimesTo2 == 0..2
LifetimeOne == {1}
Symmetry == Permutations({t1, t2}) \cup Permutations({h1, h2})

MCInit ==
  /\ side \in {"table", "parties"}
  /\ Init /\ ProtocolInit

MCNext ==
  \/ side = "table" /\ Next /\ UNCHANGED <<side, protocolVars>>
  \/ side = "parties" /\ ProtocolNext /\ UNCHANGED <<side, storeVars>>

MCSpec == MCInit /\ [][MCNext]_<<side, storeVars, protocolVars>>
=============================================================================
