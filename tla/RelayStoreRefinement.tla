------------------------ MODULE RelayStoreRefinement ------------------------
(***************************************************************************)
(* RelayStore implements OneShotExchange.  A ticket is a registration,     *)
(* named by the result token create drew for it.                           *)
(***************************************************************************)
EXTENDS RelayStore

CodesOf(k) == {c \in Serials : minted[c] # Null /\ minted[c].token = k}

usedBar == {k \in Serials : registered[k] # Null}

OpenIn(tbl) == {k \in Serials :
                  \E t \in TransactionIds :
                    tbl[t].status = "pending" /\ tbl[t].token = k}

HeldIn(tbl) == [k \in Serials |->
                  {tbl[t].result : t \in {u \in TransactionIds :
                     tbl[u].status = "completed" /\ tbl[u].token = k}}]

openBar == OpenIn(rows)
heldBar == HeldIn(rows)

deliveredBar == [k \in Serials |->
                   {released[c].result : c \in {d \in CodesOf(k) :
                      released[d].count > 0}}]

Exchange == INSTANCE OneShotExchange WITH
  Tickets <- Serials, Values <- Results,
  used <- usedBar, open <- openBar, held <- heldBar, delivered <- deliveredBar

(* Whatever the callers and the clock do, the table behaves as a one-shot  *)
(* exchange: every registration delivers at most one result, the one       *)
(* posted for it, and a result that was redeemed, cancelled, expired or    *)
(* lost to a restart is never available again.                             *)
ImplementsOneShotExchange == Exchange!ExchangeSpec
=============================================================================
