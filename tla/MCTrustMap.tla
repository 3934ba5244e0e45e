----------------------------- MODULE MCTrustMap -----------------------------
(* Two wallets and three records: enough for two records to one address    *)
(* and the revocation of one, or of a record another wallet's file names   *)
(* too, or of one that came with a payment.  The Bitcoin address is too    *)
(* short for a record to be read; the other one is published on Bitcoin    *)
(* too, with the network of the vCard, and on Solana.                      *)
EXTENDS TrustMap

Address(chain, short) == [owner |-> "shop", chain |-> chain, short |-> short]

MCRecipients == {Address("btc", TRUE), Address("eth", FALSE)}

MCCards == {Address("btc", FALSE)}
=============================================================================
