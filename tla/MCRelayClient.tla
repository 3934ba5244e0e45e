---------------------------- MODULE MCRelayClient ----------------------------
(* RelayClient with callback records only where one can be read: under the *)
(* state of the active operation.  (#consumeCallback of any other returns  *)
(* before it looks; a leftover record waits for the next activation.)  The *)
(* clock does not step back here, as it does in MCRelay.          *)
EXTENDS RelayClient

CONSTANT CallbackTexts  \* whether callback records are well formed: a set of BOOLEANs

UsefulAnswers ==
  \E p \in Ops : \/ RegisterRefused(p)
                 \/ \E s \in CancelStatuses : CancelAnswered(p, s)
                 \/ \E e \in Readings : \/ RegisterAccepted(p, e)
                                     \/ \E v \in {"connected", "disconnected"} : Completes(p, v, e)
                 \/ pending = p /\ \E w \in CallbackTexts : CallbackStored(p, w)

UsefulNext ==
  Calls \/ Returns \/ Timers \/ LocalSteps \/ UsefulAnswers \/ ClientTick

UsefulSpec == ClientInit /\ [][UsefulNext]_clientVars
FairUsefulSpec == UsefulSpec /\ Fairness
=============================================================================
