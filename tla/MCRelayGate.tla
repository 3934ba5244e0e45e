----------------------------- MODULE MCRelayGate -----------------------------
(***************************************************************************)
(* What stands between a request and the store: the rate limiter, with     *)
(* more keys than buckets and several windows, and the part of the server  *)
(* in which a reading of the row goes stale.  Neither reads the other's    *)
(* state, so each behaviour is of one of the two.                          *)
(***************************************************************************)
EXTENDS MCRelayServer, RateLimiter

CONSTANTS k1, k2, k3

VARIABLE gate   \* which of the two a behaviour is of

MaximumTwo == [k \in {k1, k2, k3} |-> 2]

GateInit == gate \in {"limiter", "server"} /\ LimiterInit /\ ServerInit

GateNext ==
  \/ gate = "limiter" /\ LimiterNext /\ UNCHANGED <<gate, vars>>
  \/ gate = "server" /\ StaleNext /\ UNCHANGED <<gate, limiterVars>>

GateSpec == GateInit /\ [][GateNext]_<<gate, vars, limiterVars>>
=============================================================================
