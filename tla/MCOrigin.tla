------------------------------ MODULE MCOrigin ------------------------------
(***************************************************************************)
(* What the wallet origin's page is built on: the controller with two      *)
(* unlocks and two transactions under way, the consent memory of a tab     *)
(* whose clock and storage misbehave, and the remembered wallet with two   *)
(* tabs at its slots.  Their properties read nothing of one another, so    *)
(* each behaviour is of one part and the other two stand still.            *)
(***************************************************************************)
EXTENDS OriginController, ConsentMemory, RememberedStorage, TLC

CONSTANTS u1, u2, x1, x2, c1, s1, s2, s3, t1, t2

VARIABLE part   \* which of the parts a behaviour is of

Symmetry ==
  UNION {Permutations(S) : S \in {{u1, u2}, {x1, x2}, {s2, s3}, {t1, t2}}}

(* The slots are enumerated only where they are looked at.                 *)
MCInit ==
  /\ part \in {"controller", "consent", "remembered"}
  /\ ControllerInit /\ ConsentInit /\ StorageInit
  /\ part # "remembered" => active = Empty /\ pending = Empty

MCNext ==
  \/ /\ part = "controller" /\ ControllerNext
     /\ UNCHANGED <<part, consentVars, storageVars>>
  \/ /\ part = "consent" /\ ConsentNext
     /\ UNCHANGED <<part, controllerVars, storageVars>>
  \/ /\ part = "remembered" /\ StorageNext
     /\ UNCHANGED <<part, controllerVars, consentVars>>

MCSpec == MCInit /\ [][MCNext]_<<part, controllerVars, consentVars, storageVars>>
=============================================================================
