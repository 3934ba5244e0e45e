------------------------------- MODULE MCRelease -------------------------------
(***************************************************************************)
(* Four builds: two attempts of the released run, the second with a        *)
(* tarball that came out differently; another run of the same commit,      *)
(* which packed the same tarballs; and a run of another workflow at        *)
(* another commit.  Logs and authorities rotate once; one of the policies  *)
(* authorizes two npm keys for a usage, one has an empty window.           *)
(*                                                                         *)
(* The four layers of the release have no variable in common: a behaviour  *)
(* is one of the evidence, of the record, of a Merkle proof or of the      *)
(* builds, and the other three stand still.                                *)
(***************************************************************************)
EXTENDS ReleaseEvidence, ReleaseRecord, MerkleProof, ReleaseBuild, TLC

CONSTANTS b1, b2, b3, b4, old, new, pa, pb

VARIABLE layer

MCSymmetry == Permutations({pa, pb})

MCBuilds == {b1, b2, b3, b4}

MCRunOf == b1 :> "r1" @@ b2 :> "r1" @@ b3 :> "r2" @@ b4 :> "r3"

MCAttemptOf == b1 :> 1 @@ b2 :> 2 @@ b3 :> 1 @@ b4 :> 1

MCCommitOf == b1 :> "c1" @@ b2 :> "c1" @@ b3 :> "c1" @@ b4 :> "c2"

MCBuiltAt == b1 :> 1 @@ b2 :> 2 @@ b3 :> 2 @@ b4 :> 1

MCIssuerOf == b1 :> old @@ b2 :> new @@ b3 :> new @@ b4 :> old

MCTarballOf ==
    LET same == [p \in Packages |-> "d1"] IN
    b1 :> same @@ b2 :> [same EXCEPT !["hd-wallet-ui"] = "d2"]
        @@ b3 :> same @@ b4 :> [p \in Packages |-> "d2"]

Windows == old :> {1} @@ new :> {1, 2}

MCPolicies ==
    LET sound == [npm |-> [u \in Usages |-> {new}], npmFor |-> {1, 2},
                  validFor |-> Windows]
    IN  {sound,
         [sound EXCEPT !.npm["npm:signatures"] = {old, new}],
         [sound EXCEPT !.validFor[old] = {}]}

MCInit ==
    /\ layer \in {"evidence", "record", "merkle", "build"}
    /\ EvidenceInit
    /\ RecordInit
    /\ MerkleInit
    /\ BuildInit
    /\ layer # "build" => job = {"core"} /\ source = 1

MCNext ==
    \/ /\ layer = "evidence"
       /\ EvidenceNext
       /\ UNCHANGED <<layer, recordVars, proof, buildVars>>
    \/ /\ layer = "record"
       /\ RecordNext
       /\ UNCHANGED <<layer, evidenceVars, proof, buildVars>>
    \/ /\ layer = "merkle"
       /\ MerkleNext
       /\ UNCHANGED <<layer, evidenceVars, recordVars, buildVars>>
    \/ /\ layer = "build"
       /\ BuildNext
       /\ UNCHANGED <<layer, evidenceVars, recordVars, proof>>

MCSpec ==
    MCInit /\ [][MCNext]_<<layer, evidenceVars, recordVars, proof, buildVars>>

=============================================================================
