----------------------------- MODULE ReleaseRecord -----------------------------
(***************************************************************************)
(* The release record: scripts/write-release-record.mjs writes it from the *)
(* workflow's artifacts, the provenance evidence and the registry;         *)
(* scripts/verify-release.mjs later verifies artifacts, or packages it     *)
(* packs itself, against it.  Both authenticate the artifacts through      *)
(* scripts/verify-workflow-artifact-attestation.mjs.                       *)
(*                                                                         *)
(* The artifact directory is shared: a file of another attempt can take    *)
(* the place of one at any time, so every read of a file gives that of any *)
(* build, and a file read twice may differ.  What the code keeps from a    *)
(* read is kept in snap.                                                   *)
(***************************************************************************)
EXTENDS ReleaseWorld

CONSTANT TagCommit      \* the commit of the annotated source tag

VARIABLES
    tool,       \* which tool is running, or how the last one ended
    at,         \* the index of its next step
    options,    \* the run and attempt of its command line
    snap,       \* what it has read and kept
    record,     \* the release record, once one is written
    verdict     \* what verify-release accepted against the record

recordVars == <<tool, at, options, snap, record, verdict>>

Kept == {"attestation", "origin", "report", "evidence", "local"}

Nothing == [k \in Kept |-> None]

\* Evidence that verifyProvenanceEvidence accepts (EvidenceIsOneRelease of
\* module ReleaseEvidence): each package is of a recorded attempt of the run.
Evidence ==
    {e \in [commit : Commits, run : Runs,
            final : {AttemptOf[b] : b \in Builds},
            digest : [Packages -> Digests]] :
        \A p \in Packages :
            \E b \in Frozen : /\ CommitOf[b] = e.commit
                              /\ RunOf[b] = e.run
                              /\ AttemptOf[b] <= e.final
                              /\ TarballOf[b][p] = e.digest[p]}

-----------------------------------------------------------------------------
(* The programs. *)

verifyGithubArtifactAttestation ==
    <<"readAttestation", "readOrigin", "readReport",
      "validateGithubArtifactAttestationResult">>

verifyWorkflowArtifactsDirectory ==
    verifyGithubArtifactAttestation
        \o <<"validateWorkflowArtifactReport", "hashArtifacts",
             "compareChecksum", "assertManifestContracts", "compareCopies",
             "verifyOriginService">>

writeReleaseRecord ==
    <<"requireReleaseTag">> \o verifyWorkflowArtifactsDirectory
        \o <<"bindEvidence", "packageInput", "assertCleanStatus">>

verifyReleaseArtifacts ==
    <<"assertPostEvidenceCommit", "validateSourceContracts">>
        \o verifyWorkflowArtifactsDirectory
        \o <<"verifyEvidenceRecord", "assertCleanStatus">>

verifyReleasePackages ==
    <<"assertPostEvidenceCommit", "validateSourceContracts",
      "packPackages", "verifyEvidenceRecord", "assertCleanStatus">>

RecordProgram ==
    CASE tool = "write"     -> writeReleaseRecord
      [] tool = "artifacts" -> verifyReleaseArtifacts
      [] tool = "packages"  -> verifyReleasePackages

-----------------------------------------------------------------------------

Doing(function) ==
    /\ tool \in {"write", "artifacts", "packages"}
    /\ RecordProgram[at] = function

\* An exception removes the private snapshots and ends the tool.
Fails ==
    /\ tool' = "failed"
    /\ at' = 1
    /\ options' = None
    /\ snap' = Nothing
    /\ UNCHANGED <<record, verdict>>

Proceed(kept, ok) ==
    IF ok
    THEN /\ snap' = kept
         /\ at' = at + 1
         /\ UNCHANGED <<tool, options, record, verdict>>
    ELSE Fails

\* The tag is annotated, HEAD is past it, the tree is clean and there is
\* no record yet.
requireReleaseTag ==
    /\ Doing("requireReleaseTag")
    /\ \E annotated, clean, atTag \in BOOLEAN :
          Proceed(snap, annotated /\ clean /\ ~atTag /\ record = None)

\* HEAD is the one commit after the tag that adds the two evidence files.
assertPostEvidenceCommit ==
    /\ Doing("assertPostEvidenceCommit")
    /\ \E child, onlyEvidence, clean \in BOOLEAN :
          Proceed(snap, child /\ onlyEvidence /\ clean)

\* The tree's versions, lineage, toolchain, workflows, registry, fixtures
\* and assets are the frozen ones.
validateSourceContracts ==
    /\ Doing("validateSourceContracts")
    /\ \E drifted \in BOOLEAN : Proceed(snap, ~drifted)

\* readBoundedRegular: the whole file as it was at one moment, or an
\* exception; the private copy is what is verified and used from here on.
readBoundedRegular(file) ==
    \E b \in Builds, unchanged \in BOOLEAN :
        Proceed([snap EXCEPT ![file] = b], unchanged)

readAttestation ==
    /\ Doing("readAttestation")
    /\ readBoundedRegular("attestation")

readOrigin ==
    /\ Doing("readOrigin")
    /\ readBoundedRegular("origin")

readReport ==
    /\ Doing("readReport")
    /\ readBoundedRegular("report")

\* The attestation is the frozen workflow's, of this commit, run and
\* attempt, and its subjects are exactly the two files read.
validateGithubArtifactAttestationResult ==
    /\ Doing("validateGithubArtifactAttestationResult")
    /\ LET b == snap.attestation IN
       Proceed(snap, /\ b \in Frozen
                     /\ CommitOf[b] = TagCommit
                     /\ RunOf[b] = options.run
                     /\ AttemptOf[b] = options.attempt
                     /\ snap.origin = b
                     /\ snap.report = b)

\* The report states this commit, run and attempt.
validateWorkflowArtifactReport ==
    /\ Doing("validateWorkflowArtifactReport")
    /\ LET b == snap.report IN
       Proceed(snap, /\ CommitOf[b] = TagCommit
                     /\ RunOf[b] = options.run
                     /\ AttemptOf[b] = options.attempt)

\* The tarballs in the directory have the hashes the report states.
hashArtifacts ==
    /\ Doing("hashArtifacts")
    /\ \E found \in [Packages -> Builds] :
          Proceed(snap, /\ snap.origin = snap.report
                        /\ \A p \in Packages :
                              TarballOf[found[p]][p]
                                  = TarballOf[snap.report][p])

compareChecksum ==
    /\ Doing("compareChecksum")
    /\ \E found \in Builds : Proceed(snap, found = snap.report)

\* The tarballs' manifests, read again, name the source commit.
assertManifestContracts ==
    /\ Doing("assertManifestContracts")
    /\ \E found \in [Packages -> Builds] :
          Proceed(snap, \A p \in Packages : CommitOf[found[p]] = TagCommit)

\* The copied asset manifest and trust policy are those of the report, and
\* the assets are rebuilt from the tree and compared.
compareCopies ==
    /\ Doing("compareCopies")
    /\ \E found \in Builds, same \in BOOLEAN :
          Proceed(snap, same /\ CommitOf[found] = CommitOf[snap.report])

\* The authenticated archive is whole, and it serves its page.
verifyOriginService ==
    /\ Doing("verifyOriginService")
    /\ \E whole, healthy \in BOOLEAN : Proceed(snap, whole /\ healthy)

\* packAndVerifyPackages: packages packed from the tagged source here.
packPackages ==
    /\ Doing("packPackages")
    /\ \E b \in Builds :
          Proceed([snap EXCEPT !.local = b], CommitOf[b] = TagCommit)

\* The mutated form: evidence of an earlier attempt of the run is taken.
bindEvidenceOfRun ==
    /\ Doing("bindEvidence")
    /\ \E e \in Evidence :
          Proceed([snap EXCEPT !.evidence = e],
                  e.commit = TagCommit /\ e.run = options.run)

\* The evidence is of this commit, run and final attempt.
bindEvidence ==
    /\ Doing("bindEvidence")
    /\ \E e \in Evidence :
          Proceed([snap EXCEPT !.evidence = e],
                  /\ e.commit = TagCommit
                  /\ e.run = options.run
                  /\ e.final = options.attempt)

\* The registry's version, the evidence and the report name one tarball;
\* the record is written, and only once.
packageInput ==
    /\ Doing("packageInput")
    /\ \E registry \in [Packages -> Builds], absent \in BOOLEAN :
          IF /\ \A p \in Packages :
                   LET d == TarballOf[registry[p]][p] IN
                   /\ CommitOf[registry[p]] = TagCommit
                   /\ d = snap.evidence.digest[p]
                   /\ TarballOf[snap.report][p] = snap.evidence.digest[p]
             /\ absent /\ record = None
          THEN /\ record' = [commit |-> TagCommit, origin |-> snap.report,
                             evidence |-> snap.evidence,
                             registry |-> registry,
                             digest |-> [p \in Packages |->
                                           TarballOf[snap.report][p]]]
               /\ at' = at + 1
               /\ UNCHANGED <<tool, options, snap, verdict>>
          ELSE Fails

\* What was verified here: the report's tarballs, or those packed here.
Local == IF tool = "artifacts" THEN snap.report ELSE snap.local

\* The mutated form: the record is compared with the evidence only.
verifyEvidenceRecordOnly ==
    /\ Doing("verifyEvidenceRecord")
    /\ \E e \in Evidence :
          IF /\ record # None
             /\ record.commit = TagCommit
             /\ e = record.evidence
             /\ e.commit = TagCommit
             /\ \A p \in Packages : record.digest[p] = e.digest[p]
          THEN /\ snap' = [snap EXCEPT !.evidence = e]
               /\ at' = at + 1
               /\ UNCHANGED <<tool, options, record, verdict>>
          ELSE Fails

\* The record is of this commit and of the evidence beside it, and the
\* tarballs and the archive verified here are the ones it names.
verifyEvidenceRecord ==
    /\ Doing("verifyEvidenceRecord")
    /\ \E e \in Evidence :
          IF /\ record # None
             /\ record.commit = TagCommit
             /\ e = record.evidence
             /\ e.commit = TagCommit
             /\ \A p \in Packages : /\ record.digest[p] = e.digest[p]
                                    /\ TarballOf[Local][p] = record.digest[p]
             /\ tool = "artifacts" => record.origin = snap.report
          THEN /\ snap' = [snap EXCEPT !.evidence = e]
               /\ at' = at + 1
               /\ UNCHANGED <<tool, options, record, verdict>>
          ELSE Fails

\* The tree must still be clean at the end; a record written stays.
assertCleanStatus ==
    /\ Doing("assertCleanStatus")
    /\ \E clean \in BOOLEAN :
          IF clean
          THEN /\ tool' = "done"
               /\ verdict' = IF tool = "write" THEN verdict
                             ELSE [packages |-> Local, origin |-> snap.origin,
                                   evidence |-> snap.evidence]
               /\ at' = 1
               /\ options' = None
               /\ snap' = Nothing
               /\ UNCHANGED record
          ELSE Fails

\* A tool is started, for a run and an attempt of the command line.
startTool(t) ==
    /\ tool \in {"idle", "failed", "done"}
    /\ \E b \in Builds :
          options' = [run |-> RunOf[b], attempt |-> AttemptOf[b]]
    /\ tool' = t
    /\ at' = 1
    /\ UNCHANGED <<snap, record, verdict>>

StartWrite == startTool("write")

StartVerifyArtifacts == startTool("artifacts")

StartVerifyPackages == startTool("packages")

RecordInit ==
    /\ tool = "idle"
    /\ at = 1
    /\ options = None
    /\ snap = Nothing
    /\ record = None
    /\ verdict = None

RecordNext ==
    \/ StartWrite
    \/ StartVerifyArtifacts
    \/ StartVerifyPackages
    \/ requireReleaseTag
    \/ assertPostEvidenceCommit
    \/ validateSourceContracts
    \/ readAttestation
    \/ readOrigin
    \/ readReport
    \/ validateGithubArtifactAttestationResult
    \/ validateWorkflowArtifactReport
    \/ hashArtifacts
    \/ compareChecksum
    \/ assertManifestContracts
    \/ compareCopies
    \/ verifyOriginService
    \/ packPackages
    \/ bindEvidence
    \/ packageInput
    \/ verifyEvidenceRecord
    \/ assertCleanStatus

RecordSpec == RecordInit /\ [][RecordNext]_recordVars

-----------------------------------------------------------------------------
(* Properties. *)

(***************************************************************************)
(* Although the artifact directory can change under the tool, a record     *)
(* once written names one release: the archive of one attempt of the       *)
(* frozen workflow at the tag, evidence whose run and final attempt are    *)
(* that attempt's, and for each package the tarball that attempt packed,   *)
(* the evidence proves and the registry serves.                            *)
(***************************************************************************)
RecordIsOneRelease ==
    record # None =>
        LET b == record.origin IN
        /\ b \in Frozen
        /\ CommitOf[b] = record.commit
        /\ record.commit = TagCommit
        /\ RunOf[b] = record.evidence.run
        /\ AttemptOf[b] = record.evidence.final
        /\ \A p \in Packages :
              /\ record.digest[p] = TarballOf[b][p]
              /\ record.digest[p] = record.evidence.digest[p]
              /\ record.digest[p] = TarballOf[record.registry[p]][p]

(***************************************************************************)
(* What verify-release accepts together with a record is the release the   *)
(* record names: the same archive, when artifacts were verified, the same  *)
(* tarballs and the same evidence, whatever the directory held while the   *)
(* tool ran.  A record never changes under it.                             *)
(***************************************************************************)
AcceptedIsRecorded ==
    verdict # None =>
        /\ record # None
        /\ verdict.evidence = record.evidence
        /\ verdict.origin \in {None, record.origin}
        /\ \A p \in Packages :
              TarballOf[verdict.packages][p] = record.digest[p]

(* What is recorded of a release, and accepted from the record, is what    *)
(* was released (the publication scripts).                                 *)
RecordIsSound == RecordIsOneRelease /\ AcceptedIsRecorded

=============================================================================
