---------------------------- MODULE ReleaseEvidence ----------------------------
(***************************************************************************)
(* The provenance evidence of a release: scripts/collect-provenance-       *)
(* inputs.mjs gathers, for each package, what the registry and Sigstore    *)
(* say of it ("collect"); scripts/verify-provenance-evidence.mjs turns     *)
(* those files, the audit, the lock and the run metadata into evidence     *)
(* ("build"); whoever is handed an evidence file verifies it again         *)
(* ("normalize").  Each phase starts from files of any origin.             *)
(*                                                                         *)
(* A phase is a program, the verifying functions in the order the code     *)
(* calls them; each takes the pieces it is the first to look at from the   *)
(* files and either refuses or lets the next one go on.                    *)
(***************************************************************************)
EXTENDS ReleaseWorld

VARIABLES
    phase,      \* which tool is running
    policy,     \* the trust policy it was given
    meta,       \* the commit, run and attempts the evidence is to be about
    pkg,        \* the index of the package under work
    step,       \* the index of the next verifying function of its program
    pieces,     \* what has been read of that package
    verified    \* what was accepted of the packages before it

evidenceVars == <<phase, policy, meta, pkg, step, pieces, verified>>

\* The pieces of one package: what files say of its tarball (digests), its
\* provenance bundle and its publish bundle (origins), and who vouched
\* for them (generations and instants).
Fields ==
    {"row", "lock", "dist", "tarball", "signed", "npmKey",
     "payload", "signature", "leaf", "body", "promise", "proof", "time", "log",
     "authority", "trustLog", "statement", "subject", "attempt",
     "published", "publishBody", "publishKey", "boundKeys", "publishTime"}

Blank == [f \in Fields |-> None]

-----------------------------------------------------------------------------
(* The programs. *)

\* verifyBundle: the log entry, the certificate, the signature, the statement.
verifyBundle ==
    <<"verifyTlogBody", "verifyInclusionPromise", "verifyMerkleProof",
      "verifyFulcioCertificateIdentity", "verifyCertificateChain",
      "verifyDsse", "verifyStatement">>

verifyPublishBundle ==
    <<"verifyPublishTransparency", "requireTrustedPublishMaterials",
      "verifyPublishStatement">>

verifyRegistryEvidenceTrust ==
    <<"requireTrustedPackageMaterials", "requireExactlyBoundRegistryKeys">>
        \o verifyPublishBundle

buildRegistryEvidenceEnvelope ==
    <<"exactAuditRow", "normalizeDistRecord", "transparencyLogEvidence",
      "registryKeyEvidence", "certificateChainEvidence">>
        \o verifyRegistryEvidenceTrust

buildPackageEvidence ==
    <<"requireAuditRow", "requireOneIntegrity", "normalizeRegistrySignatures",
      "requireExactlyBoundRegistryKeys">>
        \o verifyBundle \o verifyPublishBundle
        \o <<"requireTrustedPackageMaterials">>

requireNormalizedPackage ==
    <<"requireNormalizedTarball", "normalizeRegistrySignatures",
      "requireTrustedPackageMaterials">>
        \o verifyBundle \o <<"requireSameBinding">>

Program ==
    CASE phase = "collect"   -> buildRegistryEvidenceEnvelope
      [] phase = "build"     -> buildPackageEvidence
      [] phase = "normalize" -> requireNormalizedPackage

-----------------------------------------------------------------------------
(* Reading and refusing. *)

Name == PACKAGE_NAMES[pkg]

At(function) ==
    /\ phase \in {"collect", "build", "normalize"}
    /\ phase # "collect" => meta # None
    /\ pkg <= Len(PACKAGE_NAMES)
    /\ step <= Len(Program)
    /\ Program[step] = function

\* A refusal is an exception out of the tool: it ends with nothing written.
Refuse ==
    /\ phase' = "refused"
    /\ policy' = None
    /\ meta' = None
    /\ pkg' = 1
    /\ step' = 1
    /\ pieces' = Blank
    /\ verified' = [p \in Packages |-> Blank]

\* The function took the pieces `read` from the files; `ok` is its checks.
Judge(read, ok) ==
    IF ok
    THEN /\ pieces' = read
         /\ step' = step + 1
         /\ UNCHANGED <<phase, policy, meta, pkg, verified>>
    ELSE Refuse

-----------------------------------------------------------------------------
(* What the collector checks of the audit, the registry and TUF. *)

\* exactAuditRow: exactly one verified row of the package.
exactAuditRow ==
    /\ At("exactAuditRow")
    /\ \E row \in Packages, o \in Origins, t \in Instants, g \in Generations :
          Judge([pieces EXCEPT !.row = row, !.leaf = o, !.time = t, !.log = g],
                row = Name)

\* The registry's integrity is that of the workflow's own tarball.
normalizeDistRecord ==
    /\ At("normalizeDistRecord")
    /\ \E dist \in Digests, tarball \in Digests :
          Judge([pieces EXCEPT !.dist = dist, !.tarball = tarball],
                dist = tarball)

\* What TUF says of a key, a log or an authority is what the policy says.
requireExactPolicyAuthorization(tufFor, policyFor) == tufFor = policyFor

\* One log of TUF's trusted root carries both entries.
transparencyLogEvidence ==
    /\ At("transparencyLogEvidence")
    /\ \E publishLog \in Generations, publishTime \in Instants,
          tufFor \in SUBSET Instants :
          Judge([pieces EXCEPT !.trustLog = pieces.log,
                               !.publishTime = publishTime],
                /\ {pieces.time, publishTime} \subseteq tufFor
                /\ requireExactPolicyAuthorization(
                       tufFor, policy.validFor[pieces.log])
                /\ publishLog = pieces.log)

\* The keys of the registry's signature and of the publish attestation.
registryKeyEvidence ==
    /\ At("registryKeyEvidence")
    /\ \E key \in Generations, publishKey \in Generations,
          tufFor \in SUBSET Instants :
          Judge([pieces EXCEPT !.npmKey = key, !.publishKey = publishKey,
                               !.boundKeys = {key, publishKey}],
                /\ {pieces.time, pieces.publishTime} \subseteq tufFor
                /\ requireExactPolicyAuthorization(tufFor, policy.npmFor)
                /\ key \in policy.npm["npm:signatures"]
                /\ publishKey \in policy.npm["npm:attestations"])

\* Exactly one authority of TUF's root that issued the leaf.
certificateChainEvidence ==
    /\ At("certificateChainEvidence")
    /\ \E root \in Generations, tufFor \in SUBSET Instants :
          Judge([pieces EXCEPT !.authority = root],
                /\ pieces.time \in tufFor
                /\ IssuerOf[pieces.leaf[1]] = root
                /\ requireExactPolicyAuthorization(
                       tufFor, policy.validFor[root]))

-----------------------------------------------------------------------------
(* What the evidence says of the tarball. *)

requireAuditRow ==
    /\ At("requireAuditRow")
    /\ \E row \in Packages : Judge([pieces EXCEPT !.row = row], row = Name)

\* The registry, the lock and the workflow name one tarball.
requireOneIntegrity ==
    /\ At("requireOneIntegrity")
    /\ \E dist \in Digests, lock \in Digests, tarball \in Digests :
          Judge([pieces EXCEPT !.dist = dist, !.lock = lock,
                               !.tarball = tarball],
                /\ dist = lock
                /\ tarball = dist)

\* An evidence file: its tarball is that of its integrity and of its
\* subject, and its attempt one of the recorded ones.
requireNormalizedTarball ==
    /\ At("requireNormalizedTarball")
    /\ \E row \in Packages, dist \in Digests, tarball \in Digests,
          subject \in Digests, attempt \in {AttemptOf[b] : b \in Builds} :
          Judge([pieces EXCEPT !.row = row, !.dist = dist,
                               !.tarball = tarball, !.subject = subject,
                               !.attempt = attempt],
                /\ row = Name
                /\ tarball = dist
                /\ attempt \in meta.attempts
                /\ subject = tarball)

\* Each registry signature verifies, over this name and integrity, under
\* the registry key it names.
normalizeRegistrySignatures ==
    /\ At("normalizeRegistrySignatures")
    /\ \E name \in Packages, signed \in Digests, key \in Generations :
       \E keys \in IF phase = "normalize" THEN {{key}} ELSE SUBSET Generations :
          Judge([pieces EXCEPT !.signed = signed, !.npmKey = key,
                               !.boundKeys = keys],
                /\ key \in keys
                /\ name = Name
                /\ signed = pieces.dist)

\* The registry keys are those of the two signatures and no other.
requireExactlyBoundRegistryKeys ==
    /\ At("requireExactlyBoundRegistryKeys")
    /\ \E publishKey \in IF phase = "collect" THEN {pieces.publishKey}
                         ELSE Generations :
          Judge([pieces EXCEPT !.publishKey = publishKey],
                pieces.boundKeys = {pieces.npmKey, publishKey})

-----------------------------------------------------------------------------
(* The provenance bundle.  A body, a certificate and a statement are       *)
(* those of one signing by one build, its origin.                          *)

\* An integrated time and a log are those the entry states; the collector
\* and a normalized package have them looked at before the bundle is.
EntryTimes == IF pieces.time = None THEN Instants ELSE {pieces.time}

TrustedLogs == IF pieces.trustLog = None THEN Generations ELSE {pieces.trustLog}

\* The entry is of the trusted log, and its body names this payload, this
\* signature and this certificate.
verifyTlogBody ==
    /\ At("verifyTlogBody")
    /\ \E payload, signature, leaf, body \in Origins, time \in EntryTimes,
          log \in Generations, trustLog \in TrustedLogs :
          Judge([pieces EXCEPT !.payload = payload, !.signature = signature,
                               !.leaf = leaf, !.body = body, !.time = time,
                               !.log = log, !.trustLog = trustLog],
                /\ log = trustLog
                /\ body = payload
                /\ body = signature
                /\ body = leaf)

\* The log promised this body at this time.
verifyInclusionPromise ==
    /\ At("verifyInclusionPromise")
    /\ \E promise \in Origins, time \in Instants, log \in Generations :
          Judge([pieces EXCEPT !.promise = promise],
                /\ log = pieces.trustLog
                /\ promise = pieces.body
                /\ time = pieces.time)

\* The proof leads from this body to a root the log signed.
verifyMerkleProof ==
    /\ At("verifyMerkleProof")
    /\ \E proof, checkpoint \in Origins, log \in Generations :
          Judge([pieces EXCEPT !.proof = proof],
                /\ proof = pieces.body
                /\ checkpoint = proof
                /\ log = pieces.trustLog)

\* The certificate is the frozen workflow's at the frozen tag.
verifyFulcioCertificateIdentity ==
    /\ At("verifyFulcioCertificateIdentity")
    /\ Judge(pieces, pieces.leaf[1] \in Frozen)

\* The mutated form: a certificate that is valid at some other time.
verifyCertificateChainAnyTime ==
    /\ At("verifyCertificateChain")
    /\ \E root \in IF pieces.authority = None THEN Generations
                   ELSE {pieces.authority} :
          Judge([pieces EXCEPT !.authority = root],
                root = IssuerOf[pieces.leaf[1]])

\* It was valid when the entry was logged, and its chain ends at a root.
verifyCertificateChain ==
    /\ At("verifyCertificateChain")
    /\ \E root \in IF pieces.authority = None THEN Generations
                   ELSE {pieces.authority} :
          Judge([pieces EXCEPT !.authority = root],
                /\ pieces.time = BuiltAt[pieces.leaf[1]]
                /\ root = IssuerOf[pieces.leaf[1]])

\* The certificate's key made the signature, over this payload.
verifyDsse ==
    /\ At("verifyDsse")
    /\ Judge(pieces, /\ pieces.signature = pieces.leaf
                     /\ pieces.signature = pieces.payload)

\* The mutated form: the statement may be of another run of the commit.
verifyStatementAnyRun ==
    /\ At("verifyStatement")
    /\ LET b == pieces.payload[1] IN
       Judge([pieces EXCEPT
                !.statement = pieces.payload,
                !.attempt = IF @ = None THEN AttemptOf[b] ELSE @],
             /\ pieces.payload[2] = Name
             /\ Digest(pieces.payload) = pieces.dist
             /\ b \in Frozen
             /\ CommitOf[b] = meta.commit
             /\ AttemptOf[b] \in meta.attempts)

\* The statement names the package, the tarball, the commit, the run and
\* an attempt of the recorded chain.
verifyStatement ==
    /\ At("verifyStatement")
    /\ LET b == pieces.payload[1] IN
       Judge([pieces EXCEPT
                !.statement = pieces.payload,
                !.attempt = IF @ = None THEN AttemptOf[b] ELSE @],
             /\ pieces.payload[2] = Name
             /\ Digest(pieces.payload) = pieces.dist
             /\ b \in Frozen
             /\ CommitOf[b] = meta.commit
             /\ RunOf[b] = meta.run
             /\ AttemptOf[b] \in meta.attempts)

\* The embedded statement, attempt and subject are those of the bundle.
requireSameBinding ==
    /\ At("requireSameBinding")
    /\ \E statement \in Origins :
          Judge([pieces EXCEPT !.statement = statement],
                /\ statement = pieces.payload
                /\ pieces.attempt = AttemptOf[pieces.payload[1]]
                /\ pieces.subject = Digest(pieces.payload))

-----------------------------------------------------------------------------
(* The publish bundle and the policy. *)

\* The entry's body names this payload, this signature and npm's key.
verifyPublishTransparency ==
    /\ At("verifyPublishTransparency")
    /\ \E body, published \in Packages \X Digests, key \in Generations,
          log \in Generations,
          time \in IF pieces.publishTime = None THEN Instants
                   ELSE {pieces.publishTime} :
          Judge([pieces EXCEPT !.published = published, !.publishBody = body,
                               !.publishTime = time],
                /\ log = pieces.trustLog
                /\ body = published
                /\ key = pieces.publishKey)

requireTrustedPublishMaterials ==
    /\ At("requireTrustedPublishMaterials")
    /\ Judge(pieces,
             /\ requireAuthorizedNpmKey(policy, "npm:attestations",
                    pieces.publishKey, pieces.publishTime)
             /\ requireAuthorizedTransparencyLog(policy, pieces.trustLog,
                    pieces.publishTime))

\* npm's key signed a statement that names this package and tarball.
verifyPublishStatement ==
    /\ At("verifyPublishStatement")
    /\ \E key \in Generations :
          Judge(pieces, /\ key = pieces.publishKey
                        /\ pieces.published = <<Name, pieces.dist>>)

\* The npm key, the root and the log are authorized when the provenance
\* was logged; a normalized package has this looked at first.
requireTrustedPackageMaterials ==
    /\ At("requireTrustedPackageMaterials")
    /\ \E time \in EntryTimes, trustLog \in TrustedLogs,
          root \in IF pieces.authority = None THEN Generations
                   ELSE {pieces.authority} :
          Judge([pieces EXCEPT !.time = time, !.trustLog = trustLog,
                               !.authority = root],
                /\ requireAuthorizedNpmKey(policy, "npm:signatures",
                       pieces.npmKey, time)
                /\ requireAuthorizedAuthority(policy, root, time)
                /\ requireAuthorizedTransparencyLog(policy, trustLog, time))

-----------------------------------------------------------------------------
(* The tools. *)

\* The attempts a run's metadata records.
Chains(run) ==
    SUBSET {AttemptOf[b] : b \in {c \in Builds : RunOf[c] = run}} \ {{}}

\* requireExpectedRelease, requireRunMetadata: the commit of the command
\* line is that of the metadata; attempts are positive, increasing and
\* bounded by construction of a chain.
requireRunMetadata ==
    /\ phase \in {"build", "normalize"}
    /\ meta = None
    /\ \E commit, metaCommit \in Commits, run \in Runs :
       \E attempts \in Chains(run) :
          IF metaCommit = commit \/ phase = "normalize"
          THEN /\ meta' = [commit |-> commit, run |-> run,
                           attempts |-> attempts]
               /\ UNCHANGED <<phase, policy, pkg, step, pieces, verified>>
          ELSE Refuse

\* The policy is validated before anything else is looked at.
startEvidence(tool) ==
    /\ phase = "start"
    /\ \E p \in Policies :
          IF validateProvenanceTrustPolicy(p)
          THEN /\ phase' = tool
               /\ policy' = p
               /\ step' = 1
               /\ UNCHANGED <<meta, pkg, pieces, verified>>
          ELSE Refuse

collectProvenanceInputs == startEvidence("collect")

buildProvenanceEvidence == startEvidence("build")

verifyProvenanceEvidence == startEvidence("normalize")

\* The package went through its program: on to the next one.
PackageAccepted ==
    /\ phase \in {"collect", "build", "normalize"}
    /\ pkg <= Len(PACKAGE_NAMES)
    /\ step > Len(Program)
    /\ verified' = [verified EXCEPT ![Name] = pieces]
    /\ pieces' = Blank
    /\ pkg' = pkg + 1
    /\ step' = 1
    /\ UNCHANGED <<phase, policy, meta>>

EvidenceInit ==
    /\ phase = "start"
    /\ policy = None
    /\ meta = None
    /\ pkg = 1
    /\ step = 1
    /\ pieces = Blank
    /\ verified = [p \in Packages |-> Blank]

EvidenceNext ==
    \/ collectProvenanceInputs
    \/ buildProvenanceEvidence
    \/ verifyProvenanceEvidence
    \/ requireRunMetadata
    \/ exactAuditRow
    \/ normalizeDistRecord
    \/ transparencyLogEvidence
    \/ registryKeyEvidence
    \/ certificateChainEvidence
    \/ requireAuditRow
    \/ requireOneIntegrity
    \/ requireNormalizedTarball
    \/ normalizeRegistrySignatures
    \/ requireExactlyBoundRegistryKeys
    \/ verifyTlogBody
    \/ verifyInclusionPromise
    \/ verifyMerkleProof
    \/ verifyFulcioCertificateIdentity
    \/ verifyCertificateChain
    \/ verifyDsse
    \/ verifyStatement
    \/ requireSameBinding
    \/ verifyPublishTransparency
    \/ requireTrustedPublishMaterials
    \/ verifyPublishStatement
    \/ requireTrustedPackageMaterials
    \/ PackageAccepted

EvidenceSpec == EvidenceInit /\ [][EvidenceNext]_evidenceVars

-----------------------------------------------------------------------------
(* Properties. *)

\* What an accepted package of the collector, and of evidence, agrees on.
EnvelopeHolds(p, v) ==
    /\ v.row = p
    /\ v.tarball = v.dist
    /\ v.published = <<p, v.dist>>

BundleHolds(p, v) ==
    \E b \in Frozen :
        /\ RunOf[b] = meta.run
        /\ CommitOf[b] = meta.commit
        /\ AttemptOf[b] \in meta.attempts
        /\ v.attempt = AttemptOf[b]
        /\ {v.payload, v.signature, v.leaf, v.body, v.promise, v.proof,
            v.statement} = {<<b, p>>}
        /\ {v.dist, v.tarball, v.signed} = {TarballOf[b][p]}

Accepted(p) == verified[p] # Blank

(***************************************************************************)
(* Whatever files of other attempts and other runs lie among the inputs,   *)
(* evidence that verify-provenance-evidence.mjs accepts is of one release: *)
(* for each package, the statement, the signature, the certificate, the    *)
(* log's body, promise and proof are one signing by one build of the       *)
(* stated run and commit, and the tarball it signed is the one the         *)
(* registry signed, the lock resolved, the workflow packed and npm says it *)
(* published.  The second package is held to the run of the first.         *)
(***************************************************************************)
EvidenceIsOneRelease ==
    \A p \in Packages :
        Accepted(p) =>
            /\ phase # "normalize" => EnvelopeHolds(p, verified[p])
            /\ phase # "collect" => BundleHolds(p, verified[p])
            /\ phase = "build" => verified[p].lock = verified[p].dist

(***************************************************************************)
(* Keys, logs and authorities rotate.  Whatever was accepted was vouched   *)
(* for by npm keys, a log and an authority that the tag's own policy       *)
(* authorizes at the instant the log recorded, and by a certificate valid  *)
(* at that instant.                                                        *)
(***************************************************************************)
VouchedAtTheTime ==
    \A p \in Packages :
        Accepted(p) =>
            LET v == verified[p] IN
            /\ policy.npm["npm:signatures"] = {v.npmKey}
            /\ v.time \in policy.npmFor
            /\ v.time \in policy.validFor[v.trustLog]
            /\ v.time \in policy.validFor[v.authority]
            /\ phase # "collect" => v.time = BuiltAt[v.leaf[1]]
            /\ phase # "normalize" =>
                   /\ policy.npm["npm:attestations"] = {v.publishKey}
                   /\ v.boundKeys = {v.npmKey, v.publishKey}
                   /\ v.publishTime \in policy.npmFor
                   /\ v.publishTime \in policy.validFor[v.trustLog]

(* Whatever evidence is accepted is of one release, and those who vouch    *)
(* for it were entitled to at the time (verify-provenance-evidence.mjs).   *)
EvidenceIsSound == EvidenceIsOneRelease /\ VouchedAtTheTime

=============================================================================
