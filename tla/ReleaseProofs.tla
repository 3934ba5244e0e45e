---------------------------- MODULE ReleaseProofs ----------------------------
(***************************************************************************)
(* Proofs about a release.  For any builds, runs, attempts, tarballs and   *)
(* policies, evidence that is accepted is of one release and was vouched   *)
(* for at its time, and a record that is written or accepted is of one     *)
(* release; for any processes and versions, what the scripts leave at its  *)
(* final place is whole.                                                   *)
(*                                                                         *)
(* Each tool is a program of steps, so its invariant says what holds of    *)
(* the files it has kept before each step of the program, and a step is    *)
(* shown to establish what the next one starts from.                       *)
(***************************************************************************)
EXTENDS ReleaseEvidence, ReleaseRecord, ReleaseBuild, FiniteSetTheorems, WellFoundedInduction,
        TLAPS

(* A program followed by another has the steps of the one, then of the     *)
(* other.                                                                  *)
LEMMA ConcatIs ==
  ASSUME NEW S, NEW s \in Seq(S), NEW t \in Seq(S), NEW u \in Seq(S),
         Len(u) = Len(s) + Len(t),
         \A i \in 1..Len(s) : u[i] = s[i],
         \A i \in 1..Len(t) : u[Len(s) + i] = t[i]
  PROVE  s \o t = u
<1>1. s \o t \in Seq(S) /\ Len(s \o t) = Len(u)
  OBVIOUS
<1>2. \A i \in 1..Len(u) : (s \o t)[i] = u[i]
  <2> SUFFICES ASSUME NEW i \in 1..Len(u) PROVE (s \o t)[i] = u[i]
    OBVIOUS
  <2>1. CASE i <= Len(s)
    BY <2>1
  <2>2. CASE i > Len(s)
    <3>1. i - Len(s) \in 1..Len(t) /\ Len(s) + (i - Len(s)) = i
      BY <2>2
    <3>2. u[i] = t[i - Len(s)]
      BY <3>1
    <3> QED  BY <2>2, <3>2
  <2> QED  BY <2>1, <2>2
<1> QED  BY <1>1, <1>2

(***************************************************************************)
(* The evidence.                                                           *)
(***************************************************************************)

(* The steps of the three programs, and the programs step by step.         *)
EvidenceSteps ==
  {"exactAuditRow", "normalizeDistRecord", "transparencyLogEvidence",
   "registryKeyEvidence", "certificateChainEvidence", "requireTrustedPackageMaterials",
   "requireExactlyBoundRegistryKeys", "verifyPublishTransparency",
   "requireTrustedPublishMaterials", "verifyPublishStatement", "requireAuditRow",
   "requireOneIntegrity", "normalizeRegistrySignatures", "verifyTlogBody",
   "verifyInclusionPromise", "verifyMerkleProof", "verifyFulcioCertificateIdentity",
   "verifyCertificateChain", "verifyDsse", "verifyStatement", "requireNormalizedTarball",
   "requireSameBinding"}

(* The checks of a registry's evidence, one by one.                        *)
LEMMA TrustProgram ==
  verifyRegistryEvidenceTrust =
    <<"requireTrustedPackageMaterials", "requireExactlyBoundRegistryKeys",
      "verifyPublishTransparency", "requireTrustedPublishMaterials",
      "verifyPublishStatement">>
<1> DEFINE s == <<"requireTrustedPackageMaterials", "requireExactlyBoundRegistryKeys">>
           t == <<"verifyPublishTransparency", "requireTrustedPublishMaterials",
                   "verifyPublishStatement">>
           u == <<"requireTrustedPackageMaterials", "requireExactlyBoundRegistryKeys",
                   "verifyPublishTransparency", "requireTrustedPublishMaterials",
                   "verifyPublishStatement">>
<1>1. /\ s \in Seq(EvidenceSteps) /\ t \in Seq(EvidenceSteps) /\ u \in Seq(EvidenceSteps)
      /\ Len(s) = 2 /\ Len(t) = 3 /\ Len(u) = 5
  BY DEF EvidenceSteps
<1>2. /\ \A i \in 1..2 : u[i] = s[i]
      /\ \A i \in 1..3 : u[2 + i] = t[i]
  BY DEF EvidenceSteps
<1> HIDE DEF s, t, u
<1>3. s \o t = u
  <2>1. Len(u) = Len(s) + Len(t)
    BY ONLY <1>1
  <2>2. \A i \in 1..Len(s) : u[i] = s[i]
    BY ONLY <1>1, <1>2
  <2>3. \A i \in 1..Len(t) : u[Len(s) + i] = t[i]
    BY ONLY <1>1, <1>2
  <2> QED  BY ONLY <1>1, <2>1, <2>2, <2>3, ConcatIs
<1> QED  BY <1>3 DEF s, t, u, verifyRegistryEvidenceTrust, verifyPublishBundle

(* The collector's program for a package.                                  *)
LEMMA CollectProgram ==
  buildRegistryEvidenceEnvelope =
    <<"exactAuditRow", "normalizeDistRecord", "transparencyLogEvidence",
      "registryKeyEvidence", "certificateChainEvidence",
      "requireTrustedPackageMaterials", "requireExactlyBoundRegistryKeys",
      "verifyPublishTransparency", "requireTrustedPublishMaterials",
      "verifyPublishStatement">>
<1> DEFINE s == <<"exactAuditRow", "normalizeDistRecord", "transparencyLogEvidence",
                   "registryKeyEvidence", "certificateChainEvidence">>
           t == <<"requireTrustedPackageMaterials", "requireExactlyBoundRegistryKeys",
                   "verifyPublishTransparency", "requireTrustedPublishMaterials",
                   "verifyPublishStatement">>
           u == <<"exactAuditRow", "normalizeDistRecord", "transparencyLogEvidence",
                   "registryKeyEvidence", "certificateChainEvidence",
                   "requireTrustedPackageMaterials", "requireExactlyBoundRegistryKeys",
                   "verifyPublishTransparency", "requireTrustedPublishMaterials",
                   "verifyPublishStatement">>
<1>1. /\ s \in Seq(EvidenceSteps) /\ t \in Seq(EvidenceSteps) /\ u \in Seq(EvidenceSteps)
      /\ Len(s) = 5 /\ Len(t) = 5 /\ Len(u) = 10
  BY DEF EvidenceSteps
<1>2. /\ \A i \in 1..5 : u[i] = s[i]
      /\ \A i \in 1..5 : u[5 + i] = t[i]
  BY DEF EvidenceSteps
<1> HIDE DEF s, t, u
<1>3. s \o t = u
  <2>1. Len(u) = Len(s) + Len(t)
    BY ONLY <1>1
  <2>2. \A i \in 1..Len(s) : u[i] = s[i]
    BY ONLY <1>1, <1>2
  <2>3. \A i \in 1..Len(t) : u[Len(s) + i] = t[i]
    BY ONLY <1>1, <1>2
  <2> QED  BY ONLY <1>1, <2>1, <2>2, <2>3, ConcatIs
<1> QED  BY <1>3, TrustProgram DEF s, t, u, buildRegistryEvidenceEnvelope

(* The builder's program for a package, in three concatenations.           *)
LEMMA BuildHead ==
  <<"requireAuditRow", "requireOneIntegrity", "normalizeRegistrySignatures",
    "requireExactlyBoundRegistryKeys">> \o verifyBundle =
    <<"requireAuditRow", "requireOneIntegrity", "normalizeRegistrySignatures",
      "requireExactlyBoundRegistryKeys", "verifyTlogBody", "verifyInclusionPromise",
      "verifyMerkleProof", "verifyFulcioCertificateIdentity", "verifyCertificateChain",
      "verifyDsse", "verifyStatement">>
<1> DEFINE s == <<"requireAuditRow", "requireOneIntegrity",
                   "normalizeRegistrySignatures", "requireExactlyBoundRegistryKeys">>
           t == <<"verifyTlogBody", "verifyInclusionPromise", "verifyMerkleProof",
                   "verifyFulcioCertificateIdentity", "verifyCertificateChain",
                   "verifyDsse", "verifyStatement">>
           u == <<"requireAuditRow", "requireOneIntegrity",
                   "normalizeRegistrySignatures", "requireExactlyBoundRegistryKeys",
                   "verifyTlogBody", "verifyInclusionPromise", "verifyMerkleProof",
                   "verifyFulcioCertificateIdentity", "verifyCertificateChain",
                   "verifyDsse", "verifyStatement">>
<1>1. /\ s \in Seq(EvidenceSteps) /\ t \in Seq(EvidenceSteps) /\ u \in Seq(EvidenceSteps)
      /\ Len(s) = 4 /\ Len(t) = 7 /\ Len(u) = 11
  BY DEF EvidenceSteps
<1>2. /\ \A i \in 1..4 : u[i] = s[i]
      /\ \A i \in 1..7 : u[4 + i] = t[i]
  BY DEF EvidenceSteps
<1> HIDE DEF s, t, u
<1>3. s \o t = u
  <2>1. Len(u) = Len(s) + Len(t)
    BY ONLY <1>1
  <2>2. \A i \in 1..Len(s) : u[i] = s[i]
    BY ONLY <1>1, <1>2
  <2>3. \A i \in 1..Len(t) : u[Len(s) + i] = t[i]
    BY ONLY <1>1, <1>2
  <2> QED  BY ONLY <1>1, <2>1, <2>2, <2>3, ConcatIs
<1> QED  BY <1>3 DEF s, t, u, verifyBundle

LEMMA BuildMiddle ==
  <<"requireAuditRow", "requireOneIntegrity", "normalizeRegistrySignatures",
    "requireExactlyBoundRegistryKeys">> \o verifyBundle \o verifyPublishBundle =
    <<"requireAuditRow", "requireOneIntegrity", "normalizeRegistrySignatures",
      "requireExactlyBoundRegistryKeys", "verifyTlogBody", "verifyInclusionPromise",
      "verifyMerkleProof", "verifyFulcioCertificateIdentity", "verifyCertificateChain",
      "verifyDsse", "verifyStatement", "verifyPublishTransparency",
      "requireTrustedPublishMaterials", "verifyPublishStatement">>
<1> DEFINE s == <<"requireAuditRow", "requireOneIntegrity",
                   "normalizeRegistrySignatures", "requireExactlyBoundRegistryKeys",
                   "verifyTlogBody", "verifyInclusionPromise", "verifyMerkleProof",
                   "verifyFulcioCertificateIdentity", "verifyCertificateChain",
                   "verifyDsse", "verifyStatement">>
           t == <<"verifyPublishTransparency", "requireTrustedPublishMaterials",
                   "verifyPublishStatement">>
           u == <<"requireAuditRow", "requireOneIntegrity",
                   "normalizeRegistrySignatures", "requireExactlyBoundRegistryKeys",
                   "verifyTlogBody", "verifyInclusionPromise", "verifyMerkleProof",
                   "verifyFulcioCertificateIdentity", "verifyCertificateChain",
                   "verifyDsse", "verifyStatement", "verifyPublishTransparency",
                   "requireTrustedPublishMaterials", "verifyPublishStatement">>
<1>1. /\ s \in Seq(EvidenceSteps) /\ t \in Seq(EvidenceSteps) /\ u \in Seq(EvidenceSteps)
      /\ Len(s) = 11 /\ Len(t) = 3 /\ Len(u) = 14
  BY DEF EvidenceSteps
<1>2. /\ \A i \in 1..11 : u[i] = s[i]
      /\ \A i \in 1..3 : u[11 + i] = t[i]
  BY DEF EvidenceSteps
<1> HIDE DEF s, t, u
<1>3. s \o t = u
  <2>1. Len(u) = Len(s) + Len(t)
    BY ONLY <1>1
  <2>2. \A i \in 1..Len(s) : u[i] = s[i]
    BY ONLY <1>1, <1>2
  <2>3. \A i \in 1..Len(t) : u[Len(s) + i] = t[i]
    BY ONLY <1>1, <1>2
  <2> QED  BY ONLY <1>1, <2>1, <2>2, <2>3, ConcatIs
<1> QED  BY <1>3, BuildHead DEF s, t, u, verifyPublishBundle

LEMMA BuildProgram ==
  buildPackageEvidence =
    <<"requireAuditRow", "requireOneIntegrity", "normalizeRegistrySignatures",
      "requireExactlyBoundRegistryKeys", "verifyTlogBody", "verifyInclusionPromise",
      "verifyMerkleProof", "verifyFulcioCertificateIdentity", "verifyCertificateChain",
      "verifyDsse", "verifyStatement", "verifyPublishTransparency",
      "requireTrustedPublishMaterials", "verifyPublishStatement",
      "requireTrustedPackageMaterials">>
<1> DEFINE s == <<"requireAuditRow", "requireOneIntegrity",
                   "normalizeRegistrySignatures", "requireExactlyBoundRegistryKeys",
                   "verifyTlogBody", "verifyInclusionPromise", "verifyMerkleProof",
                   "verifyFulcioCertificateIdentity", "verifyCertificateChain",
                   "verifyDsse", "verifyStatement", "verifyPublishTransparency",
                   "requireTrustedPublishMaterials", "verifyPublishStatement">>
           t == <<"requireTrustedPackageMaterials">>
           u == <<"requireAuditRow", "requireOneIntegrity",
                   "normalizeRegistrySignatures", "requireExactlyBoundRegistryKeys",
                   "verifyTlogBody", "verifyInclusionPromise", "verifyMerkleProof",
                   "verifyFulcioCertificateIdentity", "verifyCertificateChain",
                   "verifyDsse", "verifyStatement", "verifyPublishTransparency",
                   "requireTrustedPublishMaterials", "verifyPublishStatement",
                   "requireTrustedPackageMaterials">>
<1>1. /\ s \in Seq(EvidenceSteps) /\ t \in Seq(EvidenceSteps) /\ u \in Seq(EvidenceSteps)
      /\ Len(s) = 14 /\ Len(t) = 1 /\ Len(u) = 15
  BY DEF EvidenceSteps
<1>2. /\ \A i \in 1..14 : u[i] = s[i]
      /\ \A i \in 1..1 : u[14 + i] = t[i]
  BY DEF EvidenceSteps
<1> HIDE DEF s, t, u
<1>3. s \o t = u
  <2>1. Len(u) = Len(s) + Len(t)
    BY ONLY <1>1
  <2>2. \A i \in 1..Len(s) : u[i] = s[i]
    BY ONLY <1>1, <1>2
  <2>3. \A i \in 1..Len(t) : u[Len(s) + i] = t[i]
    BY ONLY <1>1, <1>2
  <2> QED  BY ONLY <1>1, <2>1, <2>2, <2>3, ConcatIs
<1> QED  BY <1>3, BuildMiddle DEF s, t, u, buildPackageEvidence

(* The normalizer's program for a package, in two.                         *)
LEMMA NormalizeHead ==
  <<"requireNormalizedTarball", "normalizeRegistrySignatures",
    "requireTrustedPackageMaterials">> \o verifyBundle =
    <<"requireNormalizedTarball", "normalizeRegistrySignatures",
      "requireTrustedPackageMaterials", "verifyTlogBody", "verifyInclusionPromise",
      "verifyMerkleProof", "verifyFulcioCertificateIdentity", "verifyCertificateChain",
      "verifyDsse", "verifyStatement">>
<1> DEFINE s == <<"requireNormalizedTarball", "normalizeRegistrySignatures",
                   "requireTrustedPackageMaterials">>
           t == <<"verifyTlogBody", "verifyInclusionPromise", "verifyMerkleProof",
                   "verifyFulcioCertificateIdentity", "verifyCertificateChain",
                   "verifyDsse", "verifyStatement">>
           u == <<"requireNormalizedTarball", "normalizeRegistrySignatures",
                   "requireTrustedPackageMaterials", "verifyTlogBody",
                   "verifyInclusionPromise", "verifyMerkleProof",
                   "verifyFulcioCertificateIdentity", "verifyCertificateChain",
                   "verifyDsse", "verifyStatement">>
<1>1. /\ s \in Seq(EvidenceSteps) /\ t \in Seq(EvidenceSteps) /\ u \in Seq(EvidenceSteps)
      /\ Len(s) = 3 /\ Len(t) = 7 /\ Len(u) = 10
  BY DEF EvidenceSteps
<1>2. /\ \A i \in 1..3 : u[i] = s[i]
      /\ \A i \in 1..7 : u[3 + i] = t[i]
  BY DEF EvidenceSteps
<1> HIDE DEF s, t, u
<1>3. s \o t = u
  <2>1. Len(u) = Len(s) + Len(t)
    BY ONLY <1>1
  <2>2. \A i \in 1..Len(s) : u[i] = s[i]
    BY ONLY <1>1, <1>2
  <2>3. \A i \in 1..Len(t) : u[Len(s) + i] = t[i]
    BY ONLY <1>1, <1>2
  <2> QED  BY ONLY <1>1, <2>1, <2>2, <2>3, ConcatIs
<1> QED  BY <1>3 DEF s, t, u, verifyBundle

LEMMA NormalizeProgram ==
  requireNormalizedPackage =
    <<"requireNormalizedTarball", "normalizeRegistrySignatures",
      "requireTrustedPackageMaterials", "verifyTlogBody", "verifyInclusionPromise",
      "verifyMerkleProof", "verifyFulcioCertificateIdentity", "verifyCertificateChain",
      "verifyDsse", "verifyStatement", "requireSameBinding">>
<1> DEFINE s == <<"requireNormalizedTarball", "normalizeRegistrySignatures",
                   "requireTrustedPackageMaterials", "verifyTlogBody",
                   "verifyInclusionPromise", "verifyMerkleProof",
                   "verifyFulcioCertificateIdentity", "verifyCertificateChain",
                   "verifyDsse", "verifyStatement">>
           t == <<"requireSameBinding">>
           u == <<"requireNormalizedTarball", "normalizeRegistrySignatures",
                   "requireTrustedPackageMaterials", "verifyTlogBody",
                   "verifyInclusionPromise", "verifyMerkleProof",
                   "verifyFulcioCertificateIdentity", "verifyCertificateChain",
                   "verifyDsse", "verifyStatement", "requireSameBinding">>
<1>1. /\ s \in Seq(EvidenceSteps) /\ t \in Seq(EvidenceSteps) /\ u \in Seq(EvidenceSteps)
      /\ Len(s) = 10 /\ Len(t) = 1 /\ Len(u) = 11
  BY DEF EvidenceSteps
<1>2. /\ \A i \in 1..10 : u[i] = s[i]
      /\ \A i \in 1..1 : u[10 + i] = t[i]
  BY DEF EvidenceSteps
<1> HIDE DEF s, t, u
<1>3. s \o t = u
  <2>1. Len(u) = Len(s) + Len(t)
    BY ONLY <1>1
  <2>2. \A i \in 1..Len(s) : u[i] = s[i]
    BY ONLY <1>1, <1>2
  <2>3. \A i \in 1..Len(t) : u[Len(s) + i] = t[i]
    BY ONLY <1>1, <1>2
  <2> QED  BY ONLY <1>1, <2>1, <2>2, <2>3, ConcatIs
<1> QED  BY <1>3, NormalizeHead DEF s, t, u, requireNormalizedPackage


Phases == {"collect", "build", "normalize"}

(* Where a function stands in the programs. *)
LEMMA WhereCollect ==
  ASSUME NEW f, At(f), phase = "collect", step \in Nat \ {0}
  PROVE  /\ step \in 1..10
         /\ f = <<"exactAuditRow", "normalizeDistRecord", "transparencyLogEvidence",
                  "registryKeyEvidence", "certificateChainEvidence",
                  "requireTrustedPackageMaterials", "requireExactlyBoundRegistryKeys",
                  "verifyPublishTransparency", "requireTrustedPublishMaterials",
                  "verifyPublishStatement">>[step]
BY CollectProgram DEF At, Program

LEMMA WhereBuild ==
  ASSUME NEW f, At(f), phase = "build", step \in Nat \ {0}
  PROVE  /\ step \in 1..15
         /\ f = <<"requireAuditRow", "requireOneIntegrity", "normalizeRegistrySignatures",
                  "requireExactlyBoundRegistryKeys", "verifyTlogBody", "verifyInclusionPromise",
                  "verifyMerkleProof", "verifyFulcioCertificateIdentity",
                  "verifyCertificateChain", "verifyDsse", "verifyStatement",
                  "verifyPublishTransparency", "requireTrustedPublishMaterials",
                  "verifyPublishStatement", "requireTrustedPackageMaterials">>[step]
BY BuildProgram DEF At, Program

LEMMA WhereNormalize ==
  ASSUME NEW f, At(f), phase = "normalize", step \in Nat \ {0}
  PROVE  /\ step \in 1..11
         /\ f = <<"requireNormalizedTarball", "normalizeRegistrySignatures",
                  "requireTrustedPackageMaterials", "verifyTlogBody", "verifyInclusionPromise",
                  "verifyMerkleProof", "verifyFulcioCertificateIdentity",
                  "verifyCertificateChain", "verifyDsse", "verifyStatement",
                  "requireSameBinding">>[step]
BY NormalizeProgram DEF At, Program

(* The running program is at a step.                                       *)
OnStep(p, k) == phase = p /\ step = k

LEMMA Where ==
  ASSUME step \in Nat \ {0}
  PROVE  /\ At("exactAuditRow") => OnStep("collect", 1)
         /\ At("normalizeDistRecord") => OnStep("collect", 2)
         /\ At("transparencyLogEvidence") => OnStep("collect", 3)
         /\ At("registryKeyEvidence") => OnStep("collect", 4)
         /\ At("certificateChainEvidence") => OnStep("collect", 5)
         /\ At("requireTrustedPackageMaterials") =>
              OnStep("collect", 6) \/ OnStep("build", 15) \/ OnStep("normalize", 3)
         /\ At("requireExactlyBoundRegistryKeys") => OnStep("collect", 7) \/ OnStep("build", 4)
         /\ At("verifyPublishTransparency") => OnStep("collect", 8) \/ OnStep("build", 12)
         /\ At("requireTrustedPublishMaterials") => OnStep("collect", 9) \/ OnStep("build", 13)
         /\ At("verifyPublishStatement") => OnStep("collect", 10) \/ OnStep("build", 14)
         /\ At("requireAuditRow") => OnStep("build", 1)
         /\ At("requireOneIntegrity") => OnStep("build", 2)
         /\ At("normalizeRegistrySignatures") => OnStep("build", 3) \/ OnStep("normalize", 2)
         /\ At("verifyTlogBody") => OnStep("build", 5) \/ OnStep("normalize", 4)
         /\ At("verifyInclusionPromise") => OnStep("build", 6) \/ OnStep("normalize", 5)
         /\ At("verifyMerkleProof") => OnStep("build", 7) \/ OnStep("normalize", 6)
         /\ At("verifyFulcioCertificateIdentity") =>
              OnStep("build", 8) \/ OnStep("normalize", 7)
         /\ At("verifyCertificateChain") => OnStep("build", 9) \/ OnStep("normalize", 8)
         /\ At("verifyDsse") => OnStep("build", 10) \/ OnStep("normalize", 9)
         /\ At("verifyStatement") => OnStep("build", 11) \/ OnStep("normalize", 10)
         /\ At("requireNormalizedTarball") => OnStep("normalize", 1)
         /\ At("requireSameBinding") => OnStep("normalize", 11)
<1>1. At("exactAuditRow") => OnStep("collect", 1)
  <2> SUFFICES ASSUME At("exactAuditRow")
               PROVE  OnStep("collect", 1)
    OBVIOUS
  <2>1. CASE phase = "collect"
    BY <2>1, WhereCollect DEF OnStep
  <2>2. CASE phase = "build"
    BY <2>2, WhereBuild DEF OnStep
  <2>3. CASE phase = "normalize"
    BY <2>3, WhereNormalize DEF OnStep
  <2> QED  BY <2>1, <2>2, <2>3 DEF At
<1>2. At("normalizeDistRecord") => OnStep("collect", 2)
  <2> SUFFICES ASSUME At("normalizeDistRecord")
               PROVE  OnStep("collect", 2)
    OBVIOUS
  <2>1. CASE phase = "collect"
    BY <2>1, WhereCollect DEF OnStep
  <2>2. CASE phase = "build"
    BY <2>2, WhereBuild DEF OnStep
  <2>3. CASE phase = "normalize"
    BY <2>3, WhereNormalize DEF OnStep
  <2> QED  BY <2>1, <2>2, <2>3 DEF At
<1>3. At("transparencyLogEvidence") => OnStep("collect", 3)
  <2> SUFFICES ASSUME At("transparencyLogEvidence")
               PROVE  OnStep("collect", 3)
    OBVIOUS
  <2>1. CASE phase = "collect"
    BY <2>1, WhereCollect DEF OnStep
  <2>2. CASE phase = "build"
    BY <2>2, WhereBuild DEF OnStep
  <2>3. CASE phase = "normalize"
    BY <2>3, WhereNormalize DEF OnStep
  <2> QED  BY <2>1, <2>2, <2>3 DEF At
<1>4. At("registryKeyEvidence") => OnStep("collect", 4)
  <2> SUFFICES ASSUME At("registryKeyEvidence")
               PROVE  OnStep("collect", 4)
    OBVIOUS
  <2>1. CASE phase = "collect"
    BY <2>1, WhereCollect DEF OnStep
  <2>2. CASE phase = "build"
    BY <2>2, WhereBuild DEF OnStep
  <2>3. CASE phase = "normalize"
    BY <2>3, WhereNormalize DEF OnStep
  <2> QED  BY <2>1, <2>2, <2>3 DEF At
<1>5. At("certificateChainEvidence") => OnStep("collect", 5)
  <2> SUFFICES ASSUME At("certificateChainEvidence")
               PROVE  OnStep("collect", 5)
    OBVIOUS
  <2>1. CASE phase = "collect"
    BY <2>1, WhereCollect DEF OnStep
  <2>2. CASE phase = "build"
    BY <2>2, WhereBuild DEF OnStep
  <2>3. CASE phase = "normalize"
    BY <2>3, WhereNormalize DEF OnStep
  <2> QED  BY <2>1, <2>2, <2>3 DEF At
<1>6. At("requireTrustedPackageMaterials") =>
         OnStep("collect", 6) \/ OnStep("build", 15) \/ OnStep("normalize", 3)
  <2> SUFFICES ASSUME At("requireTrustedPackageMaterials")
               PROVE  OnStep("collect", 6) \/ OnStep("build", 15) \/ OnStep("normalize", 3)
    OBVIOUS
  <2>1. CASE phase = "collect"
    BY <2>1, WhereCollect DEF OnStep
  <2>2. CASE phase = "build"
    BY <2>2, WhereBuild DEF OnStep
  <2>3. CASE phase = "normalize"
    BY <2>3, WhereNormalize DEF OnStep
  <2> QED  BY <2>1, <2>2, <2>3 DEF At
<1>7. At("requireExactlyBoundRegistryKeys") => OnStep("collect", 7) \/ OnStep("build", 4)
  <2> SUFFICES ASSUME At("requireExactlyBoundRegistryKeys")
               PROVE  OnStep("collect", 7) \/ OnStep("build", 4)
    OBVIOUS
  <2>1. CASE phase = "collect"
    BY <2>1, WhereCollect DEF OnStep
  <2>2. CASE phase = "build"
    BY <2>2, WhereBuild DEF OnStep
  <2>3. CASE phase = "normalize"
    BY <2>3, WhereNormalize DEF OnStep
  <2> QED  BY <2>1, <2>2, <2>3 DEF At
<1>8. At("verifyPublishTransparency") => OnStep("collect", 8) \/ OnStep("build", 12)
  <2> SUFFICES ASSUME At("verifyPublishTransparency")
               PROVE  OnStep("collect", 8) \/ OnStep("build", 12)
    OBVIOUS
  <2>1. CASE phase = "collect"
    BY <2>1, WhereCollect DEF OnStep
  <2>2. CASE phase = "build"
    BY <2>2, WhereBuild DEF OnStep
  <2>3. CASE phase = "normalize"
    BY <2>3, WhereNormalize DEF OnStep
  <2> QED  BY <2>1, <2>2, <2>3 DEF At
<1>9. At("requireTrustedPublishMaterials") => OnStep("collect", 9) \/ OnStep("build", 13)
  <2> SUFFICES ASSUME At("requireTrustedPublishMaterials")
               PROVE  OnStep("collect", 9) \/ OnStep("build", 13)
    OBVIOUS
  <2>1. CASE phase = "collect"
    BY <2>1, WhereCollect DEF OnStep
  <2>2. CASE phase = "build"
    BY <2>2, WhereBuild DEF OnStep
  <2>3. CASE phase = "normalize"
    BY <2>3, WhereNormalize DEF OnStep
  <2> QED  BY <2>1, <2>2, <2>3 DEF At
<1>10. At("verifyPublishStatement") => OnStep("collect", 10) \/ OnStep("build", 14)
  <2> SUFFICES ASSUME At("verifyPublishStatement")
               PROVE  OnStep("collect", 10) \/ OnStep("build", 14)
    OBVIOUS
  <2>1. CASE phase = "collect"
    BY <2>1, WhereCollect DEF OnStep
  <2>2. CASE phase = "build"
    BY <2>2, WhereBuild DEF OnStep
  <2>3. CASE phase = "normalize"
    BY <2>3, WhereNormalize DEF OnStep
  <2> QED  BY <2>1, <2>2, <2>3 DEF At
<1>11. At("requireAuditRow") => OnStep("build", 1)
  <2> SUFFICES ASSUME At("requireAuditRow")
               PROVE  OnStep("build", 1)
    OBVIOUS
  <2>1. CASE phase = "collect"
    BY <2>1, WhereCollect DEF OnStep
  <2>2. CASE phase = "build"
    BY <2>2, WhereBuild DEF OnStep
  <2>3. CASE phase = "normalize"
    BY <2>3, WhereNormalize DEF OnStep
  <2> QED  BY <2>1, <2>2, <2>3 DEF At
<1>12. At("requireOneIntegrity") => OnStep("build", 2)
  <2> SUFFICES ASSUME At("requireOneIntegrity")
               PROVE  OnStep("build", 2)
    OBVIOUS
  <2>1. CASE phase = "collect"
    BY <2>1, WhereCollect DEF OnStep
  <2>2. CASE phase = "build"
    BY <2>2, WhereBuild DEF OnStep
  <2>3. CASE phase = "normalize"
    BY <2>3, WhereNormalize DEF OnStep
  <2> QED  BY <2>1, <2>2, <2>3 DEF At
<1>13. At("normalizeRegistrySignatures") => OnStep("build", 3) \/ OnStep("normalize", 2)
  <2> SUFFICES ASSUME At("normalizeRegistrySignatures")
               PROVE  OnStep("build", 3) \/ OnStep("normalize", 2)
    OBVIOUS
  <2>1. CASE phase = "collect"
    BY <2>1, WhereCollect DEF OnStep
  <2>2. CASE phase = "build"
    BY <2>2, WhereBuild DEF OnStep
  <2>3. CASE phase = "normalize"
    BY <2>3, WhereNormalize DEF OnStep
  <2> QED  BY <2>1, <2>2, <2>3 DEF At
<1>14. At("verifyTlogBody") => OnStep("build", 5) \/ OnStep("normalize", 4)
  <2> SUFFICES ASSUME At("verifyTlogBody")
               PROVE  OnStep("build", 5) \/ OnStep("normalize", 4)
    OBVIOUS
  <2>1. CASE phase = "collect"
    BY <2>1, WhereCollect DEF OnStep
  <2>2. CASE phase = "build"
    BY <2>2, WhereBuild DEF OnStep
  <2>3. CASE phase = "normalize"
    BY <2>3, WhereNormalize DEF OnStep
  <2> QED  BY <2>1, <2>2, <2>3 DEF At
<1>15. At("verifyInclusionPromise") => OnStep("build", 6) \/ OnStep("normalize", 5)
  <2> SUFFICES ASSUME At("verifyInclusionPromise")
               PROVE  OnStep("build", 6) \/ OnStep("normalize", 5)
    OBVIOUS
  <2>1. CASE phase = "collect"
    BY <2>1, WhereCollect DEF OnStep
  <2>2. CASE phase = "build"
    BY <2>2, WhereBuild DEF OnStep
  <2>3. CASE phase = "normalize"
    BY <2>3, WhereNormalize DEF OnStep
  <2> QED  BY <2>1, <2>2, <2>3 DEF At
<1>16. At("verifyMerkleProof") => OnStep("build", 7) \/ OnStep("normalize", 6)
  <2> SUFFICES ASSUME At("verifyMerkleProof")
               PROVE  OnStep("build", 7) \/ OnStep("normalize", 6)
    OBVIOUS
  <2>1. CASE phase = "collect"
    BY <2>1, WhereCollect DEF OnStep
  <2>2. CASE phase = "build"
    BY <2>2, WhereBuild DEF OnStep
  <2>3. CASE phase = "normalize"
    BY <2>3, WhereNormalize DEF OnStep
  <2> QED  BY <2>1, <2>2, <2>3 DEF At
<1>17. At("verifyFulcioCertificateIdentity") => OnStep("build", 8) \/ OnStep("normalize", 7)
  <2> SUFFICES ASSUME At("verifyFulcioCertificateIdentity")
               PROVE  OnStep("build", 8) \/ OnStep("normalize", 7)
    OBVIOUS
  <2>1. CASE phase = "collect"
    BY <2>1, WhereCollect DEF OnStep
  <2>2. CASE phase = "build"
    BY <2>2, WhereBuild DEF OnStep
  <2>3. CASE phase = "normalize"
    BY <2>3, WhereNormalize DEF OnStep
  <2> QED  BY <2>1, <2>2, <2>3 DEF At
<1>18. At("verifyCertificateChain") => OnStep("build", 9) \/ OnStep("normalize", 8)
  <2> SUFFICES ASSUME At("verifyCertificateChain")
               PROVE  OnStep("build", 9) \/ OnStep("normalize", 8)
    OBVIOUS
  <2>1. CASE phase = "collect"
    BY <2>1, WhereCollect DEF OnStep
  <2>2. CASE phase = "build"
    BY <2>2, WhereBuild DEF OnStep
  <2>3. CASE phase = "normalize"
    BY <2>3, WhereNormalize DEF OnStep
  <2> QED  BY <2>1, <2>2, <2>3 DEF At
<1>19. At("verifyDsse") => OnStep("build", 10) \/ OnStep("normalize", 9)
  <2> SUFFICES ASSUME At("verifyDsse")
               PROVE  OnStep("build", 10) \/ OnStep("normalize", 9)
    OBVIOUS
  <2>1. CASE phase = "collect"
    BY <2>1, WhereCollect DEF OnStep
  <2>2. CASE phase = "build"
    BY <2>2, WhereBuild DEF OnStep
  <2>3. CASE phase = "normalize"
    BY <2>3, WhereNormalize DEF OnStep
  <2> QED  BY <2>1, <2>2, <2>3 DEF At
<1>20. At("verifyStatement") => OnStep("build", 11) \/ OnStep("normalize", 10)
  <2> SUFFICES ASSUME At("verifyStatement")
               PROVE  OnStep("build", 11) \/ OnStep("normalize", 10)
    OBVIOUS
  <2>1. CASE phase = "collect"
    BY <2>1, WhereCollect DEF OnStep
  <2>2. CASE phase = "build"
    BY <2>2, WhereBuild DEF OnStep
  <2>3. CASE phase = "normalize"
    BY <2>3, WhereNormalize DEF OnStep
  <2> QED  BY <2>1, <2>2, <2>3 DEF At
<1>21. At("requireNormalizedTarball") => OnStep("normalize", 1)
  <2> SUFFICES ASSUME At("requireNormalizedTarball")
               PROVE  OnStep("normalize", 1)
    OBVIOUS
  <2>1. CASE phase = "collect"
    BY <2>1, WhereCollect DEF OnStep
  <2>2. CASE phase = "build"
    BY <2>2, WhereBuild DEF OnStep
  <2>3. CASE phase = "normalize"
    BY <2>3, WhereNormalize DEF OnStep
  <2> QED  BY <2>1, <2>2, <2>3 DEF At
<1>22. At("requireSameBinding") => OnStep("normalize", 11)
  <2> SUFFICES ASSUME At("requireSameBinding")
               PROVE  OnStep("normalize", 11)
    OBVIOUS
  <2>1. CASE phase = "collect"
    BY <2>1, WhereCollect DEF OnStep
  <2>2. CASE phase = "build"
    BY <2>2, WhereBuild DEF OnStep
  <2>3. CASE phase = "normalize"
    BY <2>3, WhereNormalize DEF OnStep
  <2> QED  BY <2>1, <2>2, <2>3 DEF At
<1> QED
  BY ONLY <1>1, <1>2, <1>3, <1>4, <1>5, <1>6, <1>7, <1>8, <1>9, <1>10, <1>11, <1>12, <1>13,
     <1>14, <1>15, <1>16, <1>17, <1>18, <1>19, <1>20, <1>21, <1>22

-----------------------------------------------------------------------------
(* The pieces of a package: a value for each field. *)
IsPieces(v) == v = [f \in Fields |-> v[f]]

(* Vouched for at the time: the keys, the log and the authority that were  *)
(* looked at with the provenance.                                          *)
Entitled(v) ==
  /\ policy.npm["npm:signatures"] = {v.npmKey}
  /\ v.time \in policy.npmFor
  /\ v.time \in policy.validFor[v.trustLog]
  /\ v.time \in policy.validFor[v.authority]

(* And those that were looked at with the publish bundle. *)
PublishEntitled(v) ==
  /\ policy.npm["npm:attestations"] = {v.publishKey}
  /\ v.publishTime \in policy.npmFor
  /\ v.publishTime \in policy.validFor[v.trustLog]

(* The log's body is of one signing, at a stated instant. *)
Logged(v) ==
  /\ v.payload \in Origins
  /\ v.payload = v.body /\ v.signature = v.body /\ v.leaf = v.body
  /\ v.time \in Instants
  /\ v.trustLog \in Generations

(* The statement is of this package, tarball, commit, run and attempt. *)
Stated(n, v) ==
  LET b == v.payload[1] IN
  /\ v.statement = v.payload
  /\ v.payload[2] = n
  /\ Digest(v.payload) = v.dist
  /\ b \in Frozen
  /\ CommitOf[b] = meta.commit
  /\ RunOf[b] = meta.run
  /\ AttemptOf[b] \in meta.attempts

(* What holds of package n before step k of each program. *)
CollectOK(n, v, k) ==
  /\ k > 1 => v.row = n
  /\ k > 2 => v.tarball = v.dist
  /\ k > 6 => Entitled(v)
  /\ k > 7 => v.boundKeys = {v.npmKey, v.publishKey}
  /\ k > 9 => PublishEntitled(v)
  /\ k > 10 => v.published = <<n, v.dist>>

(* The builder reads the evidence the collector kept: the provenance's     *)
(* time and log come from its bundle, the publish bundle's from the        *)
(* evidence.                                                               *)
BuildOK(n, v, k) ==
  /\ k > 1 => v.row = n
  /\ k > 2 => v.lock = v.dist /\ v.tarball = v.dist
  /\ k > 3 => v.signed = v.dist
  /\ k > 4 => v.boundKeys = {v.npmKey, v.publishKey}
  /\ k <= 5 => v.time = None /\ v.trustLog = None
  /\ k > 5 => Logged(v)
  /\ k > 6 => v.promise = v.body
  /\ k > 7 => v.proof = v.body
  /\ k > 9 => v.time = BuiltAt[v.leaf[1]]
  /\ k <= 11 => v.attempt = None
  /\ k > 11 => Stated(n, v) /\ v.attempt = AttemptOf[v.payload[1]]
  /\ k > 13 => PublishEntitled(v)
  /\ k > 14 => v.published = <<n, v.dist>>
  /\ k > 15 => Entitled(v)

(* The normalizer checks the evidence's materials before it opens the      *)
(* bundle, and compares the bundle with what it checked.                   *)
NormalizeOK(n, v, k) ==
  /\ k > 1 => v.row = n /\ v.tarball = v.dist
  /\ k > 2 => v.signed = v.dist
  /\ k <= 3 => v.time = None /\ v.trustLog = None
  /\ k > 3 => /\ Entitled(v) /\ v.authority # None
              /\ v.time \in Instants /\ v.trustLog \in Generations
  /\ k > 4 => Logged(v)
  /\ k > 5 => v.promise = v.body
  /\ k > 6 => v.proof = v.body
  /\ k > 8 => v.time = BuiltAt[v.leaf[1]]
  /\ k > 10 => Stated(n, v)
  /\ k > 11 => v.attempt = AttemptOf[v.payload[1]]

(* What holds of a package before a step of the running program.           *)
Held(n, v, k) ==
  /\ phase = "collect" => CollectOK(n, v, k)
  /\ phase = "build" => BuildOK(n, v, k)
  /\ phase = "normalize" => NormalizeOK(n, v, k)

(* No package has been looked at: a program starts here, and returns here  *)
(* when it refuses.                                                        *)
Untouched ==
  /\ step = 1
  /\ pieces = Blank
  /\ \A p \in Packages : verified[p] = Blank

(* The step after the last one of each program.                            *)
Ended == [collect |-> 11, build |-> 16, normalize |-> 12]

(* The inductive invariant: the pieces of the package at hand satisfy what *)
(* the program has checked so far, and a package that was taken what the   *)
(* whole program checks.                                                   *)
EvidenceInv ==
  /\ phase \in Phases \cup {"start", "refused"}
  /\ pkg \in Nat \ {0}
  /\ step \in Nat \ {0}
  /\ IsPieces(pieces)
  /\ verified = [p \in Packages |-> verified[p]]
  /\ phase \notin Phases => Untouched
  /\ phase \in {"build", "normalize"} /\ meta = None => Untouched
  /\ phase \in Phases => policy \in Policies /\ validateProvenanceTrustPolicy(policy)
  /\ pkg <= 2 => Held(Name, pieces, step)
  /\ \A p \in Packages :
       verified[p] # Blank => phase \in Phases /\ Held(p, verified[p], Ended[phase])

-----------------------------------------------------------------------------
(* A package nothing is known of satisfies what holds before a first step. *)
LEMMA BlankIsPieces == IsPieces(Blank)
BY DEF IsPieces, Blank

LEMMA BlankHeld == \A n : Held(n, Blank, 1)
BY DEF Held, CollectOK, BuildOK, NormalizeOK, Blank, Fields

LEMMA BlankFresh == \A n : Held(n, Blank, 1)'
BY DEF Held, CollectOK, BuildOK, NormalizeOK, Blank, Fields

(* A policy that was taken authorizes one npm key for each usage. *)
LEMMA OneKey ==
  ASSUME NEW p \in Policies, validateProvenanceTrustPolicy(p), NEW u \in Usages,
         NEW key \in p.npm[u]
  PROVE  p.npm[u] = {key}
<1>1. IsFiniteSet(p.npm[u]) /\ Cardinality(p.npm[u]) = 1
  BY WorldAssumption DEF validateProvenanceTrustPolicy
<1> QED  BY <1>1, FS_Singleton

(* A refusal forgets every package.                                        *)
LEMMA RefuseInv ==
  ASSUME EvidenceInv, Refuse
  PROVE  EvidenceInv'
<1>1. Untouched'
  BY DEF Refuse, Untouched
<1>2. \A p \in Packages : verified'[p] = Blank
  BY DEF Refuse
<1>3. Held(Name, pieces, step)'
  BY DEF Refuse, Held
<1> QED  BY <1>1, <1>2, <1>3, BlankIsPieces DEF EvidenceInv, Refuse, Phases

(* A function that lets the next one go on. *)
Judged ==
  /\ step' = step + 1
  /\ UNCHANGED <<phase, policy, meta, pkg, verified>>

LEMMA JudgedInv ==
  ASSUME EvidenceInv, NEW f, At(f), Judged, IsPieces(pieces'), Held(Name, pieces', step + 1)
  PROVE  EvidenceInv'
<1>1. phase \in Phases /\ (phase # "collect" => meta # None)
  BY DEF At, Phases
<1>2. Name' = Name
  BY DEF Judged, Name
<1>3. Held(Name, pieces, step)'
  BY <1>2 DEF Judged, Held, CollectOK, BuildOK, NormalizeOK, Entitled, PublishEntitled, Logged,
              Stated
<1>4. \A p \in Packages :
        verified'[p] # Blank => phase' \in Phases /\ Held(p, verified[p], Ended[phase])'
  BY DEF EvidenceInv, Judged, Held, CollectOK, BuildOK, NormalizeOK, Entitled, PublishEntitled,
         Logged, Stated
<1>5. verified' = [p \in Packages |-> verified'[p]]
  BY DEF EvidenceInv, Judged
<1>6. /\ phase' \in Phases /\ (phase' # "collect" => meta' # None)
      /\ policy' \in Policies /\ validateProvenanceTrustPolicy(policy)'
      /\ pkg' \in Nat \ {0} /\ step' \in Nat \ {0}
  BY <1>1 DEF EvidenceInv, Judged, validateProvenanceTrustPolicy
<1> QED  BY <1>3, <1>4, <1>5, <1>6 DEF EvidenceInv

(* The audit has one row of the package. *)
LEMMA exactAuditRowInv ==
  ASSUME EvidenceInv, exactAuditRow
  PROVE  EvidenceInv'
<1>1. CASE Refuse
  BY <1>1, RefuseInv
<1>2. CASE ~ Refuse
  <2>1. PICK row \in Packages, o \in Origins, t \in Instants, g \in Generations :
          /\ Judged
          /\ pieces' = [pieces EXCEPT !.row = row, !.leaf = o, !.time = t, !.log = g]
          /\ row = Name
    BY <1>2 DEF exactAuditRow, Judge, Judged
  <2>2. At("exactAuditRow") /\ (OnStep("collect", 1))
    BY Where DEF exactAuditRow, EvidenceInv
  <2>3. IsPieces(pieces')
    BY <2>1 DEF EvidenceInv, IsPieces
  <2>4. pkg <= 2 /\ Held(Name, pieces, step)
    BY <2>2 DEF EvidenceInv, At, PACKAGE_NAMES
  <2>5. Held(Name, pieces', step + 1)
    <3>1. CASE OnStep("collect", 1)
      <4>1. CollectOK(Name, pieces, 1)
        BY <2>4, <3>1 DEF OnStep, Held
      <4>3. CollectOK(Name, pieces', 2)
        BY <2>1, <3>1, <4>1 DEF OnStep, EvidenceInv, IsPieces, CollectOK, Fields
      <4> QED  BY <3>1, <4>3 DEF OnStep, Held
    <3> QED  BY <2>2, <3>1
  <2> QED  BY <2>1, <2>2, <2>3, <2>5, JudgedInv
<1> QED  BY <1>1, <1>2

(* The registry's tarball is the workflow's. *)
LEMMA normalizeDistRecordInv ==
  ASSUME EvidenceInv, normalizeDistRecord
  PROVE  EvidenceInv'
<1>1. CASE Refuse
  BY <1>1, RefuseInv
<1>2. CASE ~ Refuse
  <2>1. PICK dist \in Digests, tarball \in Digests :
          /\ Judged
          /\ pieces' = [pieces EXCEPT !.dist = dist, !.tarball = tarball]
          /\ dist = tarball
    BY <1>2 DEF normalizeDistRecord, Judge, Judged
  <2>2. At("normalizeDistRecord") /\ (OnStep("collect", 2))
    BY Where DEF normalizeDistRecord, EvidenceInv
  <2>3. IsPieces(pieces')
    BY <2>1 DEF EvidenceInv, IsPieces
  <2>4. pkg <= 2 /\ Held(Name, pieces, step)
    BY <2>2 DEF EvidenceInv, At, PACKAGE_NAMES
  <2>5. Held(Name, pieces', step + 1)
    <3>1. CASE OnStep("collect", 2)
      <4>1. CollectOK(Name, pieces, 2)
        BY <2>4, <3>1 DEF OnStep, Held
      <4>3. CollectOK(Name, pieces', 3)
        BY <2>1, <3>1, <4>1 DEF OnStep, EvidenceInv, IsPieces, CollectOK, Fields
      <4> QED  BY <3>1, <4>3 DEF OnStep, Held
    <3> QED  BY <2>2, <3>1
  <2> QED  BY <2>1, <2>2, <2>3, <2>5, JudgedInv
<1> QED  BY <1>1, <1>2

(* One log carries both entries. *)
LEMMA transparencyLogEvidenceInv ==
  ASSUME EvidenceInv, transparencyLogEvidence
  PROVE  EvidenceInv'
<1>1. CASE Refuse
  BY <1>1, RefuseInv
<1>2. CASE ~ Refuse
  <2>1. PICK publishTime \in Instants :
          /\ Judged
          /\ pieces' = [pieces EXCEPT !.trustLog = pieces.log, !.publishTime = publishTime]
    BY <1>2 DEF transparencyLogEvidence, Judge, Judged
  <2>2. At("transparencyLogEvidence") /\ (OnStep("collect", 3))
    BY Where DEF transparencyLogEvidence, EvidenceInv
  <2>3. IsPieces(pieces')
    BY <2>1 DEF EvidenceInv, IsPieces
  <2>4. pkg <= 2 /\ Held(Name, pieces, step)
    BY <2>2 DEF EvidenceInv, At, PACKAGE_NAMES
  <2>5. Held(Name, pieces', step + 1)
    <3>1. CASE OnStep("collect", 3)
      <4>1. CollectOK(Name, pieces, 3)
        BY <2>4, <3>1 DEF OnStep, Held
      <4>3. CollectOK(Name, pieces', 4)
        BY <2>1, <3>1, <4>1 DEF OnStep, EvidenceInv, IsPieces, CollectOK, Fields
      <4> QED  BY <3>1, <4>3 DEF OnStep, Held
    <3> QED  BY <2>2, <3>1
  <2> QED  BY <2>1, <2>2, <2>3, <2>5, JudgedInv
<1> QED  BY <1>1, <1>2

(* The keys of the two signatures. *)
LEMMA registryKeyEvidenceInv ==
  ASSUME EvidenceInv, registryKeyEvidence
  PROVE  EvidenceInv'
<1>1. CASE Refuse
  BY <1>1, RefuseInv
<1>2. CASE ~ Refuse
  <2>1. PICK key \in Generations, publishKey \in Generations :
          /\ Judged
          /\ pieces' = [pieces EXCEPT !.npmKey = key, !.publishKey = publishKey,
                                        !.boundKeys = {key, publishKey}]
    BY <1>2 DEF registryKeyEvidence, Judge, Judged
  <2>2. At("registryKeyEvidence") /\ (OnStep("collect", 4))
    BY Where DEF registryKeyEvidence, EvidenceInv
  <2>3. IsPieces(pieces')
    BY <2>1 DEF EvidenceInv, IsPieces
  <2>4. pkg <= 2 /\ Held(Name, pieces, step)
    BY <2>2 DEF EvidenceInv, At, PACKAGE_NAMES
  <2>5. Held(Name, pieces', step + 1)
    <3>1. CASE OnStep("collect", 4)
      <4>1. CollectOK(Name, pieces, 4)
        BY <2>4, <3>1 DEF OnStep, Held
      <4>3. CollectOK(Name, pieces', 5)
        BY <2>1, <3>1, <4>1 DEF OnStep, EvidenceInv, IsPieces, CollectOK, Fields
      <4> QED  BY <3>1, <4>3 DEF OnStep, Held
    <3> QED  BY <2>2, <3>1
  <2> QED  BY <2>1, <2>2, <2>3, <2>5, JudgedInv
<1> QED  BY <1>1, <1>2

(* The authority that issued the certificate. *)
LEMMA certificateChainEvidenceInv ==
  ASSUME EvidenceInv, certificateChainEvidence
  PROVE  EvidenceInv'
<1>1. CASE Refuse
  BY <1>1, RefuseInv
<1>2. CASE ~ Refuse
  <2>1. PICK root \in Generations :
          /\ Judged
          /\ pieces' = [pieces EXCEPT !.authority = root]
    BY <1>2 DEF certificateChainEvidence, Judge, Judged
  <2>2. At("certificateChainEvidence") /\ (OnStep("collect", 5))
    BY Where DEF certificateChainEvidence, EvidenceInv
  <2>3. IsPieces(pieces')
    BY <2>1 DEF EvidenceInv, IsPieces
  <2>4. pkg <= 2 /\ Held(Name, pieces, step)
    BY <2>2 DEF EvidenceInv, At, PACKAGE_NAMES
  <2>5. Held(Name, pieces', step + 1)
    <3>1. CASE OnStep("collect", 5)
      <4>1. CollectOK(Name, pieces, 5)
        BY <2>4, <3>1 DEF OnStep, Held
      <4>3. CollectOK(Name, pieces', 6)
        BY <2>1, <3>1, <4>1 DEF OnStep, EvidenceInv, IsPieces, CollectOK, Fields
      <4> QED  BY <3>1, <4>3 DEF OnStep, Held
    <3> QED  BY <2>2, <3>1
  <2> QED  BY <2>1, <2>2, <2>3, <2>5, JudgedInv
<1> QED  BY <1>1, <1>2

(* The audit's row is of the package. *)
LEMMA requireAuditRowInv ==
  ASSUME EvidenceInv, requireAuditRow
  PROVE  EvidenceInv'
<1>1. CASE Refuse
  BY <1>1, RefuseInv
<1>2. CASE ~ Refuse
  <2>1. PICK row \in Packages :
          /\ Judged
          /\ pieces' = [pieces EXCEPT !.row = row]
          /\ row = Name
    BY <1>2 DEF requireAuditRow, Judge, Judged
  <2>2. At("requireAuditRow") /\ (OnStep("build", 1))
    BY Where DEF requireAuditRow, EvidenceInv
  <2>3. IsPieces(pieces')
    BY <2>1 DEF EvidenceInv, IsPieces
  <2>4. pkg <= 2 /\ Held(Name, pieces, step)
    BY <2>2 DEF EvidenceInv, At, PACKAGE_NAMES
  <2>5. Held(Name, pieces', step + 1)
    <3>1. CASE OnStep("build", 1)
      <4>1. BuildOK(Name, pieces, 1)
        BY <2>4, <3>1 DEF OnStep, Held
      <4>3. BuildOK(Name, pieces', 2)
        BY <2>1, <3>1, <4>1 DEF OnStep, EvidenceInv, IsPieces, BuildOK, Fields
      <4> QED  BY <3>1, <4>3 DEF OnStep, Held
    <3> QED  BY <2>2, <3>1
  <2> QED  BY <2>1, <2>2, <2>3, <2>5, JudgedInv
<1> QED  BY <1>1, <1>2

(* The registry, the lock and the workflow name one tarball. *)
LEMMA requireOneIntegrityInv ==
  ASSUME EvidenceInv, requireOneIntegrity
  PROVE  EvidenceInv'
<1>1. CASE Refuse
  BY <1>1, RefuseInv
<1>2. CASE ~ Refuse
  <2>1. PICK dist \in Digests, lock \in Digests, tarball \in Digests :
          /\ Judged
          /\ pieces' = [pieces EXCEPT !.dist = dist, !.lock = lock, !.tarball = tarball]
          /\ dist = lock
          /\ tarball = dist
    BY <1>2 DEF requireOneIntegrity, Judge, Judged
  <2>2. At("requireOneIntegrity") /\ (OnStep("build", 2))
    BY Where DEF requireOneIntegrity, EvidenceInv
  <2>3. IsPieces(pieces')
    BY <2>1 DEF EvidenceInv, IsPieces
  <2>4. pkg <= 2 /\ Held(Name, pieces, step)
    BY <2>2 DEF EvidenceInv, At, PACKAGE_NAMES
  <2>5. Held(Name, pieces', step + 1)
    <3>1. CASE OnStep("build", 2)
      <4>1. BuildOK(Name, pieces, 2)
        BY <2>4, <3>1 DEF OnStep, Held
      <4>3. BuildOK(Name, pieces', 3)
        BY <2>1, <3>1, <4>1 DEF OnStep, EvidenceInv, IsPieces, BuildOK, Fields
      <4> QED  BY <3>1, <4>3 DEF OnStep, Held
    <3> QED  BY <2>2, <3>1
  <2> QED  BY <2>1, <2>2, <2>3, <2>5, JudgedInv
<1> QED  BY <1>1, <1>2

(* The tarball of an evidence file is that of its integrity. *)
LEMMA requireNormalizedTarballInv ==
  ASSUME EvidenceInv, requireNormalizedTarball
  PROVE  EvidenceInv'
<1>1. CASE Refuse
  BY <1>1, RefuseInv
<1>2. CASE ~ Refuse
  <2>1. PICK row \in Packages, dist \in Digests, tarball \in Digests, subject \in Digests,
          attempt \in {AttemptOf[b] : b \in Builds} :
          /\ Judged
          /\ pieces' = [pieces EXCEPT !.row = row, !.dist = dist, !.tarball = tarball,
                                   !.subject = subject, !.attempt = attempt]
          /\ row = Name
          /\ tarball = dist
    BY <1>2 DEF requireNormalizedTarball, Judge, Judged
  <2>2. At("requireNormalizedTarball") /\ (OnStep("normalize", 1))
    BY Where DEF requireNormalizedTarball, EvidenceInv
  <2>3. IsPieces(pieces')
    BY <2>1 DEF EvidenceInv, IsPieces
  <2>4. pkg <= 2 /\ Held(Name, pieces, step)
    BY <2>2 DEF EvidenceInv, At, PACKAGE_NAMES
  <2>5. Held(Name, pieces', step + 1)
    <3>1. CASE OnStep("normalize", 1)
      <4>1. NormalizeOK(Name, pieces, 1)
        BY <2>4, <3>1 DEF OnStep, Held
      <4>3. NormalizeOK(Name, pieces', 2)
        BY <2>1, <3>1, <4>1 DEF OnStep, EvidenceInv, IsPieces, NormalizeOK, Fields
      <4> QED  BY <3>1, <4>3 DEF OnStep, Held
    <3> QED  BY <2>2, <3>1
  <2> QED  BY <2>1, <2>2, <2>3, <2>5, JudgedInv
<1> QED  BY <1>1, <1>2

(* The registry signed this tarball. *)
LEMMA normalizeRegistrySignaturesInv ==
  ASSUME EvidenceInv, normalizeRegistrySignatures
  PROVE  EvidenceInv'
<1>1. CASE Refuse
  BY <1>1, RefuseInv
<1>2. CASE ~ Refuse
  <2>1. PICK signed, key, keys :
          /\ Judged
          /\ pieces' = [pieces EXCEPT !.signed = signed, !.npmKey = key, !.boundKeys = keys]
          /\ signed = pieces.dist
    BY <1>2 DEF normalizeRegistrySignatures, Judge, Judged
  <2>2. At("normalizeRegistrySignatures") /\ (OnStep("build", 3) \/ OnStep("normalize", 2))
    BY Where DEF normalizeRegistrySignatures, EvidenceInv
  <2>3. IsPieces(pieces')
    BY <2>1 DEF EvidenceInv, IsPieces
  <2>4. pkg <= 2 /\ Held(Name, pieces, step)
    BY <2>2 DEF EvidenceInv, At, PACKAGE_NAMES
  <2>5. Held(Name, pieces', step + 1)
    <3>1. CASE OnStep("build", 3)
      <4>1. BuildOK(Name, pieces, 3)
        BY <2>4, <3>1 DEF OnStep, Held
      <4>3. BuildOK(Name, pieces', 4)
        BY <2>1, <3>1, <4>1 DEF OnStep, EvidenceInv, IsPieces, BuildOK, Fields
      <4> QED  BY <3>1, <4>3 DEF OnStep, Held
    <3>2. CASE OnStep("normalize", 2)
      <4>1. NormalizeOK(Name, pieces, 2)
        BY <2>4, <3>2 DEF OnStep, Held
      <4>3. NormalizeOK(Name, pieces', 3)
        BY <2>1, <3>2, <4>1 DEF OnStep, EvidenceInv, IsPieces, NormalizeOK, Fields
      <4> QED  BY <3>2, <4>3 DEF OnStep, Held
    <3> QED  BY <2>2, <3>1, <3>2
  <2> QED  BY <2>1, <2>2, <2>3, <2>5, JudgedInv
<1> QED  BY <1>1, <1>2

(* The registry keys are those of the two signatures. *)
LEMMA requireExactlyBoundRegistryKeysInv ==
  ASSUME EvidenceInv, requireExactlyBoundRegistryKeys
  PROVE  EvidenceInv'
<1>1. CASE Refuse
  BY <1>1, RefuseInv
<1>2. CASE ~ Refuse
  <2>1. PICK publishKey :
          /\ Judged
          /\ pieces' = [pieces EXCEPT !.publishKey = publishKey]
          /\ phase = "collect" => publishKey = pieces.publishKey
          /\ pieces.boundKeys = {pieces.npmKey, publishKey}
    BY <1>2 DEF requireExactlyBoundRegistryKeys, Judge, Judged
  <2>2. At("requireExactlyBoundRegistryKeys") /\ (OnStep("collect", 7) \/ OnStep("build", 4))
    BY Where DEF requireExactlyBoundRegistryKeys, EvidenceInv
  <2>3. IsPieces(pieces')
    BY <2>1 DEF EvidenceInv, IsPieces
  <2>4. pkg <= 2 /\ Held(Name, pieces, step)
    BY <2>2 DEF EvidenceInv, At, PACKAGE_NAMES
  <2>5. Held(Name, pieces', step + 1)
    <3>1. CASE OnStep("collect", 7)
      <4>1. CollectOK(Name, pieces, 7)
        BY <2>4, <3>1 DEF OnStep, Held
      <4>3. CollectOK(Name, pieces', 8)
        BY <2>1, <3>1, <4>1
           DEF OnStep, EvidenceInv, IsPieces, CollectOK, Fields, Entitled,
               PublishEntitled
      <4> QED  BY <3>1, <4>3 DEF OnStep, Held
    <3>2. CASE OnStep("build", 4)
      <4>1. BuildOK(Name, pieces, 4)
        BY <2>4, <3>2 DEF OnStep, Held
      <4>3. BuildOK(Name, pieces', 5)
        BY <2>1, <3>2, <4>1 DEF OnStep, EvidenceInv, IsPieces, BuildOK, Fields
      <4> QED  BY <3>2, <4>3 DEF OnStep, Held
    <3> QED  BY <2>2, <3>1, <3>2
  <2> QED  BY <2>1, <2>2, <2>3, <2>5, JudgedInv
<1> QED  BY <1>1, <1>2

(* The log's body is that of one signing. *)
LEMMA verifyTlogBodyInv ==
  ASSUME EvidenceInv, verifyTlogBody
  PROVE  EvidenceInv'
<1>1. CASE Refuse
  BY <1>1, RefuseInv
<1>2. CASE ~ Refuse
  <2>0. PICK payload \in Origins, signature \in Origins, leaf \in Origins, body \in Origins,
          time \in EntryTimes, log \in Generations, trustLog \in TrustedLogs :
          Judge([pieces EXCEPT !.payload = payload, !.signature = signature, !.leaf = leaf,
                                   !.body = body, !.time = time, !.log = log,
                                   !.trustLog = trustLog],
                /\ log = trustLog
                /\ body = payload
                /\ body = signature
                /\ body = leaf)
    BY DEF verifyTlogBody
  <2>1. /\ Judged
        /\ pieces' = [pieces EXCEPT !.payload = payload, !.signature = signature, !.leaf = leaf,
                                 !.body = body, !.time = time, !.log = log,
                                 !.trustLog = trustLog]
        /\ log = trustLog
        /\ body = payload
        /\ body = signature
        /\ body = leaf
    BY <1>2, <2>0 DEF Judge, Judged
  <2>2. At("verifyTlogBody") /\ (OnStep("build", 5) \/ OnStep("normalize", 4))
    BY Where DEF verifyTlogBody, EvidenceInv
  <2>3. IsPieces(pieces')
    BY <2>1 DEF EvidenceInv, IsPieces
  <2>4. pkg <= 2 /\ Held(Name, pieces, step)
    BY <2>2 DEF EvidenceInv, At, PACKAGE_NAMES
  <2>5. Held(Name, pieces', step + 1)
    <3>1. CASE OnStep("build", 5)
      <4>1. BuildOK(Name, pieces, 5)
        BY <2>4, <3>1 DEF OnStep, Held
      <4>3. BuildOK(Name, pieces', 6)
        BY <2>1, <3>1, <4>1, WorldAssumption
           DEF OnStep, EvidenceInv, IsPieces, BuildOK, Fields, Entitled,
               PublishEntitled, Logged, Stated, EntryTimes, TrustedLogs
      <4> QED  BY <3>1, <4>3 DEF OnStep, Held
    <3>2. CASE OnStep("normalize", 4)
      <4>1. NormalizeOK(Name, pieces, 4)
        BY <2>4, <3>2 DEF OnStep, Held
      <4>3. NormalizeOK(Name, pieces', 5)
        BY <2>1, <3>2, <4>1, WorldAssumption
           DEF OnStep, EvidenceInv, IsPieces, NormalizeOK, Fields, Entitled,
               PublishEntitled, Logged, Stated, EntryTimes, TrustedLogs
      <4> QED  BY <3>2, <4>3 DEF OnStep, Held
    <3> QED  BY <2>2, <3>1, <3>2
  <2> QED  BY <2>1, <2>2, <2>3, <2>5, JudgedInv
<1> QED  BY <1>1, <1>2

(* The log promised this body. *)
LEMMA verifyInclusionPromiseInv ==
  ASSUME EvidenceInv, verifyInclusionPromise
  PROVE  EvidenceInv'
<1>1. CASE Refuse
  BY <1>1, RefuseInv
<1>2. CASE ~ Refuse
  <2>1. PICK promise \in Origins :
          /\ Judged
          /\ pieces' = [pieces EXCEPT !.promise = promise]
          /\ promise = pieces.body
    BY <1>2 DEF verifyInclusionPromise, Judge, Judged
  <2>2. At("verifyInclusionPromise") /\ (OnStep("build", 6) \/ OnStep("normalize", 5))
    BY Where DEF verifyInclusionPromise, EvidenceInv
  <2>3. IsPieces(pieces')
    BY <2>1 DEF EvidenceInv, IsPieces
  <2>4. pkg <= 2 /\ Held(Name, pieces, step)
    BY <2>2 DEF EvidenceInv, At, PACKAGE_NAMES
  <2>5. Held(Name, pieces', step + 1)
    <3>1. CASE OnStep("build", 6)
      <4>1. BuildOK(Name, pieces, 6)
        BY <2>4, <3>1 DEF OnStep, Held
      <4>3. BuildOK(Name, pieces', 7)
        BY <2>1, <3>1, <4>1
           DEF OnStep, EvidenceInv, IsPieces, BuildOK, Fields, Entitled,
               PublishEntitled, Logged, Stated
      <4> QED  BY <3>1, <4>3 DEF OnStep, Held
    <3>2. CASE OnStep("normalize", 5)
      <4>1. NormalizeOK(Name, pieces, 5)
        BY <2>4, <3>2 DEF OnStep, Held
      <4>3. NormalizeOK(Name, pieces', 6)
        BY <2>1, <3>2, <4>1
           DEF OnStep, EvidenceInv, IsPieces, NormalizeOK, Fields, Entitled,
               PublishEntitled, Logged, Stated
      <4> QED  BY <3>2, <4>3 DEF OnStep, Held
    <3> QED  BY <2>2, <3>1, <3>2
  <2> QED  BY <2>1, <2>2, <2>3, <2>5, JudgedInv
<1> QED  BY <1>1, <1>2

(* The proof is of this body. *)
LEMMA verifyMerkleProofInv ==
  ASSUME EvidenceInv, verifyMerkleProof
  PROVE  EvidenceInv'
<1>1. CASE Refuse
  BY <1>1, RefuseInv
<1>2. CASE ~ Refuse
  <2>1. PICK proof \in Origins :
          /\ Judged
          /\ pieces' = [pieces EXCEPT !.proof = proof]
          /\ proof = pieces.body
    BY <1>2 DEF verifyMerkleProof, Judge, Judged
  <2>2. At("verifyMerkleProof") /\ (OnStep("build", 7) \/ OnStep("normalize", 6))
    BY Where DEF verifyMerkleProof, EvidenceInv
  <2>3. IsPieces(pieces')
    BY <2>1 DEF EvidenceInv, IsPieces
  <2>4. pkg <= 2 /\ Held(Name, pieces, step)
    BY <2>2 DEF EvidenceInv, At, PACKAGE_NAMES
  <2>5. Held(Name, pieces', step + 1)
    <3>1. CASE OnStep("build", 7)
      <4>1. BuildOK(Name, pieces, 7)
        BY <2>4, <3>1 DEF OnStep, Held
      <4>3. BuildOK(Name, pieces', 8)
        BY <2>1, <3>1, <4>1
           DEF OnStep, EvidenceInv, IsPieces, BuildOK, Fields, Entitled,
               PublishEntitled, Logged, Stated
      <4> QED  BY <3>1, <4>3 DEF OnStep, Held
    <3>2. CASE OnStep("normalize", 6)
      <4>1. NormalizeOK(Name, pieces, 6)
        BY <2>4, <3>2 DEF OnStep, Held
      <4>3. NormalizeOK(Name, pieces', 7)
        BY <2>1, <3>2, <4>1
           DEF OnStep, EvidenceInv, IsPieces, NormalizeOK, Fields, Entitled,
               PublishEntitled, Logged, Stated
      <4> QED  BY <3>2, <4>3 DEF OnStep, Held
    <3> QED  BY <2>2, <3>1, <3>2
  <2> QED  BY <2>1, <2>2, <2>3, <2>5, JudgedInv
<1> QED  BY <1>1, <1>2

(* The certificate is the frozen workflow's. *)
LEMMA verifyFulcioCertificateIdentityInv ==
  ASSUME EvidenceInv, verifyFulcioCertificateIdentity
  PROVE  EvidenceInv'
<1>1. CASE Refuse
  BY <1>1, RefuseInv
<1>2. CASE ~ Refuse
  <2>1. /\ Judged
        /\ pieces' = pieces
    BY <1>2 DEF verifyFulcioCertificateIdentity, Judge, Judged
  <2>2. At("verifyFulcioCertificateIdentity") /\ (OnStep("build", 8) \/ OnStep("normalize", 7))
    BY Where DEF verifyFulcioCertificateIdentity, EvidenceInv
  <2>3. IsPieces(pieces')
    BY <2>1 DEF EvidenceInv, IsPieces
  <2>4. pkg <= 2 /\ Held(Name, pieces, step)
    BY <2>2 DEF EvidenceInv, At, PACKAGE_NAMES
  <2>5. Held(Name, pieces', step + 1)
    <3>1. CASE OnStep("build", 8)
      <4>1. BuildOK(Name, pieces, 8)
        BY <2>4, <3>1 DEF OnStep, Held
      <4>3. BuildOK(Name, pieces', 9)
        BY <2>1, <3>1, <4>1
           DEF OnStep, EvidenceInv, IsPieces, BuildOK, Fields, Entitled,
               PublishEntitled, Logged, Stated
      <4> QED  BY <3>1, <4>3 DEF OnStep, Held
    <3>2. CASE OnStep("normalize", 7)
      <4>1. NormalizeOK(Name, pieces, 7)
        BY <2>4, <3>2 DEF OnStep, Held
      <4>3. NormalizeOK(Name, pieces', 8)
        BY <2>1, <3>2, <4>1
           DEF OnStep, EvidenceInv, IsPieces, NormalizeOK, Fields, Entitled,
               PublishEntitled, Logged, Stated
      <4> QED  BY <3>2, <4>3 DEF OnStep, Held
    <3> QED  BY <2>2, <3>1, <3>2
  <2> QED  BY <2>1, <2>2, <2>3, <2>5, JudgedInv
<1> QED  BY <1>1, <1>2

(* The certificate was valid when the entry was logged. *)
LEMMA verifyCertificateChainInv ==
  ASSUME EvidenceInv, verifyCertificateChain
  PROVE  EvidenceInv'
<1>1. CASE Refuse
  BY <1>1, RefuseInv
<1>2. CASE ~ Refuse
  <2>1. PICK root \in IF pieces.authority = None THEN Generations ELSE {pieces.authority} :
          /\ Judged
          /\ pieces' = [pieces EXCEPT !.authority = root]
          /\ pieces.time = BuiltAt[pieces.leaf[1]]
    BY <1>2 DEF verifyCertificateChain, Judge, Judged
  <2>2. At("verifyCertificateChain") /\ (OnStep("build", 9) \/ OnStep("normalize", 8))
    BY Where DEF verifyCertificateChain, EvidenceInv
  <2>3. IsPieces(pieces')
    BY <2>1 DEF EvidenceInv, IsPieces
  <2>4. pkg <= 2 /\ Held(Name, pieces, step)
    BY <2>2 DEF EvidenceInv, At, PACKAGE_NAMES
  <2>5. Held(Name, pieces', step + 1)
    <3>1. CASE OnStep("build", 9)
      <4>1. BuildOK(Name, pieces, 9)
        BY <2>4, <3>1 DEF OnStep, Held
      <4>3. BuildOK(Name, pieces', 10)
        BY <2>1, <3>1, <4>1
           DEF OnStep, EvidenceInv, IsPieces, BuildOK, Fields, Entitled,
               PublishEntitled, Logged, Stated
      <4> QED  BY <3>1, <4>3 DEF OnStep, Held
    <3>2. CASE OnStep("normalize", 8)
      <4>1. NormalizeOK(Name, pieces, 8)
        BY <2>4, <3>2 DEF OnStep, Held
      <4>3. NormalizeOK(Name, pieces', 9)
        BY <2>1, <3>2, <4>1
           DEF OnStep, EvidenceInv, IsPieces, NormalizeOK, Fields, Entitled,
               PublishEntitled, Logged, Stated
      <4> QED  BY <3>2, <4>3 DEF OnStep, Held
    <3> QED  BY <2>2, <3>1, <3>2
  <2> QED  BY <2>1, <2>2, <2>3, <2>5, JudgedInv
<1> QED  BY <1>1, <1>2

(* The certificate's key made the signature. *)
LEMMA verifyDsseInv ==
  ASSUME EvidenceInv, verifyDsse
  PROVE  EvidenceInv'
<1>1. CASE Refuse
  BY <1>1, RefuseInv
<1>2. CASE ~ Refuse
  <2>1. /\ Judged
        /\ pieces' = pieces
    BY <1>2 DEF verifyDsse, Judge, Judged
  <2>2. At("verifyDsse") /\ (OnStep("build", 10) \/ OnStep("normalize", 9))
    BY Where DEF verifyDsse, EvidenceInv
  <2>3. IsPieces(pieces')
    BY <2>1 DEF EvidenceInv, IsPieces
  <2>4. pkg <= 2 /\ Held(Name, pieces, step)
    BY <2>2 DEF EvidenceInv, At, PACKAGE_NAMES
  <2>5. Held(Name, pieces', step + 1)
    <3>1. CASE OnStep("build", 10)
      <4>1. BuildOK(Name, pieces, 10)
        BY <2>4, <3>1 DEF OnStep, Held
      <4>3. BuildOK(Name, pieces', 11)
        BY <2>1, <3>1, <4>1
           DEF OnStep, EvidenceInv, IsPieces, BuildOK, Fields, Entitled,
               PublishEntitled, Logged, Stated
      <4> QED  BY <3>1, <4>3 DEF OnStep, Held
    <3>2. CASE OnStep("normalize", 9)
      <4>1. NormalizeOK(Name, pieces, 9)
        BY <2>4, <3>2 DEF OnStep, Held
      <4>3. NormalizeOK(Name, pieces', 10)
        BY <2>1, <3>2, <4>1
           DEF OnStep, EvidenceInv, IsPieces, NormalizeOK, Fields, Entitled,
               PublishEntitled, Logged, Stated
      <4> QED  BY <3>2, <4>3 DEF OnStep, Held
    <3> QED  BY <2>2, <3>1, <3>2
  <2> QED  BY <2>1, <2>2, <2>3, <2>5, JudgedInv
<1> QED  BY <1>1, <1>2

(* The statement is of this package, commit, run and attempt. *)
LEMMA verifyStatementInv ==
  ASSUME EvidenceInv, verifyStatement
  PROVE  EvidenceInv'
<1>1. CASE Refuse
  BY <1>1, RefuseInv
<1>2. CASE ~ Refuse
  <2>1. PICK attempt \in {AttemptOf[pieces.payload[1]], pieces.attempt} :
          /\ Judged
          /\ pieces' = [pieces EXCEPT !.statement = pieces.payload, !.attempt = attempt]
          /\ pieces.attempt = None => attempt = AttemptOf[pieces.payload[1]]
          /\ pieces.payload[2] = Name
          /\ Digest(pieces.payload) = pieces.dist
          /\ pieces.payload[1] \in Frozen
          /\ CommitOf[pieces.payload[1]] = meta.commit
          /\ RunOf[pieces.payload[1]] = meta.run
          /\ AttemptOf[pieces.payload[1]] \in meta.attempts
    BY <1>2 DEF verifyStatement, Judge, Judged
  <2>2. At("verifyStatement") /\ (OnStep("build", 11) \/ OnStep("normalize", 10))
    BY Where DEF verifyStatement, EvidenceInv
  <2>3. IsPieces(pieces')
    BY <2>1 DEF EvidenceInv, IsPieces
  <2>4. pkg <= 2 /\ Held(Name, pieces, step)
    BY <2>2 DEF EvidenceInv, At, PACKAGE_NAMES
  <2>5. Held(Name, pieces', step + 1)
    <3>1. CASE OnStep("build", 11)
      <4>1. BuildOK(Name, pieces, 11)
        BY <2>4, <3>1 DEF OnStep, Held
      <4>3. BuildOK(Name, pieces', 12)
        BY <2>1, <3>1, <4>1
           DEF OnStep, EvidenceInv, IsPieces, BuildOK, Fields, Entitled,
               PublishEntitled, Logged, Stated
      <4> QED  BY <3>1, <4>3 DEF OnStep, Held
    <3>2. CASE OnStep("normalize", 10)
      <4>1. NormalizeOK(Name, pieces, 10)
        BY <2>4, <3>2 DEF OnStep, Held
      <4>3. NormalizeOK(Name, pieces', 11)
        BY <2>1, <3>2, <4>1
           DEF OnStep, EvidenceInv, IsPieces, NormalizeOK, Fields, Entitled,
               PublishEntitled, Logged, Stated
      <4> QED  BY <3>2, <4>3 DEF OnStep, Held
    <3> QED  BY <2>2, <3>1, <3>2
  <2> QED  BY <2>1, <2>2, <2>3, <2>5, JudgedInv
<1> QED  BY <1>1, <1>2

(* The embedded statement is that of the bundle. *)
LEMMA requireSameBindingInv ==
  ASSUME EvidenceInv, requireSameBinding
  PROVE  EvidenceInv'
<1>1. CASE Refuse
  BY <1>1, RefuseInv
<1>2. CASE ~ Refuse
  <2>1. PICK statement \in Origins :
          /\ Judged
          /\ pieces' = [pieces EXCEPT !.statement = statement]
          /\ statement = pieces.payload
          /\ pieces.attempt = AttemptOf[pieces.payload[1]]
    BY <1>2 DEF requireSameBinding, Judge, Judged
  <2>2. At("requireSameBinding") /\ (OnStep("normalize", 11))
    BY Where DEF requireSameBinding, EvidenceInv
  <2>3. IsPieces(pieces')
    BY <2>1 DEF EvidenceInv, IsPieces
  <2>4. pkg <= 2 /\ Held(Name, pieces, step)
    BY <2>2 DEF EvidenceInv, At, PACKAGE_NAMES
  <2>5. Held(Name, pieces', step + 1)
    <3>1. CASE OnStep("normalize", 11)
      <4>1. NormalizeOK(Name, pieces, 11)
        BY <2>4, <3>1 DEF OnStep, Held
      <4>3. NormalizeOK(Name, pieces', 12)
        BY <2>1, <3>1, <4>1
           DEF OnStep, EvidenceInv, IsPieces, NormalizeOK, Fields, Entitled,
               PublishEntitled, Logged, Stated
      <4> QED  BY <3>1, <4>3 DEF OnStep, Held
    <3> QED  BY <2>2, <3>1
  <2> QED  BY <2>1, <2>2, <2>3, <2>5, JudgedInv
<1> QED  BY <1>1, <1>2

(* The publish entry. *)
LEMMA verifyPublishTransparencyInv ==
  ASSUME EvidenceInv, verifyPublishTransparency
  PROVE  EvidenceInv'
<1>1. CASE Refuse
  BY <1>1, RefuseInv
<1>2. CASE ~ Refuse
  <2>0. PICK body \in Packages \X Digests, published \in Packages \X Digests,
          key \in Generations, log \in Generations,
          time \in IF pieces.publishTime = None THEN Instants
                   ELSE {pieces.publishTime} :
          Judge([pieces EXCEPT !.published = published, !.publishBody = body,
                                   !.publishTime = time],
                /\ log = pieces.trustLog
                /\ body = published
                /\ key = pieces.publishKey)
    BY DEF verifyPublishTransparency
  <2>1. /\ Judged
        /\ pieces' = [pieces EXCEPT !.published = published, !.publishBody = body,
                                 !.publishTime = time]
    BY <1>2, <2>0 DEF Judge, Judged
  <2>2. At("verifyPublishTransparency") /\ (OnStep("collect", 8) \/ OnStep("build", 12))
    BY Where DEF verifyPublishTransparency, EvidenceInv
  <2>3. IsPieces(pieces')
    BY <2>1 DEF EvidenceInv, IsPieces
  <2>4. pkg <= 2 /\ Held(Name, pieces, step)
    BY <2>2 DEF EvidenceInv, At, PACKAGE_NAMES
  <2>5. Held(Name, pieces', step + 1)
    <3>1. CASE OnStep("collect", 8)
      <4>1. CollectOK(Name, pieces, 8)
        BY <2>4, <3>1 DEF OnStep, Held
      <4>3. CollectOK(Name, pieces', 9)
        BY <2>1, <3>1, <4>1
           DEF OnStep, EvidenceInv, IsPieces, CollectOK, Fields, Entitled,
               PublishEntitled, Logged, Stated
      <4> QED  BY <3>1, <4>3 DEF OnStep, Held
    <3>2. CASE OnStep("build", 12)
      <4>1. BuildOK(Name, pieces, 12)
        BY <2>4, <3>2 DEF OnStep, Held
      <4>3. BuildOK(Name, pieces', 13)
        BY <2>1, <3>2, <4>1
           DEF OnStep, EvidenceInv, IsPieces, BuildOK, Fields, Entitled,
               PublishEntitled, Logged, Stated
      <4> QED  BY <3>2, <4>3 DEF OnStep, Held
    <3> QED  BY <2>2, <3>1, <3>2
  <2> QED  BY <2>1, <2>2, <2>3, <2>5, JudgedInv
<1> QED  BY <1>1, <1>2

(* The publish key and the log are authorized. *)
LEMMA requireTrustedPublishMaterialsInv ==
  ASSUME EvidenceInv, requireTrustedPublishMaterials
  PROVE  EvidenceInv'
<1>1. CASE Refuse
  BY <1>1, RefuseInv
<1>2. CASE ~ Refuse
  <2>1. /\ Judged
        /\ pieces' = pieces
        /\ requireAuthorizedNpmKey(policy, "npm:attestations", pieces.publishKey,
                                    pieces.publishTime)
        /\ requireAuthorizedTransparencyLog(policy, pieces.trustLog, pieces.publishTime)
    BY <1>2 DEF requireTrustedPublishMaterials, Judge, Judged
  <2>2. At("requireTrustedPublishMaterials") /\ (OnStep("collect", 9) \/ OnStep("build", 13))
    BY Where DEF requireTrustedPublishMaterials, EvidenceInv
  <2>3. IsPieces(pieces')
    BY <2>1 DEF EvidenceInv, IsPieces
  <2>4. pkg <= 2 /\ Held(Name, pieces, step)
    BY <2>2 DEF EvidenceInv, At, PACKAGE_NAMES
  <2>5. Held(Name, pieces', step + 1)
    <3>1. CASE OnStep("collect", 9)
      <4>1. CollectOK(Name, pieces, 9)
        BY <2>4, <3>1 DEF OnStep, Held
      <4>2. policy.npm["npm:attestations"] = {pieces.publishKey}
        <5>1. policy \in Policies /\ validateProvenanceTrustPolicy(policy)
          BY <3>1 DEF EvidenceInv, OnStep, Phases
        <5> QED  BY ONLY <2>1, <5>1, OneKey DEF requireAuthorizedNpmKey, Usages
      <4>3. CollectOK(Name, pieces', 10)
        BY <2>1, <3>1, <4>1, <4>2
           DEF OnStep, EvidenceInv, IsPieces, CollectOK, Fields, Entitled,
               PublishEntitled, Logged, Stated, requireAuthorizedNpmKey,
               requireAuthorizedTransparencyLog
      <4> QED  BY <3>1, <4>3 DEF OnStep, Held
    <3>2. CASE OnStep("build", 13)
      <4>1. BuildOK(Name, pieces, 13)
        BY <2>4, <3>2 DEF OnStep, Held
      <4>2. policy.npm["npm:attestations"] = {pieces.publishKey}
        <5>1. policy \in Policies /\ validateProvenanceTrustPolicy(policy)
          BY <3>2 DEF EvidenceInv, OnStep, Phases
        <5> QED  BY ONLY <2>1, <5>1, OneKey DEF requireAuthorizedNpmKey, Usages
      <4>3. BuildOK(Name, pieces', 14)
        BY <2>1, <3>2, <4>1, <4>2
           DEF OnStep, EvidenceInv, IsPieces, BuildOK, Fields, Entitled,
               PublishEntitled, Logged, Stated, requireAuthorizedNpmKey,
               requireAuthorizedTransparencyLog
      <4> QED  BY <3>2, <4>3 DEF OnStep, Held
    <3> QED  BY <2>2, <3>1, <3>2
  <2> QED  BY <2>1, <2>2, <2>3, <2>5, JudgedInv
<1> QED  BY <1>1, <1>2

(* npm's statement names this package and tarball. *)
LEMMA verifyPublishStatementInv ==
  ASSUME EvidenceInv, verifyPublishStatement
  PROVE  EvidenceInv'
<1>1. CASE Refuse
  BY <1>1, RefuseInv
<1>2. CASE ~ Refuse
  <2>1. /\ Judged
        /\ pieces' = pieces
        /\ pieces.published = <<Name, pieces.dist>>
    BY <1>2 DEF verifyPublishStatement, Judge, Judged
  <2>2. At("verifyPublishStatement") /\ (OnStep("collect", 10) \/ OnStep("build", 14))
    BY Where DEF verifyPublishStatement, EvidenceInv
  <2>3. IsPieces(pieces')
    BY <2>1 DEF EvidenceInv, IsPieces
  <2>4. pkg <= 2 /\ Held(Name, pieces, step)
    BY <2>2 DEF EvidenceInv, At, PACKAGE_NAMES
  <2>5. Held(Name, pieces', step + 1)
    <3>1. CASE OnStep("collect", 10)
      <4>1. CollectOK(Name, pieces, 10)
        BY <2>4, <3>1 DEF OnStep, Held
      <4>3. CollectOK(Name, pieces', 11)
        BY <2>1, <3>1, <4>1
           DEF OnStep, EvidenceInv, IsPieces, CollectOK, Fields, Entitled,
               PublishEntitled, Logged, Stated
      <4> QED  BY <3>1, <4>3 DEF OnStep, Held
    <3>2. CASE OnStep("build", 14)
      <4>1. BuildOK(Name, pieces, 14)
        BY <2>4, <3>2 DEF OnStep, Held
      <4>3. BuildOK(Name, pieces', 15)
        BY <2>1, <3>2, <4>1
           DEF OnStep, EvidenceInv, IsPieces, BuildOK, Fields, Entitled,
               PublishEntitled, Logged, Stated
      <4> QED  BY <3>2, <4>3 DEF OnStep, Held
    <3> QED  BY <2>2, <3>1, <3>2
  <2> QED  BY <2>1, <2>2, <2>3, <2>5, JudgedInv
<1> QED  BY <1>1, <1>2

(* The key, the authority and the log are authorized. *)
LEMMA requireTrustedPackageMaterialsInv ==
  ASSUME EvidenceInv, requireTrustedPackageMaterials
  PROVE  EvidenceInv'
<1>1. CASE Refuse
  BY <1>1, RefuseInv
<1>2. CASE ~ Refuse
  <2>1. PICK time \in EntryTimes, trustLog \in TrustedLogs,
          root \in IF pieces.authority = None THEN Generations ELSE {pieces.authority} :
          /\ Judged
          /\ pieces' = [pieces EXCEPT !.time = time, !.trustLog = trustLog, !.authority = root]
          /\ requireAuthorizedNpmKey(policy, "npm:signatures", pieces.npmKey, time)
          /\ requireAuthorizedAuthority(policy, root, time)
          /\ requireAuthorizedTransparencyLog(policy, trustLog, time)
    BY <1>2 DEF requireTrustedPackageMaterials, Judge, Judged
  <2>2. /\ At("requireTrustedPackageMaterials")
        /\ OnStep("collect", 6) \/ OnStep("build", 15) \/ OnStep("normalize", 3)
    BY Where DEF requireTrustedPackageMaterials, EvidenceInv
  <2>3. IsPieces(pieces')
    BY <2>1 DEF EvidenceInv, IsPieces
  <2>4. pkg <= 2 /\ Held(Name, pieces, step)
    BY <2>2 DEF EvidenceInv, At, PACKAGE_NAMES
  <2>5. Held(Name, pieces', step + 1)
    <3>1. CASE OnStep("collect", 6)
      <4>1. CollectOK(Name, pieces, 6)
        BY <2>4, <3>1 DEF OnStep, Held
      <4>2. policy.npm["npm:signatures"] = {pieces.npmKey}
        <5>1. policy \in Policies /\ validateProvenanceTrustPolicy(policy)
          BY <3>1 DEF EvidenceInv, OnStep, Phases
        <5> QED  BY ONLY <2>1, <5>1, OneKey DEF requireAuthorizedNpmKey, Usages
      <4>3. CollectOK(Name, pieces', 7)
        BY <2>1, <3>1, <4>1, <4>2, WorldAssumption
           DEF OnStep, EvidenceInv, IsPieces, CollectOK, Fields, Entitled,
               PublishEntitled, Logged, Stated, requireAuthorizedNpmKey,
               requireAuthorizedTransparencyLog, requireAuthorizedAuthority, EntryTimes,
               TrustedLogs
      <4> QED  BY <3>1, <4>3 DEF OnStep, Held
    <3>2. CASE OnStep("build", 15)
      <4>1. BuildOK(Name, pieces, 15)
        BY <2>4, <3>2 DEF OnStep, Held
      <4>2. policy.npm["npm:signatures"] = {pieces.npmKey}
        <5>1. policy \in Policies /\ validateProvenanceTrustPolicy(policy)
          BY <3>2 DEF EvidenceInv, OnStep, Phases
        <5> QED  BY ONLY <2>1, <5>1, OneKey DEF requireAuthorizedNpmKey, Usages
      <4>3. BuildOK(Name, pieces', 16)
        BY <2>1, <3>2, <4>1, <4>2, WorldAssumption
           DEF OnStep, EvidenceInv, IsPieces, BuildOK, Fields, Entitled,
               PublishEntitled, Logged, Stated, requireAuthorizedNpmKey,
               requireAuthorizedTransparencyLog, requireAuthorizedAuthority, EntryTimes,
               TrustedLogs
      <4> QED  BY <3>2, <4>3 DEF OnStep, Held
    <3>3. CASE OnStep("normalize", 3)
      <4>1. NormalizeOK(Name, pieces, 3)
        BY <2>4, <3>3 DEF OnStep, Held
      <4>2. policy.npm["npm:signatures"] = {pieces.npmKey}
        <5>1. policy \in Policies /\ validateProvenanceTrustPolicy(policy)
          BY <3>3 DEF EvidenceInv, OnStep, Phases
        <5> QED  BY ONLY <2>1, <5>1, OneKey DEF requireAuthorizedNpmKey, Usages
      <4>3. NormalizeOK(Name, pieces', 4)
        BY <2>1, <3>3, <4>1, <4>2, WorldAssumption
           DEF OnStep, EvidenceInv, IsPieces, NormalizeOK, Fields, Entitled,
               PublishEntitled, Logged, Stated, requireAuthorizedNpmKey,
               requireAuthorizedTransparencyLog, requireAuthorizedAuthority, EntryTimes,
               TrustedLogs
      <4> QED  BY <3>3, <4>3 DEF OnStep, Held
    <3> QED  BY <2>2, <3>1, <3>2, <3>3
  <2> QED  BY <2>1, <2>2, <2>3, <2>5, JudgedInv
<1> QED  BY <1>1, <1>2

-----------------------------------------------------------------------------
(* The tools: the policy, the metadata, and a package that went through.   *)
LEMMA StartsEvidenceInv ==
  ASSUME EvidenceInv, NEW t \in Phases, startEvidence(t)
  PROVE  EvidenceInv'
<1>1. CASE Refuse
  BY <1>1, RefuseInv
<1>2. CASE ~ Refuse
  <2>1. /\ phase = "start" /\ phase' = t
        /\ policy' \in Policies /\ validateProvenanceTrustPolicy(policy')
        /\ step' = 1 /\ UNCHANGED <<meta, pkg, pieces, verified>>
    BY <1>2 DEF startEvidence
  <2>2. Untouched /\ Untouched' /\ \A p \in Packages : verified'[p] = Blank
    BY <2>1 DEF EvidenceInv, Untouched, Phases
  <2>3. Held(Name, pieces, step)'
    BY <2>1, <2>2, BlankFresh DEF Untouched
  <2> QED  BY <2>1, <2>2, <2>3 DEF EvidenceInv, validateProvenanceTrustPolicy
<1> QED  BY <1>1, <1>2

(* The run's metadata are read before any package is.                      *)
LEMMA MetadataInv ==
  ASSUME EvidenceInv, requireRunMetadata
  PROVE  EvidenceInv'
<1>1. CASE Refuse
  BY <1>1, RefuseInv
<1>2. CASE ~ Refuse
  <2>1. /\ phase \in {"build", "normalize"} /\ meta = None
        /\ UNCHANGED <<phase, policy, pkg, step, pieces, verified>>
    BY <1>2 DEF requireRunMetadata
  <2>2. Untouched /\ Untouched' /\ \A p \in Packages : verified'[p] = Blank
    BY <2>1 DEF EvidenceInv, Untouched
  <2>3. Held(Name, pieces, step)'
    BY <2>1, <2>2, BlankFresh DEF Untouched
  <2> QED  BY <2>1, <2>2, <2>3 DEF EvidenceInv, validateProvenanceTrustPolicy
<1> QED  BY <1>1, <1>2

(* At the end of its program a package holds all that the program checks.  *)
LEMMA AcceptedInv ==
  ASSUME EvidenceInv, PackageAccepted
  PROVE  EvidenceInv'
<1>1. /\ phase \in Phases /\ pkg \in 1..2 /\ step > Len(Program)
      /\ verified' = [verified EXCEPT ![Name] = pieces]
      /\ pieces' = Blank /\ pkg' = pkg + 1 /\ step' = 1
      /\ UNCHANGED <<phase, policy, meta>>
  BY DEF PackageAccepted, EvidenceInv, Phases, PACKAGE_NAMES
<1>2. Name \in Packages /\ Held(Name, pieces, step)
  BY <1>1 DEF EvidenceInv, Name, Packages, PACKAGE_NAMES
<1>3. Len(Program) = Ended[phase] - 1
  <2>1. CASE phase = "collect"
    BY <2>1, CollectProgram DEF Program, Ended
  <2>2. CASE phase = "build"
    BY <2>2, BuildProgram DEF Program, Ended
  <2>3. CASE phase = "normalize"
    BY <2>3, NormalizeProgram DEF Program, Ended
  <2> QED  BY <1>1, <2>1, <2>2, <2>3 DEF Phases
<1>4. Held(Name, pieces, Ended[phase])
  <2>1. step \in Nat /\ step >= Ended[phase] /\ Ended[phase] \in Nat
    BY <1>1, <1>3 DEF EvidenceInv, Ended, Phases
  <2>2. CASE phase = "collect"
    BY <1>2, <2>1, <2>2 DEF Held, CollectOK, Ended
  <2>3. CASE phase = "build"
    BY <1>2, <2>1, <2>3 DEF Held, BuildOK, Ended
  <2>4. CASE phase = "normalize"
    BY <1>2, <2>1, <2>4 DEF Held, NormalizeOK, Ended
  <2> QED  BY <1>1, <2>2, <2>3, <2>4 DEF Phases
<1>5. \A p \in Packages :
        verified'[p] # Blank => phase' \in Phases /\ Held(p, verified[p], Ended[phase])'
  <2> SUFFICES ASSUME NEW p \in Packages, verified'[p] # Blank
               PROVE  Held(p, verified[p], Ended[phase])'
    BY <1>1
  <2>1. Held(p, verified'[p], Ended[phase])
    <3>1. CASE p = Name
      BY <1>1, <1>4, <3>1 DEF EvidenceInv
    <3>2. CASE p # Name
      BY <1>1, <3>2 DEF EvidenceInv
    <3> QED  BY <3>1, <3>2
  <2>2. phase' = phase
    BY <1>1
  <2>3. /\ phase' = "collect" => CollectOK(p, verified[p], Ended[phase])'
        /\ phase' = "build" => BuildOK(p, verified[p], Ended[phase])'
        /\ phase' = "normalize" => NormalizeOK(p, verified[p], Ended[phase])'
    BY <1>1, <2>1, SMTT(30) DEF Held, CollectOK, BuildOK, NormalizeOK, Entitled, PublishEntitled,
                                Logged, Stated
  <2> QED  BY <2>3 DEF Held
<1>6. (phase \in {"build", "normalize"} => meta # None)'
  <2> SUFFICES ASSUME phase \in {"build", "normalize"}, meta = None
               PROVE  FALSE
    BY <1>1
  <2>1. step = 1
    BY DEF EvidenceInv, Untouched
  <2> QED  BY <1>1, <1>3, <2>1 DEF Ended
<1>7. Held(Name, pieces, step)'
  BY <1>1, BlankFresh
<1>8. IsPieces(pieces)' /\ verified' = [p \in Packages |-> verified'[p]]
  BY <1>1, BlankIsPieces DEF EvidenceInv, IsPieces, Blank
<1>9. /\ phase' \in Phases /\ policy' \in Policies /\ validateProvenanceTrustPolicy(policy)'
       /\ pkg' \in Nat \ {0} /\ step' \in Nat \ {0}
  BY <1>1 DEF EvidenceInv, validateProvenanceTrustPolicy
<1> QED  BY <1>5, <1>6, <1>7, <1>8, <1>9 DEF EvidenceInv, Phases

(* Every step of the three programs preserves the invariant.               *)
LEMMA EvidenceInitInv == EvidenceInit => EvidenceInv
<1> SUFFICES ASSUME EvidenceInit PROVE EvidenceInv
  OBVIOUS
<1>1. Untouched /\ phase = "start" /\ verified = [p \in Packages |-> Blank] /\ pkg = 1
  BY DEF EvidenceInit, Untouched
<1>2. Held(Name, pieces, step) /\ IsPieces(pieces)
  BY <1>1, BlankHeld, BlankIsPieces DEF Untouched
<1> QED  BY <1>1, <1>2 DEF EvidenceInv, Untouched, Phases

LEMMA EvidenceNextInv == EvidenceInv /\ [EvidenceNext]_evidenceVars => EvidenceInv'
<1> SUFFICES ASSUME EvidenceInv, [EvidenceNext]_evidenceVars PROVE EvidenceInv'
  OBVIOUS
<1>1. CASE collectProvenanceInputs \/ buildProvenanceEvidence \/ verifyProvenanceEvidence
  BY <1>1, StartsEvidenceInv DEF collectProvenanceInputs, buildProvenanceEvidence,
                                 verifyProvenanceEvidence, Phases
<1>2. CASE requireRunMetadata
  BY <1>2, MetadataInv
<1>3. CASE PackageAccepted
  BY <1>3, AcceptedInv
<1>4. CASE exactAuditRow \/ normalizeDistRecord \/ transparencyLogEvidence \/
              registryKeyEvidence \/ certificateChainEvidence
  BY <1>4, exactAuditRowInv, normalizeDistRecordInv, transparencyLogEvidenceInv,
     registryKeyEvidenceInv, certificateChainEvidenceInv
<1>5. CASE requireAuditRow \/ requireOneIntegrity \/ requireNormalizedTarball \/
              normalizeRegistrySignatures \/ requireExactlyBoundRegistryKeys
  BY <1>5, requireAuditRowInv, requireOneIntegrityInv, requireNormalizedTarballInv,
     normalizeRegistrySignaturesInv, requireExactlyBoundRegistryKeysInv
<1>6. CASE verifyTlogBody \/ verifyInclusionPromise \/ verifyMerkleProof \/
              verifyFulcioCertificateIdentity \/ verifyCertificateChain \/ verifyDsse \/
              verifyStatement
  BY <1>6, verifyTlogBodyInv, verifyInclusionPromiseInv, verifyMerkleProofInv,
     verifyFulcioCertificateIdentityInv, verifyCertificateChainInv, verifyDsseInv,
     verifyStatementInv
<1>7. CASE requireSameBinding \/ verifyPublishTransparency \/ requireTrustedPublishMaterials
              \/ verifyPublishStatement \/ requireTrustedPackageMaterials
  BY <1>7, requireSameBindingInv, verifyPublishTransparencyInv,
     requireTrustedPublishMaterialsInv, verifyPublishStatementInv,
     requireTrustedPackageMaterialsInv
<1>8. CASE UNCHANGED evidenceVars
  <2> USE <1>8 DEF evidenceVars
  <2>1. Name' = Name
    BY DEF Name
  <2>2. pkg <= 2 => Held(Name, pieces, step)'
    BY <2>1 DEF EvidenceInv, Held, CollectOK, BuildOK, NormalizeOK, Entitled, PublishEntitled,
                Logged, Stated
  <2>3. \A p \in Packages :
          verified'[p] # Blank => phase' \in Phases /\ Held(p, verified[p], Ended[phase])'
    BY SMTT(30) DEF EvidenceInv, Held, CollectOK, BuildOK, NormalizeOK, Entitled,
       PublishEntitled, Logged, Stated
  <2> QED  BY <2>2, <2>3 DEF EvidenceInv, IsPieces, Untouched, validateProvenanceTrustPolicy
<1> QED
  BY <1>1, <1>2, <1>3, <1>4, <1>5, <1>6, <1>7, <1>8 DEF EvidenceNext

(* What every accepted package holds is what the two properties ask.       *)
LEMMA HeldIsSound == EvidenceInv => EvidenceIsSound
<1> SUFFICES ASSUME EvidenceInv, NEW p \in Packages, verified[p] # Blank
             PROVE  /\ phase # "normalize" => EnvelopeHolds(p, verified[p])
                    /\ phase # "collect" => BundleHolds(p, verified[p])
                    /\ phase = "build" => verified[p].lock = verified[p].dist
                    /\ Entitled(verified[p])
                    /\ phase # "collect" => verified[p].time = BuiltAt[verified[p].leaf[1]]
                    /\ phase # "normalize" => /\ PublishEntitled(verified[p])
                                             /\ verified[p].boundKeys =
                                                  {verified[p].npmKey, verified[p].publishKey}
  BY DEF EvidenceIsSound, EvidenceIsOneRelease, VouchedAtTheTime, Accepted, Entitled,
         PublishEntitled
<1> DEFINE v == verified[p]
<1>1. phase \in Phases /\ Held(p, v, Ended[phase])
  BY DEF EvidenceInv
<1> HIDE DEF v
<1>2. ASSUME Logged(v), Stated(p, v), v.promise = v.body, v.proof = v.body,
             v.attempt = AttemptOf[v.payload[1]], v.tarball = v.dist, v.signed = v.dist
      PROVE  BundleHolds(p, v)
  <2> DEFINE b == v.payload[1]
  <2>1. v.payload = <<b, p>>
    BY <1>2 DEF Logged, Stated, Origins
  <2>2. b \in Frozen /\ RunOf[b] = meta.run /\ CommitOf[b] = meta.commit
        /\ AttemptOf[b] \in meta.attempts /\ v.attempt = AttemptOf[b]
    BY <1>2 DEF Stated
  <2>3. {v.payload, v.signature, v.leaf, v.body, v.promise, v.proof, v.statement} = {<<b, p>>}
    BY <1>2, <2>1 DEF Logged, Stated
  <2>4. v.dist = TarballOf[b][p]
    BY <1>2, <2>1 DEF Stated, Digest
  <2>5. {v.dist, v.tarball, v.signed} = {TarballOf[b][p]}
    BY <1>2, <2>4
  <2> QED  BY <2>2, <2>3, <2>5 DEF BundleHolds
<1>3. CASE phase = "collect"
  <2>1. CollectOK(p, v, 11)
    BY <1>1, <1>3 DEF Held, Ended
  <2> QED  BY <1>3, <2>1 DEF CollectOK, EnvelopeHolds, v
<1>4. CASE phase = "build"
  <2>1. BuildOK(p, v, 16)
    BY <1>1, <1>4 DEF Held, Ended
  <2>2. BundleHolds(p, v)
    BY <1>2, <2>1 DEF BuildOK
  <2> QED  BY <1>4, <2>1, <2>2 DEF BuildOK, EnvelopeHolds, v
<1>5. CASE phase = "normalize"
  <2>1. NormalizeOK(p, v, 12)
    BY <1>1, <1>5 DEF Held, Ended
  <2>2. BundleHolds(p, v)
    BY <1>2, <2>1 DEF NormalizeOK
  <2> QED  BY <1>5, <2>1, <2>2 DEF NormalizeOK, v
<1> QED  BY <1>1, <1>3, <1>4, <1>5 DEF Phases

(* Evidence that a release tool accepts is of the commit, the run and one  *)
(* attempt of it; every package's signatures, statement and tarball are of *)
(* one digest; and every key, log and authority was entitled at the time   *)
(* it vouched: for any builds, instants and policies, and whatever         *)
(* evidence is handed in (verify-provenance-evidence.mjs).                 *)
THEOREM ReleaseEvidenceSound == EvidenceSpec => []EvidenceIsSound
BY EvidenceInitInv, EvidenceNextInv, HeldIsSound, PTL DEF EvidenceSpec

(***************************************************************************)
(* The record.                                                             *)
(***************************************************************************)

(* The steps of the three tools, and two of their programs step by step.   *)
RecordSteps ==
  {"requireReleaseTag", "assertPostEvidenceCommit", "validateSourceContracts",
   "readAttestation", "readOrigin", "readReport", "validateGithubArtifactAttestationResult",
   "validateWorkflowArtifactReport", "hashArtifacts", "compareChecksum",
   "assertManifestContracts", "compareCopies", "verifyOriginService", "packPackages",
   "bindEvidence", "packageInput", "verifyEvidenceRecord", "assertCleanStatus"}

(* The steps of the record tools, one by one.                              *)
LEMMA ArtifactsProgram ==
  verifyWorkflowArtifactsDirectory =
    <<"readAttestation", "readOrigin", "readReport",
      "validateGithubArtifactAttestationResult", "validateWorkflowArtifactReport",
      "hashArtifacts", "compareChecksum", "assertManifestContracts", "compareCopies",
      "verifyOriginService">>
<1> DEFINE s == verifyGithubArtifactAttestation
           t == <<"validateWorkflowArtifactReport", "hashArtifacts", "compareChecksum",
                   "assertManifestContracts", "compareCopies", "verifyOriginService">>
           u == <<"readAttestation", "readOrigin", "readReport",
                   "validateGithubArtifactAttestationResult",
                   "validateWorkflowArtifactReport", "hashArtifacts", "compareChecksum",
                   "assertManifestContracts", "compareCopies", "verifyOriginService">>
<1>1. /\ s \in Seq(RecordSteps) /\ t \in Seq(RecordSteps) /\ u \in Seq(RecordSteps)
      /\ Len(s) = 4 /\ Len(t) = 6 /\ Len(u) = 10
  BY DEF RecordSteps, verifyGithubArtifactAttestation
<1>2. /\ \A i \in 1..4 : u[i] = s[i]
      /\ \A i \in 1..6 : u[4 + i] = t[i]
  BY DEF RecordSteps, verifyGithubArtifactAttestation
<1> HIDE DEF s, t, u
<1>3. s \o t = u
  <2>1. Len(u) = Len(s) + Len(t)
    BY ONLY <1>1
  <2>2. \A i \in 1..Len(s) : u[i] = s[i]
    BY ONLY <1>1, <1>2
  <2>3. \A i \in 1..Len(t) : u[Len(s) + i] = t[i]
    BY ONLY <1>1, <1>2
  <2> QED  BY ONLY <1>1, <2>1, <2>2, <2>3, ConcatIs
<1> QED  BY <1>3 DEF s, t, u, verifyWorkflowArtifactsDirectory

LEMMA WriteHead ==
  <<"requireReleaseTag">> \o verifyWorkflowArtifactsDirectory =
    <<"requireReleaseTag", "readAttestation", "readOrigin", "readReport",
      "validateGithubArtifactAttestationResult", "validateWorkflowArtifactReport",
      "hashArtifacts", "compareChecksum", "assertManifestContracts", "compareCopies",
      "verifyOriginService">>
<1> DEFINE s == <<"requireReleaseTag">>
           t == <<"readAttestation", "readOrigin", "readReport",
                   "validateGithubArtifactAttestationResult",
                   "validateWorkflowArtifactReport", "hashArtifacts", "compareChecksum",
                   "assertManifestContracts", "compareCopies", "verifyOriginService">>
           u == <<"requireReleaseTag", "readAttestation", "readOrigin", "readReport",
                   "validateGithubArtifactAttestationResult",
                   "validateWorkflowArtifactReport", "hashArtifacts", "compareChecksum",
                   "assertManifestContracts", "compareCopies", "verifyOriginService">>
<1>1. /\ s \in Seq(RecordSteps) /\ t \in Seq(RecordSteps) /\ u \in Seq(RecordSteps)
      /\ Len(s) = 1 /\ Len(t) = 10 /\ Len(u) = 11
  BY DEF RecordSteps
<1>2. /\ \A i \in 1..1 : u[i] = s[i]
      /\ \A i \in 1..10 : u[1 + i] = t[i]
  BY DEF RecordSteps
<1> HIDE DEF s, t, u
<1>3. s \o t = u
  <2>1. Len(u) = Len(s) + Len(t)
    BY ONLY <1>1
  <2>2. \A i \in 1..Len(s) : u[i] = s[i]
    BY ONLY <1>1, <1>2
  <2>3. \A i \in 1..Len(t) : u[Len(s) + i] = t[i]
    BY ONLY <1>1, <1>2
  <2> QED  BY ONLY <1>1, <2>1, <2>2, <2>3, ConcatIs
<1> QED  BY <1>3, ArtifactsProgram DEF s, t, u

LEMMA WriteProgram ==
  writeReleaseRecord =
    <<"requireReleaseTag", "readAttestation", "readOrigin", "readReport",
      "validateGithubArtifactAttestationResult", "validateWorkflowArtifactReport",
      "hashArtifacts", "compareChecksum", "assertManifestContracts", "compareCopies",
      "verifyOriginService", "bindEvidence", "packageInput", "assertCleanStatus">>
<1> DEFINE s == <<"requireReleaseTag", "readAttestation", "readOrigin", "readReport",
                   "validateGithubArtifactAttestationResult",
                   "validateWorkflowArtifactReport", "hashArtifacts", "compareChecksum",
                   "assertManifestContracts", "compareCopies", "verifyOriginService">>
           t == <<"bindEvidence", "packageInput", "assertCleanStatus">>
           u == <<"requireReleaseTag", "readAttestation", "readOrigin", "readReport",
                   "validateGithubArtifactAttestationResult",
                   "validateWorkflowArtifactReport", "hashArtifacts", "compareChecksum",
                   "assertManifestContracts", "compareCopies", "verifyOriginService",
                   "bindEvidence", "packageInput", "assertCleanStatus">>
<1>1. /\ s \in Seq(RecordSteps) /\ t \in Seq(RecordSteps) /\ u \in Seq(RecordSteps)
      /\ Len(s) = 11 /\ Len(t) = 3 /\ Len(u) = 14
  BY DEF RecordSteps
<1>2. /\ \A i \in 1..11 : u[i] = s[i]
      /\ \A i \in 1..3 : u[11 + i] = t[i]
  BY DEF RecordSteps
<1> HIDE DEF s, t, u
<1>3. s \o t = u
  <2>1. Len(u) = Len(s) + Len(t)
    BY ONLY <1>1
  <2>2. \A i \in 1..Len(s) : u[i] = s[i]
    BY ONLY <1>1, <1>2
  <2>3. \A i \in 1..Len(t) : u[Len(s) + i] = t[i]
    BY ONLY <1>1, <1>2
  <2> QED  BY ONLY <1>1, <2>1, <2>2, <2>3, ConcatIs
<1> QED  BY <1>3, WriteHead DEF s, t, u, writeReleaseRecord

LEMMA VerifyHead ==
  <<"assertPostEvidenceCommit", "validateSourceContracts">>
    \o verifyWorkflowArtifactsDirectory =
    <<"assertPostEvidenceCommit", "validateSourceContracts", "readAttestation",
      "readOrigin", "readReport", "validateGithubArtifactAttestationResult",
      "validateWorkflowArtifactReport", "hashArtifacts", "compareChecksum",
      "assertManifestContracts", "compareCopies", "verifyOriginService">>
<1> DEFINE s == <<"assertPostEvidenceCommit", "validateSourceContracts">>
           t == <<"readAttestation", "readOrigin", "readReport",
                   "validateGithubArtifactAttestationResult",
                   "validateWorkflowArtifactReport", "hashArtifacts", "compareChecksum",
                   "assertManifestContracts", "compareCopies", "verifyOriginService">>
           u == <<"assertPostEvidenceCommit", "validateSourceContracts",
                   "readAttestation", "readOrigin", "readReport",
                   "validateGithubArtifactAttestationResult",
                   "validateWorkflowArtifactReport", "hashArtifacts", "compareChecksum",
                   "assertManifestContracts", "compareCopies", "verifyOriginService">>
<1>1. /\ s \in Seq(RecordSteps) /\ t \in Seq(RecordSteps) /\ u \in Seq(RecordSteps)
      /\ Len(s) = 2 /\ Len(t) = 10 /\ Len(u) = 12
  BY DEF RecordSteps
<1>2. /\ \A i \in 1..2 : u[i] = s[i]
      /\ \A i \in 1..10 : u[2 + i] = t[i]
  BY DEF RecordSteps
<1> HIDE DEF s, t, u
<1>3. s \o t = u
  <2>1. Len(u) = Len(s) + Len(t)
    BY ONLY <1>1
  <2>2. \A i \in 1..Len(s) : u[i] = s[i]
    BY ONLY <1>1, <1>2
  <2>3. \A i \in 1..Len(t) : u[Len(s) + i] = t[i]
    BY ONLY <1>1, <1>2
  <2> QED  BY ONLY <1>1, <2>1, <2>2, <2>3, ConcatIs
<1> QED  BY <1>3, ArtifactsProgram DEF s, t, u

LEMMA VerifyProgram ==
  verifyReleaseArtifacts =
    <<"assertPostEvidenceCommit", "validateSourceContracts", "readAttestation",
      "readOrigin", "readReport", "validateGithubArtifactAttestationResult",
      "validateWorkflowArtifactReport", "hashArtifacts", "compareChecksum",
      "assertManifestContracts", "compareCopies", "verifyOriginService",
      "verifyEvidenceRecord", "assertCleanStatus">>
<1> DEFINE s == <<"assertPostEvidenceCommit", "validateSourceContracts",
                   "readAttestation", "readOrigin", "readReport",
                   "validateGithubArtifactAttestationResult",
                   "validateWorkflowArtifactReport", "hashArtifacts", "compareChecksum",
                   "assertManifestContracts", "compareCopies", "verifyOriginService">>
           t == <<"verifyEvidenceRecord", "assertCleanStatus">>
           u == <<"assertPostEvidenceCommit", "validateSourceContracts",
                   "readAttestation", "readOrigin", "readReport",
                   "validateGithubArtifactAttestationResult",
                   "validateWorkflowArtifactReport", "hashArtifacts", "compareChecksum",
                   "assertManifestContracts", "compareCopies", "verifyOriginService",
                   "verifyEvidenceRecord", "assertCleanStatus">>
<1>1. /\ s \in Seq(RecordSteps) /\ t \in Seq(RecordSteps) /\ u \in Seq(RecordSteps)
      /\ Len(s) = 12 /\ Len(t) = 2 /\ Len(u) = 14
  BY DEF RecordSteps
<1>2. /\ \A i \in 1..12 : u[i] = s[i]
      /\ \A i \in 1..2 : u[12 + i] = t[i]
  BY DEF RecordSteps
<1> HIDE DEF s, t, u
<1>3. s \o t = u
  <2>1. Len(u) = Len(s) + Len(t)
    BY ONLY <1>1
  <2>2. \A i \in 1..Len(s) : u[i] = s[i]
    BY ONLY <1>1, <1>2
  <2>3. \A i \in 1..Len(t) : u[Len(s) + i] = t[i]
    BY ONLY <1>1, <1>2
  <2> QED  BY ONLY <1>1, <2>1, <2>2, <2>3, ConcatIs
<1> QED  BY <1>3, VerifyHead DEF s, t, u, verifyReleaseArtifacts

(* The tools, and the last step of each.                                   *)
Tools == {"write", "artifacts", "packages"}

Last == [t \in Tools |-> IF t = "packages" THEN 5 ELSE 14]

(* A tool is at a step of its program, and keeps files only while it runs. *)
RecordTypeOK ==
  /\ tool \in Tools \cup {"idle", "failed", "done"}
  /\ at \in Nat
  /\ tool \in Tools =>
       /\ at \in 1..Last[tool]
       /\ options \in [run : Runs, attempt : Nat]
  /\ snap \in [Kept -> Builds \cup Evidence \cup {None}]
  /\ tool \notin Tools => snap = Nothing

(* The index after which the artifacts' attestation has been verified. *)
Attested == (tool = "write" /\ at > 5) \/ (tool = "artifacts" /\ at > 6)

(* The report and the origin service are of one build, at the tag's        *)
(* commit, by the attested run and attempt.                                *)
OneAttempt ==
  LET b == snap.report IN
  /\ b \in Frozen
  /\ snap.origin = b
  /\ CommitOf[b] = TagCommit
  /\ RunOf[b] = options.run
  /\ AttemptOf[b] = options.attempt

(* The evidence is of the run and attempt the tool was started with.       *)
Bound ==
  /\ snap.evidence.run = options.run
  /\ snap.evidence.final = options.attempt

(* What a verifier compared with the record it was given agrees with it.   *)
Agreed ==
  /\ record # None
  /\ snap.evidence = record.evidence
  /\ \A p \in Packages : TarballOf[Local][p] = record.digest[p]
  /\ tool = "artifacts" => snap.origin = record.origin

(* The inductive invariant: what each tool has established of the files it *)
(* keeps, by the step it has reached.                                      *)
RecordInv ==
  /\ RecordTypeOK
  /\ Attested => OneAttempt
  /\ tool = "write" /\ at > 12 => Bound
  /\ tool = "packages" => snap.origin = None
  /\ tool \in {"artifacts", "packages"} /\ at = Last[tool] => Agreed
  /\ RecordIsSound

-----------------------------------------------------------------------------
(* Where a function stands in the programs. *)
LEMMA WhereInRecord ==
  ASSUME RecordTypeOK
  PROVE  /\ Doing("requireReleaseTag") => tool = "write" /\ at = 1
         /\ Doing("assertPostEvidenceCommit") => tool \in {"artifacts", "packages"} /\ at = 1
         /\ Doing("validateSourceContracts") => tool \in {"artifacts", "packages"} /\ at = 2
         /\ Doing("packPackages") => tool = "packages" /\ at = 3
         /\ Doing("bindEvidence") => tool = "write" /\ at = 12
         /\ Doing("packageInput") => tool = "write" /\ at = 13
         /\ Doing("verifyEvidenceRecord") =>
              \/ tool = "artifacts" /\ at = 13
              \/ tool = "packages" /\ at = 4
         /\ Doing("assertCleanStatus") => tool \in Tools /\ at = Last[tool]
BY WriteProgram, VerifyProgram
   DEF Doing, RecordProgram, RecordTypeOK, Tools, Last, verifyReleasePackages

LEMMA WhereInArtifacts ==
  ASSUME RecordTypeOK, NEW f \in
     {"readAttestation", "readOrigin", "readReport",
      "validateGithubArtifactAttestationResult", "validateWorkflowArtifactReport",
      "hashArtifacts", "compareChecksum", "assertManifestContracts", "compareCopies",
      "verifyOriginService"},
      Doing(f)
  PROVE  \/ /\ tool = "write"
            /\ at \in 2..11
            /\ f \in {"readAttestation", "readOrigin", "readReport"} => at < 5
            /\ at = 5 => f = "validateGithubArtifactAttestationResult"
         \/ /\ tool = "artifacts"
            /\ at \in 3..12
            /\ f \in {"readAttestation", "readOrigin", "readReport"} => at < 6
            /\ at = 6 => f = "validateGithubArtifactAttestationResult"
<1>1. CASE tool = "write"
  BY <1>1, WriteProgram, VerifyProgram DEF Doing, RecordProgram, RecordTypeOK, Tools, Last
<1>2. CASE tool = "artifacts"
  BY <1>2, WriteProgram, VerifyProgram DEF Doing, RecordProgram, RecordTypeOK, Tools, Last
<1>3. CASE tool = "packages"
  BY <1>3 DEF Doing, RecordProgram, RecordTypeOK, Tools, Last, verifyReleasePackages
<1> QED  BY <1>1, <1>2, <1>3 DEF Doing

-----------------------------------------------------------------------------
(* A refusal leaves nothing behind but the record. *)
LEMMA FailsInv ==
  ASSUME RecordInv, Fails
  PROVE  RecordInv'
<1> USE DEF RecordInv, Fails
<1>1. RecordTypeOK'
  BY DEF RecordTypeOK, Tools, Nothing, Kept
<1>2. RecordIsSound'
  BY DEF RecordIsSound, RecordIsOneRelease, AcceptedIsRecorded
<1> QED  BY <1>1, <1>2 DEF Attested

(* A step that goes on to the next one, keeping what it read. *)
LEMMA KeepsInv ==
  ASSUME RecordInv, tool \in Tools, at < Last[tool],
         snap' \in [Kept -> Builds \cup Evidence \cup {None}], at' = at + 1,
          UNCHANGED <<tool, options, record, verdict>>,
         \/ tool = "write" /\ at < 5
         \/ tool = "artifacts" /\ at < 6
         \/ tool = "packages" /\ at < 4 /\ snap'.origin = None
         \/ /\ tool \in {"write", "artifacts"} /\ at < 13
            /\ LET b == snap'.report IN
               /\ b \in Frozen
               /\ snap'.origin = b
               /\ CommitOf[b] = TagCommit
               /\ RunOf[b] = options.run
               /\ AttemptOf[b] = options.attempt
            /\ tool = "write" /\ at = 12 => /\ snap'.evidence.run = options.run
                                           /\ snap'.evidence.final = options.attempt
  PROVE  RecordInv'
<1>1. RecordTypeOK'
  BY DEF RecordInv, RecordTypeOK, Tools, Last
<1>2. RecordIsSound'
  BY DEF RecordInv, RecordIsSound, RecordIsOneRelease, AcceptedIsRecorded
<1>3. /\ at' = at + 1 /\ tool' = tool /\ at \in Nat
      /\ options' = options
  BY DEF RecordInv, RecordTypeOK
<1>4. (Attested => OneAttempt)'
  BY <1>3 DEF Attested, OneAttempt
<1>5. (tool = "write" /\ at > 12 => Bound)'
  BY <1>3 DEF Bound
<1>6. (tool = "packages" => snap.origin = None)'
  BY <1>3
<1>7. (tool \in {"artifacts", "packages"} => at # Last[tool])'
  BY <1>3 DEF Last, Tools
<1> QED  BY <1>1, <1>2, <1>4, <1>5, <1>6, <1>7 DEF RecordInv

(* Each step of a tool preserves the invariant: starting it,               *)
LEMMA StartsInv ==
  ASSUME RecordInv, NEW t \in Tools, startTool(t)
  PROVE  RecordInv'
<1> USE DEF RecordInv, startTool
<1>1. RecordTypeOK'
  BY WorldAssumption DEF RecordTypeOK, Tools, Last, Runs
<1>2. RecordIsSound'
  BY DEF RecordIsSound, RecordIsOneRelease, AcceptedIsRecorded
<1>3. (Attested => OneAttempt)' /\ (tool = "write" /\ at > 12 => Bound)'
  BY DEF Attested
<1>4. (tool = "packages" => snap.origin = None)'
  <2>1. snap = Nothing
    BY DEF RecordTypeOK, Tools
  <2> QED  BY <2>1 DEF Nothing, Kept
<1>5. (tool \in {"artifacts", "packages"} => at # Last[tool])'
  BY DEF Last, Tools
<1> QED  BY <1>1, <1>2, <1>3, <1>4, <1>5

(* The steps before the artifacts are looked at, and the packing. *)
LEMMA BeforeArtifactsInv ==
  ASSUME RecordInv,
         \/ requireReleaseTag \/ assertPostEvidenceCommit
         \/ validateSourceContracts \/ packPackages
  PROVE  RecordInv'
<1>0. /\ RecordTypeOK /\ snap \in [Kept -> Builds \cup Evidence \cup {None}]
      /\ tool = "packages" => snap.origin = None
  BY DEF RecordInv, RecordTypeOK
<1>1. CASE Fails
  BY <1>1, FailsInv
<1>2. CASE ~ Fails
  <2>1. /\ snap' \in {snap} \cup {[snap EXCEPT !.local = b] : b \in Builds}
        /\ at' = at + 1 /\ UNCHANGED <<tool, options, record, verdict>>
    BY <1>2 DEF requireReleaseTag, assertPostEvidenceCommit, validateSourceContracts,
                packPackages, Proceed
  <2>2. \/ Doing("requireReleaseTag") \/ Doing("assertPostEvidenceCommit")
        \/ Doing("validateSourceContracts") \/ Doing("packPackages")
    BY DEF requireReleaseTag, assertPostEvidenceCommit, validateSourceContracts, packPackages
  <2>3. \/ tool = "write" /\ at = 1
        \/ tool \in {"artifacts", "packages"} /\ at \in {1, 2, 3}
           /\ (tool = "artifacts" => at < 3)
    BY <1>0, <2>2, WhereInRecord
  <2>4. tool \in Tools /\ at < Last[tool]
    BY <2>3 DEF Tools, Last
  <2>5. snap' \in [Kept -> Builds \cup Evidence \cup {None}] /\ snap'.origin = snap.origin
    BY <1>0, <2>1 DEF Kept
  <2> QED  BY <1>0, <2>1, <2>3, <2>4, <2>5, KeepsInv
<1> QED  BY <1>1, <1>2

(* Reading the artifacts, before their attestation is verified. *)
LEMMA ReadsInv ==
  ASSUME RecordInv, readAttestation \/ readOrigin \/ readReport
  PROVE  RecordInv'
<1>0. RecordTypeOK /\ snap \in [Kept -> Builds \cup Evidence \cup {None}]
  BY DEF RecordInv, RecordTypeOK
<1>1. CASE Fails
  BY <1>1, FailsInv
<1>2. CASE ~ Fails
  <2>1. PICK file \in {"attestation", "origin", "report"}, b \in Builds :
          /\ snap' = [snap EXCEPT ![file] = b]
          /\ at' = at + 1 /\ UNCHANGED <<tool, options, record, verdict>>
    BY <1>2 DEF readAttestation, readOrigin, readReport, readBoundedRegular, Proceed
  <2>2. Doing("readAttestation") \/ Doing("readOrigin") \/ Doing("readReport")
    BY DEF readAttestation, readOrigin, readReport
  <2>3. (tool = "write" /\ at \in 2..4) \/ (tool = "artifacts" /\ at \in 3..5)
    <3>1. ASSUME NEW f \in {"readAttestation", "readOrigin", "readReport"}, Doing(f)
          PROVE  (tool = "write" /\ at \in 2..4) \/ (tool = "artifacts" /\ at \in 3..5)
      BY <1>0, <3>1, WhereInArtifacts
    <3> QED  BY <2>2, <3>1
  <2>4. tool \in Tools /\ at < Last[tool]
    BY <2>3 DEF Tools, Last
  <2>5. snap' \in [Kept -> Builds \cup Evidence \cup {None}]
    BY <1>0, <2>1
  <2> QED  BY <2>1, <2>3, <2>4, <2>5, KeepsInv
<1> QED  BY <1>1, <1>2

(* The attestation: its subjects are the two files that were read.         *)
LEMMA AttestsInv ==
  ASSUME RecordInv, validateGithubArtifactAttestationResult
  PROVE  RecordInv'
<1>0. RecordTypeOK /\ snap \in [Kept -> Builds \cup Evidence \cup {None}]
  BY DEF RecordInv, RecordTypeOK
<1>1. CASE Fails
  BY <1>1, FailsInv
<1>2. CASE ~ Fails
  <2>1. /\ snap' = snap /\ at' = at + 1 /\ UNCHANGED <<tool, options, record, verdict>>
        /\ LET b == snap.report IN
           /\ b \in Frozen
           /\ snap.origin = b
           /\ CommitOf[b] = TagCommit
           /\ RunOf[b] = options.run
           /\ AttemptOf[b] = options.attempt
    BY <1>2 DEF validateGithubArtifactAttestationResult, Proceed
  <2>2. (tool = "write" /\ at \in 2..11) \/ (tool = "artifacts" /\ at \in 3..12)
    BY <1>0, WhereInArtifacts DEF validateGithubArtifactAttestationResult
  <2>3. tool \in Tools /\ at < Last[tool]
    BY <2>2 DEF Tools, Last
  <2> QED  BY <1>0, <2>1, <2>2, <2>3, KeepsInv
<1> QED  BY <1>1, <1>2

(* What is checked of the artifacts after their attestation changes        *)
(* nothing that was kept.                                                  *)
LEMMA ChecksInv ==
  ASSUME RecordInv,
         \/ validateWorkflowArtifactReport \/ hashArtifacts \/ compareChecksum
         \/ assertManifestContracts \/ compareCopies \/ verifyOriginService
  PROVE  RecordInv'
<1>0. RecordTypeOK /\ snap \in [Kept -> Builds \cup Evidence \cup {None}]
  BY DEF RecordInv, RecordTypeOK
<1>1. CASE Fails
  BY <1>1, FailsInv
<1>2. CASE ~ Fails
  <2>1. snap' = snap /\ at' = at + 1 /\ UNCHANGED <<tool, options, record, verdict>>
    BY <1>2 DEF validateWorkflowArtifactReport, hashArtifacts, compareChecksum,
                assertManifestContracts, compareCopies, verifyOriginService, Proceed
  <2>2. PICK f \in {"validateWorkflowArtifactReport", "hashArtifacts", "compareChecksum",
                    "assertManifestContracts", "compareCopies", "verifyOriginService"} : Doing(f)
    BY DEF validateWorkflowArtifactReport, hashArtifacts, compareChecksum,
           assertManifestContracts, compareCopies, verifyOriginService
  <2>3. \/ tool = "write" /\ at \in 2..11 /\ at # 5
        \/ tool = "artifacts" /\ at \in 3..12 /\ at # 6
    BY <1>0, <2>2, WhereInArtifacts
  <2>4. tool \in Tools /\ at < Last[tool]
    BY <2>3 DEF Tools, Last
  <2>5. ((tool = "write" /\ at >= 5) \/ (tool = "artifacts" /\ at >= 6)) => OneAttempt
    BY <2>3 DEF RecordInv, Attested
  <2> QED  BY <1>0, <2>1, <2>3, <2>4, <2>5, KeepsInv DEF OneAttempt
<1> QED  BY <1>1, <1>2

(* The evidence that is bound to the record. *)
LEMMA BindsInv ==
  ASSUME RecordInv, bindEvidence
  PROVE  RecordInv'
<1>0. RecordTypeOK /\ snap \in [Kept -> Builds \cup Evidence \cup {None}]
  BY DEF RecordInv, RecordTypeOK
<1>1. CASE Fails
  BY <1>1, FailsInv
<1>2. CASE ~ Fails
  <2>1. PICK e \in Evidence :
          /\ snap' = [snap EXCEPT !.evidence = e]
          /\ at' = at + 1 /\ UNCHANGED <<tool, options, record, verdict>>
          /\ e.run = options.run /\ e.final = options.attempt
    BY <1>2 DEF bindEvidence, Proceed
  <2>2. tool = "write" /\ at = 12
    BY <1>0, WhereInRecord DEF bindEvidence
  <2>3. tool \in Tools /\ at < Last[tool]
    BY <2>2 DEF Tools, Last
  <2>4. /\ snap' \in [Kept -> Builds \cup Evidence \cup {None}]
        /\ snap'.evidence = e /\ snap'.report = snap.report /\ snap'.origin = snap.origin
    BY <1>0, <2>1 DEF Kept
  <2>5. OneAttempt
    BY <2>2 DEF RecordInv, Attested
  <2> QED  BY <2>1, <2>2, <2>3, <2>4, <2>5, KeepsInv DEF OneAttempt
<1> QED  BY <1>1, <1>2

(* The record is written of one release. *)
LEMMA WritesInv ==
  ASSUME RecordInv, packageInput
  PROVE  RecordInv'
<1>0. tool = "write" /\ at = 13 /\ RecordTypeOK
  BY WhereInRecord DEF packageInput, RecordInv
<1>1. CASE Fails
  BY <1>1, FailsInv
<1>2. CASE ~ Fails
  <2>1. PICK registry \in [Packages -> Builds] :
          /\ \A p \in Packages :
                /\ TarballOf[registry[p]][p] = snap.evidence.digest[p]
                /\ TarballOf[snap.report][p] = snap.evidence.digest[p]
          /\ record = None
          /\ record' = [commit |-> TagCommit, origin |-> snap.report,
                        evidence |-> snap.evidence, registry |-> registry,
                        digest |-> [p \in Packages |-> TarballOf[snap.report][p]]]
          /\ at' = at + 1
          /\ UNCHANGED <<tool, options, snap, verdict>>
    BY <1>2 DEF packageInput
  <2>2. OneAttempt /\ Bound
    BY <1>0 DEF RecordInv, Attested
  <2>3. RecordTypeOK'
    BY <1>0, <2>1 DEF RecordTypeOK, Tools, Last
  <2>4. RecordIsSound'
    <3>1. RecordIsOneRelease'
      BY <2>1, <2>2 DEF OneAttempt, Bound, RecordIsOneRelease
    <3>2. verdict = None
      BY <2>1 DEF RecordInv, RecordIsSound, AcceptedIsRecorded
    <3> QED  BY <2>1, <3>1, <3>2 DEF RecordIsSound, AcceptedIsRecorded
  <2>5. OneAttempt' /\ Bound'
    BY <2>1, <2>2 DEF OneAttempt, Bound
  <2> QED  BY <1>0, <2>1, <2>3, <2>4, <2>5 DEF RecordInv
<1> QED  BY <1>1, <1>2

(* What is verified against the record is of the record. *)
LEMMA VerifiesInv ==
  ASSUME RecordInv, verifyEvidenceRecord
  PROVE  RecordInv'
<1>0. /\ RecordTypeOK
      /\ (tool = "artifacts" /\ at = 13) \/ (tool = "packages" /\ at = 4)
  <2>1. RecordTypeOK /\ Doing("verifyEvidenceRecord")
    BY DEF verifyEvidenceRecord, RecordInv
  <2> QED  BY <2>1, WhereInRecord
<1>1. CASE Fails
  BY <1>1, FailsInv
<1>2. CASE ~ Fails
  <2>1. PICK e \in Evidence :
          /\ record # None
          /\ e = record.evidence
          /\ \A p \in Packages : TarballOf[Local][p] = record.digest[p]
          /\ tool = "artifacts" => record.origin = snap.report
          /\ snap' = [snap EXCEPT !.evidence = e]
          /\ at' = at + 1
          /\ UNCHANGED <<tool, options, record, verdict>>
    BY <1>2 DEF verifyEvidenceRecord
  <2>2. tool = "artifacts" => OneAttempt
    BY <1>0 DEF RecordInv, Attested
  <2>3. /\ snap'.evidence = e /\ snap'.report = snap.report /\ snap'.origin = snap.origin
        /\ snap'.local = snap.local
        /\ snap' \in [Kept -> Builds \cup Evidence \cup {None}]
    BY <1>0, <2>1 DEF RecordTypeOK, Kept
  <2>4. RecordTypeOK'
    BY <1>0, <2>1, <2>3 DEF RecordTypeOK, Tools, Last
  <2>5. RecordIsSound'
    BY <2>1 DEF RecordInv, RecordIsSound, RecordIsOneRelease, AcceptedIsRecorded
  <2>6. tool = "artifacts" => OneAttempt'
    BY <2>1, <2>2, <2>3 DEF OneAttempt
  <2>7. Agreed'
    BY <2>1, <2>2, <2>3 DEF Agreed, Local, OneAttempt
  <2>8. tool = "packages" => snap.origin = None
    BY DEF RecordInv
  <2> QED  BY <1>0, <2>1, <2>3, <2>4, <2>5, <2>6, <2>7, <2>8 DEF RecordInv, Attested
<1> QED  BY <1>1, <1>2

(* and finding the tree clean, after which the record stands.              *)
LEMMA EndsRecordInv ==
  ASSUME RecordInv, assertCleanStatus
  PROVE  RecordInv'
<1>0. RecordTypeOK /\ tool \in Tools /\ at = Last[tool]
  BY WhereInRecord DEF assertCleanStatus, RecordInv
<1>1. CASE Fails
  BY <1>1, FailsInv
<1>2. CASE ~ Fails
  <2>1. /\ tool' = "done" /\ at' = 1 /\ options' = None /\ snap' = Nothing
        /\ record' = record
        /\ verdict' = IF tool = "write" THEN verdict
                      ELSE [packages |-> Local, origin |-> snap.origin,
                            evidence |-> snap.evidence]
    BY <1>2 DEF assertCleanStatus
  <2>2. RecordTypeOK'
    BY <1>0, <2>1 DEF RecordTypeOK, Tools, Nothing, Kept
  <2>3. RecordIsOneRelease'
    BY <2>1 DEF RecordInv, RecordIsSound, RecordIsOneRelease
  <2>4. AcceptedIsRecorded'
    <3>1. CASE tool = "write"
      BY <2>1, <3>1 DEF RecordInv, RecordIsSound, AcceptedIsRecorded
    <3>2. CASE tool # "write"
      <4>1. Agreed /\ (tool = "packages" => snap.origin = None)
        BY <1>0, <3>2 DEF RecordInv, Tools
      <4>2. /\ verdict'.evidence = snap.evidence
            /\ verdict'.origin = snap.origin
            /\ verdict'.packages = Local
        BY <2>1, <3>2
      <4> QED  BY <1>0, <2>1, <3>2, <4>1, <4>2 DEF Agreed, AcceptedIsRecorded, Tools
    <3> QED  BY <3>1, <3>2
  <2> QED  BY <2>1, <2>2, <2>3, <2>4 DEF RecordInv, RecordIsSound, Attested
<1> QED  BY <1>1, <1>2

(* Every step of the tools preserves the invariant.                        *)
LEMMA RecordInitInv == RecordInit => RecordInv
<1> SUFFICES ASSUME RecordInit PROVE RecordInv
  OBVIOUS
<1> USE DEF RecordInit
<1>1. RecordTypeOK
  BY DEF RecordTypeOK, Tools, Nothing, Kept
<1>2. RecordIsSound
  BY DEF RecordIsSound, RecordIsOneRelease, AcceptedIsRecorded
<1> QED  BY <1>1, <1>2 DEF RecordInv, Attested

LEMMA RecordNextInv == RecordInv /\ [RecordNext]_recordVars => RecordInv'
<1> SUFFICES ASSUME RecordInv, [RecordNext]_recordVars PROVE RecordInv'
  OBVIOUS
<1>1. CASE StartWrite \/ StartVerifyArtifacts \/ StartVerifyPackages
  BY <1>1, StartsInv DEF StartWrite, StartVerifyArtifacts, StartVerifyPackages, Tools
<1>2. CASE \/ requireReleaseTag \/ assertPostEvidenceCommit
           \/ validateSourceContracts \/ packPackages
  BY <1>2, BeforeArtifactsInv
<1>3. CASE readAttestation \/ readOrigin \/ readReport
  BY <1>3, ReadsInv
<1>4. CASE validateGithubArtifactAttestationResult
  BY <1>4, AttestsInv
<1>5. CASE \/ validateWorkflowArtifactReport \/ hashArtifacts \/ compareChecksum
           \/ assertManifestContracts \/ compareCopies \/ verifyOriginService
  BY <1>5, ChecksInv
<1>6. CASE bindEvidence
  BY <1>6, BindsInv
<1>7. CASE packageInput
  BY <1>7, WritesInv
<1>8. CASE verifyEvidenceRecord
  BY <1>8, VerifiesInv
<1>9. CASE assertCleanStatus
  BY <1>9, EndsRecordInv
<1>10. CASE UNCHANGED recordVars
  BY <1>10 DEF recordVars, RecordInv, RecordTypeOK, Attested, OneAttempt, Bound, Agreed, Local,
               RecordIsSound, RecordIsOneRelease, AcceptedIsRecorded
<1> QED
  BY <1>1, <1>2, <1>3, <1>4, <1>5, <1>6, <1>7, <1>8, <1>9, <1>10 DEF RecordNext

(* A record that write-release-record writes is of one build of the tag's  *)
(* commit with that build's evidence, and what verify-release accepts is   *)
(* what is recorded: for any builds, runs and records, and whatever        *)
(* changes in the artifact directory between two steps of a tool.          *)
THEOREM ReleaseRecordSound == RecordSpec => []RecordIsSound
<1>1. RecordInv => RecordIsSound
  BY DEF RecordInv
<1> QED  BY RecordInitInv, RecordNextInv, <1>1, PTL DEF RecordSpec

(***************************************************************************)
(* The builds.                                                             *)
(***************************************************************************)

(* What a step is, and which files the steps of these scripts are about.   *)
AllFiles == Private \cup Shared

Ops ==
  {"requireAbsent", "read", "fetch", "load", "forget", "requireSame", "requirePinned",
   "compare", "matches", "mkTemp", "copyInto", "create", "truncate", "fill", "copy", "link",
   "moveTree", "moveFile", "remove", "finally", "catch", "finallyHeld", "return", "spawn",
   "poll", "stop", "accept"}

Steps ==
  [op : Ops, a : AllFiles \cup {Absent} \cup SUBSET AllFiles, b : AllFiles \cup {Absent}]

Fits(st) ==
  /\ st.op \in {"requireAbsent", "load", "compare"} => st.a \in AllFiles
  /\ st.op = "matches" => st.a \in AllFiles /\ st.b \in AllFiles
  /\ st.op \in {"mkTemp", "copyInto"} => st.a \in Private
  /\ st.op = "create" => st.a \in Private \cup {"archive", "checksum", "report"}
  /\ st.op = "truncate" =>
       st.a \in Private \cup {"declarationStage", "assets", "manifest", "tarball"}
  /\ st.op = "fill" =>
       st.a \in Private \cup {"archive", "checksum", "report", "declarationStage", "assets",
                              "manifest", "tarball"}
  /\ st.op = "copy" => st.a \in Private /\ st.b \in {"retained", "tarball"}
  /\ st.op = "link" => st.a = "temporary" /\ st.b = "addon"
  /\ st.op = "moveTree" => st.a = "temporary" /\ st.b \in {"runtime", "evidence"}
  /\ st.op = "moveFile" => st.a = "declarationStage" /\ st.b = "declaration"
  /\ st.op = "remove" => st.a \in {"runtime", "assets", "addon"}
  /\ st.op = "finally" => st.a \in Private \cup {"declarationStage"}
  /\ st.op = "catch" => st.a = "archive" /\ st.b = "checksum"
  /\ st.op = "finallyHeld" => st.a = "retained"
  /\ st.op = "accept" => st.a \in {{"manifest", "assets"}, {"archive", "checksum"}}

(* The files a step may change, and the private ones it may make.          *)
Touches(st, f) ==
  \/ st.op \in {"mkTemp", "copyInto", "create", "truncate", "fill", "remove", "finally",
                "finallyHeld", "catch"} /\ f = st.a
  \/ st.op \in {"copy", "link"} /\ f = st.b
  \/ st.op \in {"moveTree", "moveFile"} /\ f \in {st.a, st.b}

Makes(st, f) ==
  \/ st.op \in {"mkTemp", "copyInto", "create", "truncate", "fill"} /\ f = st.a
  \/ st.op \in {"copy", "link"} /\ f = st.b

MemOps == {"read", "fetch", "load", "forget"}

(***************************************************************************)
(* What a script knows before a step, when nothing was thrown: facts about *)
(* a file (it is absent, it was not written to its end, it is what was     *)
(* read, it is whole, it is as its partner), about what was read, about    *)
(* what was accepted and about the job.                                    *)
(***************************************************************************)
Partner(f) == IF f = "checksum" THEN "archive" ELSE "manifest"

PrivateFacts ==
  ({"absent", "there", "part", "read", "whole"} \X Private)
    \cup {<<"mem", "pinned">>, <<"mem", "one">>}

Facts ==
  ({"absent", "there", "part", "read", "whole"} \X AllFiles)
    \cup {<<"mem", "pinned">>, <<"mem", "one">>, <<"alike", "checksum">>, <<"alike", "assets">>,
          <<"accepted", "none">>, <<"job", "emit">>}

Breaks(st, fact) ==
  \/ Touches(st, fact[2])
  \/ fact[1] = "alike" /\ Touches(st, Partner(fact[2]))
  \/ fact[1] \in {"read", "mem"} /\ st.op \in MemOps
  \/ fact[1] = "accepted" /\ st.op = "accept"

Gives(st, last, fact) ==
  \/ st.op = "requirePinned" /\ fact = <<"mem", "pinned">>
  \/ st.op = "requireSame" /\ fact = <<"mem", "one">>
  \/ st.op = "requireAbsent" /\ fact = <<"absent", st.a>>
  \/ st.op \in {"load", "compare", "fill"} /\ fact = <<"read", st.a>>
  \/ st.op \in {"mkTemp", "copyInto"} /\ fact = <<"there", st.a>>
  \/ st.op = "create" /\ fact = <<"part", st.a>>
  \/ st.op = "copyInto" /\ last /\ fact = <<"whole", st.a>>

Directly(fact, k, st, last) == (fact \in k /\ ~Breaks(st, fact)) \/ Gives(st, last, fact)

After(fact, k, st, last) ==
  \/ Directly(fact, k, st, last)
  \/ fact[1] = "whole" /\ Directly(<<"read", fact[2]>>, k, st, last)
  \/ /\ fact[1] = "alike"
     /\ Directly(<<"read", fact[2]>>, k, st, last)
     /\ Directly(<<"read", Partner(fact[2])>>, k, st, last)

(* What a step has to know, to do no harm even if it throws.               *)
Permits(k, st) ==
  /\ st.op = "link" => <<"read", "temporary">> \in k /\ <<"mem", "pinned">> \in k
  /\ st.op = "copyInto" => <<"there", st.a>> \in k
  /\ st.op \in {"moveTree", "moveFile"} => <<"whole", st.a>> \in k
  /\ st.op \in {"create", "fill"} /\ st.a \in {"archive", "checksum"} =>
       <<"absent", "report">> \in k /\ <<"accepted", "none">> \in k
  /\ st.op \in {"create", "fill"} /\ st.a = "archive" => <<"absent", "checksum">> \in k
  /\ st.op = "create" /\ st.a = "checksum" => <<"absent", "checksum">> \in k
  /\ st.op = "fill" /\ st.a = "checksum" =>
       <<"read", "archive">> \in k /\ <<"mem", "one">> \in k /\ <<"part", "checksum">> \in k
  /\ st.op \in {"create", "fill"} /\ st.a = "report" =>
       /\ <<"whole", "tarball">> \in k /\ <<"whole", "archive">> \in k
       /\ <<"whole", "checksum">> \in k /\ <<"job", "emit">> \in k
  /\ st.op \in {"truncate", "fill"} /\ st.a = "tarball" => <<"absent", "report">> \in k
  /\ st.op = "copy" /\ st.b = "tarball" => <<"absent", "report">> \in k
  /\ st.op \in {"truncate", "fill", "remove"} /\ st.a \in {"assets", "manifest"} =>
       <<"accepted", "none">> \in k
  /\ st.op = "spawn" => <<"whole", "extracted">> \in k
  /\ st.op = "accept" =>
       /\ \A f \in st.a : <<"whole", f>> \in k
       /\ \A f \in st.a \cap {"checksum", "assets"} : <<"alike", f>> \in k

LastInto(P, i) == i < Len(P) /\ P[i + 1].op # "copyInto"

(* k says what is known before each step of P, out of FF.                  *)
Annotates(k, P, FF) ==
  /\ k \in [1..(Len(P) + 1) -> SUBSET FF]
  /\ \A i \in 1..Len(P) :
       /\ Fits(P[i]) /\ Permits(k[i], P[i])
       /\ \A fact \in k[i + 1] : After(fact, k[i], P[i], LastInto(P, i))

(* What P makes is in D or cleaned up by a later step of P, and a service  *)
(* is stopped at once when it is healthy or not.                           *)
CleansUp(P, D) ==
  \A i \in 1..Len(P) :
    /\ \A f \in Private \ {"retained"} : Makes(P[i], f) =>
         f \in D \/ \E j \in (i + 1)..Len(P) : P[j].op = "finally" /\ P[j].a = f
    /\ P[i].op = "spawn" => i + 2 <= Len(P) /\ P[i + 1].op = "poll" /\ P[i + 2].op = "stop"

(* P leads from what A says to what B says, and leaves D to clean up.      *)
Sound(P, A, B, FF, D) ==
  /\ P \in Seq(Steps)
  /\ \E k : Annotates(k, P, FF) /\ k[1] = A /\ k[Len(P) + 1] = B
  /\ CleansUp(P, D)

-----------------------------------------------------------------------------
(* A program followed by another.                                          *)
LEMMA ConcatSteps ==
  ASSUME NEW P \in Seq(Steps), NEW Q \in Seq(Steps)
  PROVE  /\ P \o Q \in Seq(Steps) /\ Len(P \o Q) = Len(P) + Len(Q)
         /\ \A i \in 1..Len(P) : (P \o Q)[i] = P[i]
         /\ \A i \in 1..Len(Q) : (P \o Q)[Len(P) + i] = Q[i]
         /\ \A i \in 1..(Len(P) + Len(Q)) :
              i \in 1..Len(P) \/ (i - Len(P) \in 1..Len(Q) /\ i = Len(P) + (i - Len(P)))
OBVIOUS

LEMMA ConcatAssoc ==
  ASSUME NEW P \in Seq(Steps), NEW Q \in Seq(Steps), NEW R \in Seq(Steps)
  PROVE  (P \o Q) \o R = P \o (Q \o R)
<1> DEFINE s == Q \o R
           u == (P \o Q) \o R
           m == Len(P)
           n == Len(Q)
           l == Len(R)
<1>1. /\ m \in Nat /\ n \in Nat /\ l \in Nat
      /\ s \in Seq(Steps) /\ u \in Seq(Steps) /\ Len(s) = n + l /\ Len(u) = (m + n) + l
      /\ \A i \in 1..m : u[i] = P[i]
      /\ \A i \in 1..n : s[i] = Q[i] /\ u[m + i] = Q[i]
      /\ \A i \in 1..l : s[n + i] = R[i] /\ u[(m + n) + i] = R[i]
  <2> DEFINE t == P \o Q
  <2>1. /\ m \in Nat /\ n \in Nat /\ l \in Nat
        /\ s \in Seq(Steps) /\ t \in Seq(Steps) /\ Len(s) = n + l /\ Len(t) = m + n
        /\ \A i \in 1..m : t[i] = P[i]
        /\ \A i \in 1..n : s[i] = Q[i] /\ t[m + i] = Q[i]
        /\ \A i \in 1..l : s[n + i] = R[i]
    BY ConcatSteps
  <2> HIDE DEF t, s
  <2>2. /\ t \o R \in Seq(Steps) /\ Len(t \o R) = (m + n) + l
        /\ \A i \in 1..(m + n) : (t \o R)[i] = t[i]
        /\ \A i \in 1..l : (t \o R)[(m + n) + i] = R[i]
    <3>1. /\ t \o R \in Seq(Steps) /\ Len(t \o R) = Len(t) + Len(R)
          /\ \A i \in 1..Len(t) : (t \o R)[i] = t[i]
          /\ \A i \in 1..Len(R) : (t \o R)[Len(t) + i] = R[i]
      BY <2>1, ConcatSteps
    <3> HIDE DEF m, n, l
    <3>2. Len(t) = m + n /\ Len(R) = l
      BY <2>1 DEF l
    <3> QED  BY <3>1, <3>2
  <2>3. \A i \in 1..m : i \in 1..(m + n)
    BY <2>1
  <2>4. \A i \in 1..n : m + i \in 1..(m + n)
    BY <2>1
  <2> QED  BY <2>1, <2>2, <2>3, <2>4 DEF t
<1> HIDE DEF s, u, m, n, l
<1>2. ASSUME NEW i \in 1..(n + l) PROVE u[m + i] = s[i]
  <2>1. CASE i \in 1..n
    BY <1>1, <2>1
  <2>2. CASE i \notin 1..n
    <3> DEFINE j == i - n
    <3>1. j \in 1..l /\ n + j = i /\ (m + n) + j = m + i
      BY <1>1, <2>2
    <3> HIDE DEF j
    <3>2. s[n + j] = R[j] /\ u[(m + n) + j] = R[j]
      BY <1>1, <3>1
    <3> QED  BY ONLY <3>1, <3>2
  <2> QED  BY <2>1, <2>2
<1>3. P \o s = u
  <2>1. /\ Len(u) = Len(P) + Len(s)
        /\ \A i \in 1..Len(P) : u[i] = P[i]
        /\ \A i \in 1..Len(s) : u[Len(P) + i] = s[i]
    BY <1>1, <1>2 DEF m
  <2> QED  BY <1>1, <2>1, ConcatIs
<1> QED  BY <1>3 DEF s, u

LEMMA JoinCleans ==
  ASSUME NEW P \in Seq(Steps), NEW Q \in Seq(Steps), NEW D1, NEW D,
         CleansUp(P, D1), CleansUp(Q, D),
         \A f \in D1 : f \in D \/ \E j \in 1..Len(Q) : Q[j].op = "finally" /\ Q[j].a = f
  PROVE  CleansUp(P \o Q, D)
<1> DEFINE R == P \o Q
           m == Len(P)
           n == Len(Q)
<1>1. /\ m \in Nat /\ n \in Nat /\ Len(R) = m + n
      /\ \A i \in 1..m : R[i] = P[i]
      /\ \A i \in 1..n : R[m + i] = Q[i]
      /\ \A i \in 1..(m + n) : i \in 1..m \/ (i - m \in 1..n /\ i = m + (i - m))
  BY ConcatSteps
<1> HIDE DEF R
<1>2. ASSUME NEW i \in 1..m, NEW f \in Private \ {"retained"}, Makes(R[i], f)
      PROVE  f \in D \/ \E j \in (i + 1)..(m + n) : R[j].op = "finally" /\ R[j].a = f
  <2>1. f \in D1 \/ \E j \in (i + 1)..m : P[j].op = "finally" /\ P[j].a = f
    BY <1>1, <1>2 DEF CleansUp
  <2>2. CASE \E j \in (i + 1)..m : P[j].op = "finally" /\ P[j].a = f
    <3>1. PICK j \in (i + 1)..m : P[j].op = "finally" /\ P[j].a = f
      BY <2>2
    <3>2. j \in (i + 1)..(m + n) /\ R[j] = P[j]
      BY <1>1
    <3> QED  BY <3>1, <3>2
  <2>3. CASE \E j \in 1..n : Q[j].op = "finally" /\ Q[j].a = f
    <3>1. PICK j \in 1..n : Q[j].op = "finally" /\ Q[j].a = f
      BY <2>3
    <3>2. m + j \in (i + 1)..(m + n) /\ R[m + j] = Q[j]
      BY <1>1
    <3> QED  BY <3>1, <3>2
  <2> QED  BY <2>1, <2>2, <2>3
<1>3. ASSUME NEW i \in 1..m, R[i].op = "spawn"
      PROVE  i + 2 <= m + n /\ R[i + 1].op = "poll" /\ R[i + 2].op = "stop"
  <2>1. i + 2 <= m /\ P[i + 1].op = "poll" /\ P[i + 2].op = "stop"
    BY <1>1, <1>3 DEF CleansUp
  <2>2. i + 1 \in 1..m /\ i + 2 \in 1..m
    BY <1>1, <2>1
  <2> QED  BY <1>1, <2>1, <2>2
<1>4. ASSUME NEW i \in 1..n, NEW f \in Private \ {"retained"}, Makes(R[m + i], f)
      PROVE  f \in D \/ \E j \in (m + i + 1)..(m + n) : R[j].op = "finally" /\ R[j].a = f
  <2>1. f \in D \/ \E j \in (i + 1)..n : Q[j].op = "finally" /\ Q[j].a = f
    BY <1>1, <1>4 DEF CleansUp
  <2>2. CASE \E j \in (i + 1)..n : Q[j].op = "finally" /\ Q[j].a = f
    <3>1. PICK j \in (i + 1)..n : Q[j].op = "finally" /\ Q[j].a = f
      BY <2>2
    <3>2. m + j \in (m + i + 1)..(m + n) /\ R[m + j] = Q[j]
      BY <1>1
    <3> QED  BY <3>1, <3>2
  <2> QED  BY <2>1, <2>2
<1>5. ASSUME NEW i \in 1..n, R[m + i].op = "spawn"
      PROVE  m + i + 2 <= m + n /\ R[m + i + 1].op = "poll" /\ R[m + i + 2].op = "stop"
  <2>1. i + 2 <= n /\ Q[i + 1].op = "poll" /\ Q[i + 2].op = "stop"
    BY <1>1, <1>5 DEF CleansUp
  <2>5. m \in Nat /\ n \in Nat /\ i \in 1..n /\ i + 2 <= n
    BY <1>1, <2>1
  <2>2. /\ i + 1 \in 1..n /\ i + 2 \in 1..n
        /\ m + (i + 1) = m + i + 1 /\ m + (i + 2) = m + i + 2
        /\ m + i + 2 <= m + n
    BY ONLY <2>5
  <2>3. R[m + (i + 1)] = Q[i + 1] /\ R[m + (i + 2)] = Q[i + 2]
    BY <1>1, <2>2
  <2>4. R[m + i + 1] = Q[i + 1] /\ R[m + i + 2] = Q[i + 2]
    BY ONLY <2>2, <2>3
  <2> QED  BY ONLY <2>1, <2>2, <2>4
<1>6. ASSUME NEW i \in 1..(m + n)
      PROVE  /\ \A f \in Private \ {"retained"} : Makes(R[i], f) =>
                  f \in D \/ \E j \in (i + 1)..(m + n) : R[j].op = "finally" /\ R[j].a = f
             /\ R[i].op = "spawn" =>
                  i + 2 <= m + n /\ R[i + 1].op = "poll" /\ R[i + 2].op = "stop"
  <2>1. CASE i \in 1..m
    BY <1>2, <1>3, <2>1
  <2>2. CASE i - m \in 1..n /\ i = m + (i - m)
    <3> DEFINE l == i - m
    <3> HIDE DEF l
    <3>1. l \in 1..n /\ i = m + l
      BY <2>2 DEF l
    <3> QED  BY <1>4, <1>5, <3>1
  <2> QED  BY <1>1, <2>1, <2>2
<1>7. CleansUp(R, D)
  BY <1>1, <1>6 DEF CleansUp
<1> QED  BY <1>7 DEF R

LEMMA JoinSound ==
  ASSUME NEW P, NEW Q, NEW A, NEW B, NEW C, NEW FF, NEW D1, NEW D,
         Sound(P, A, B, FF, D1), Sound(Q, B, C, FF, D),
         \A f \in D1 : f \in D \/ \E j \in 1..Len(Q) : Q[j].op = "finally" /\ Q[j].a = f
  PROVE  Sound(P \o Q, A, C, FF, D)
<1> DEFINE R == P \o Q
           m == Len(P)
           n == Len(Q)
<1>1. PICK kp : Annotates(kp, P, FF) /\ kp[1] = A /\ kp[m + 1] = B
  BY DEF Sound
<1>2. PICK kq : Annotates(kq, Q, FF) /\ kq[1] = B /\ kq[n + 1] = C
  BY DEF Sound
<1>3. /\ m \in Nat /\ n \in Nat /\ Len(R) = m + n /\ R \in Seq(Steps)
      /\ \A i \in 1..m : R[i] = P[i]
      /\ \A i \in 1..n : R[m + i] = Q[i]
      /\ \A i \in 1..(m + n) : i \in 1..m \/ (i - m \in 1..n /\ i = m + (i - m))
  BY ConcatSteps DEF Sound
<1>4. CleansUp(R, D)
  BY JoinCleans DEF Sound
<1> HIDE DEF R
<1> DEFINE k == [i \in 1..(m + n + 1) |-> IF i <= m THEN kp[i] ELSE kq[i - m]]
<1>5. /\ kp \in [1..(m + 1) -> SUBSET FF] /\ kq \in [1..(n + 1) -> SUBSET FF]
  BY <1>1, <1>2 DEF Annotates
<1>6. /\ \A i \in 1..(m + 1) : k[i] = kp[i]
      /\ \A i \in 1..(n + 1) : k[m + i] = kq[i]
      /\ k \in [1..(m + n + 1) -> SUBSET FF]
  <2>0. \A i \in 1..(m + n + 1) : k[i] = IF i <= m THEN kp[i] ELSE kq[i - m]
    OBVIOUS
  <2> HIDE DEF k
  <2>1. ASSUME NEW i \in 1..(m + 1) PROVE k[i] = kp[i]
    <3>1. ASSUME i <= m PROVE k[i] = kp[i]
      <4>1. i \in 1..(m + n + 1)
        BY <1>3
      <4> QED  BY <2>0, <3>1, <4>1
    <3>2. ASSUME i = m + 1 PROVE k[i] = kp[i]
      <4>1. i \in 1..(m + n + 1) /\ ~(i <= m) /\ i - m = 1
        BY <1>3, <3>2
      <4> QED  BY <1>1, <1>2, <2>0, <3>2, <4>1
    <3>3. i <= m \/ i = m + 1
      BY <1>3
    <3> QED  BY <3>1, <3>2, <3>3
  <2>2. ASSUME NEW i \in 1..(n + 1) PROVE k[m + i] = kq[i]
    <3>1. m + i \in 1..(m + n + 1) /\ ~(m + i <= m) /\ (m + i) - m = i
      BY <1>3
    <3> QED  BY <2>0, <3>1
  <2>3. ASSUME NEW i \in 1..(m + n + 1)
        PROVE  (IF i <= m THEN kp[i] ELSE kq[i - m]) \in SUBSET FF
    <3>1. CASE i <= m
      <4>1. i \in 1..(m + 1)
        BY <1>3, <3>1
      <4> QED  BY <1>5, <3>1, <4>1
    <3>2. CASE ~(i <= m)
      <4>1. i - m \in 1..(n + 1)
        BY <1>3, <3>2
      <4> QED  BY <1>5, <3>2, <4>1
    <3> QED  BY <3>1, <3>2
  <2>4. k \in [1..(m + n + 1) -> SUBSET FF]
    BY <2>3 DEF k
  <2> QED  BY <2>1, <2>2, <2>4
<1> HIDE DEF k
<1>7. ASSUME NEW i \in 1..m
      PROVE  /\ Fits(R[i]) /\ Permits(k[i], R[i])
             /\ \A fact \in k[i + 1] : After(fact, k[i], R[i], LastInto(R, i))
  <2>1. /\ Fits(P[i]) /\ Permits(kp[i], P[i])
        /\ \A fact \in kp[i + 1] : After(fact, kp[i], P[i], LastInto(P, i))
    BY <1>1 DEF Annotates
  <2>2. i \in 1..(m + 1) /\ i + 1 \in 1..(m + 1)
    BY <1>3
  <2>3. k[i] = kp[i] /\ k[i + 1] = kp[i + 1] /\ R[i] = P[i]
    BY <1>3, <1>6, <2>2
  <2>4. LastInto(P, i) => LastInto(R, i)
    <3>1. ASSUME i < m PROVE i + 1 \in 1..m /\ i < m + n
      BY <1>3, <3>1
    <3> QED  BY <1>3, <3>1 DEF LastInto
  <2>5. ASSUME NEW fact \in kp[i + 1] PROVE After(fact, kp[i], P[i], LastInto(R, i))
    <3>1. After(fact, kp[i], P[i], LastInto(P, i))
      BY <2>1
    <3> QED  BY <2>4, <3>1 DEF After, Directly, Gives
  <2> QED  BY <2>1, <2>3, <2>5
<1>8. ASSUME NEW i \in 1..n
      PROVE  /\ Fits(R[m + i]) /\ Permits(k[m + i], R[m + i])
             /\ \A fact \in k[(m + i) + 1] : After(fact, k[m + i], R[m + i], LastInto(R, m + i))
  <2>1. /\ Fits(Q[i]) /\ Permits(kq[i], Q[i])
        /\ \A fact \in kq[i + 1] : After(fact, kq[i], Q[i], LastInto(Q, i))
    BY <1>2 DEF Annotates
  <2>2. i \in 1..(n + 1) /\ i + 1 \in 1..(n + 1) /\ m + (i + 1) = (m + i) + 1
    BY <1>3
  <2>5. k[m + i] = kq[i] /\ k[m + (i + 1)] = kq[i + 1] /\ R[m + i] = Q[i]
    BY <1>3, <1>6, <2>2
  <2>3. k[m + i] = kq[i] /\ k[(m + i) + 1] = kq[i + 1] /\ R[m + i] = Q[i]
    BY ONLY <2>2, <2>5
  <2>4. LastInto(R, m + i) = LastInto(Q, i)
    <3>1. (m + i < m + n) = (i < n)
      BY <1>3
    <3>2. i < n => i + 1 \in 1..n
      BY <1>3
    <3> QED  BY <1>3, <2>2, <3>1, <3>2 DEF LastInto
  <2> QED  BY <2>1, <2>3, <2>4
<1>9. ASSUME NEW i \in 1..(m + n)
      PROVE  /\ Fits(R[i]) /\ Permits(k[i], R[i])
             /\ \A fact \in k[i + 1] : After(fact, k[i], R[i], LastInto(R, i))
  <2>1. CASE i \in 1..m
    BY <1>7, <2>1
  <2>2. CASE i - m \in 1..n /\ i = m + (i - m)
    <3> DEFINE l == i - m
    <3> HIDE DEF l
    <3>1. l \in 1..n /\ i = m + l
      BY <2>2 DEF l
    <3> QED  BY <1>8, <3>1
  <2> QED  BY <1>3, <2>1, <2>2
<1>10. k[1] = A /\ k[Len(R) + 1] = C
  <2>1. 1 \in 1..(m + 1) /\ n + 1 \in 1..(n + 1) /\ m + (n + 1) = (m + n) + 1
    BY <1>3
  <2> QED  BY <1>1, <1>2, <1>3, <1>6, <2>1
<1>11. Annotates(k, R, FF)
  BY <1>3, <1>6, <1>9 DEF Annotates
<1> QED  BY <1>3, <1>4, <1>10, <1>11 DEF Sound, R

LEMMA OneStep ==
  ASSUME NEW st \in Steps, NEW A, NEW B, NEW FF, NEW D,
         A \subseteq FF, B \subseteq FF,
         Fits(st), Permits(A, st), st.op # "spawn",
         \A fact \in B : After(fact, A, st, FALSE),
         \A f \in Private \ {"retained"} : Makes(st, f) => f \in D
  PROVE  Sound(<<st>>, A, B, FF, D)
<1> DEFINE P == <<st>>
           k == [i \in 1..2 |-> IF i = 1 THEN A ELSE B]
<1>1. P \in Seq(Steps) /\ Len(P) = 1 /\ P[1] = st
  OBVIOUS
<1>2. k \in [1..2 -> SUBSET FF] /\ k[1] = A /\ k[2] = B
  OBVIOUS
<1> HIDE DEF P, k
<1>3. LastInto(P, 1) = FALSE /\ Len(P) + 1 = 2 /\ (\A i \in 1..Len(P) : i = 1)
  BY <1>1 DEF LastInto
<1>4. Annotates(k, P, FF)
  BY <1>1, <1>2, <1>3 DEF Annotates
<1>5. CleansUp(P, D)
  BY <1>1 DEF CleansUp
<1> QED  BY <1>1, <1>2, <1>4, <1>5 DEF Sound, P

LEMMA WiderSound ==
  ASSUME NEW P, NEW A, NEW B, NEW FF, NEW GG, NEW D, NEW E, FF \subseteq GG, D \subseteq E,
         Sound(P, A, B, FF, D)
  PROVE  Sound(P, A, B, GG, E)
<1>1. PICK k : Annotates(k, P, FF) /\ k[1] = A /\ k[Len(P) + 1] = B
  BY DEF Sound
<1>2. k \in [1..(Len(P) + 1) -> SUBSET GG]
  BY <1>1 DEF Annotates
<1>3. Annotates(k, P, GG)
  BY <1>1, <1>2 DEF Annotates
<1>4. CleansUp(P, E)
  BY DEF Sound, CleansUp
<1> QED  BY <1>1, <1>3, <1>4 DEF Sound

LEMMA JoinSame ==
  ASSUME NEW P, NEW Q, NEW A, NEW B, NEW C, NEW FF, NEW D,
         Sound(P, A, B, FF, D), Sound(Q, B, C, FF, D)
  PROVE  Sound(P \o Q, A, C, FF, D)
BY JoinSound

LEMMA JoinTwo ==
  ASSUME NEW P, NEW Q \in Seq(Steps), NEW R \in Seq(Steps), NEW A, NEW B, NEW C, NEW FF, NEW D,
         Sound(P, A, B, FF, D), Sound(Q \o R, B, C, FF, D)
  PROVE  Sound((P \o Q) \o R, A, C, FF, D)
<1>1. (P \o Q) \o R = P \o (Q \o R)
  BY ConcatAssoc DEF Sound
<1> QED  BY <1>1, JoinSame

LEMMA JoinFinally ==
  ASSUME NEW P, NEW A, NEW B, NEW C, NEW FF, NEW D, NEW E, NEW f,
         Sound(P, A, B, FF, E), Sound(Finally(f), B, C, FF, D), E \subseteq D \cup {f}
  PROVE  Sound(P \o Finally(f), A, C, FF, D)
<1>1. 1 \in 1..Len(Finally(f)) /\ Finally(f)[1].op = "finally" /\ Finally(f)[1].a = f
  BY DEF Finally, Step
<1>2. \A g \in E : g \in D \/ \E j \in 1..Len(Finally(f)) :
                                Finally(f)[j].op = "finally" /\ Finally(f)[j].a = g
  BY <1>1
<1> QED  BY <1>2, JoinSound

LEMMA PairOf ==
  ASSUME NEW s \in Steps, NEW t \in Steps
  PROVE  <<s>> \o <<t>> = <<s, t>>
<1> DEFINE P == <<s>>
           Q == <<t>>
           R == <<s, t>>
<1>1. /\ P \in Seq(Steps) /\ Q \in Seq(Steps) /\ R \in Seq(Steps)
      /\ Len(P) = 1 /\ Len(Q) = 1 /\ Len(R) = 2
      /\ R[1] = P[1] /\ R[2] = Q[1]
  OBVIOUS
<1> HIDE DEF P, Q, R
<1>2. /\ \A i \in 1..Len(P) : R[i] = P[i]
      /\ \A i \in 1..Len(Q) : R[Len(P) + i] = Q[i]
      /\ Len(R) = Len(P) + Len(Q)
  <2>1. \A i \in 1..1 : i = 1 /\ 1 + i = 2
    OBVIOUS
  <2> QED  BY <1>1, <2>1
<1>3. P \o Q = R
  BY <1>1, <1>2, ConcatIs
<1> QED  BY <1>3 DEF P, Q, R

LEMMA TwoSteps ==
  ASSUME NEW s \in Steps, NEW t \in Steps, NEW A, NEW B, NEW C, NEW FF, NEW D,
         Sound(<<s>>, A, B, FF, D), Sound(<<t>>, B, C, FF, D)
  PROVE  Sound(<<s, t>>, A, C, FF, D)
BY PairOf, JoinSame

Context == {<<"absent", "report">>, <<"accepted", "none">>, <<"job", "emit">>}

(* The steps one by one: A is known before, B after, and what is made is   *)
(* in D.                                                                   *)
LEMMA Steady ==
  ASSUME NEW st \in Steps, NEW A, NEW B, NEW FF, NEW D,
         A \subseteq FF, B \subseteq FF,
         Fits(st), Permits(A, st), st.op # "spawn",
         \A fact \in B :
           \/ fact \in A /\ ~Breaks(st, fact)
           \/ Gives(st, FALSE, fact)
           \/ fact[1] = "whole" /\ Gives(st, FALSE, <<"read", fact[2]>>),
         \A f \in Private \ {"retained"} : Makes(st, f) => f \in D
  PROVE  Sound(<<st>>, A, B, FF, D)
<1>1. ASSUME NEW fact \in B PROVE After(fact, A, st, FALSE)
  BY DEF After, Directly
<1> QED  BY <1>1, OneStep

LEMMA Quiet ==
  ASSUME NEW op \in {"requireAbsent", "requireSame", "requirePinned", "compare", "matches",
                     "return", "poll", "stop"},
         NEW a \in AllFiles \cup {Absent}, NEW b \in AllFiles \cup {Absent}, NEW A,
         op \in {"requireAbsent", "compare", "matches"} => a \in AllFiles,
         op = "matches" => b \in AllFiles
  PROVE  LET st == Step(op, a, b)
         IN  /\ st \in Steps /\ Fits(st) /\ Permits(A, st) /\ st.op # "spawn"
             /\ \A fact : ~Breaks(st, fact)
             /\ \A f : ~Makes(st, f)
<1> DEFINE st == Step(op, a, b)
<1>1. st.op = op /\ st.a = a /\ st.b = b /\ st \in Steps
  BY DEF Step, Steps, Ops
<1> HIDE DEF st
<1>2. Fits(st)
  BY <1>1 DEF Fits
<1>3. Permits(A, st)
  BY <1>1 DEF Permits
<1>4. (\A f : ~Touches(st, f)) /\ op \notin MemOps /\ op # "accept"
  BY <1>1 DEF Touches, MemOps
<1>5. \A fact : ~Breaks(st, fact)
  BY <1>1, <1>4 DEF Breaks
<1>6. \A f : ~Makes(st, f)
  BY <1>1 DEF Makes
<1> QED  BY <1>1, <1>2, <1>3, <1>5, <1>6 DEF st

LEMMA RequireAbsentSound ==
  ASSUME NEW f \in AllFiles, NEW A, NEW B, NEW FF, NEW D,
         A \subseteq FF, B \subseteq FF,
         B \subseteq A \cup {<<"absent", f>>}
  PROVE  Sound(RequireAbsent(f), A, B, FF, D)
<1> DEFINE st == Step("requireAbsent", f, Absent)
<1>1. /\ st \in Steps /\ Fits(st) /\ Permits(A, st) /\ st.op # "spawn"
      /\ \A fact : ~Breaks(st, fact)
      /\ \A g : ~Makes(st, g)
  BY Quiet
<1>2. Gives(st, FALSE, <<"absent", f>>)
  BY DEF Gives, Step
<1> HIDE DEF st
<1>3. Sound(<<st>>, A, B, FF, D)
  BY <1>1, <1>2, Steady
<1> QED  BY <1>3 DEF st, RequireAbsent

LEMMA RequireSameSound ==
  ASSUME NEW A, NEW B, NEW FF, NEW D,
         A \subseteq FF, B \subseteq FF,
         B \subseteq A \cup {<<"mem", "one">>}
  PROVE  Sound(RequireSame, A, B, FF, D)
<1> DEFINE st == Step("requireSame", Absent, Absent)
<1>1. /\ st \in Steps /\ Fits(st) /\ Permits(A, st) /\ st.op # "spawn"
      /\ \A fact : ~Breaks(st, fact)
      /\ \A g : ~Makes(st, g)
  BY Quiet
<1>2. Gives(st, FALSE, <<"mem", "one">>)
  BY DEF Gives, Step
<1> HIDE DEF st
<1>3. Sound(<<st>>, A, B, FF, D)
  BY <1>1, <1>2, Steady
<1> QED  BY <1>3 DEF st, RequireSame

LEMMA RequirePinnedSound ==
  ASSUME NEW A, NEW B, NEW FF, NEW D,
         A \subseteq FF, B \subseteq FF,
         B \subseteq A \cup {<<"mem", "pinned">>}
  PROVE  Sound(RequirePinned, A, B, FF, D)
<1> DEFINE st == Step("requirePinned", Absent, Absent)
<1>1. /\ st \in Steps /\ Fits(st) /\ Permits(A, st) /\ st.op # "spawn"
      /\ \A fact : ~Breaks(st, fact)
      /\ \A g : ~Makes(st, g)
  BY Quiet
<1>2. Gives(st, FALSE, <<"mem", "pinned">>)
  BY DEF Gives, Step
<1> HIDE DEF st
<1>3. Sound(<<st>>, A, B, FF, D)
  BY <1>1, <1>2, Steady
<1> QED  BY <1>3 DEF st, RequirePinned

LEMMA CompareSound ==
  ASSUME NEW f \in AllFiles, NEW A, NEW B, NEW FF, NEW D,
         A \subseteq FF, B \subseteq FF,
         B \subseteq A \cup {<<"read", f>>, <<"whole", f>>}
  PROVE  Sound(Compare(f), A, B, FF, D)
<1> DEFINE st == Step("compare", f, Absent)
<1>1. /\ st \in Steps /\ Fits(st) /\ Permits(A, st) /\ st.op # "spawn"
      /\ \A fact : ~Breaks(st, fact)
      /\ \A g : ~Makes(st, g)
  BY Quiet
<1>2. Gives(st, FALSE, <<"read", f>>) /\ <<"whole", f>>[1] = "whole" /\ <<"whole", f>>[2] = f
  BY DEF Gives, Step
<1> HIDE DEF st
<1>3. ASSUME NEW fact \in B
      PROVE  \/ fact \in A /\ ~Breaks(st, fact)
             \/ Gives(st, FALSE, fact)
             \/ fact[1] = "whole" /\ Gives(st, FALSE, <<"read", fact[2]>>)
  BY <1>1, <1>2
<1>4. Sound(<<st>>, A, B, FF, D)
  BY <1>1, <1>3, Steady
<1> QED  BY <1>4 DEF st, Compare

LEMMA MatchesSound ==
  ASSUME NEW f \in AllFiles, NEW h \in AllFiles, NEW A, NEW B, NEW FF, NEW D,
         A \subseteq FF, B \subseteq FF,
         B \subseteq A
  PROVE  Sound(Matches(f, h), A, B, FF, D)
<1> DEFINE st == Step("matches", f, h)
<1>1. /\ st \in Steps /\ Fits(st) /\ Permits(A, st) /\ st.op # "spawn"
      /\ \A fact : ~Breaks(st, fact)
      /\ \A g : ~Makes(st, g)
  BY Quiet
<1> HIDE DEF st
<1>2. Sound(<<st>>, A, B, FF, D)
  BY <1>1, Steady
<1> QED  BY <1>2 DEF st, Matches

LEMMA ReturnSound ==
  ASSUME NEW A, NEW B, NEW FF, NEW D,
         A \subseteq FF, B \subseteq FF,
         B \subseteq A
  PROVE  Sound(Return, A, B, FF, D)
<1> DEFINE st == Step("return", Absent, Absent)
<1>1. /\ st \in Steps /\ Fits(st) /\ Permits(A, st) /\ st.op # "spawn"
      /\ \A fact : ~Breaks(st, fact)
      /\ \A g : ~Makes(st, g)
  BY Quiet
<1> HIDE DEF st
<1>2. Sound(<<st>>, A, B, FF, D)
  BY <1>1, Steady
<1> QED  BY <1>2 DEF st, Return

LEMMA MemStep ==
  ASSUME NEW op \in MemOps, NEW a \in AllFiles \cup {Absent}, NEW A,
         op = "load" => a \in AllFiles
  PROVE  LET st == Step(op, a, Absent)
         IN  /\ st \in Steps /\ Fits(st) /\ Permits(A, st) /\ st.op # "spawn"
             /\ \A fact : Breaks(st, fact) => fact[1] \in {"read", "mem"}
             /\ \A f : ~Makes(st, f)
<1> DEFINE st == Step(op, a, Absent)
<1>1. st.op = op /\ st.a = a /\ st.b = Absent /\ st \in Steps
  BY DEF Step, Steps, Ops, MemOps
<1> HIDE DEF st
<1>2. Fits(st)
  BY <1>1 DEF Fits, MemOps
<1>3. Permits(A, st)
  BY <1>1 DEF Permits, MemOps
<1>4. (\A f : ~Touches(st, f)) /\ op # "accept" /\ op # "spawn"
  BY <1>1 DEF Touches, MemOps
<1>5. \A fact : Breaks(st, fact) => fact[1] \in {"read", "mem"}
  BY <1>1, <1>4 DEF Breaks
<1>6. \A f : ~Makes(st, f)
  BY <1>1 DEF Makes, MemOps
<1> QED  BY <1>1, <1>2, <1>3, <1>4, <1>5, <1>6 DEF st

LEMMA ReadSound ==
  ASSUME NEW A, NEW B, NEW FF, NEW D,
         A \subseteq FF, B \subseteq FF,
         \A fact \in B : fact \in A /\ fact[1] \notin {"read", "mem"}
  PROVE  Sound(Read, A, B, FF, D)
<1> DEFINE st == Step("read", Absent, Absent)
<1>1. /\ st \in Steps /\ Fits(st) /\ Permits(A, st) /\ st.op # "spawn"
      /\ \A fact : Breaks(st, fact) => fact[1] \in {"read", "mem"}
      /\ \A g : ~Makes(st, g)
  BY MemStep DEF MemOps
<1> HIDE DEF st
<1>2. Sound(<<st>>, A, B, FF, D)
  BY <1>1, Steady
<1> QED  BY <1>2 DEF st, Read

LEMMA FetchSound ==
  ASSUME NEW A, NEW B, NEW FF, NEW D,
         A \subseteq FF, B \subseteq FF,
         \A fact \in B : fact \in A /\ fact[1] \notin {"read", "mem"}
  PROVE  Sound(Fetch, A, B, FF, D)
<1> DEFINE st == Step("fetch", Absent, Absent)
<1>1. /\ st \in Steps /\ Fits(st) /\ Permits(A, st) /\ st.op # "spawn"
      /\ \A fact : Breaks(st, fact) => fact[1] \in {"read", "mem"}
      /\ \A g : ~Makes(st, g)
  BY MemStep DEF MemOps
<1> HIDE DEF st
<1>2. Sound(<<st>>, A, B, FF, D)
  BY <1>1, Steady
<1> QED  BY <1>2 DEF st, Fetch

LEMMA ForgetSound ==
  ASSUME NEW A, NEW B, NEW FF, NEW D,
         A \subseteq FF, B \subseteq FF,
         \A fact \in B : fact \in A /\ fact[1] \notin {"read", "mem"}
  PROVE  Sound(Forget, A, B, FF, D)
<1> DEFINE st == Step("forget", Absent, Absent)
<1>1. /\ st \in Steps /\ Fits(st) /\ Permits(A, st) /\ st.op # "spawn"
      /\ \A fact : Breaks(st, fact) => fact[1] \in {"read", "mem"}
      /\ \A g : ~Makes(st, g)
  BY MemStep DEF MemOps
<1> HIDE DEF st
<1>2. Sound(<<st>>, A, B, FF, D)
  BY <1>1, Steady
<1> QED  BY <1>2 DEF st, Forget

LEMMA LoadSound ==
  ASSUME NEW f \in AllFiles, NEW A, NEW B, NEW FF, NEW D,
         A \subseteq FF, B \subseteq FF,
         \A fact \in B :
           \/ fact \in A /\ fact[1] \notin {"read", "mem"}
           \/ fact \in {<<"read", f>>, <<"whole", f>>}
  PROVE  Sound(Load(f), A, B, FF, D)
<1> DEFINE st == Step("load", f, Absent)
<1>1. /\ st \in Steps /\ Fits(st) /\ Permits(A, st) /\ st.op # "spawn"
      /\ \A fact : Breaks(st, fact) => fact[1] \in {"read", "mem"}
      /\ \A g : ~Makes(st, g)
  BY MemStep DEF MemOps
<1>2. Gives(st, FALSE, <<"read", f>>) /\ <<"whole", f>>[1] = "whole" /\ <<"whole", f>>[2] = f
  BY DEF Gives, Step
<1> HIDE DEF st
<1>3. ASSUME NEW fact \in B
      PROVE  \/ fact \in A /\ ~Breaks(st, fact)
             \/ Gives(st, FALSE, fact)
             \/ fact[1] = "whole" /\ Gives(st, FALSE, <<"read", fact[2]>>)
  BY <1>1, <1>2
<1>4. Sound(<<st>>, A, B, FF, D)
  BY <1>1, <1>3, Steady
<1> QED  BY <1>4 DEF st, Load

Made == Private \cup {"declarationStage"}

LEMMA FileStep ==
  ASSUME NEW op \in {"mkTemp", "copyInto", "create", "truncate", "fill", "finally"},
         NEW f \in Made, NEW A, op \in {"mkTemp", "copyInto", "create"} => f \in Private,
         op = "copyInto" => <<"there", f>> \in A
  PROVE  LET st == Step(op, f, Absent)
         IN  /\ st \in Steps /\ Fits(st) /\ Permits(A, st) /\ st.op # "spawn"
             /\ \A fact : Breaks(st, fact) => fact[2] = f
             /\ \A g \in Private : Makes(st, g) => g = f
<1> DEFINE st == Step(op, f, Absent)
<1>1. st.op = op /\ st.a = f /\ st.b = Absent /\ st \in Steps
  BY DEF Step, Steps, Ops, Made, AllFiles, Shared
<1>2. f \notin {"archive", "checksum", "report", "assets", "manifest", "tarball"}
  BY DEF Made, Private
<1> HIDE DEF st
<1>3. Fits(st)
  BY <1>1 DEF Fits, Made
<1>4. Permits(A, st)
  BY <1>1, <1>2 DEF Permits
<1>5. \A g : Touches(st, g) => g = f
  BY <1>1 DEF Touches
<1>6. \A fact : Breaks(st, fact) => fact[2] = f
  <2>1. op \notin MemOps /\ op # "accept"
    BY DEF MemOps
  <2>2. \A g : Partner(g) # f
    BY <1>2 DEF Partner
  <2> QED  BY <1>1, <1>5, <2>1, <2>2 DEF Breaks
<1>7. \A g \in Private : Makes(st, g) => g = f
  BY <1>1 DEF Makes
<1> QED  BY <1>1, <1>3, <1>4, <1>6, <1>7 DEF st

LEMMA MkTempSound ==
  ASSUME NEW f \in Private, NEW A, NEW B, NEW FF, NEW D,
         A \subseteq FF, B \subseteq FF, f \in D \cup {"retained"},
         \A fact \in B : (fact \in A /\ fact[2] # f) \/ fact = <<"there", f>>
  PROVE  Sound(MkTemp(f), A, B, FF, D)
<1> DEFINE st == Step("mkTemp", f, Absent)
<1>1. /\ st \in Steps /\ Fits(st) /\ Permits(A, st) /\ st.op # "spawn"
      /\ \A fact : Breaks(st, fact) => fact[2] = f
      /\ \A g \in Private : Makes(st, g) => g = f
  BY FileStep DEF Made
<1>2. Gives(st, FALSE, <<"there", f>>)
  BY DEF Gives, Step
<1> HIDE DEF st
<1>3. Sound(<<st>>, A, B, FF, D)
  BY <1>1, <1>2, Steady
<1> QED  BY <1>3 DEF st, MkTemp

LEMMA CopyIntoSound ==
  ASSUME NEW f \in Private, NEW A, NEW B, NEW FF, NEW D,
         A \subseteq FF, B \subseteq FF, f \in D \cup {"retained"},
         <<"there", f>> \in A,
         \A fact \in B : (fact \in A /\ fact[2] # f) \/ fact = <<"there", f>>
  PROVE  Sound(CopyInto(f), A, B, FF, D)
<1> DEFINE st == Step("copyInto", f, Absent)
<1>1. /\ st \in Steps /\ Fits(st) /\ Permits(A, st) /\ st.op # "spawn"
      /\ \A fact : Breaks(st, fact) => fact[2] = f
      /\ \A g \in Private : Makes(st, g) => g = f
  BY FileStep DEF Made
<1>2. Gives(st, FALSE, <<"there", f>>)
  BY DEF Gives, Step
<1> HIDE DEF st
<1>3. Sound(<<st>>, A, B, FF, D)
  BY <1>1, <1>2, Steady
<1> QED  BY <1>3 DEF st, CopyInto

LEMMA FinallySound ==
  ASSUME NEW f \in Made, NEW A, NEW B, NEW FF, NEW D,
         A \subseteq FF, B \subseteq FF,
         \A fact \in B : fact \in A /\ fact[2] # f
  PROVE  Sound(Finally(f), A, B, FF, D)
<1> DEFINE st == Step("finally", f, Absent)
<1>1. /\ st \in Steps /\ Fits(st) /\ Permits(A, st) /\ st.op # "spawn"
      /\ \A fact : Breaks(st, fact) => fact[2] = f
      /\ \A g \in Private : ~Makes(st, g)
  BY FileStep DEF Made, Makes, Step
<1> HIDE DEF st
<1>2. Sound(<<st>>, A, B, FF, D)
  BY <1>1, Steady
<1> QED  BY <1>2 DEF st, Finally

LEMMA WriteSound ==
  ASSUME NEW f \in Private, NEW A, NEW B, NEW FF, NEW D,
         A \subseteq FF, B \subseteq FF,
         f \in D \cup {"retained", "declarationStage"},
         \A fact \in B : (fact \in A /\ fact[2] # f) \/ fact \in {<<"read", f>>, <<"whole", f>>}
  PROVE  Sound(Write(f), A, B, FF, D)
<1> DEFINE s == Step("create", f, Absent)
           t == Step("fill", f, Absent)
           M == {fact \in A : fact[2] # f}
<1>1. /\ s \in Steps /\ Fits(s) /\ Permits(A, s) /\ s.op # "spawn"
      /\ \A fact : Breaks(s, fact) => fact[2] = f
      /\ \A g \in Private : Makes(s, g) => g = f
  BY FileStep DEF Made
<1>2. /\ t \in Steps /\ Fits(t) /\ Permits(M, t) /\ t.op # "spawn"
      /\ \A fact : Breaks(t, fact) => fact[2] = f
      /\ \A g \in Private : Makes(t, g) => g = f
  BY FileStep DEF Made
<1>3. Gives(t, FALSE, <<"read", f>>) /\ <<"whole", f>>[1] = "whole" /\ <<"whole", f>>[2] = f
  BY DEF Gives, Step
<1> HIDE DEF s, t
<1>4. \A g \in Private \ {"retained"} : g = f => f \in D
  BY DEF Private
<1>5. Sound(<<s>>, A, M, FF, D)
  <2>1. M \subseteq FF /\ \A fact \in M : fact \in A /\ fact[2] # f
    OBVIOUS
  <2> HIDE DEF M
  <2> QED  BY <1>1, <1>4, <2>1, Steady
<1>6. ASSUME NEW fact \in B
      PROVE  \/ fact \in M /\ ~Breaks(t, fact)
             \/ Gives(t, FALSE, fact)
             \/ fact[1] = "whole" /\ Gives(t, FALSE, <<"read", fact[2]>>)
  BY <1>2, <1>3
<1>7. Sound(<<t>>, M, B, FF, D)
  <2>1. M \subseteq FF
    OBVIOUS
  <2> HIDE DEF M
  <2> QED  BY <1>2, <1>4, <1>6, <2>1, Steady
<1> HIDE DEF M
<1> QED  BY <1>1, <1>2, <1>5, <1>7, TwoSteps DEF s, t, Write

LEMMA OverwriteSound ==
  ASSUME NEW f \in Made, NEW A, NEW B, NEW FF, NEW D,
         A \subseteq FF, B \subseteq FF,
         f \in D \cup {"retained", "declarationStage"},
         \A fact \in B : (fact \in A /\ fact[2] # f) \/ fact \in {<<"read", f>>, <<"whole", f>>}
  PROVE  Sound(Overwrite(f), A, B, FF, D)
<1> DEFINE s == Step("truncate", f, Absent)
           t == Step("fill", f, Absent)
           M == {fact \in A : fact[2] # f}
<1>1. /\ s \in Steps /\ Fits(s) /\ Permits(A, s) /\ s.op # "spawn"
      /\ \A fact : Breaks(s, fact) => fact[2] = f
      /\ \A g \in Private : Makes(s, g) => g = f
  BY FileStep DEF Made
<1>2. /\ t \in Steps /\ Fits(t) /\ Permits(M, t) /\ t.op # "spawn"
      /\ \A fact : Breaks(t, fact) => fact[2] = f
      /\ \A g \in Private : Makes(t, g) => g = f
  BY FileStep DEF Made
<1>3. Gives(t, FALSE, <<"read", f>>) /\ <<"whole", f>>[1] = "whole" /\ <<"whole", f>>[2] = f
  BY DEF Gives, Step
<1> HIDE DEF s, t
<1>4. \A g \in Private \ {"retained"} : g = f => f \in D
  BY DEF Private
<1>5. Sound(<<s>>, A, M, FF, D)
  <2>1. M \subseteq FF /\ \A fact \in M : fact \in A /\ fact[2] # f
    OBVIOUS
  <2> HIDE DEF M
  <2> QED  BY <1>1, <1>4, <2>1, Steady
<1>6. ASSUME NEW fact \in B
      PROVE  \/ fact \in M /\ ~Breaks(t, fact)
             \/ Gives(t, FALSE, fact)
             \/ fact[1] = "whole" /\ Gives(t, FALSE, <<"read", fact[2]>>)
  BY <1>2, <1>3
<1>7. Sound(<<t>>, M, B, FF, D)
  <2>1. M \subseteq FF
    OBVIOUS
  <2> HIDE DEF M
  <2> QED  BY <1>2, <1>4, <1>6, <2>1, Steady
<1> HIDE DEF M
<1> QED  BY <1>1, <1>2, <1>5, <1>7, TwoSteps DEF s, t, Overwrite

LEMMA LinkSound ==
  ASSUME NEW A, NEW B, NEW FF, NEW D,
         A \subseteq FF, B \subseteq FF,
         <<"read", "temporary">> \in A, <<"mem", "pinned">> \in A,
         \A fact \in B : fact \in A /\ fact[2] # "addon"
  PROVE  Sound(Link("temporary", "addon"), A, B, FF, D)
<1> DEFINE st == Step("link", "temporary", "addon")
<1>1. /\ st \in Steps /\ Fits(st) /\ st.op # "spawn"
      /\ \A g : Touches(st, g) => g = "addon"
      /\ \A g \in Private : ~Makes(st, g)
  BY DEF Step, Steps, Ops, Fits, Touches, Makes, AllFiles, Private, Shared
<1>2. Permits(A, st)
  BY DEF Step, Permits
<1>3. st.op \notin MemOps /\ st.op # "accept"
  BY DEF Step, MemOps
<1> HIDE DEF st
<1>4. \A fact \in B : fact \in A /\ ~Breaks(st, fact)
  BY <1>1, <1>3 DEF Breaks, Partner
<1>5. Sound(<<st>>, A, B, FF, D)
  BY <1>1, <1>2, <1>4, Steady
<1> QED  BY <1>5 DEF st, Link

LEMMA MoveTreeSound ==
  ASSUME NEW h \in {"runtime", "evidence"}, NEW A, NEW B, NEW FF, NEW D,
         A \subseteq FF, B \subseteq FF,
         <<"whole", "temporary">> \in A,
         \A fact \in B : fact \in A /\ fact[2] \notin {"temporary", h}
  PROVE  Sound(MoveTree("temporary", h), A, B, FF, D)
<1> DEFINE st == Step("moveTree", "temporary", h)
<1>1. /\ st \in Steps /\ Fits(st) /\ st.op # "spawn"
      /\ \A g : Touches(st, g) => g \in {"temporary", h}
      /\ \A g \in Private : ~Makes(st, g)
  BY DEF Step, Steps, Ops, Fits, Touches, Makes, AllFiles, Private, Shared
<1>2. Permits(A, st)
  BY DEF Step, Permits
<1>3. st.op \notin MemOps /\ st.op # "accept"
  BY DEF Step, MemOps
<1> HIDE DEF st
<1>4. \A fact \in B : fact \in A /\ ~Breaks(st, fact)
  BY <1>1, <1>3 DEF Breaks, Partner
<1>5. Sound(<<st>>, A, B, FF, D)
  BY <1>1, <1>2, <1>4, Steady
<1> QED  BY <1>5 DEF st, MoveTree

LEMMA MoveFileSound ==
  ASSUME NEW A, NEW B, NEW FF, NEW D,
         A \subseteq FF, B \subseteq FF,
         <<"whole", "declarationStage">> \in A,
         \A fact \in B : fact \in A /\ fact[2] \notin {"declarationStage", "declaration"}
  PROVE  Sound(MoveFile("declarationStage", "declaration"), A, B, FF, D)
<1> DEFINE st == Step("moveFile", "declarationStage", "declaration")
<1>1. /\ st \in Steps /\ Fits(st) /\ st.op # "spawn"
      /\ \A g : Touches(st, g) => g \in {"declarationStage", "declaration"}
      /\ \A g \in Private : ~Makes(st, g)
  BY DEF Step, Steps, Ops, Fits, Touches, Makes, AllFiles, Private, Shared
<1>2. Permits(A, st)
  BY DEF Step, Permits
<1>3. st.op \notin MemOps /\ st.op # "accept"
  BY DEF Step, MemOps
<1> HIDE DEF st
<1>4. \A fact \in B : fact \in A /\ ~Breaks(st, fact)
  BY <1>1, <1>3 DEF Breaks, Partner
<1>5. Sound(<<st>>, A, B, FF, D)
  BY <1>1, <1>2, <1>4, Steady
<1> QED  BY <1>5 DEF st, MoveFile

LEMMA UnlinkSound ==
  ASSUME NEW f \in {"runtime", "addon"}, NEW A, NEW B, NEW FF, NEW D,
         A \subseteq FF, B \subseteq FF,
         \A fact \in B : fact \in A /\ fact[2] # f
  PROVE  Sound(Unlink(f), A, B, FF, D)
<1> DEFINE st == Step("remove", f, Absent)
<1>1. /\ st \in Steps /\ Fits(st) /\ st.op # "spawn"
      /\ \A g : Touches(st, g) => g = f
      /\ \A g \in Private : ~Makes(st, g)
  BY DEF Step, Steps, Ops, Fits, Touches, Makes, AllFiles, Private, Shared
<1>2. Permits(A, st)
  BY DEF Step, Permits
<1>3. st.op \notin MemOps /\ st.op # "accept"
  BY DEF Step, MemOps
<1> HIDE DEF st
<1>4. \A fact \in B : fact \in A /\ ~Breaks(st, fact)
  BY <1>1, <1>3 DEF Breaks, Partner
<1>5. Sound(<<st>>, A, B, FF, D)
  BY <1>1, <1>2, <1>4, Steady
<1> QED  BY <1>5 DEF st, Unlink

LEMMA UnlinkAssetsSound ==
  ASSUME NEW A, NEW B, NEW FF, NEW D,
         A \subseteq FF, B \subseteq FF,
         <<"accepted", "none">> \in A,
         \A fact \in B : fact \in A /\ fact[2] # "assets" /\ fact[1] # "alike"
  PROVE  Sound(Unlink("assets"), A, B, FF, D)
<1> DEFINE st == Step("remove", "assets", Absent)
<1>1. /\ st \in Steps /\ Fits(st) /\ st.op # "spawn"
      /\ \A g : Touches(st, g) => g = "assets"
      /\ \A g \in Private : ~Makes(st, g)
  BY DEF Step, Steps, Ops, Fits, Touches, Makes, AllFiles, Private, Shared
<1>2. Permits(A, st)
  BY DEF Step, Permits
<1>3. st.op \notin MemOps /\ st.op # "accept"
  BY DEF Step, MemOps
<1> HIDE DEF st
<1>4. \A fact \in B : fact \in A /\ ~Breaks(st, fact)
  BY <1>1, <1>3 DEF Breaks, Partner
<1>5. Sound(<<st>>, A, B, FF, D)
  BY <1>1, <1>2, <1>4, Steady
<1> QED  BY <1>5 DEF st, Unlink

LEMMA CatchSound ==
  ASSUME NEW A, NEW B, NEW FF, NEW D,
         A \subseteq FF, B \subseteq FF,
         \A fact \in B : fact \in A /\ fact[2] # "archive" /\ fact[1] # "alike"
  PROVE  Sound(Catch("archive", "checksum"), A, B, FF, D)
<1> DEFINE st == Step("catch", "archive", "checksum")
<1>1. /\ st \in Steps /\ Fits(st) /\ st.op # "spawn"
      /\ \A g : Touches(st, g) => g = "archive"
      /\ \A g \in Private : ~Makes(st, g)
  BY DEF Step, Steps, Ops, Fits, Touches, Makes, AllFiles, Private, Shared
<1>2. Permits(A, st)
  BY DEF Step, Permits
<1>3. st.op \notin MemOps /\ st.op # "accept"
  BY DEF Step, MemOps
<1> HIDE DEF st
<1>4. \A fact \in B : fact \in A /\ ~Breaks(st, fact)
  BY <1>1, <1>3 DEF Breaks, Partner
<1>5. Sound(<<st>>, A, B, FF, D)
  BY <1>1, <1>2, <1>4, Steady
<1> QED  BY <1>5 DEF st, Catch

LEMMA FinallyHeldSound ==
  ASSUME NEW A, NEW B, NEW FF, NEW D,
         A \subseteq FF, B \subseteq FF,
         \A fact \in B : fact \in A /\ fact[2] # "retained"
  PROVE  Sound(FinallyHeld("retained"), A, B, FF, D)
<1> DEFINE st == Step("finallyHeld", "retained", Absent)
<1>1. /\ st \in Steps /\ Fits(st) /\ st.op # "spawn"
      /\ \A g : Touches(st, g) => g = "retained"
      /\ \A g \in Private : ~Makes(st, g)
  BY DEF Step, Steps, Ops, Fits, Touches, Makes, AllFiles, Private, Shared
<1>2. Permits(A, st)
  BY DEF Step, Permits
<1>3. st.op \notin MemOps /\ st.op # "accept"
  BY DEF Step, MemOps
<1> HIDE DEF st
<1>4. \A fact \in B : fact \in A /\ ~Breaks(st, fact)
  BY <1>1, <1>3 DEF Breaks, Partner
<1>5. Sound(<<st>>, A, B, FF, D)
  BY <1>1, <1>2, <1>4, Steady
<1> QED  BY <1>5 DEF st, FinallyHeld

(* A directory is whole with its last copy.                                *)
LEMMA LastCopySound ==
  ASSUME NEW f \in Private, NEW A, NEW B, NEW FF, NEW D,
         A \subseteq FF, B \subseteq FF,
         f \in D \cup {"retained"}, <<"there", f>> \in A,
         \A fact \in B : \/ fact \in A /\ fact[2] # f /\ fact[1] \notin {"read", "mem"}
                        \/ fact = <<"whole", f>>
  PROVE  Sound(CopyInto(f) \o Forget, A, B, FF, D)
<1> DEFINE s == Step("copyInto", f, Absent)
           t == Step("forget", Absent, Absent)
           P == <<s, t>>
           k == [i \in 1..3 |-> IF i = 1 THEN A ELSE B]
<1>1. /\ s \in Steps /\ Fits(s) /\ Permits(A, s) /\ s.op # "spawn"
      /\ \A fact : Breaks(s, fact) => fact[2] = f
      /\ \A g \in Private : Makes(s, g) => g = f
  BY FileStep DEF Made
<1>2. Gives(s, TRUE, <<"whole", f>>) /\ t.op # "copyInto"
  BY DEF Gives, Step
<1>3. /\ t \in Steps /\ Fits(t) /\ Permits(B, t) /\ t.op # "spawn"
      /\ \A fact : Breaks(t, fact) => fact[1] \in {"read", "mem"}
      /\ \A g : ~Makes(t, g)
  BY MemStep DEF MemOps
<1> HIDE DEF s, t
<1>4. P \in Seq(Steps) /\ Len(P) = 2 /\ Len(P) + 1 = 3 /\ P[1] = s /\ P[2] = t
  BY <1>1, <1>3
<1>7. <<s>> \o <<t>> = P
  BY <1>1, <1>3, PairOf
<1>5. /\ k \in [1..3 -> SUBSET FF] /\ k[1] = A /\ k[2] = B /\ k[3] = B
  OBVIOUS
<1> HIDE DEF P, k
<1>6. (\A i \in 1..Len(P) : i = 1 \/ i = 2) /\ 1 + 1 = 2 /\ 2 + 1 = 3 /\ 1 < Len(P)
  BY <1>4
<1>8. LastInto(P, 1) = TRUE
  BY <1>2, <1>4, <1>6 DEF LastInto
<1>9. ASSUME NEW fact \in B PROVE After(fact, A, s, TRUE)
  BY <1>1, <1>2 DEF After, Directly
<1>10. ASSUME NEW fact \in B PROVE After(fact, B, t, LastInto(P, 2))
  <2>1. <<"whole", f>>[1] = "whole"
    OBVIOUS
  <2>2. fact[1] \notin {"read", "mem"}
    BY <2>1
  <2> QED  BY <1>3, <2>2 DEF After, Directly
<1>11. Annotates(k, P, FF)
  BY <1>1, <1>3, <1>4, <1>5, <1>6, <1>8, <1>9, <1>10 DEF Annotates
<1>12. CleansUp(P, D)
  <2>1. \A g \in Private \ {"retained"} : g = f => g \in D
    OBVIOUS
  <2> QED  BY <1>1, <1>3, <1>4, <1>6, <2>1 DEF CleansUp
<1>13. Sound(P, A, B, FF, D)
  BY <1>4, <1>5, <1>11, <1>12 DEF Sound
<1> QED  BY <1>7, <1>13 DEF s, t, CopyInto, Forget

(* The wallet's files, of which nothing is accepted yet.                   *)
LEMMA OverwriteAssetsSound ==
  ASSUME NEW f \in {"assets", "manifest"}, NEW A, NEW B, NEW FF, NEW D,
         A \subseteq FF, B \subseteq FF,
         <<"accepted", "none">> \in A,
         \A fact \in B : fact \in A /\ fact[2] # f /\ fact[1] # "alike"
  PROVE  Sound(Overwrite(f), A, B, FF, D)
<1> DEFINE s == Step("truncate", f, Absent)
           t == Step("fill", f, Absent)
           M == B \cup {<<"accepted", "none">>}
<1>1. /\ s \in Steps /\ Fits(s) /\ s.op # "spawn"
      /\ \A g : Touches(s, g) => g = f
      /\ \A g \in Private : ~Makes(s, g)
  BY DEF Step, Steps, Ops, Fits, Touches, Makes, AllFiles, Private, Shared
<1>2. /\ t \in Steps /\ Fits(t) /\ t.op # "spawn"
      /\ \A g : Touches(t, g) => g = f
      /\ \A g \in Private : ~Makes(t, g)
  BY DEF Step, Steps, Ops, Fits, Touches, Makes, AllFiles, Private, Shared
<1>3. Permits(A, s) /\ Permits(M, t)
  BY DEF Step, Permits
<1>4. s.op \notin MemOps /\ s.op # "accept" /\ t.op \notin MemOps /\ t.op # "accept"
  BY DEF Step, MemOps
<1> HIDE DEF s, t
<1>5. M \subseteq FF /\ \A fact \in M : fact \in A /\ fact[2] # f /\ fact[1] # "alike"
  OBVIOUS
<1>6. \A fact \in B : fact \in M
  OBVIOUS
<1> HIDE DEF M
<1>7. \A fact \in M : ~Breaks(s, fact) /\ ~Breaks(t, fact)
  BY <1>1, <1>2, <1>4, <1>5 DEF Breaks
<1>8. Sound(<<s>>, A, M, FF, D)
  BY <1>1, <1>3, <1>5, <1>7, Steady
<1>9. Sound(<<t>>, M, B, FF, D)
  BY <1>2, <1>3, <1>5, <1>6, <1>7, Steady
<1> QED  BY <1>1, <1>2, <1>8, <1>9, TwoSteps DEF s, t, Overwrite

(* A file that is what was read is as its partner, which was read.         *)
LEMMA CompareAlikeSound ==
  ASSUME NEW f \in {"assets", "checksum"}, NEW A, NEW B, NEW FF, NEW D,
         A \subseteq FF, B \subseteq FF,
         <<"read", Partner(f)>> \in A,
         B \subseteq A \cup {<<"whole", f>>, <<"whole", Partner(f)>>, <<"alike", f>>}
  PROVE  Sound(Compare(f), A, B, FF, D)
<1> DEFINE st == Step("compare", f, Absent)
<1>1. /\ st \in Steps /\ Fits(st) /\ Permits(A, st) /\ st.op # "spawn"
      /\ \A fact : ~Breaks(st, fact)
      /\ \A g : ~Makes(st, g)
  BY Quiet DEF AllFiles, Shared
<1>2. Gives(st, FALSE, <<"read", f>>)
  BY DEF Gives, Step
<1> HIDE DEF st
<1>3. Directly(<<"read", f>>, A, st, FALSE) /\ Directly(<<"read", Partner(f)>>, A, st, FALSE)
  BY <1>1, <1>2 DEF Directly
<1>4. \A fact \in A : Directly(fact, A, st, FALSE)
  BY <1>1 DEF Directly
<1>5. /\ After(<<"whole", f>>, A, st, FALSE) /\ After(<<"whole", Partner(f)>>, A, st, FALSE)
      /\ After(<<"alike", f>>, A, st, FALSE)
  BY <1>3 DEF After
<1>6. \A fact \in B : After(fact, A, st, FALSE)
  BY <1>4, <1>5 DEF After
<1>7. Sound(<<st>>, A, B, FF, D)
  BY <1>1, <1>6, OneStep
<1> QED  BY <1>7 DEF st, Compare

(* The subjects are copied out of the packer's directory, and from there   *)
(* into the artifact directory, which has no report.                       *)
LEMMA CopySound ==
  ASSUME NEW f \in Private, NEW g \in {"retained", "tarball"}, f # g,
         NEW A, NEW B, NEW FF, NEW D, A \subseteq FF, B \subseteq FF,
         g = "tarball" => <<"absent", "report">> \in B,
         \A fact \in B : fact \in A /\ fact[2] # g
  PROVE  Sound(Copy(f, g), A, B, FF, D)
<1> DEFINE s == Step("truncate", g, Absent)
           t == Step("copy", f, g)
<1>1. /\ s \in Steps /\ Fits(s) /\ s.op # "spawn"
      /\ \A h : Touches(s, h) => h = g
      /\ \A h \in Private : Makes(s, h) => h = "retained"
  BY DEF Step, Steps, Ops, Fits, Touches, Makes, AllFiles, Private, Shared
<1>2. /\ t \in Steps /\ Fits(t) /\ t.op # "spawn"
      /\ \A h : Touches(t, h) => h = g
      /\ \A h \in Private : Makes(t, h) => h = "retained"
  BY DEF Step, Steps, Ops, Fits, Touches, Makes, AllFiles, Private, Shared
<1>3. Permits(A, s) /\ Permits(B, t)
  BY DEF Step, Permits
<1>4. s.op \notin MemOps /\ s.op # "accept" /\ t.op \notin MemOps /\ t.op # "accept"
  BY DEF Step, MemOps
<1> HIDE DEF s, t
<1>5. \A h : Partner(h) # g
  BY DEF Partner
<1>6. \A fact \in B : ~Breaks(s, fact) /\ ~Breaks(t, fact)
  BY <1>1, <1>2, <1>4, <1>5 DEF Breaks
<1>7. Sound(<<s>>, A, B, FF, D)
  BY <1>1, <1>3, <1>6, Steady
<1>8. Sound(<<t>>, B, B, FF, D)
  BY <1>2, <1>3, <1>6, Steady
<1> QED  BY <1>1, <1>2, <1>7, <1>8, TwoSteps DEF s, t, Copy

(* The service's archive, and then its checksum; at last the report.       *)
LEMMA WriteArchiveSound ==
  ASSUME NEW A, NEW B, NEW FF, NEW D,
         A \subseteq FF, B \subseteq FF,
         {<<"absent", "report">>, <<"accepted", "none">>, <<"absent", "checksum">>} \subseteq B,
         \A fact \in B : \/ fact \in A /\ fact[2] # "archive" /\ fact[1] # "alike"
                        \/ fact = <<"read", "archive">>
  PROVE  Sound(Write("archive"), A, B, FF, D)
<1> DEFINE s == Step("create", "archive", Absent)
           t == Step("fill", "archive", Absent)
           M == {fact \in B : fact # <<"read", "archive">>}
<1>1. /\ s \in Steps /\ Fits(s) /\ s.op # "spawn"
      /\ \A h : Touches(s, h) => h = "archive"
      /\ \A h \in Private : ~Makes(s, h)
  BY DEF Step, Steps, Ops, Fits, Touches, Makes, AllFiles, Private, Shared
<1>2. /\ t \in Steps /\ Fits(t) /\ t.op # "spawn"
      /\ \A h : Touches(t, h) => h = "archive"
      /\ \A h \in Private : ~Makes(t, h)
  BY DEF Step, Steps, Ops, Fits, Touches, Makes, AllFiles, Private, Shared
<1>3. Permits(A, s) /\ Permits(M, t)
  BY DEF Step, Permits
<1>4. s.op \notin MemOps /\ s.op # "accept" /\ t.op \notin MemOps /\ t.op # "accept"
  BY DEF Step, MemOps
<1>5. Gives(t, FALSE, <<"read", "archive">>)
  BY DEF Step, Gives
<1> HIDE DEF s, t
<1>6. M \subseteq FF /\ \A fact \in M : fact \in A /\ fact[2] # "archive" /\ fact[1] # "alike"
  OBVIOUS
<1>7. \A fact \in B : fact \in M \/ fact = <<"read", "archive">>
  OBVIOUS
<1> HIDE DEF M
<1>8. \A fact \in M : ~Breaks(s, fact) /\ ~Breaks(t, fact)
  BY <1>1, <1>2, <1>4, <1>6 DEF Breaks
<1>9. Sound(<<s>>, A, M, FF, D)
  BY <1>1, <1>3, <1>6, <1>8, Steady
<1>10. Sound(<<t>>, M, B, FF, D)
  BY <1>2, <1>3, <1>5, <1>6, <1>7, <1>8, Steady
<1> QED  BY <1>1, <1>2, <1>9, <1>10, TwoSteps DEF s, t, Write

LEMMA WriteChecksumSound ==
  ASSUME NEW A, NEW B, NEW FF, NEW D,
         A \subseteq FF, B \subseteq FF, <<"part", "checksum">> \in FF,
         {<<"absent", "report">>, <<"accepted", "none">>, <<"absent", "checksum">>,
          <<"read", "archive">>, <<"mem", "one">>} \subseteq A,
         \A fact \in B : fact \in A /\ fact[2] # "checksum"
  PROVE  Sound(Write("checksum"), A, B, FF, D)
<1> DEFINE s == Step("create", "checksum", Absent)
           t == Step("fill", "checksum", Absent)
           M == {<<"absent", "report">>, <<"accepted", "none">>, <<"read", "archive">>,
                 <<"mem", "one">>, <<"part", "checksum">>} \cup B
<1>1. /\ s \in Steps /\ Fits(s) /\ s.op # "spawn"
      /\ \A h : Touches(s, h) => h = "checksum"
      /\ \A h \in Private : ~Makes(s, h)
  BY DEF Step, Steps, Ops, Fits, Touches, Makes, AllFiles, Private, Shared
<1>2. /\ t \in Steps /\ Fits(t) /\ t.op # "spawn"
      /\ \A h : Touches(t, h) => h = "checksum"
      /\ \A h \in Private : ~Makes(t, h)
  BY DEF Step, Steps, Ops, Fits, Touches, Makes, AllFiles, Private, Shared
<1>3. Permits(A, s) /\ Permits(M, t)
  BY DEF Step, Permits
<1>4. s.op \notin MemOps /\ s.op # "accept" /\ t.op \notin MemOps /\ t.op # "accept"
  BY DEF Step, MemOps
<1>5. Gives(s, FALSE, <<"part", "checksum">>)
  BY DEF Step, Gives
<1> HIDE DEF s, t
<1>6. /\ M \subseteq FF
      /\ \A fact \in M : (fact \in A /\ fact[2] # "checksum") \/ fact = <<"part", "checksum">>
      /\ \A fact \in B : fact \in M /\ fact[2] # "checksum"
  OBVIOUS
<1> HIDE DEF M
<1>7. \A h : Partner(h) # "checksum"
  BY DEF Partner
<1>8. \A fact : fact[2] # "checksum" => ~Breaks(s, fact) /\ ~Breaks(t, fact)
  BY <1>1, <1>2, <1>4, <1>7 DEF Breaks
<1>9. Sound(<<s>>, A, M, FF, D)
  BY <1>1, <1>3, <1>5, <1>6, <1>8, Steady
<1>10. Sound(<<t>>, M, B, FF, D)
  BY <1>2, <1>3, <1>6, <1>8, Steady
<1> QED  BY <1>1, <1>2, <1>9, <1>10, TwoSteps DEF s, t, Write

LEMMA WriteReportSound ==
  ASSUME NEW A, NEW FF, NEW D, A \subseteq FF,
         {<<"whole", "tarball">>, <<"whole", "archive">>, <<"whole", "checksum">>,
          <<"job", "emit">>} \subseteq A
  PROVE  Sound(Write("report"), A, {}, FF, D)
<1> DEFINE s == Step("create", "report", Absent)
           t == Step("fill", "report", Absent)
           M == {<<"whole", "tarball">>, <<"whole", "archive">>, <<"whole", "checksum">>,
                 <<"job", "emit">>}
<1>1. /\ s \in Steps /\ Fits(s) /\ s.op # "spawn"
      /\ \A h : Touches(s, h) => h = "report"
      /\ \A h \in Private : ~Makes(s, h)
  BY DEF Step, Steps, Ops, Fits, Touches, Makes, AllFiles, Private, Shared
<1>2. /\ t \in Steps /\ Fits(t) /\ t.op # "spawn"
      /\ \A h \in Private : ~Makes(t, h)
  BY DEF Step, Steps, Ops, Fits, Makes, AllFiles, Private, Shared
<1>3. Permits(A, s) /\ Permits(M, t)
  BY DEF Step, Permits
<1>4. s.op \notin MemOps /\ s.op # "accept"
  BY DEF Step, MemOps
<1> HIDE DEF s, t
<1>5. M \subseteq FF /\ \A fact \in M : fact \in A /\ fact[2] # "report" /\ fact[1] # "alike"
  OBVIOUS
<1> HIDE DEF M
<1>6. \A fact \in M : ~Breaks(s, fact)
  BY <1>1, <1>4, <1>5 DEF Breaks
<1>7. Sound(<<s>>, A, M, FF, D)
  BY <1>1, <1>3, <1>5, <1>6, Steady
<1>8. Sound(<<t>>, M, {}, FF, D)
  BY <1>2, <1>3, <1>5, Steady
<1> QED  BY <1>1, <1>2, <1>7, <1>8, TwoSteps DEF s, t, Write

(* The service is started, polled and stopped.                             *)
LEMMA HealthSound ==
  ASSUME NEW A, NEW FF, NEW D, A \subseteq FF, <<"whole", "extracted">> \in A
  PROVE  Sound(runHealthCheck, A, A, FF, D)
<1> DEFINE s == Step("spawn", Absent, Absent)
           t == Step("poll", Absent, Absent)
           u == Step("stop", Absent, Absent)
           P == <<s, t>>
           R == <<s, t, u>>
           k == [i \in 1..4 |-> A]
<1>1. /\ s \in Steps /\ Fits(s) /\ Permits(A, s)
      /\ \A fact : ~Breaks(s, fact)
      /\ \A g : ~Makes(s, g)
  <2>1. s.op = "spawn" /\ s \in Steps
    BY DEF Step, Steps, Ops
  <2>2. Fits(s)
    BY <2>1 DEF Fits
  <2>3. Permits(A, s)
    BY <2>1 DEF Permits
  <2>4. \A g : ~Makes(s, g) /\ ~Touches(s, g)
    BY <2>1 DEF Makes, Touches
  <2> QED  BY <2>1, <2>2, <2>3, <2>4 DEF Breaks, MemOps
<1>2. /\ t \in Steps /\ Fits(t) /\ Permits(A, t) /\ t.op # "spawn"
      /\ \A fact : ~Breaks(t, fact)
      /\ \A g : ~Makes(t, g)
  BY Quiet
<1>3. /\ u \in Steps /\ Fits(u) /\ Permits(A, u) /\ u.op # "spawn"
      /\ \A fact : ~Breaks(u, fact)
      /\ \A g : ~Makes(u, g)
  BY Quiet
<1>4. t.op = "poll" /\ u.op = "stop"
  BY DEF Step
<1> HIDE DEF s, t, u
<1>5. <<s>> \o <<t>> = P
  BY <1>1, <1>2, PairOf DEF P
<1>6. P \o <<u>> = R
  <2> DEFINE Q == <<u>>
  <2>1. /\ P \in Seq(Steps) /\ Q \in Seq(Steps) /\ R \in Seq(Steps)
        /\ Len(P) = 2 /\ Len(Q) = 1 /\ Len(R) = 3
        /\ R[1] = P[1] /\ R[2] = P[2] /\ R[3] = Q[1]
    BY <1>1, <1>2, <1>3
  <2> HIDE DEF P, Q, R
  <2>2. \A i \in 1..Len(P) : R[i] = P[i]
    <3>1. \A i \in 1..2 : i = 1 \/ i = 2
      OBVIOUS
    <3> QED  BY <2>1, <3>1
  <2>3. \A i \in 1..Len(Q) : R[Len(P) + i] = Q[i]
    <3>1. \A i \in 1..1 : i = 1 /\ 2 + i = 3
      OBVIOUS
    <3> QED  BY <2>1, <3>1
  <2>5. Len(R) = Len(P) + Len(Q)
    BY <2>1
  <2>4. P \o Q = R
    BY <2>1, <2>2, <2>3, <2>5, ConcatIs
  <2> QED  BY <2>4 DEF Q
<1>7. /\ R \in Seq(Steps) /\ Len(R) = 3 /\ Len(R) + 1 = 4
      /\ R[1] = s /\ R[2] = t /\ R[3] = u
  BY <1>1, <1>2, <1>3
<1>8. k \in [1..4 -> SUBSET FF] /\ \A i \in 1..4 : k[i] = A
  OBVIOUS
<1>13. R = runHealthCheck
  BY <1>5, <1>6 DEF s, t, u, runHealthCheck, Spawn, Poll, FinallyStop
<1> HIDE DEF P, R, k
<1>9. ASSUME NEW i \in 1..Len(R)
      PROVE  /\ i \in 1..4 /\ i + 1 \in 1..4 /\ (i = 1 \/ i = 2 \/ i = 3)
             /\ i = 1 => i + 2 <= Len(R) /\ R[i + 1] = t /\ R[i + 2] = u
  BY <1>7
<1>10. Annotates(k, R, FF)
  <2>1. ASSUME NEW i \in 1..Len(R)
        PROVE  /\ Fits(R[i]) /\ Permits(k[i], R[i])
               /\ \A fact \in k[i + 1] : After(fact, k[i], R[i], LastInto(R, i))
    <3>1. k[i] = A /\ k[i + 1] = A /\ R[i] \in {s, t, u}
      BY <1>7, <1>8, <1>9
    <3>2. Fits(R[i]) /\ Permits(A, R[i]) /\ \A fact : ~Breaks(R[i], fact)
      BY <1>1, <1>2, <1>3, <3>1
    <3> QED  BY <3>1, <3>2 DEF After, Directly
  <2> QED  BY <1>7, <1>8, <2>1 DEF Annotates
<1>11. CleansUp(R, D)
  <2>1. ASSUME NEW i \in 1..Len(R)
        PROVE  /\ \A g : ~Makes(R[i], g)
               /\ R[i].op = "spawn" =>
                    i + 2 <= Len(R) /\ R[i + 1].op = "poll" /\ R[i + 2].op = "stop"
    BY <1>1, <1>2, <1>3, <1>4, <1>7, <1>9
  <2> QED  BY <2>1 DEF CleansUp
<1>12. k[1] = A /\ k[Len(R) + 1] = A
  BY <1>7, <1>8
<1> QED  BY <1>7, <1>10, <1>11, <1>12, <1>13 DEF Sound

(* What the verifiers return.                                              *)
LEMMA AcceptSound ==
  ASSUME NEW fs \in {{"manifest", "assets"}, {"archive", "checksum"}},
         NEW A, NEW B, NEW FF, NEW D, A \subseteq FF, B \subseteq FF,
         \A f \in fs : <<"whole", f>> \in A,
         \A f \in fs \cap {"checksum", "assets"} : <<"alike", f>> \in A,
         \A fact \in B : fact \in A /\ fact[1] # "accepted"
  PROVE  Sound(Accept(fs), A, B, FF, D)
<1> DEFINE st == Step("accept", fs, Absent)
<1>1. st.op = "accept" /\ st.a = fs
  BY DEF Step
<1>2. st \in Steps
  BY DEF Step, Steps, Ops, AllFiles, Shared
<1> HIDE DEF st
<1>3. Fits(st)
  BY <1>1 DEF Fits
<1>4. Permits(A, st)
  BY <1>1 DEF Permits
<1>5. (\A f : ~Touches(st, f) /\ ~Makes(st, f)) /\ st.op \notin MemOps
  BY <1>1 DEF Touches, Makes, MemOps
<1>6. \A fact \in B : ~Breaks(st, fact)
  BY <1>5 DEF Breaks
<1>7. Sound(<<st>>, A, B, FF, D)
  BY <1>1, <1>2, <1>3, <1>4, <1>5, <1>6, Steady
<1> QED  BY <1>7 DEF st, Accept

(* What is known before the assets or the archive are built or verified,   *)
(* of assets and of an archive that were verified, and while the release   *)
(* is made.                                                                *)
Fresh == {<<"accepted", "none">>, <<"absent", "report">>}

AssetsKnown ==
  Fresh \cup {<<"whole", "manifest">>, <<"whole", "assets">>, <<"alike", "assets">>}

ArchiveKnown == {<<"whole", "archive">>, <<"whole", "checksum">>}

Emitting == {<<"accepted", "none">>, <<"job", "emit">>}

(* The addon is linked into place once it is known to be the pinned one.   *)
LEMMA StageAddonSound ==
  ASSUME NEW C \in SUBSET Context
  PROVE  Sound(stageAddonAtomically, C \cup {<<"mem", "pinned">>}, C, PrivateFacts \cup C, {})
<1> DEFINE A == C \cup {<<"mem", "pinned">>}
           K1 == C \cup {<<"mem", "pinned">>, <<"read", "temporary">>}
           K2 == C
           FF == PrivateFacts \cup C
           D == {"temporary"}
           P1 == RequireAbsent("addon")
           P2 == P1 \o Write("temporary")
           P3 == P2 \o Link("temporary", "addon")
           P4 == P3 \o Finally("temporary")
<1> HIDE DEF A, K1, K2, FF, D, P1, P2, P3, P4
<1>1. Sound(P1, A, A, FF, D)
  BY RequireAbsentSound DEF P1, A, FF, D, PrivateFacts, Private, Context, AllFiles, Shared
<1>2. Sound(P2, A, K1, FF, D)
  <2>1. Sound(Write("temporary"), A, K1, FF, D)
    BY WriteSound DEF A, K1, FF, D, PrivateFacts, Private, Context
  <2> QED  BY <1>1, <2>1, JoinSame DEF P2
<1>3. Sound(P3, A, K2, FF, D)
  <2>1. Sound(Link("temporary", "addon"), K1, K2, FF, D)
    BY LinkSound DEF K1, K2, FF, D, PrivateFacts, Private, Context
  <2> QED  BY <1>2, <2>1, JoinSame DEF P3
<1>4. Sound(P4, A, K2, FF, {})
  <2>1. Sound(Finally("temporary"), K2, K2, FF, {})
    BY FinallySound DEF K2, FF, D, PrivateFacts, Private, Context, Made
  <2> QED  BY <1>3, <2>1, JoinFinally DEF P4, D
<1> QED  BY <1>4 DEF A, FF, K2, P1, P2, P3, P4, stageAddonAtomically

LEMMA AcquireSound ==
  ASSUME NEW C \in SUBSET Context
  PROVE  Sound(acquireBetterSqlite3Prebuild, C, C, PrivateFacts \cup C, {})
<1> DEFINE A == C
           K1 == C \cup {<<"mem", "pinned">>}
           FF == PrivateFacts \cup C
           D == {}
           P1 == Fetch
           P2 == P1 \o RequirePinned
           P3 == P2 \o stageAddonAtomically
<1> HIDE DEF A, K1, FF, D, P1, P2, P3
<1>1. Sound(P1, A, A, FF, D)
  BY FetchSound DEF P1, A, FF, D, PrivateFacts, Private, Context
<1>2. Sound(P2, A, K1, FF, D)
  <2>1. Sound(RequirePinned, A, K1, FF, D)
    BY RequirePinnedSound DEF A, K1, FF, D, PrivateFacts, Private, Context
  <2> QED  BY <1>1, <2>1, JoinSame DEF P2
<1>3. Sound(P3, A, A, FF, D)
  <2>1. Sound(stageAddonAtomically, K1, A, FF, D)
    BY StageAddonSound DEF A, K1, FF, D, PrivateFacts, Private, Context
  <2> QED  BY <1>2, <2>1, JoinSame DEF P3
<1> QED  BY <1>3 DEF A, D, FF, P1, P2, P3, acquireBetterSqlite3Prebuild

(* The core runtime is moved into place when it is whole.                  *)
LEMMA StageCoreSound ==
  ASSUME NEW C \in SUBSET Context
  PROVE  Sound(stageCorePackage, C, C, Facts, {})
<1> DEFINE A == C
           K1 == C \cup {<<"there", "temporary">>}
           K2 == C \cup {<<"whole", "temporary">>}
           K3 == C \cup {<<"whole", "temporary">>, <<"whole", "declarationStage">>}
           K4 == C \cup {<<"whole", "declarationStage">>}
           D == {"temporary"}
           P1 == MkTemp("temporary")
           P2 == P1 \o CopyInto("temporary")
           P3 == P2 \o CopyInto("temporary") \o Forget
           P4 == P3 \o Read
           P5 == P4 \o Overwrite("declarationStage")
           P6 == P5 \o Unlink("runtime")
           P7 == P6 \o MoveTree("temporary", "runtime")
           P8 == P7 \o MoveFile("declarationStage", "declaration")
           P9 == P8 \o Finally("temporary")
           P10 == P9 \o Finally("declarationStage")
<1> HIDE DEF A, K1, K2, K3, K4, D, P1, P2, P3, P4, P5, P6, P7, P8, P9, P10
<1>1. Sound(P1, A, K1, Facts, D)
  BY MkTempSound DEF P1, A, K1, D, Facts, AllFiles, Private, Shared, Context
<1>2. Sound(P2, A, K1, Facts, D)
  <2>1. Sound(CopyInto("temporary"), K1, K1, Facts, D)
    BY CopyIntoSound DEF K1, D, Facts, AllFiles, Private, Shared, Context
  <2> QED  BY <1>1, <2>1, JoinSame DEF P2
<1>3. Sound(P3, A, K2, Facts, D)
  <2>1. Sound(CopyInto("temporary") \o Forget, K1, K2, Facts, D)
    BY LastCopySound DEF K1, K2, D, Facts, AllFiles, Private, Shared, Context
  <2>2. CopyInto("temporary") \in Seq(Steps) /\ Forget \in Seq(Steps)
    BY DEF CopyInto, Forget, Step, Steps, Ops, AllFiles, Private
  <2> QED  BY <1>2, <2>1, <2>2, JoinTwo DEF P3
<1>4. Sound(P4, A, K2, Facts, D)
  <2>1. Sound(Read, K2, K2, Facts, D)
    BY ReadSound DEF K2, D, Facts, AllFiles, Private, Shared, Context
  <2> QED  BY <1>3, <2>1, JoinSame DEF P4
<1>5. Sound(P5, A, K3, Facts, D)
  <2>1. Sound(Overwrite("declarationStage"), K2, K3, Facts, D)
    BY OverwriteSound DEF K2, K3, D, Facts, AllFiles, Private, Shared, Context, Made
  <2> QED  BY <1>4, <2>1, JoinSame DEF P5
<1>6. Sound(P6, A, K3, Facts, D)
  <2>1. Sound(Unlink("runtime"), K3, K3, Facts, D)
    BY UnlinkSound DEF K3, D, Facts, AllFiles, Private, Shared, Context
  <2> QED  BY <1>5, <2>1, JoinSame DEF P6
<1>7. Sound(P7, A, K4, Facts, D)
  <2>1. Sound(MoveTree("temporary", "runtime"), K3, K4, Facts, D)
    BY MoveTreeSound DEF K3, K4, D, Facts, AllFiles, Private, Shared, Context
  <2> QED  BY <1>6, <2>1, JoinSame DEF P7
<1>8. Sound(P8, A, A, Facts, D)
  <2>1. Sound(MoveFile("declarationStage", "declaration"), K4, A, Facts, D)
    BY MoveFileSound DEF A, K4, D, Facts, AllFiles, Private, Shared, Context
  <2> QED  BY <1>7, <2>1, JoinSame DEF P8
<1>9. Sound(P9, A, A, Facts, {})
  <2>1. Sound(Finally("temporary"), A, A, Facts, {})
    BY FinallySound DEF A, D, Facts, AllFiles, Private, Shared, Context, Made
  <2> QED  BY <1>8, <2>1, JoinFinally DEF P9, D
<1>10. Sound(P10, A, A, Facts, {})
  <2>1. Sound(Finally("declarationStage"), A, A, Facts, {})
    BY FinallySound DEF A, Facts, AllFiles, Private, Shared, Context, Made
  <2> QED  BY <1>9, <2>1, JoinSame DEF P10
<1> QED  BY <1>10 DEF A, P1, P2, P3, P4, P5, P6, P7, P8, P9, P10, stageCorePackage

(* The wallet's assets and their manifest are overwritten, and none of them *)
(* is accepted before they are verified.                                   *)
LEMMA BuildAssetsSound ==
  Sound(buildWalletAssets, Fresh, Fresh, Facts, {})
<1> DEFINE A == Fresh
           D == {}
           P1 == Forget
           P2 == P1 \o Read
           P3 == P2 \o Read
           P4 == P3 \o Unlink("assets")
           P5 == P4 \o Overwrite("assets")
           P6 == P5 \o Overwrite("manifest")
<1> HIDE DEF A, D, P1, P2, P3, P4, P5, P6
<1>1. Sound(P1, A, A, Facts, D)
  BY ForgetSound DEF P1, A, D, Fresh, Facts, AllFiles, Private, Shared
<1>2. Sound(P2, A, A, Facts, D)
  <2>1. Sound(Read, A, A, Facts, D)
    BY ReadSound DEF A, D, Fresh, Facts, AllFiles, Private, Shared
  <2> QED  BY <1>1, <2>1, JoinSame DEF P2
<1>3. Sound(P3, A, A, Facts, D)
  <2>1. Sound(Read, A, A, Facts, D)
    BY ReadSound DEF A, D, Fresh, Facts, AllFiles, Private, Shared
  <2> QED  BY <1>2, <2>1, JoinSame DEF P3
<1>4. Sound(P4, A, A, Facts, D)
  <2>1. Sound(Unlink("assets"), A, A, Facts, D)
    BY UnlinkAssetsSound DEF A, D, Fresh, Facts, AllFiles, Private, Shared
  <2> QED  BY <1>3, <2>1, JoinSame DEF P4
<1>5. Sound(P5, A, A, Facts, D)
  <2>1. Sound(Overwrite("assets"), A, A, Facts, D)
    BY OverwriteAssetsSound DEF A, D, Fresh, Facts, AllFiles, Private, Shared
  <2> QED  BY <1>4, <2>1, JoinSame DEF P5
<1>6. Sound(P6, A, A, Facts, D)
  <2>1. Sound(Overwrite("manifest"), A, A, Facts, D)
    BY OverwriteAssetsSound DEF A, D, Fresh, Facts, AllFiles, Private, Shared
  <2> QED  BY <1>5, <2>1, JoinSame DEF P6
<1> QED  BY <1>6 DEF A, D, P1, P2, P3, P4, P5, P6, buildWalletAssets

LEMMA VerifyManifestSound ==
  Sound(verifyManifestAndAssets, Fresh, AssetsKnown, Facts, {})
<1> DEFINE A == Fresh
           K1 == Fresh \cup {<<"read", "manifest">>}
           K2 == AssetsKnown
           D == {}
           P1 == Load("manifest")
           P2 == P1 \o Compare("assets")
           P3 == P2 \o Forget
           P4 == P3 \o Read
           P5 == P4 \o Read
           P6 == P5 \o Compare("assets")
<1> HIDE DEF A, K1, K2, D, P1, P2, P3, P4, P5, P6
<1>1. Sound(P1, A, K1, Facts, D)
  BY LoadSound DEF P1, A, K1, D, Fresh, Facts, AllFiles, Private, Shared
<1>2. Sound(P2, A, K2, Facts, D)
  <2>1. Sound(Compare("assets"), K1, K2, Facts, D)
    BY CompareAlikeSound DEF K1, K2, D, AssetsKnown, Fresh, Facts, AllFiles, Private, Shared,
         Partner
  <2> QED  BY <1>1, <2>1, JoinSame DEF P2
<1>3. Sound(P3, A, K2, Facts, D)
  <2>1. Sound(Forget, K2, K2, Facts, D)
    BY ForgetSound DEF K2, D, AssetsKnown, Fresh, Facts, AllFiles, Private, Shared
  <2> QED  BY <1>2, <2>1, JoinSame DEF P3
<1>4. Sound(P4, A, K2, Facts, D)
  <2>1. Sound(Read, K2, K2, Facts, D)
    BY ReadSound DEF K2, D, AssetsKnown, Fresh, Facts, AllFiles, Private, Shared
  <2> QED  BY <1>3, <2>1, JoinSame DEF P4
<1>5. Sound(P5, A, K2, Facts, D)
  <2>1. Sound(Read, K2, K2, Facts, D)
    BY ReadSound DEF K2, D, AssetsKnown, Fresh, Facts, AllFiles, Private, Shared
  <2> QED  BY <1>4, <2>1, JoinSame DEF P5
<1>6. Sound(P6, A, K2, Facts, D)
  <2>1. Sound(Compare("assets"), K2, K2, Facts, D)
    BY CompareSound DEF K2, D, AssetsKnown, Fresh, Facts, AllFiles, Private, Shared
  <2> QED  BY <1>5, <2>1, JoinSame DEF P6
<1> QED  BY <1>6 DEF A, D, K2, P1, P2, P3, P4, P5, P6, verifyManifestAndAssets

LEMMA RegenerationSound ==
  ASSUME NEW D
  PROVE  Sound(compareRegeneration, AssetsKnown, AssetsKnown, Facts, D)
<1> DEFINE A == AssetsKnown
           P1 == Compare("rebuilt")
           P2 == P1 \o Matches("rebuilt", "manifest")
           P3 == P2 \o Matches("rebuilt", "assets")
<1> HIDE DEF A, P1, P2, P3
<1>1. Sound(P1, A, A, Facts, D)
  BY CompareSound DEF P1, A, AssetsKnown, Fresh, Facts, AllFiles, Private, Shared
<1>2. Sound(P2, A, A, Facts, D)
  <2>1. Sound(Matches("rebuilt", "manifest"), A, A, Facts, D)
    BY MatchesSound DEF A, AssetsKnown, Fresh, Facts, AllFiles, Private, Shared
  <2> QED  BY <1>1, <2>1, JoinSame DEF P2
<1>3. Sound(P3, A, A, Facts, D)
  <2>1. Sound(Matches("rebuilt", "assets"), A, A, Facts, D)
    BY MatchesSound DEF A, AssetsKnown, Fresh, Facts, AllFiles, Private, Shared
  <2> QED  BY <1>2, <2>1, JoinSame DEF P3
<1> QED  BY <1>3 DEF A, P1, P2, P3, compareRegeneration

(* The assets that are accepted are those of the manifest.                 *)
LEMMA VerifyAssetsSound ==
  Sound(verifyWalletAssets, Fresh, {<<"absent", "report">>}, Facts, {})
<1> DEFINE A == Fresh
           K1 == AssetsKnown
           K2 == {<<"absent", "report">>}
           D == {"rebuilt"}
           P1 == verifyManifestAndAssets
           P2 == P1 \o MkTemp("rebuilt")
           P3 == P2 \o Forget
           P4 == P3 \o Read
           P5 == P4 \o Read
           P6 == P5 \o Overwrite("rebuilt")
           P7 == P6 \o compareRegeneration
           P8 == P7 \o Finally("rebuilt")
           P9 == P8 \o Accept({"manifest", "assets"})
<1> HIDE DEF A, K1, K2, D, P1, P2, P3, P4, P5, P6, P7, P8, P9
<1>1. Sound(P1, A, K1, Facts, D)
  BY VerifyManifestSound, WiderSound DEF P1, A, K1, D, AssetsKnown, Fresh, Facts, AllFiles, Private,
         Shared
<1>2. Sound(P2, A, K1, Facts, D)
  <2>1. Sound(MkTemp("rebuilt"), K1, K1, Facts, D)
    BY MkTempSound DEF K1, D, AssetsKnown, Fresh, Facts, AllFiles, Private, Shared
  <2> QED  BY <1>1, <2>1, JoinSame DEF P2
<1>3. Sound(P3, A, K1, Facts, D)
  <2>1. Sound(Forget, K1, K1, Facts, D)
    BY ForgetSound DEF K1, D, AssetsKnown, Fresh, Facts, AllFiles, Private, Shared
  <2> QED  BY <1>2, <2>1, JoinSame DEF P3
<1>4. Sound(P4, A, K1, Facts, D)
  <2>1. Sound(Read, K1, K1, Facts, D)
    BY ReadSound DEF K1, D, AssetsKnown, Fresh, Facts, AllFiles, Private, Shared
  <2> QED  BY <1>3, <2>1, JoinSame DEF P4
<1>5. Sound(P5, A, K1, Facts, D)
  <2>1. Sound(Read, K1, K1, Facts, D)
    BY ReadSound DEF K1, D, AssetsKnown, Fresh, Facts, AllFiles, Private, Shared
  <2> QED  BY <1>4, <2>1, JoinSame DEF P5
<1>6. Sound(P6, A, K1, Facts, D)
  <2>1. Sound(Overwrite("rebuilt"), K1, K1, Facts, D)
    BY OverwriteSound DEF K1, D, AssetsKnown, Fresh, Facts, AllFiles, Private, Shared, Made
  <2> QED  BY <1>5, <2>1, JoinSame DEF P6
<1>7. Sound(P7, A, K1, Facts, D)
  <2>1. Sound(compareRegeneration, K1, K1, Facts, D)
    BY RegenerationSound DEF K1, D, AssetsKnown, Fresh, Facts, AllFiles, Private, Shared
  <2> QED  BY <1>6, <2>1, JoinSame DEF P7
<1>8. Sound(P8, A, K1, Facts, {})
  <2>1. Sound(Finally("rebuilt"), K1, K1, Facts, {})
    BY FinallySound DEF K1, D, AssetsKnown, Fresh, Facts, AllFiles, Private, Shared, Made
  <2> QED  BY <1>7, <2>1, JoinFinally DEF P8, D
<1>9. Sound(P9, A, K2, Facts, {})
  <2>1. Sound(Accept({"manifest", "assets"}), K1, K2, Facts, {})
    BY AcceptSound DEF K1, K2, AssetsKnown, Fresh, Facts, AllFiles, Private, Shared
  <2> QED  BY <1>8, <2>1, JoinSame DEF P9
<1> QED  BY <1>9 DEF A, K2, P1, P2, P3, P4, P5, P6, P7, P8, P9, verifyWalletAssets

LEMMA BuiltOriginSound ==
  ASSUME NEW C \in SUBSET Context, NEW D
  PROVE  Sound(validateBuiltOrigin, C, C, Facts, D)
<1> DEFINE A == C
           P1 == Forget
           P2 == P1 \o Read
           P3 == P2 \o Read
           P4 == P3 \o RequireSame
<1> HIDE DEF A, P1, P2, P3, P4
<1>1. Sound(P1, A, A, Facts, D)
  BY ForgetSound DEF P1, A, Facts, AllFiles, Private, Shared, Context
<1>2. Sound(P2, A, A, Facts, D)
  <2>1. Sound(Read, A, A, Facts, D)
    BY ReadSound DEF A, Facts, AllFiles, Private, Shared, Context
  <2> QED  BY <1>1, <2>1, JoinSame DEF P2
<1>3. Sound(P3, A, A, Facts, D)
  <2>1. Sound(Read, A, A, Facts, D)
    BY ReadSound DEF A, Facts, AllFiles, Private, Shared, Context
  <2> QED  BY <1>2, <2>1, JoinSame DEF P3
<1>4. Sound(P4, A, A, Facts, D)
  <2>1. Sound(RequireSame, A, A, Facts, D)
    BY RequireSameSound DEF A, Facts, AllFiles, Private, Shared, Context
  <2> QED  BY <1>3, <2>1, JoinSame DEF P4
<1> QED  BY <1>4 DEF A, P1, P2, P3, P4, validateBuiltOrigin

(* The archive of one version, and then its checksum.                      *)
LEMMA ArchiveSound ==
  ASSUME NEW J \in SUBSET {<<"job", "emit">>}, NEW D
  PROVE  Sound(buildOriginServiceArchive, J \cup Fresh, J \cup Fresh, Facts, D)
<1> DEFINE A == J \cup Fresh
           K1 == J \cup Fresh \cup {<<"mem", "one">>}
           K2 == J \cup Fresh \cup {<<"mem", "one">>, <<"absent", "checksum">>}
           K3 == J \cup Fresh \cup {<<"mem", "one">>, <<"absent", "checksum">>,
                 <<"read", "archive">>}
           P1 == Forget
           P2 == P1 \o Load("staging")
           P3 == P2 \o RequireSame
           P4 == P3 \o RequireAbsent("archive")
           P5 == P4 \o RequireAbsent("checksum")
           P6 == P5 \o Write("archive")
           P7 == P6 \o Write("checksum")
           P8 == P7 \o Catch("archive", "checksum")
<1> HIDE DEF A, K1, K2, K3, P1, P2, P3, P4, P5, P6, P7, P8
<1>1. Sound(P1, A, A, Facts, D)
  BY ForgetSound DEF P1, A, Fresh, Facts, AllFiles, Private, Shared, Context
<1>2. Sound(P2, A, A, Facts, D)
  <2>1. Sound(Load("staging"), A, A, Facts, D)
    BY LoadSound DEF A, Fresh, Facts, AllFiles, Private, Shared, Context
  <2> QED  BY <1>1, <2>1, JoinSame DEF P2
<1>3. Sound(P3, A, K1, Facts, D)
  <2>1. Sound(RequireSame, A, K1, Facts, D)
    BY RequireSameSound DEF A, K1, Fresh, Facts, AllFiles, Private, Shared, Context
  <2> QED  BY <1>2, <2>1, JoinSame DEF P3
<1>4. Sound(P4, A, K1, Facts, D)
  <2>1. Sound(RequireAbsent("archive"), K1, K1, Facts, D)
    BY RequireAbsentSound DEF K1, Fresh, Facts, AllFiles, Private, Shared, Context
  <2> QED  BY <1>3, <2>1, JoinSame DEF P4
<1>5. Sound(P5, A, K2, Facts, D)
  <2>1. Sound(RequireAbsent("checksum"), K1, K2, Facts, D)
    BY RequireAbsentSound DEF K1, K2, Fresh, Facts, AllFiles, Private, Shared, Context
  <2> QED  BY <1>4, <2>1, JoinSame DEF P5
<1>6. Sound(P6, A, K3, Facts, D)
  <2>1. Sound(Write("archive"), K2, K3, Facts, D)
    BY WriteArchiveSound DEF K2, K3, Fresh, Facts, AllFiles, Private, Shared, Context
  <2> QED  BY <1>5, <2>1, JoinSame DEF P6
<1>7. Sound(P7, A, A, Facts, D)
  <2>1. Sound(Write("checksum"), K3, A, Facts, D)
    BY WriteChecksumSound DEF A, K3, Fresh, Facts, AllFiles, Private, Shared, Context
  <2> QED  BY <1>6, <2>1, JoinSame DEF P7
<1>8. Sound(P8, A, A, Facts, D)
  <2>1. Sound(Catch("archive", "checksum"), A, A, Facts, D)
    BY CatchSound DEF A, Fresh, Facts, AllFiles, Private, Shared, Context
  <2> QED  BY <1>7, <2>1, JoinSame DEF P8
<1> QED  BY <1>8 DEF A, P1, P2, P3, P4, P5, P6, P7, P8, buildOriginServiceArchive

LEMMA OriginReleaseSound ==
  ASSUME NEW J \in SUBSET {<<"job", "emit">>}
  PROVE  Sound(buildProductionOriginServiceRelease, J \cup Fresh, J \cup Fresh, Facts, {})
<1> DEFINE A == J \cup Fresh
           K1 == J \cup Fresh \cup {<<"there", "staging">>}
           D == {"staging"}
           P1 == Unlink("addon")
           P2 == P1 \o acquireBetterSqlite3Prebuild
           P3 == P2 \o validateBuiltOrigin
           P4 == P3 \o MkTemp("staging")
           P5 == P4 \o CopyInto("staging")
           P6 == P5 \o CopyInto("staging")
           P7 == P6 \o buildOriginServiceArchive
           P8 == P7 \o Finally("staging")
<1> HIDE DEF A, K1, D, P1, P2, P3, P4, P5, P6, P7, P8
<1>1. Sound(P1, A, A, Facts, D)
  BY UnlinkSound DEF P1, A, D, Fresh, Facts, AllFiles, Private, Shared, Context
<1>2. Sound(P2, A, A, Facts, D)
  <2>1. Sound(acquireBetterSqlite3Prebuild, A, A, Facts, D)
    <3>1. A \in SUBSET Context
      BY DEF A, Fresh, Context
    <3>2. Sound(acquireBetterSqlite3Prebuild, A, A, PrivateFacts \cup A, {})
      BY <3>1, AcquireSound
    <3>3. PrivateFacts \cup A \subseteq Facts /\ {} \subseteq D
      BY DEF PrivateFacts, Facts, AllFiles, Shared, A, Fresh
    <3> QED  BY <3>2, <3>3, WiderSound
  <2> QED  BY <1>1, <2>1, JoinSame DEF P2
<1>3. Sound(P3, A, A, Facts, D)
  <2>1. Sound(validateBuiltOrigin, A, A, Facts, D)
    BY BuiltOriginSound DEF A, D, Fresh, Facts, AllFiles, Private, Shared, Context
  <2> QED  BY <1>2, <2>1, JoinSame DEF P3
<1>4. Sound(P4, A, K1, Facts, D)
  <2>1. Sound(MkTemp("staging"), A, K1, Facts, D)
    BY MkTempSound DEF A, K1, D, Fresh, Facts, AllFiles, Private, Shared, Context
  <2> QED  BY <1>3, <2>1, JoinSame DEF P4
<1>5. Sound(P5, A, K1, Facts, D)
  <2>1. Sound(CopyInto("staging"), K1, K1, Facts, D)
    BY CopyIntoSound DEF K1, D, Fresh, Facts, AllFiles, Private, Shared, Context
  <2> QED  BY <1>4, <2>1, JoinSame DEF P5
<1>6. Sound(P6, A, A, Facts, D)
  <2>1. Sound(CopyInto("staging"), K1, A, Facts, D)
    BY CopyIntoSound DEF A, K1, D, Fresh, Facts, AllFiles, Private, Shared, Context
  <2> QED  BY <1>5, <2>1, JoinSame DEF P6
<1>7. Sound(P7, A, A, Facts, D)
  <2>1. Sound(buildOriginServiceArchive, A, A, Facts, D)
    BY ArchiveSound DEF A, D, Fresh, Facts, AllFiles, Private, Shared, Context
  <2> QED  BY <1>6, <2>1, JoinSame DEF P7
<1>8. Sound(P8, A, A, Facts, {})
  <2>1. Sound(Finally("staging"), A, A, Facts, {})
    BY FinallySound DEF A, D, Fresh, Facts, AllFiles, Private, Shared, Context, Made
  <2> QED  BY <1>7, <2>1, JoinFinally DEF P8, D
<1> QED  BY <1>8 DEF A, P1, P2, P3, P4, P5, P6, P7, P8, buildProductionOriginServiceRelease

(* The archive that is accepted is the one of the checksum.                *)
LEMMA VerifyReleaseSound ==
  ASSUME NEW J \in SUBSET {<<"job", "emit">>}
  PROVE  Sound(verifyOriginServiceRelease, J \cup Fresh, J \cup ArchiveKnown, Facts, {})
<1> DEFINE A == J \cup Fresh
           K1 == J \cup Fresh \cup {<<"read", "archive">>}
           K2 == J \cup Fresh \cup ArchiveKnown \cup {<<"alike", "checksum">>}
           K3 == J \cup Fresh \cup ArchiveKnown \cup {<<"alike", "checksum">>,
                 <<"whole", "extracted">>}
           K4 == J \cup ArchiveKnown
           D == {"extracted"}
           P1 == Forget
           P2 == P1 \o Load("archive")
           P3 == P2 \o Compare("checksum")
           P4 == P3 \o MkTemp("extracted")
           P5 == P4 \o Overwrite("extracted")
           P6 == P5 \o runHealthCheck
           P7 == P6 \o Finally("extracted")
           P8 == P7 \o Accept({"archive", "checksum"})
<1> HIDE DEF A, K1, K2, K3, K4, D, P1, P2, P3, P4, P5, P6, P7, P8
<1>1. Sound(P1, A, A, Facts, D)
  BY ForgetSound DEF P1, A, D, Fresh, Facts, AllFiles, Private, Shared, Context
<1>2. Sound(P2, A, K1, Facts, D)
  <2>1. Sound(Load("archive"), A, K1, Facts, D)
    BY LoadSound DEF A, K1, D, Fresh, Facts, AllFiles, Private, Shared, Context
  <2> QED  BY <1>1, <2>1, JoinSame DEF P2
<1>3. Sound(P3, A, K2, Facts, D)
  <2>1. Sound(Compare("checksum"), K1, K2, Facts, D)
    BY CompareAlikeSound DEF K1, K2, D, Fresh, ArchiveKnown, Facts, AllFiles, Private, Shared,
         Context, Partner
  <2> QED  BY <1>2, <2>1, JoinSame DEF P3
<1>4. Sound(P4, A, K2, Facts, D)
  <2>1. Sound(MkTemp("extracted"), K2, K2, Facts, D)
    BY MkTempSound DEF K2, D, Fresh, ArchiveKnown, Facts, AllFiles, Private, Shared, Context
  <2> QED  BY <1>3, <2>1, JoinSame DEF P4
<1>5. Sound(P5, A, K3, Facts, D)
  <2>1. Sound(Overwrite("extracted"), K2, K3, Facts, D)
    BY OverwriteSound DEF K2, K3, D, Fresh, ArchiveKnown, Facts, AllFiles, Private, Shared, Context,
         Made
  <2> QED  BY <1>4, <2>1, JoinSame DEF P5
<1>6. Sound(P6, A, K3, Facts, D)
  <2>1. Sound(runHealthCheck, K3, K3, Facts, D)
    BY HealthSound DEF K3, D, Fresh, ArchiveKnown, Facts, AllFiles, Private, Shared, Context
  <2> QED  BY <1>5, <2>1, JoinSame DEF P6
<1>7. Sound(P7, A, K2, Facts, {})
  <2>1. Sound(Finally("extracted"), K3, K2, Facts, {})
    BY FinallySound DEF K2, K3, D, Fresh, ArchiveKnown, Facts, AllFiles, Private, Shared, Context,
         Made
  <2> QED  BY <1>6, <2>1, JoinFinally DEF P7, D
<1>8. Sound(P8, A, K4, Facts, {})
  <2>1. Sound(Accept({"archive", "checksum"}), K2, K4, Facts, {})
    BY AcceptSound DEF K2, K4, Fresh, ArchiveKnown, Facts, AllFiles, Private, Shared, Context
  <2> QED  BY <1>7, <2>1, JoinSame DEF P8
<1> QED  BY <1>8 DEF A, K4, P1, P2, P3, P4, P5, P6, P7, P8, verifyOriginServiceRelease

(* The packages are packed, copied and handed over.                        *)
LEMMA PackSound ==
  Sound(packWorkspaceReleaseSubject("packed"), Emitting, Emitting, Facts, {"packed"})
<1> DEFINE A == Emitting
           K1 == Emitting \cup {<<"there", "subject">>}
           D == {"subject", "packed"}
           P1 == Forget
           P2 == P1 \o Read
           P3 == P2 \o MkTemp("subject")
           P4 == P3 \o CopyInto("subject")
           P5 == P4 \o Forget
           P6 == P5 \o Load("subject")
           P7 == P6 \o Overwrite("packed")
           P8 == P7 \o Finally("subject")
<1> HIDE DEF A, K1, D, P1, P2, P3, P4, P5, P6, P7, P8
<1>1. Sound(P1, A, A, Facts, D)
  BY ForgetSound DEF P1, A, D, Emitting, Facts, AllFiles, Private, Shared
<1>2. Sound(P2, A, A, Facts, D)
  <2>1. Sound(Read, A, A, Facts, D)
    BY ReadSound DEF A, D, Emitting, Facts, AllFiles, Private, Shared
  <2> QED  BY <1>1, <2>1, JoinSame DEF P2
<1>3. Sound(P3, A, K1, Facts, D)
  <2>1. Sound(MkTemp("subject"), A, K1, Facts, D)
    BY MkTempSound DEF A, K1, D, Emitting, Facts, AllFiles, Private, Shared
  <2> QED  BY <1>2, <2>1, JoinSame DEF P3
<1>4. Sound(P4, A, A, Facts, D)
  <2>1. Sound(CopyInto("subject"), K1, A, Facts, D)
    BY CopyIntoSound DEF A, K1, D, Emitting, Facts, AllFiles, Private, Shared
  <2> QED  BY <1>3, <2>1, JoinSame DEF P4
<1>5. Sound(P5, A, A, Facts, D)
  <2>1. Sound(Forget, A, A, Facts, D)
    BY ForgetSound DEF A, D, Emitting, Facts, AllFiles, Private, Shared
  <2> QED  BY <1>4, <2>1, JoinSame DEF P5
<1>6. Sound(P6, A, A, Facts, D)
  <2>1. Sound(Load("subject"), A, A, Facts, D)
    BY LoadSound DEF A, D, Emitting, Facts, AllFiles, Private, Shared
  <2> QED  BY <1>5, <2>1, JoinSame DEF P6
<1>7. Sound(P7, A, A, Facts, D)
  <2>1. Sound(Overwrite("packed"), A, A, Facts, D)
    BY OverwriteSound DEF A, D, Emitting, Facts, AllFiles, Private, Shared, Made
  <2> QED  BY <1>6, <2>1, JoinSame DEF P7
<1>8. Sound(P8, A, A, Facts, {"packed"})
  <2>1. Sound(Finally("subject"), A, A, Facts, {"packed"})
    BY FinallySound DEF A, D, Emitting, Facts, AllFiles, Private, Shared, Made
  <2> QED  BY <1>7, <2>1, JoinFinally DEF P8, D
<1> QED  BY <1>8 DEF A, P1, P2, P3, P4, P5, P6, P7, P8, packWorkspaceReleaseSubject

LEMMA PackagesSound ==
  Sound(packAndVerifyPackages, Emitting, Emitting, Facts, {})
<1> DEFINE A == Emitting
           D == {"packed"}
           P1 == MkTemp("packed")
           P2 == P1 \o stageCorePackage
           P3 == P2 \o packWorkspaceReleaseSubject("packed")
           P4 == P3 \o MkTemp("retained")
           P5 == P4 \o Copy("packed", "retained")
           P6 == P5 \o Return
           P7 == P6 \o Finally("packed")
<1> HIDE DEF A, D, P1, P2, P3, P4, P5, P6, P7
<1>1. Sound(P1, A, A, Facts, D)
  BY MkTempSound DEF P1, A, D, Emitting, Facts, AllFiles, Private, Shared
<1>2. Sound(P2, A, A, Facts, D)
  <2>1. Sound(stageCorePackage, A, A, Facts, D)
    BY StageCoreSound, WiderSound DEF A, D, Emitting, Facts, AllFiles, Private, Shared, Context
  <2> QED  BY <1>1, <2>1, JoinSame DEF P2
<1>3. Sound(P3, A, A, Facts, D)
  <2>1. Sound(packWorkspaceReleaseSubject("packed"), A, A, Facts, D)
    BY PackSound DEF A, D, Emitting, Facts, AllFiles, Private, Shared
  <2> QED  BY <1>2, <2>1, JoinSame DEF P3
<1>4. Sound(P4, A, A, Facts, D)
  <2>1. Sound(MkTemp("retained"), A, A, Facts, D)
    BY MkTempSound DEF A, D, Emitting, Facts, AllFiles, Private, Shared
  <2> QED  BY <1>3, <2>1, JoinSame DEF P4
<1>5. Sound(P5, A, A, Facts, D)
  <2>1. Sound(Copy("packed", "retained"), A, A, Facts, D)
    BY CopySound DEF A, D, Emitting, Facts, AllFiles, Private, Shared
  <2> QED  BY <1>4, <2>1, JoinSame DEF P5
<1>6. Sound(P6, A, A, Facts, D)
  <2>1. Sound(Return, A, A, Facts, D)
    BY ReturnSound DEF A, D, Emitting, Facts, AllFiles, Private, Shared
  <2> QED  BY <1>5, <2>1, JoinSame DEF P6
<1>7. Sound(P7, A, A, Facts, {})
  <2>1. Sound(Finally("packed"), A, A, Facts, {})
    BY FinallySound DEF A, D, Emitting, Facts, AllFiles, Private, Shared, Made
  <2> QED  BY <1>6, <2>1, JoinFinally DEF P7, D
<1> QED  BY <1>7 DEF A, P1, P2, P3, P4, P5, P6, P7, packAndVerifyPackages

(* The report is written when everything it reports is whole.              *)
LEMMA EmitSound ==
  Sound(emitArtifacts, Emitting, {}, Facts, {})
<1> DEFINE A == Emitting
           K1 == Fresh \cup {<<"job", "emit">>}
           K2 == ArchiveKnown \cup {<<"job", "emit">>}
           K3 == ArchiveKnown \cup {<<"job", "emit">>, <<"whole", "tarball">>}
           K4 == {}
           D == {}
           P1 == RequireAbsent("tarball")
           P2 == P1 \o RequireAbsent("archive")
           P3 == P2 \o RequireAbsent("report")
           P4 == P3 \o Copy("retained", "tarball")
           P5 == P4 \o buildProductionOriginServiceRelease
           P6 == P5 \o verifyOriginServiceRelease
           P7 == P6 \o Forget
           P8 == P7 \o Load("tarball")
           P9 == P8 \o Write("report")
<1> HIDE DEF A, K1, K2, K3, K4, D, P1, P2, P3, P4, P5, P6, P7, P8, P9
<1>1. Sound(P1, A, A, Facts, D)
  BY RequireAbsentSound DEF P1, A, D, Emitting, Facts, AllFiles, Private, Shared
<1>2. Sound(P2, A, A, Facts, D)
  <2>1. Sound(RequireAbsent("archive"), A, A, Facts, D)
    BY RequireAbsentSound DEF A, D, Emitting, Facts, AllFiles, Private, Shared
  <2> QED  BY <1>1, <2>1, JoinSame DEF P2
<1>3. Sound(P3, A, K1, Facts, D)
  <2>1. Sound(RequireAbsent("report"), A, K1, Facts, D)
    BY RequireAbsentSound DEF A, K1, D, Fresh, Emitting, Facts, AllFiles, Private, Shared
  <2> QED  BY <1>2, <2>1, JoinSame DEF P3
<1>4. Sound(P4, A, K1, Facts, D)
  <2>1. Sound(Copy("retained", "tarball"), K1, K1, Facts, D)
    BY CopySound DEF K1, D, Fresh, Facts, AllFiles, Private, Shared
  <2> QED  BY <1>3, <2>1, JoinSame DEF P4
<1>5. Sound(P5, A, K1, Facts, D)
  <2>1. Sound(buildProductionOriginServiceRelease, K1, K1, Facts, D)
    BY OriginReleaseSound DEF K1, D, Fresh, Facts, AllFiles, Private, Shared
  <2> QED  BY <1>4, <2>1, JoinSame DEF P5
<1>6. Sound(P6, A, K2, Facts, D)
  <2>1. Sound(verifyOriginServiceRelease, K1, K2, Facts, D)
    BY VerifyReleaseSound DEF K1, K2, D, Fresh, ArchiveKnown, Facts, AllFiles, Private, Shared
  <2> QED  BY <1>5, <2>1, JoinSame DEF P6
<1>7. Sound(P7, A, K2, Facts, D)
  <2>1. Sound(Forget, K2, K2, Facts, D)
    BY ForgetSound DEF K2, D, ArchiveKnown, Facts, AllFiles, Private, Shared
  <2> QED  BY <1>6, <2>1, JoinSame DEF P7
<1>8. Sound(P8, A, K3, Facts, D)
  <2>1. Sound(Load("tarball"), K2, K3, Facts, D)
    BY LoadSound DEF K2, K3, D, ArchiveKnown, Facts, AllFiles, Private, Shared
  <2> QED  BY <1>7, <2>1, JoinSame DEF P8
<1>9. Sound(P9, A, K4, Facts, D)
  <2>1. Sound(Write("report"), K3, K4, Facts, D)
    BY WriteReportSound DEF K3, K4, D, ArchiveKnown, Facts, AllFiles, Private, Shared
  <2> QED  BY <1>8, <2>1, JoinSame DEF P9
<1> QED  BY <1>9 DEF A, D, K4, P1, P2, P3, P4, P5, P6, P7, P8, P9, emitArtifacts

LEMMA ReleaseMainSound ==
  Sound(verifyReleaseMain, Emitting, {}, Facts, {})
<1> DEFINE A == Emitting
           K1 == {}
           D == {}
           P1 == packAndVerifyPackages
           P2 == P1 \o emitArtifacts
           P3 == P2 \o FinallyHeld("retained")
<1> HIDE DEF A, K1, D, P1, P2, P3
<1>1. Sound(P1, A, A, Facts, D)
  BY PackagesSound DEF P1, A, D, Emitting, Facts, AllFiles, Private, Shared
<1>2. Sound(P2, A, K1, Facts, D)
  <2>1. Sound(emitArtifacts, A, K1, Facts, D)
    BY EmitSound DEF A, K1, D, Emitting, Facts, AllFiles, Private, Shared
  <2> QED  BY <1>1, <2>1, JoinSame DEF P2
<1>3. Sound(P3, A, K1, Facts, D)
  <2>1. Sound(FinallyHeld("retained"), K1, K1, Facts, D)
    BY FinallyHeldSound DEF K1, D, Facts, AllFiles, Private, Shared
  <2> QED  BY <1>2, <2>1, JoinSame DEF P3
<1> QED  BY <1>3 DEF A, D, K1, P1, P2, P3, verifyReleaseMain

(* The evidence is moved into place when it is whole.                      *)
LEMMA EvidenceDirectorySound ==
  Sound(publishEvidenceDirectory, {}, {}, PrivateFacts, {})
<1> DEFINE A == {}
           K1 == {<<"whole", "temporary">>}
           FF == PrivateFacts
           D == {"temporary"}
           P1 == RequireAbsent("evidence")
           P2 == P1 \o Forget
           P3 == P2 \o Read
           P4 == P3 \o MkTemp("temporary")
           P5 == P4 \o Overwrite("temporary")
           P6 == P5 \o RequireAbsent("evidence")
           P7 == P6 \o MoveTree("temporary", "evidence")
           P8 == P7 \o Finally("temporary")
<1> HIDE DEF A, K1, FF, D, P1, P2, P3, P4, P5, P6, P7, P8
<1>1. Sound(P1, A, A, FF, D)
  BY RequireAbsentSound DEF P1, A, FF, D, PrivateFacts, Private, Context, AllFiles, Shared
<1>2. Sound(P2, A, A, FF, D)
  <2>1. Sound(Forget, A, A, FF, D)
    BY ForgetSound DEF A, FF, D, PrivateFacts, Private, Context
  <2> QED  BY <1>1, <2>1, JoinSame DEF P2
<1>3. Sound(P3, A, A, FF, D)
  <2>1. Sound(Read, A, A, FF, D)
    BY ReadSound DEF A, FF, D, PrivateFacts, Private, Context
  <2> QED  BY <1>2, <2>1, JoinSame DEF P3
<1>4. Sound(P4, A, A, FF, D)
  <2>1. Sound(MkTemp("temporary"), A, A, FF, D)
    BY MkTempSound DEF A, FF, D, PrivateFacts, Private, Context
  <2> QED  BY <1>3, <2>1, JoinSame DEF P4
<1>5. Sound(P5, A, K1, FF, D)
  <2>1. Sound(Overwrite("temporary"), A, K1, FF, D)
    BY OverwriteSound DEF A, K1, FF, D, PrivateFacts, Private, Context, Made
  <2> QED  BY <1>4, <2>1, JoinSame DEF P5
<1>6. Sound(P6, A, K1, FF, D)
  <2>1. Sound(RequireAbsent("evidence"), K1, K1, FF, D)
    BY RequireAbsentSound DEF K1, FF, D, PrivateFacts, Private, Context, AllFiles, Shared
  <2> QED  BY <1>5, <2>1, JoinSame DEF P6
<1>7. Sound(P7, A, A, FF, D)
  <2>1. Sound(MoveTree("temporary", "evidence"), K1, A, FF, D)
    BY MoveTreeSound DEF A, K1, FF, D, PrivateFacts, Private, Context
  <2> QED  BY <1>6, <2>1, JoinSame DEF P7
<1>8. Sound(P8, A, A, FF, {})
  <2>1. Sound(Finally("temporary"), A, A, FF, {})
    BY FinallySound DEF A, FF, D, PrivateFacts, Private, Context, Made
  <2> QED  BY <1>7, <2>1, JoinFinally DEF P8, D
<1> QED  BY <1>8 DEF A, FF, P1, P2, P3, P4, P5, P6, P7, P8, publishEvidenceDirectory

-----------------------------------------------------------------------------
(* What is known when a script starts, out of what it may rely on: one     *)
(* that may race with another relies on its private files only.            *)
StartFacts(s) == IF s \in Exclusive THEN {} ELSE IF s = "emit" THEN Emitting ELSE Fresh

UsedFacts(s) == IF s \in Exclusive THEN PrivateFacts ELSE Facts

Known ==
  [s \in ScriptNames |->
     CHOOSE k : Annotates(k, Scripts[s], UsedFacts(s)) /\ k[1] = StartFacts(s)]

LEMMA ScriptsSound ==
  ASSUME NEW s \in ScriptNames
  PROVE  \E B : Sound(Scripts[s], StartFacts(s), B, UsedFacts(s), {})
<1>1. CASE s = "acquire"
  <2>1. Sound(acquireBetterSqlite3Prebuild, {}, {}, PrivateFacts \cup {}, {})
    BY AcquireSound
  <2>2. PrivateFacts \cup {} = PrivateFacts
    OBVIOUS
  <2> QED  BY <1>1, <2>1, <2>2 DEF Scripts, StartFacts, UsedFacts, Exclusive
<1>2. CASE s = "core"
  <2>1. Fresh \in SUBSET Context
    BY DEF Fresh, Context
  <2>2. Sound(stageCorePackage, Fresh, Fresh, Facts, {})
    BY <2>1, StageCoreSound
  <2> QED  BY <1>2, <2>2 DEF Scripts, StartFacts, UsedFacts, Exclusive
<1>3. CASE s = "assets"
  BY <1>3, BuildAssetsSound DEF Scripts, StartFacts, UsedFacts, Exclusive
<1>4. CASE s = "check"
  BY <1>4, VerifyAssetsSound DEF Scripts, StartFacts, UsedFacts, Exclusive
<1>5. CASE s = "origin"
  <2>1. Sound(buildProductionOriginServiceRelease, {} \cup Fresh, {} \cup Fresh, Facts, {})
    BY OriginReleaseSound
  <2>2. {} \cup Fresh = Fresh
    OBVIOUS
  <2> QED  BY <1>5, <2>1, <2>2 DEF Scripts, StartFacts, UsedFacts, Exclusive
<1>6. CASE s = "verify"
  <2>1. Sound(verifyOriginServiceRelease, {} \cup Fresh, {} \cup ArchiveKnown, Facts, {})
    BY VerifyReleaseSound
  <2>2. {} \cup Fresh = Fresh
    OBVIOUS
  <2> QED  BY <1>6, <2>1, <2>2 DEF Scripts, StartFacts, UsedFacts, Exclusive
<1>7. CASE s = "emit"
  BY <1>7, ReleaseMainSound DEF Scripts, StartFacts, UsedFacts, Exclusive
<1>8. CASE s = "evidence"
  BY <1>8, EvidenceDirectorySound DEF Scripts, StartFacts, UsedFacts, Exclusive
<1> QED  BY <1>1, <1>2, <1>3, <1>4, <1>5, <1>6, <1>7, <1>8 DEF ScriptNames, Scripts

LEMMA ScriptIs ==
  ASSUME NEW s \in ScriptNames
  PROVE  /\ Scripts[s] \in Seq(Steps) /\ Len(Scripts[s]) \in Nat
         /\ \A i \in 1..Len(Scripts[s]) : Scripts[s][i] \in Steps /\ Scripts[s][i] # Absent
         /\ Annotates(Known[s], Scripts[s], UsedFacts(s)) /\ Known[s][1] = StartFacts(s)
         /\ CleansUp(Scripts[s], {})
         /\ UsedFacts(s) \subseteq Facts
<1>1. PICK B : Sound(Scripts[s], StartFacts(s), B, UsedFacts(s), {})
  BY ScriptsSound
<1>2. \E k : Annotates(k, Scripts[s], UsedFacts(s)) /\ k[1] = StartFacts(s)
  BY <1>1 DEF Sound
<1>3. Annotates(Known[s], Scripts[s], UsedFacts(s)) /\ Known[s][1] = StartFacts(s)
  BY <1>2 DEF Known
<1>4. Scripts[s] \in Seq(Steps) /\ CleansUp(Scripts[s], {})
  BY <1>1 DEF Sound
<1>5. \A i \in 1..Len(Scripts[s]) : i \in DOMAIN Scripts[s]
  BY <1>4
<1>6. PrivateFacts \subseteq Facts
  BY DEF PrivateFacts, Facts, AllFiles
<1> QED  BY <1>3, <1>4, <1>5, <1>6, BuildAssumption DEF UsedFacts

-----------------------------------------------------------------------------
(* The state.                                                              *)
Files == [of : SUBSET Versions, whole : BOOLEAN] \cup {Absent}

Processes ==
  [script : ScriptNames \cup {Absent}, pc : Nat \ {0}, threw : Steps \cup {Absent},
   mem : SUBSET Versions, held : BOOLEAN, child : {"none", "running", "exited"},
   files : [Private -> Files]]

BuildTypes ==
  /\ proc \in [Procs -> Processes] /\ disk \in [Shared -> Files] /\ source \in Versions
  /\ accepted \in {{}, {"manifest", "assets"}, {"archive", "checksum"}} /\ job \in Jobs

Hold(fact, p) ==
  /\ fact[1] = "absent" => File(p, fact[2]) = Absent
  /\ fact[1] = "there" => File(p, fact[2]) # Absent
  /\ fact[1] = "part" => ~IsWhole(File(p, fact[2]))
  /\ fact[1] = "read" => IsWhole(File(p, fact[2])) /\ File(p, fact[2]).of = proc[p].mem
  /\ fact[1] = "whole" => IsWhole(File(p, fact[2]))
  /\ fact = <<"mem", "pinned">> => proc[p].mem \subseteq Pinned
  /\ fact = <<"mem", "one">> => Cardinality(proc[p].mem) = 1
  /\ fact[1] = "alike" => File(p, fact[2]) = File(p, Partner(fact[2]))
  /\ fact[1] = "accepted" => accepted = {}
  /\ fact[1] = "job" => "emit" \in job

(* A script of the job runs alone, or with others of the same that are     *)
(* exclusive.                                                              *)
Busy(p) == proc[p].script # Absent

Alone ==
  \A p \in Procs : Busy(p) =>
    /\ proc[p].script \in job /\ proc[p].pc <= Len(ScriptOf(p)) + 1
    /\ \A q \in Procs \ {p} : Busy(q) =>
         proc[q].script = proc[p].script /\ proc[p].script \in Exclusive

(* As long as nothing was thrown, what is said to be known holds.          *)
Knows(p) ==
  Busy(p) /\ proc[p].threw = Absent => \A fact \in Known[proc[p].script][proc[p].pc] : Hold(fact, p)

(* Once something was, a cleanup is next; and a checksum that could not be *)
(* written leaves the archive for the cleanup to remove.                   *)
NoChecksum(p) ==
  /\ proc[p].script \notin Exclusive /\ ~IsWhole(disk["checksum"])
  /\ disk["report"] = Absent /\ accepted = {}

CleansNext(p) ==
  Busy(p) /\ proc[p].threw # Absent =>
    /\ proc[p].pc <= Len(ScriptOf(p)) => Now(p).op \in Cleanups
    /\ proc[p].threw.op \in {"create", "fill"} /\ proc[p].threw.a = "checksum" => NoChecksum(p)

(* What a script has made for itself is cleaned up by a step to come, and  *)
(* the service it started is stopped next, or once it was polled.          *)
WillClean(p) ==
  Busy(p) => \A f \in Private \ {"retained"} : proc[p].files[f] # Absent =>
    \E j \in proc[p].pc..Len(ScriptOf(p)) : ScriptOf(p)[j].op = "finally" /\ ScriptOf(p)[j].a = f

WillStop(p) ==
  proc[p].child # "none" =>
    /\ Busy(p) /\ proc[p].pc <= Len(ScriptOf(p)) /\ proc[p].files["extracted"] # Absent
    /\ \/ Now(p).op = "stop"
       \/ /\ Now(p).op = "poll" /\ proc[p].pc + 1 <= Len(ScriptOf(p))
          /\ ScriptOf(p)[proc[p].pc + 1].op = "stop"

Clean(p) ==
  ~Busy(p) => proc[p].child = "none" /\ \A f \in Private : proc[p].files[f] = Absent

OnDisk ==
  /\ FinalFilesAreWhole /\ AcceptedBelongsTogether
  /\ disk["report"] # Absent => "emit" \in job

Orderly(p) == Knows(p) /\ CleansNext(p) /\ WillClean(p) /\ WillStop(p) /\ Clean(p)

BuildInv == BuildTypes /\ Alone /\ OnDisk /\ \A p \in Procs : Orderly(p)

-----------------------------------------------------------------------------
(* Numbers: the least of a finite set of them is the one before them all.  *)
LEMMA LeastFinite ==
  ASSUME NEW S, NEW F, F \subseteq FiniteSubsetsOf(S), F # {}
  PROVE  \E A \in F : \A B \in F : B \subseteq A => B = A
<1>1. PICK A \in F : \A B \in F : ~(<<B, A>> \in StrictSubsetOrdering(S))
  BY FS_StrictSubsetOrderingWellFounded, WFMin
<1> QED BY <1>1 DEF StrictSubsetOrdering, FiniteSubsetsOf

LEMMA MinIs ==
  ASSUME NEW S, IsFiniteSet(S), S # {}, S \subseteq Int
  PROVE  Min(S) \in S /\ \A y \in S : Min(S) <= y
<1> DEFINE Below(x) == {y \in S : y <= x}
           F == {Below(x) : x \in S}
<1>1. ASSUME NEW x \in S PROVE Below(x) \in FiniteSubsetsOf(S)
  <2>1. Below(x) \in SUBSET S
    OBVIOUS
  <2>2. IsFiniteSet(Below(x))
    BY <2>1, FS_Subset
  <2> HIDE DEF Below
  <2> QED  BY <2>1, <2>2 DEF FiniteSubsetsOf
<1>2. PICK A \in F : \A B \in F : B \subseteq A => B = A
  <2>1. F # {}
    <3>1. PICK x \in S : TRUE
      OBVIOUS
    <3>2. Below(x) \in F
      BY <3>1
    <3> QED  BY <3>2
  <2>2. \A A \in F : A \in FiniteSubsetsOf(S)
    <3> HIDE DEF Below
    <3> QED  BY <1>1
  <2> HIDE DEF F
  <2> QED  BY <2>1, <2>2, LeastFinite
<1>3. PICK x \in S : A = Below(x)
  BY <1>2 DEF F
<1>4. ASSUME NEW y \in S, ~(x <= y) PROVE FALSE
  <2>1. y < x /\ x <= x /\ \A z \in S : z <= y => z <= x
    BY <1>4
  <2>2. Below(y) \subseteq Below(x) /\ x \notin Below(y) /\ x \in Below(x)
    BY <1>4, <2>1
  <2>3. Below(y) \in F
    BY <1>4
  <2> HIDE DEF Below, F
  <2> QED  BY <1>2, <1>3, <2>2, <2>3
<1> QED  BY <1>4 DEF Min

(* The step that comes next: the one after, or the first cleanup after.    *)
LEMMA NextPcIs ==
  ASSUME NEW p, NEW t, NEW i \in Nat, NEW n \in Nat, i <= n,
         proc[p].pc = i, Len(ScriptOf(p)) = n
  PROVE  /\ t = Absent => NextPc(p, t) = i + 1
         /\ NextPc(p, t) \in (i + 1)..(n + 1)
         /\ t # Absent =>
              /\ NextPc(p, t) <= n => ScriptOf(p)[NextPc(p, t)].op \in Cleanups
              /\ \A j \in (i + 1)..n : ScriptOf(p)[j].op \in Cleanups => NextPc(p, t) <= j
<1> DEFINE S == {j \in (i + 1)..n : ScriptOf(p)[j].op \in Cleanups} \cup {n + 1}
<1>1. S \subseteq Int /\ S # {} /\ n + 1 \in S
  OBVIOUS
<1>2. IsFiniteSet(S)
  <2>1. IsFiniteSet((i + 1)..n)
    <3>1. i + 1 \in Int /\ n \in Int
      OBVIOUS
    <3>2. \A a, b \in Int : IsFiniteSet(a..b)
      BY FS_Interval
    <3> HIDE DEF S
    <3> QED  BY ONLY <3>1, <3>2
  <2>2. IsFiniteSet({j \in (i + 1)..n : ScriptOf(p)[j].op \in Cleanups})
    BY <2>1, FS_Subset
  <2> QED  BY <2>2, FS_AddElement
<1>3. Min(S) \in S /\ \A y \in S : Min(S) <= y
  BY <1>1, <1>2, MinIs
<1>4. NextPc(p, t) = IF t = Absent THEN i + 1 ELSE Min(S)
  BY DEF NextPc
<1>5. /\ Min(S) \in (i + 1)..(n + 1)
      /\ Min(S) <= n => ScriptOf(p)[Min(S)].op \in Cleanups
      /\ \A j \in (i + 1)..n : ScriptOf(p)[j].op \in Cleanups => Min(S) <= j
  BY <1>3
<1> HIDE DEF S
<1> QED  BY <1>4, <1>5

(* What any step that ends well does: it goes on, and leaves alone what it *)
(* is not about.                                                           *)
Did(p, st) ==
  /\ BuildTypes' /\ job' = job
  /\ \A q \in Procs \ {p} : proc'[q] = proc[q]
  /\ proc'[p].script = proc[p].script /\ proc'[p].threw = proc[p].threw
  /\ proc'[p].pc = NextPc(p, proc[p].threw)
  /\ st.op \notin MemOps => proc'[p].mem = proc[p].mem
  /\ st.op # "accept" => accepted' = accepted
  /\ \A f \in AllFiles : ~Touches(st, f) => File(p, f)' = File(p, f)
  /\ \A f \in Private : ~Makes(st, f) /\ File(p, f) = Absent => File(p, f)' = Absent
  /\ \A f \in AllFiles : st.op = "finally" /\ f = st.a => File(p, f)' = Absent
  /\ proc'[p].child = IF st.op = "spawn" THEN "running"
                      ELSE IF st.op = "stop" THEN "none" ELSE proc[p].child

(* Where a process is, and what it knows of the step.                      *)
LEMMA AtStep ==
  ASSUME BuildInv, NEW p \in Procs, Running(p)
  PROVE  /\ proc[p].script \in ScriptNames /\ Busy(p)
         /\ proc[p].pc \in 1..Len(ScriptOf(p)) /\ Len(ScriptOf(p)) \in Nat
         /\ Now(p) \in Steps /\ Now(p) # Absent /\ Fits(Now(p))
         /\ proc[p].threw # Absent => Now(p).op \in Cleanups
         /\ proc[p].threw = Absent =>
              /\ Permits(Known[proc[p].script][proc[p].pc], Now(p))
              /\ Known[proc[p].script][proc[p].pc] \subseteq UsedFacts(proc[p].script)
              /\ \A fact \in Known[proc[p].script][proc[p].pc] : Hold(fact, p)
<1>1. proc[p] \in Processes /\ proc[p].script \in ScriptNames
  BY DEF BuildInv, BuildTypes, Running, Processes
<1> DEFINE s == proc[p].script
           i == proc[p].pc
<1>2. ScriptOf(p) = Scripts[s] /\ Now(p) = Scripts[s][i]
  BY DEF ScriptOf, Now
<1>3. i \in 1..Len(Scripts[s])
  BY <1>1, <1>2, ScriptIs DEF Running, Processes
<1>4. /\ Fits(Scripts[s][i]) /\ Permits(Known[s][i], Scripts[s][i])
      /\ Known[s][i] \subseteq UsedFacts(s)
  <2>1. i \in 1..(Len(Scripts[s]) + 1)
    BY <1>1, <1>3, ScriptIs
  <2> QED  BY <1>1, <1>3, <2>1, ScriptIs DEF Annotates
<1>5. Busy(p) /\ Knows(p) /\ CleansNext(p)
  BY DEF BuildInv, Orderly, Running, Busy
<1>6. /\ i \in 1..Len(ScriptOf(p)) /\ Len(ScriptOf(p)) \in Nat
      /\ Now(p) \in Steps /\ Now(p) # Absent
  BY <1>1, <1>2, <1>3, ScriptIs
<1>7. proc[p].threw # Absent => Now(p).op \in Cleanups
  BY <1>3, <1>5, <1>6, <1>2 DEF CleansNext
<1>8. proc[p].threw = Absent => \A fact \in Known[s][i] : Hold(fact, p)
  BY <1>5 DEF Knows
<1> QED  BY <1>1, <1>2, <1>4, <1>5, <1>6, <1>7, <1>8

-----------------------------------------------------------------------------
(* How the state changes.                                                  *)
LEMMA PcIs ==
  ASSUME BuildInv, NEW p \in Procs, Running(p), NEW t
  PROVE  NextPc(p, t) \in Nat \ {0} /\ NextPc(p, t) \in 1..(Len(ScriptOf(p)) + 1)
<1> DEFINE i == proc[p].pc
           n == Len(ScriptOf(p))
           m == NextPc(p, t)
<1>1. i \in 1..n /\ n \in Nat
  BY AtStep
<1>2. i \in Nat /\ i <= n
  BY <1>1
<1>3. m \in (i + 1)..(n + 1)
  BY <1>1, <1>2, NextPcIs
<1> HIDE DEF i, n, m
<1>4. m \in Nat \ {0} /\ m \in 1..(n + 1)
  BY ONLY <1>1, <1>2, <1>3
<1> QED  BY <1>4 DEF n, m

LEMMA EndsIs ==
  ASSUME BuildInv, NEW p \in Procs, Running(p), NEW r \in Processes, Ends(p, r)
  PROVE  /\ proc' \in [Procs -> Processes]
         /\ \A q \in Procs \ {p} : proc'[q] = proc[q]
         /\ proc'[p].script = r.script /\ proc'[p].pc = NextPc(p, r.threw)
         /\ proc'[p].threw = r.threw /\ proc'[p].mem = r.mem /\ proc'[p].held = r.held
         /\ proc'[p].child = r.child /\ proc'[p].files = r.files
<1> DEFINE n == NextPc(p, r.threw)
           rr == [r EXCEPT !.pc = n]
<1>1. n \in Nat \ {0}
  BY PcIs
<1> HIDE DEF n
<1>2. /\ rr \in Processes /\ rr.script = r.script /\ rr.pc = n /\ rr.threw = r.threw
      /\ rr.mem = r.mem /\ rr.held = r.held /\ rr.child = r.child /\ rr.files = r.files
  BY <1>1 DEF Processes
<1>3. proc' = [proc EXCEPT ![p] = rr]
  BY DEF Ends, n
<1> HIDE DEF rr
<1>4. proc \in [Procs -> Processes]
  BY DEF BuildInv, BuildTypes
<1>5. proc'[p] = rr /\ proc' \in [Procs -> Processes] /\ \A q \in Procs \ {p} : proc'[q] = proc[q]
  BY <1>2, <1>3, <1>4
<1> QED  BY <1>2, <1>5 DEF n

LEMMA RunIs ==
  ASSUME BuildInv, NEW p \in Procs
  PROVE  proc[p] \in Processes
BY DEF BuildInv, BuildTypes

(* A step that keeps the disk, and one more thing of the process.          *)
LEMMA KeepsIs ==
  ASSUME BuildInv, NEW p \in Procs, Running(p), NEW r \in Processes, Keeps(p, r),
         r.script = proc[p].script, r.threw = proc[p].threw, r.files = proc[p].files,
         Now(p).op \notin MemOps => r.mem = proc[p].mem,
         r.child = IF Now(p).op = "spawn" THEN "running"
                   ELSE IF Now(p).op = "stop" THEN "none" ELSE proc[p].child,
         Now(p).op = "finally" => File(p, Now(p).a) = Absent
  PROVE  /\ Did(p, Now(p)) /\ disk' = disk /\ proc'[p].mem = r.mem
         /\ \A f : File(p, f)' = File(p, f)
<1>1. /\ proc' \in [Procs -> Processes] /\ \A q \in Procs \ {p} : proc'[q] = proc[q]
      /\ proc'[p].script = r.script /\ proc'[p].pc = NextPc(p, r.threw)
      /\ proc'[p].threw = r.threw /\ proc'[p].mem = r.mem
      /\ proc'[p].child = r.child /\ proc'[p].files = r.files
  BY EndsIs DEF Keeps
<1>2. disk' = disk /\ source' = source /\ accepted' = accepted /\ job' = job
  BY DEF Keeps
<1>3. \A f : File(p, f)' = File(p, f)
  BY <1>1, <1>2 DEF File
<1>4. BuildTypes'
  BY <1>1, <1>2 DEF BuildInv, BuildTypes
<1> QED  BY <1>1, <1>2, <1>3, <1>4 DEF Did

(* A step that sets a file.                                                *)
LEMMA SetsIs ==
  ASSUME BuildInv, NEW p \in Procs, Running(p), NEW f \in AllFiles, NEW v \in Files, Sets(p, f, v),
         Touches(Now(p), f), f \in Private => Makes(Now(p), f) \/ v = Absent,
         Now(p).op \notin {"spawn", "stop", "accept"},
         Now(p).op = "finally" => Now(p).a = f /\ v = Absent
  PROVE  /\ Did(p, Now(p)) /\ accepted' = accepted
         /\ File(p, f)' = v /\ proc'[p].mem = proc[p].mem
         /\ \A g \in AllFiles : g # f => File(p, g)' = File(p, g)
         /\ \A g \in Shared : g # f => disk'[g] = disk[g]
<1>1. /\ source' = source /\ accepted' = accepted /\ job' = job
      /\ proc[p] \in Processes /\ disk \in [Shared -> Files]
  BY RunIs DEF Sets, BuildInv, BuildTypes
<1>2. f \in Shared => f \notin Private
  BY DEF Shared, Private
<1>3. f \in Private \/ f \in Shared
  BY DEF AllFiles
<1>4. \A g \in AllFiles : g \in Private \/ g \in Shared
  BY DEF AllFiles
<1>5. \A g \in Shared : g \notin Private
  BY DEF Shared, Private
<1>6. CASE f \in Private
  <2> DEFINE fs == [proc[p].files EXCEPT ![f] = v]
             r == [proc[p] EXCEPT !.files = fs]
  <2>1. proc[p].files \in [Private -> Files]
    BY <1>1 DEF Processes
  <2>2. /\ fs \in [Private -> Files] /\ fs[f] = v
        /\ \A g \in Private : g # f => fs[g] = proc[p].files[g]
    BY <1>6, <2>1
  <2> HIDE DEF fs
  <2>3. /\ r \in Processes /\ r.script = proc[p].script /\ r.threw = proc[p].threw
        /\ r.mem = proc[p].mem /\ r.held = proc[p].held /\ r.child = proc[p].child
        /\ r.files = fs
    BY <1>1, <2>2 DEF Processes
  <2>4. Ends(p, r) /\ disk' = disk
    BY <1>6 DEF Sets, fs
  <2> HIDE DEF r
  <2>5. /\ proc' \in [Procs -> Processes] /\ \A q \in Procs \ {p} : proc'[q] = proc[q]
        /\ proc'[p].script = proc[p].script /\ proc'[p].pc = NextPc(p, proc[p].threw)
        /\ proc'[p].threw = proc[p].threw /\ proc'[p].mem = proc[p].mem
        /\ proc'[p].child = proc[p].child /\ proc'[p].files = fs
    BY <2>3, <2>4, EndsIs
  <2>6. File(p, f)' = v /\ \A g \in AllFiles : g # f => File(p, g)' = File(p, g)
    BY <1>6, <2>2, <2>4, <2>5 DEF File
  <2>7. BuildTypes'
    BY <1>1, <2>4, <2>5 DEF BuildInv, BuildTypes
  <2>8. Did(p, Now(p))
    BY <1>1, <1>6, <2>5, <2>6, <2>7 DEF Did, AllFiles
  <2> QED  BY <1>1, <2>4, <2>5, <2>6, <2>8
<1>7. CASE f \in Shared
  <2>1. Ends(p, proc[p]) /\ disk' = [disk EXCEPT ![f] = v]
    BY <1>2, <1>7 DEF Sets
  <2>2. /\ proc' \in [Procs -> Processes] /\ \A q \in Procs \ {p} : proc'[q] = proc[q]
        /\ proc'[p].script = proc[p].script /\ proc'[p].pc = NextPc(p, proc[p].threw)
        /\ proc'[p].threw = proc[p].threw /\ proc'[p].mem = proc[p].mem
        /\ proc'[p].child = proc[p].child /\ proc'[p].files = proc[p].files
    BY <1>1, <2>1, EndsIs
  <2>3. /\ disk' \in [Shared -> Files] /\ disk'[f] = v
        /\ \A g \in Shared : g # f => disk'[g] = disk[g]
    BY <1>1, <1>7, <2>1
  <2>4. File(p, f)' = v /\ \A g \in AllFiles : g # f => File(p, g)' = File(p, g)
    BY <1>2, <1>4, <1>7, <2>2, <2>3 DEF File
  <2>5. BuildTypes'
    BY <1>1, <2>2, <2>3 DEF BuildInv, BuildTypes
  <2>6. \A g \in Private : g \in AllFiles /\ g # f
    BY <1>2, <1>7 DEF AllFiles
  <2>7. Did(p, Now(p))
    BY <1>1, <2>2, <2>4, <2>5, <2>6 DEF Did
  <2> QED  BY <1>1, <2>2, <2>3, <2>4, <2>7
<1> QED  BY <1>3, <1>6, <1>7

(* A step that moves a file to its place.                                  *)
LEMMA MovesIs ==
  ASSUME BuildInv, NEW p \in Procs, Running(p), NEW f \in {"temporary", "declarationStage"},
         NEW g \in {"runtime", "evidence", "declaration"}, Moves(p, f, g),
         Now(p).op \in {"moveTree", "moveFile"}, Now(p).a = f, Now(p).b = g
  PROVE  /\ Did(p, Now(p)) /\ accepted' = accepted /\ disk'[g] = File(p, f)
         /\ \A h \in Shared : h # f /\ h # g => disk'[h] = disk[h]
<1>1. /\ source' = source /\ accepted' = accepted /\ job' = job
      /\ proc[p] \in Processes /\ disk \in [Shared -> Files]
  BY RunIs DEF Moves, BuildInv, BuildTypes
<1>2. \A h \in Shared : h \notin Private
  BY DEF Shared, Private
<1>3. g \in Shared /\ f \in AllFiles /\ f # g
  BY DEF Shared, AllFiles, Private
<1> DEFINE fs == [h \in Private |-> IF h = f THEN Absent ELSE proc[p].files[h]]
           r == [proc[p] EXCEPT !.files = fs]
<1>4. proc[p].files \in [Private -> Files] /\ Absent \in Files
  BY <1>1 DEF Processes, Files
<1>5. /\ fs \in [Private -> Files]
      /\ \A h \in Private : fs[h] = IF h = f THEN Absent ELSE proc[p].files[h]
  BY <1>4
<1>6. Ends(p, [proc[p] EXCEPT !.files = [h \in Private |-> IF h = f THEN Absent ELSE @[h]]])
  BY DEF Moves
<1>7. Ends(p, r)
  BY <1>6
<1> HIDE DEF fs
<1>8. /\ r \in Processes /\ r.script = proc[p].script /\ r.threw = proc[p].threw
      /\ r.mem = proc[p].mem /\ r.held = proc[p].held /\ r.child = proc[p].child
      /\ r.files = fs
  BY <1>1, <1>5 DEF Processes
<1> HIDE DEF r
<1>9. /\ proc' \in [Procs -> Processes] /\ \A q \in Procs \ {p} : proc'[q] = proc[q]
      /\ proc'[p].script = proc[p].script /\ proc'[p].pc = NextPc(p, proc[p].threw)
      /\ proc'[p].threw = proc[p].threw /\ proc'[p].mem = proc[p].mem
      /\ proc'[p].child = proc[p].child /\ proc'[p].files = fs
  BY <1>7, <1>8, EndsIs
<1>10. disk' = [h \in Shared |-> IF h = g THEN File(p, f) ELSE IF h = f THEN Absent ELSE disk[h]]
  BY DEF Moves
<1>11. File(p, f) \in Files
  BY <1>1, <1>3, <1>4 DEF File, AllFiles
<1>12. disk' \in [Shared -> Files] /\ disk'[g] = File(p, f)
       /\ \A h \in Shared : h # f /\ h # g => disk'[h] = disk[h]
  BY <1>1, <1>3, <1>4, <1>10, <1>11
<1>13. BuildTypes'
  BY <1>1, <1>9, <1>12 DEF BuildInv, BuildTypes
<1>14. \A h \in AllFiles : h # f /\ h # g => File(p, h)' = File(p, h)
  BY <1>5, <1>9, <1>12 DEF File, AllFiles
<1>15. \A h \in Private : File(p, h) = Absent => File(p, h)' = Absent
  BY <1>5, <1>9 DEF File
<1>16. Touches(Now(p), f) /\ Touches(Now(p), g)
  BY DEF Touches
<1> QED  BY <1>1, <1>9, <1>12, <1>13, <1>14, <1>15, <1>16 DEF Did

-----------------------------------------------------------------------------
(* What is known.                                                          *)
LEMMA FactIs ==
  ASSUME NEW fact \in Facts
  PROVE  /\ fact[1] \in {"absent", "there", "part", "read", "whole", "alike"} =>
              fact[2] \in AllFiles
         /\ Partner(fact[2]) \in AllFiles
         /\ fact \in {<<"mem", "pinned">>, <<"mem", "one">>} => fact[1] = "mem"
<1>1. fact[1] \in {"absent", "there", "part", "read", "whole", "alike"} => fact[2] \in AllFiles
  BY DEF Facts, AllFiles, Shared
<1>2. Partner(fact[2]) \in AllFiles
  BY DEF Partner, AllFiles, Shared
<1> QED  BY <1>1, <1>2

LEMMA FileIs ==
  ASSUME BuildTypes, NEW p \in Procs, NEW f \in AllFiles
  PROVE  File(p, f) \in Files
BY DEF BuildTypes, Processes, File, AllFiles

LEMMA FileWillBe ==
  ASSUME BuildTypes', NEW p \in Procs, NEW f \in AllFiles
  PROVE  File(p, f)' \in Files
BY DEF BuildTypes, Processes, File, AllFiles

LEMMA HoldStays ==
  ASSUME NEW p \in Procs, NEW st \in Steps, Did(p, st), NEW fact \in Facts, ~Breaks(st, fact),
         Hold(fact, p)
  PROVE  Hold(fact, p)'
<1>1. /\ fact[1] \in {"absent", "there", "part", "read", "whole", "alike"} =>
           File(p, fact[2])' = File(p, fact[2])
      /\ fact[1] = "alike" => File(p, Partner(fact[2]))' = File(p, Partner(fact[2]))
  BY FactIs DEF Did, Breaks
<1>2. fact[1] \in {"read", "mem"} => proc'[p].mem = proc[p].mem
  BY DEF Did, Breaks
<1>3. fact[1] = "accepted" => accepted' = accepted
  BY DEF Did, Breaks
<1>4. job' = job
  BY DEF Did
<1>5. fact \in {<<"mem", "pinned">>, <<"mem", "one">>} => fact[1] = "mem"
  BY FactIs
<1> QED  BY <1>1, <1>2, <1>3, <1>4, <1>5 DEF Hold

(* A process that may race with another knows what no other changes.       *)
LEMMA OthersHold ==
  ASSUME NEW q \in Procs, proc'[q] = proc[q], NEW fact \in PrivateFacts, Hold(fact, q)
  PROVE  Hold(fact, q)'
<1>1. \/ fact \in {<<"mem", "pinned">>, <<"mem", "one">>}
      \/ fact[1] \in {"absent", "there", "part", "read", "whole"} /\ fact[2] \in Private
  BY DEF PrivateFacts
<1>2. fact[2] \in Private => File(q, fact[2])' = File(q, fact[2])
  BY DEF File
<1>3. fact \in {<<"mem", "pinned">>, <<"mem", "one">>} =>
        fact[1] \notin {"absent", "there", "part", "read", "whole", "alike", "accepted", "job"}
  OBVIOUS
<1> QED  BY <1>1, <1>2, <1>3 DEF Hold

LEMMA KnowsNext ==
  ASSUME BuildInv, NEW p \in Procs, Running(p), Did(p, Now(p)),
         \A fact : Gives(Now(p), LastInto(ScriptOf(p), proc[p].pc), fact) => Hold(fact, p)'
  PROVE  Knows(p)'
<1> SUFFICES ASSUME proc[p].threw = Absent PROVE Knows(p)'
  BY DEF Did, Knows
<1> DEFINE s == proc[p].script
           i == proc[p].pc
           l == LastInto(ScriptOf(p), i)
<1>1. PICK st \in Steps : st = Now(p)
  BY AtStep
<1>2. /\ s \in ScriptNames /\ i \in 1..Len(Scripts[s]) /\ i \in Nat /\ Len(Scripts[s]) \in Nat
      /\ Known[s][i] \subseteq Facts
      /\ \A fact \in Known[s][i] : Hold(fact, p)
      /\ ScriptOf(p) = Scripts[s] /\ st = Scripts[s][i]
  <2>1. ScriptOf(p) = Scripts[s] /\ st = Scripts[s][i]
    BY <1>1 DEF ScriptOf, Now
  <2>2. /\ s \in ScriptNames /\ i \in 1..Len(ScriptOf(p)) /\ Len(ScriptOf(p)) \in Nat
        /\ Known[s][i] \subseteq UsedFacts(s) /\ \A fact \in Known[s][i] : Hold(fact, p)
    BY AtStep
  <2>3. Known[s][i] \subseteq Facts
    BY <2>2, ScriptIs
  <2> QED  BY <2>1, <2>2, <2>3
<1>3. i + 1 \in 1..(Len(Scripts[s]) + 1)
  BY <1>2
<1>4. /\ Known[s][i + 1] \subseteq Facts
      /\ \A fact \in Known[s][i + 1] : After(fact, Known[s][i], st, l)
  BY <1>2, <1>3, ScriptIs DEF Annotates
<1>5. proc'[p].script = s /\ proc'[p].pc = i + 1
  BY <1>2, NextPcIs DEF Did
<1>6. ASSUME NEW fact, Directly(fact, Known[s][i], st, l) PROVE Hold(fact, p)'
  <2>1. CASE fact \in Known[s][i] /\ ~Breaks(st, fact)
    BY <1>1, <1>2, <2>1, HoldStays
  <2>2. CASE Gives(st, l, fact)
    BY <1>1, <2>2
  <2> QED  BY <1>6, <2>1, <2>2 DEF Directly
<1> HIDE DEF l
<1>7. ASSUME NEW fact \in Known[s][i + 1] PROVE Hold(fact, p)'
  <2>1. After(fact, Known[s][i], st, l) /\ fact \in Facts
    BY <1>4
  <2>2. CASE Directly(fact, Known[s][i], st, l)
    BY <1>6, <2>2
  <2> DEFINE r == <<"read", fact[2]>>
             o == <<"read", Partner(fact[2])>>
  <2>3. r[1] = "read" /\ r[2] = fact[2] /\ o[1] = "read" /\ o[2] = Partner(fact[2])
    OBVIOUS
  <2> HIDE DEF r, o
  <2>4. fact[1] # "mem" => fact \notin {<<"mem", "pinned">>, <<"mem", "one">>}
    OBVIOUS
  <2>5. CASE fact[1] = "whole" /\ Directly(r, Known[s][i], st, l)
    <3>1. Hold(r, p)'
      BY <1>6, <2>5
    <3>2. IsWhole(File(p, fact[2]))'
      BY <2>3, <3>1 DEF Hold
    <3> QED  BY <2>4, <2>5, <3>2 DEF Hold
  <2>6. CASE /\ fact[1] = "alike" /\ Directly(r, Known[s][i], st, l)
             /\ Directly(o, Known[s][i], st, l)
    <3>1. Hold(r, p)' /\ Hold(o, p)'
      BY <1>6, <2>6
    <3>2. /\ IsWhole(File(p, fact[2])') /\ IsWhole(File(p, Partner(fact[2]))')
          /\ File(p, fact[2])'.of = proc'[p].mem /\ File(p, Partner(fact[2]))'.of = proc'[p].mem
      BY <2>3, <3>1 DEF Hold, IsWhole
    <3>3. File(p, fact[2])' \in Files /\ File(p, Partner(fact[2]))' \in Files
      BY <2>1, <2>6, FactIs, FileWillBe DEF Did
    <3>4. File(p, fact[2])' = File(p, Partner(fact[2]))'
      BY <3>2, <3>3 DEF Files, IsWhole
    <3> QED  BY <2>4, <2>6, <3>4 DEF Hold
  <2> QED  BY <2>1, <2>2, <2>5, <2>6 DEF After, r, o
<1> QED  BY <1>5, <1>7 DEF Knows

-----------------------------------------------------------------------------
(* A step of one process, for the others and for itself.                   *)
LEMMA OthersOrderly ==
  ASSUME BuildInv, NEW q \in Procs, proc'[q] = proc[q],
         Busy(q) => proc[q].script \in Exclusive
  PROVE  Orderly(q)'
<1>1. Orderly(q)
  BY DEF BuildInv
<1>2. Busy(q)' = Busy(q) /\ ScriptOf(q)' = ScriptOf(q) /\ Now(q)' = Now(q)
  BY DEF Busy, ScriptOf, Now
<1>3. Knows(q)'
  <2>1. SUFFICES ASSUME Busy(q), proc[q].threw = Absent,
                        NEW fact \in Known[proc[q].script][proc[q].pc]
                 PROVE  Hold(fact, q)'
    BY <1>2 DEF Knows
  <2> DEFINE s == proc[q].script
             i == proc[q].pc
  <2>2. Hold(fact, q)
    BY <1>1, <2>1 DEF Orderly, Knows
  <2>3. s \in ScriptNames /\ s \in Exclusive /\ i \in 1..(Len(Scripts[s]) + 1)
    <3>1. proc[q] \in Processes /\ s \in ScriptNames /\ s \in Exclusive
      BY <2>1, RunIs DEF Processes, Busy
    <3>2. i <= Len(Scripts[s]) + 1
      BY <2>1 DEF BuildInv, Alone, ScriptOf
    <3> QED  BY <3>1, <3>2, ScriptIs DEF Processes
  <2>4. Known[s][i] \subseteq PrivateFacts
    BY <2>3, ScriptIs DEF Annotates, UsedFacts
  <2> QED  BY <2>2, <2>4, OthersHold
<1>4. CleansNext(q)'
  <2>1. CleansNext(q)
    BY <1>1 DEF Orderly
  <2>2. SUFFICES ASSUME Busy(q), proc[q].threw # Absent,
                        proc[q].threw.op \in {"create", "fill"}, proc[q].threw.a = "checksum"
                 PROVE  FALSE
    BY <1>2, <2>1 DEF CleansNext
  <2>3. NoChecksum(q)
    BY <2>1, <2>2 DEF CleansNext
  <2> QED  BY <2>2, <2>3 DEF NoChecksum
<1>5. WillClean(q)'
  BY <1>1, <1>2 DEF Orderly, WillClean
<1>6. WillStop(q)'
  BY <1>1, <1>2 DEF Orderly, WillStop
<1>7. Clean(q)'
  BY <1>1, <1>2 DEF Orderly, Clean
<1> QED  BY <1>3, <1>4, <1>5, <1>6, <1>7 DEF Orderly

LEMMA OthersExclusive ==
  ASSUME BuildInv, NEW p \in Procs, NEW q \in Procs \ {p}, Busy(p), Busy(q)
  PROVE  proc[q].script \in Exclusive
BY DEF BuildInv, Alone

(* A step that ends well keeps the invariant, if it leaves what it is said *)
(* to give and keeps the disk in order.                                    *)
LEMMA GoesOn ==
  ASSUME BuildInv, NEW p \in Procs, Running(p), Did(p, Now(p)),
         \A fact : Gives(Now(p), LastInto(ScriptOf(p), proc[p].pc), fact) => Hold(fact, p)',
         OnDisk'
  PROVE  BuildInv'
<1> DEFINE s == proc[p].script
           i == proc[p].pc
           n == Len(Scripts[s])
           t == proc[p].threw
           m == NextPc(p, t)
<1>1. PICK st \in Steps : st = Now(p)
  BY AtStep
<1>2. /\ s \in ScriptNames /\ i \in 1..n /\ i \in Nat /\ n \in Nat /\ ScriptOf(p) = Scripts[s]
      /\ st = Scripts[s][i] /\ Fits(st) /\ (t # Absent => st.op \in Cleanups) /\ Busy(p)
  <2>1. ScriptOf(p) = Scripts[s] /\ st = Scripts[s][i]
    BY <1>1 DEF ScriptOf, Now
  <2>2. /\ s \in ScriptNames /\ i \in 1..Len(ScriptOf(p)) /\ Len(ScriptOf(p)) \in Nat
        /\ Fits(st) /\ (t # Absent => st.op \in Cleanups) /\ Busy(p)
    BY <1>1, AtStep
  <2> QED  BY <2>1, <2>2
<1>3. /\ t = Absent => m = i + 1
      /\ m \in (i + 1)..(n + 1)
      /\ t # Absent =>
           /\ m <= n => Scripts[s][m].op \in Cleanups
           /\ \A j \in (i + 1)..n : Scripts[s][j].op \in Cleanups => m <= j
  <2>1. i <= n /\ proc[p].pc = i /\ Len(ScriptOf(p)) = n
    BY <1>2
  <2> HIDE DEF i, n
  <2> QED  BY <1>2, <2>1, NextPcIs
<1>4. /\ proc'[p].script = s /\ proc'[p].pc = m /\ proc'[p].threw = t
      /\ \A q \in Procs \ {p} : proc'[q] = proc[q]
      /\ BuildTypes' /\ job' = job
      /\ st.op # "accept" => accepted' = accepted
      /\ \A f \in AllFiles : ~Touches(st, f) => File(p, f)' = File(p, f)
      /\ \A f \in Private : ~Makes(st, f) /\ File(p, f) = Absent => File(p, f)' = Absent
      /\ \A f \in AllFiles : st.op = "finally" /\ f = st.a => File(p, f)' = Absent
      /\ proc'[p].child = IF st.op = "spawn" THEN "running"
                          ELSE IF st.op = "stop" THEN "none" ELSE proc[p].child
  BY <1>1 DEF Did
<1> HIDE DEF m
<1>5. /\ Busy(p)' /\ ScriptOf(p)' = Scripts[s] /\ Now(p)' = Scripts[s][m]
      /\ \A q \in Procs \ {p} : Busy(q)' = Busy(q)
  BY <1>2, <1>4 DEF Busy, ScriptOf, Now
<1>6. \A f \in Private : /\ f \in AllFiles /\ File(p, f) = proc[p].files[f]
                         /\ File(p, f)' = proc'[p].files[f]
  BY DEF File, AllFiles
<1>7. Orderly(p)
  BY DEF BuildInv
<1>8. Alone'
  <2>1. \A q \in Procs : proc'[q].script = proc[q].script
    BY <1>4
  <2>2. \A q \in Procs : Busy(q)' = Busy(q)
    BY <2>1 DEF Busy
  <2>3. m <= n + 1
    BY <1>2, <1>3
  <2>4. ASSUME NEW q \in Procs, Busy(q) PROVE proc'[q].pc <= Len(ScriptOf(q)') + 1
    <3>1. CASE q = p
      BY <1>4, <1>5, <2>3, <3>1
    <3>2. CASE q # p
      BY <1>4, <2>4, <3>2 DEF BuildInv, Alone, ScriptOf
    <3> QED  BY <3>1, <3>2
  <2> QED  BY <1>4, <2>1, <2>2, <2>4 DEF BuildInv, Alone
<1>9. ASSUME NEW q \in Procs \ {p} PROVE Orderly(q)'
  BY <1>2, <1>4, OthersOrderly, OthersExclusive
<1>10. Knows(p)'
  BY KnowsNext
<1>11. CleansNext(p)'
  <2>1. SUFFICES ASSUME t # Absent PROVE CleansNext(p)'
    BY <1>4 DEF CleansNext
  <2>2. m <= n => Now(p)'.op \in Cleanups
    BY <1>3, <1>5, <2>1
  <2>3. ASSUME t.op \in {"create", "fill"}, t.a = "checksum" PROVE NoChecksum(p)'
    <3>1. NoChecksum(p)
      BY <1>2, <1>7, <2>1, <2>3 DEF Orderly, CleansNext
    <3>2. st.op \in Cleanups
      BY <1>2, <2>1
    <3>3. ~Touches(st, "checksum") /\ ~Touches(st, "report") /\ st.op # "accept"
      BY <1>2, <3>2 DEF Touches, Fits, Cleanups, Private
    <3>4. /\ {"checksum", "report"} \subseteq AllFiles
          /\ "checksum" \notin Private /\ "report" \notin Private
      BY DEF AllFiles, Shared, Private
    <3>5. disk'["checksum"] = disk["checksum"] /\ disk'["report"] = disk["report"]
      BY <1>4, <3>3, <3>4 DEF File
    <3> QED  BY <1>4, <3>1, <3>3, <3>5 DEF NoChecksum, IsWhole
  <2> QED  BY <1>4, <1>5, <2>2, <2>3 DEF CleansNext
<1>12. WillClean(p)'
  <2>1. SUFFICES ASSUME NEW f \in Private \ {"retained"}, File(p, f)' # Absent
                 PROVE  \E j \in m..n : Scripts[s][j].op = "finally" /\ Scripts[s][j].a = f
    BY <1>4, <1>5, <1>6 DEF WillClean
  <2>2. \E j \in (i + 1)..n : Scripts[s][j].op = "finally" /\ Scripts[s][j].a = f
    <3>1. CASE Makes(st, f)
      <4>1. CleansUp(Scripts[s], {})
        BY <1>2, ScriptIs
      <4> QED  BY <1>2, <2>1, <3>1, <4>1 DEF CleansUp
    <3>2. CASE ~Makes(st, f)
      <4>1. proc[p].files[f] # Absent
        BY <1>4, <1>6, <2>1, <3>2
      <4>2. PICK j \in i..n : Scripts[s][j].op = "finally" /\ Scripts[s][j].a = f
        BY <1>2, <1>7, <2>1, <4>1 DEF Orderly, WillClean
      <4>3. j # i
        BY <1>2, <1>4, <1>6, <2>1, <4>2
      <4>4. j \in (i + 1)..n
        BY <1>2, <4>3
      <4> QED  BY <4>2, <4>4
    <3> QED  BY <3>1, <3>2
  <2>3. PICK j \in (i + 1)..n : Scripts[s][j].op = "finally" /\ Scripts[s][j].a = f
    BY <2>2
  <2>4. m <= j
    BY <1>2, <1>3, <2>3 DEF Cleanups
  <2>5. j \in m..n
    BY <1>2, <1>3, <2>4
  <2> QED  BY <2>3, <2>5
<1>13. WillStop(p)'
  <2>1. SUFFICES ASSUME proc'[p].child # "none" PROVE WillStop(p)'
    BY DEF WillStop
  <2>2. st.op # "stop"
    BY <1>4, <2>1
  <2>3. "extracted" \in Private
    BY DEF Private
  <2>4. CASE st.op = "spawn"
    <3>1. t = Absent /\ m = i + 1
      BY <1>2, <1>3, <2>4 DEF Cleanups
    <3>2. i + 2 <= n /\ Scripts[s][i + 1].op = "poll" /\ Scripts[s][i + 2].op = "stop"
      BY <1>2, <2>4, ScriptIs DEF CleansUp
    <3>3. <<"whole", "extracted">> \in Known[s][i] /\ Hold(<<"whole", "extracted">>, p)
      BY <1>1, <2>4, <3>1, AtStep DEF Permits
    <3>4. File(p, "extracted") # Absent
      BY <3>3 DEF Hold, IsWhole
    <3>5. File(p, "extracted")' = File(p, "extracted")
      BY <1>4, <1>6, <2>3, <2>4 DEF Touches
    <3>6. m <= n /\ m + 1 <= n /\ m + 1 = i + 2
      BY <1>2, <3>1, <3>2
    <3>7. proc'[p].files["extracted"] # Absent
      BY <1>6, <2>3, <3>4, <3>5
    <3> QED  BY <1>4, <1>5, <3>1, <3>2, <3>6, <3>7 DEF WillStop
  <2>5. CASE st.op # "spawn"
    <3>1. proc[p].child # "none"
      BY <1>4, <2>1, <2>2, <2>5
    <3>2. /\ st.op = "poll" /\ i + 1 <= n /\ Scripts[s][i + 1].op = "stop"
          /\ proc[p].files["extracted"] # Absent
      BY <1>1, <1>2, <1>7, <2>2, <3>1 DEF Orderly, WillStop
    <3>3. m = i + 1
      BY <1>2, <1>3, <3>2 DEF Cleanups
    <3>4. File(p, "extracted")' = File(p, "extracted")
      BY <1>4, <1>6, <2>3, <3>2 DEF Touches
    <3>5. proc'[p].files["extracted"] # Absent
      BY <1>6, <2>3, <3>2, <3>4
    <3> QED  BY <1>4, <1>5, <3>2, <3>3, <3>5 DEF WillStop
  <2> QED  BY <2>4, <2>5
<1>14. Clean(p)'
  BY <1>5 DEF Clean
<1>15. Orderly(p)'
  BY <1>10, <1>11, <1>12, <1>13, <1>14 DEF Orderly
<1> QED  BY <1>4, <1>8, <1>9, <1>15 DEF BuildInv

-----------------------------------------------------------------------------
(* The steps that leave the disk alone.                                    *)
LEMMA HoldWill ==
  ASSUME NEW p, NEW f
  PROVE  /\ File(p, f)' = Absent => Hold(<<"absent", f>>, p)'
         /\ File(p, f)' # Absent => Hold(<<"there", f>>, p)'
         /\ ~IsWhole(File(p, f)') => Hold(<<"part", f>>, p)'
         /\ IsWhole(File(p, f)') => Hold(<<"whole", f>>, p)'
         /\ IsWhole(File(p, f)') /\ File(p, f)'.of = proc'[p].mem => Hold(<<"read", f>>, p)'
         /\ proc'[p].mem \subseteq Pinned => Hold(<<"mem", "pinned">>, p)'
         /\ Cardinality(proc'[p].mem) = 1 => Hold(<<"mem", "one">>, p)'
BY DEF Hold, IsWhole

LEMMA NoGain ==
  ASSUME NEW st, NEW last, NEW fact, Gives(st, last, fact)
  PROVE  st.op \in {"requirePinned", "requireSame", "requireAbsent", "load", "compare", "fill",
                    "mkTemp", "copyInto", "create"}
BY DEF Gives

LEMMA DiskFrame ==
  ASSUME BuildInv, accepted' = accepted, job' = job,
         \A g \in Shared \ {"declarationStage"} : disk'[g] = disk[g]
  PROVE  OnDisk'
<1>1. \A f \in accepted : f \in Shared \ {"declarationStage"}
  BY DEF BuildInv, BuildTypes, Shared
<1>2. FinalFilesAreWhole'
  <2>1. \A g \in {"addon", "runtime", "declaration", "evidence", "checksum", "archive",
                  "report", "tarball"} :
          disk'[g] = disk[g]
    BY DEF Shared
  <2> QED  BY <2>1 DEF BuildInv, OnDisk, FinalFilesAreWhole, IsWhole
<1>3. AcceptedBelongsTogether'
  BY <1>1 DEF BuildInv, OnDisk, AcceptedBelongsTogether, IsWhole
<1>4. disk'["report"] = disk["report"]
  BY DEF Shared
<1> QED  BY <1>2, <1>3, <1>4 DEF BuildInv, OnDisk

(* A process that reads, and one that hands over what it retained.         *)
LEMMA WithField ==
  ASSUME BuildInv, NEW p \in Procs, NEW ms \in SUBSET Versions,
         NEW ch \in {"none", "running", "exited"}
  PROVE  /\ [proc[p] EXCEPT !.mem = ms] \in Processes /\ [proc[p] EXCEPT !.mem = ms].mem = ms
         /\ [proc[p] EXCEPT !.child = ch] \in Processes /\ [proc[p] EXCEPT !.child = ch].child = ch
         /\ [proc[p] EXCEPT !.held = TRUE] \in Processes
         /\ \A r \in {[proc[p] EXCEPT !.mem = ms], [proc[p] EXCEPT !.child = ch],
                      [proc[p] EXCEPT !.held = TRUE]} :
              r.script = proc[p].script /\ r.threw = proc[p].threw /\ r.files = proc[p].files
         /\ \A r \in {[proc[p] EXCEPT !.child = ch], [proc[p] EXCEPT !.held = TRUE]} :
              r.mem = proc[p].mem
         /\ \A r \in {[proc[p] EXCEPT !.mem = ms], [proc[p] EXCEPT !.held = TRUE]} :
              r.child = proc[p].child
<1>1. proc[p] \in Processes
  BY RunIs
<1> QED  BY <1>1 DEF Processes

(* What was just required, read or compared is known.                      *)
LEMMA KeepsOn ==
  ASSUME BuildInv, NEW p \in Procs, Running(p), NEW r \in Processes, Keeps(p, r),
         r.script = proc[p].script, r.threw = proc[p].threw, r.files = proc[p].files,
         Now(p).op \notin MemOps => r.mem = proc[p].mem,
         r.child = IF Now(p).op = "spawn" THEN "running"
                   ELSE IF Now(p).op = "stop" THEN "none" ELSE proc[p].child,
         Now(p).op \notin {"finally", "fill", "mkTemp", "copyInto", "create"},
         Now(p).op = "requirePinned" => r.mem \subseteq Pinned,
         Now(p).op = "requireSame" => Cardinality(r.mem) = 1,
         Now(p).op = "requireAbsent" => File(p, Now(p).a) = Absent,
         Now(p).op \in {"load", "compare"} =>
           IsWhole(File(p, Now(p).a)) /\ File(p, Now(p).a).of = r.mem
  PROVE  BuildInv'
<1>1. /\ Did(p, Now(p)) /\ disk' = disk /\ proc'[p].mem = r.mem
      /\ \A f : File(p, f)' = File(p, f)
  BY KeepsIs
<1>2. accepted' = accepted /\ job' = job
  BY DEF Keeps
<1>3. OnDisk'
  BY <1>1, <1>2, DiskFrame
<1>4. ASSUME NEW fact, Gives(Now(p), LastInto(ScriptOf(p), proc[p].pc), fact) PROVE Hold(fact, p)'
  <2>1. \/ Now(p).op = "requirePinned" /\ fact = <<"mem", "pinned">>
        \/ Now(p).op = "requireSame" /\ fact = <<"mem", "one">>
        \/ Now(p).op = "requireAbsent" /\ fact = <<"absent", Now(p).a>>
        \/ Now(p).op \in {"load", "compare"} /\ fact = <<"read", Now(p).a>>
    BY <1>4 DEF Gives
  <2>2. CASE Now(p).op \in {"requirePinned", "requireSame"}
    BY <1>1, <2>1, <2>2, HoldWill
  <2>3. PICK f : f = Now(p).a
    OBVIOUS
  <2>4. CASE Now(p).op = "requireAbsent"
    <3>1. File(p, f)' = Absent /\ fact = <<"absent", f>>
      BY <1>1, <2>1, <2>3, <2>4
    <3> QED  BY <3>1, HoldWill
  <2>5. CASE Now(p).op \in {"load", "compare"}
    <3>1. /\ File(p, f)' = File(p, f) /\ fact = <<"read", f>>
          /\ IsWhole(File(p, f)) /\ File(p, f).of = r.mem
      BY <1>1, <2>1, <2>3, <2>5
    <3>2. IsWhole(File(p, f)') /\ File(p, f)'.of = proc'[p].mem
      BY <1>1, <3>1
    <3> QED  BY <3>1, <3>2, HoldWill
  <2> QED  BY <2>1, <2>2, <2>4, <2>5
<1> QED  BY <1>1, <1>3, <1>4, GoesOn

LEMMA QuietStep ==
  ASSUME BuildInv, NEW p \in Procs,
         \/ DoRequireAbsent(p) \/ DoRequireSame(p) \/ DoRequirePinned(p) \/ DoCompare(p)
         \/ DoMatches(p) \/ DoPoll(p)
  PROVE  BuildInv'
<1>1. /\ Running(p) /\ Keeps(p, proc[p])
      /\ Now(p).op \in {"requireAbsent", "requireSame", "requirePinned", "compare", "matches",
                        "poll"}
      /\ Now(p).op = "requirePinned" => proc[p].mem \subseteq Pinned
      /\ Now(p).op = "requireSame" => Cardinality(proc[p].mem) = 1
      /\ Now(p).op = "requireAbsent" => File(p, Now(p).a) = Absent
      /\ Now(p).op = "compare" => IsWhole(File(p, Now(p).a)) /\ File(p, Now(p).a).of = proc[p].mem
  BY DEF DoRequireAbsent, DoRequireSame, DoRequirePinned, DoCompare, DoMatches, DoPoll, Does
<1>2. proc[p] \in Processes
  BY RunIs
<1> QED  BY <1>1, <1>2, KeepsOn

LEMMA MemoryStep ==
  ASSUME BuildInv, NEW p \in Procs, DoRead(p) \/ DoFetch(p) \/ DoLoad(p) \/ DoForget(p)
  PROVE  BuildInv'
<1>1. PICK ms \in SUBSET Versions :
        /\ Running(p) /\ Now(p).op \in {"read", "fetch", "load", "forget"}
        /\ Keeps(p, [proc[p] EXCEPT !.mem = ms])
        /\ Now(p).op = "load" => IsWhole(File(p, Now(p).a)) /\ File(p, Now(p).a).of = ms
  <2>1. proc[p].mem \in SUBSET Versions /\ source \in Versions
    BY DEF BuildInv, BuildTypes, Processes
  <2>2. CASE DoRead(p)
    <3>1. Keeps(p, [proc[p] EXCEPT !.mem = proc[p].mem \cup {source}])
      BY <2>2 DEF DoRead
    <3>2. proc[p].mem \cup {source} \in SUBSET Versions
      BY <2>1
    <3> QED  BY <2>2, <3>1, <3>2 DEF DoRead, Does
  <2>3. CASE DoFetch(p)
    <3>1. PICK v \in Versions : Keeps(p, [proc[p] EXCEPT !.mem = {v}])
      BY <2>3 DEF DoFetch
    <3>2. {v} \in SUBSET Versions
      OBVIOUS
    <3> QED  BY <2>3, <3>1, <3>2 DEF DoFetch, Does
  <2>4. CASE DoLoad(p)
    <3>1. Running(p) /\ Now(p).op = "load" /\ IsWhole(File(p, Now(p).a))
      BY <2>4 DEF DoLoad, Does
    <3>2. Now(p).a \in AllFiles
      BY <3>1, AtStep DEF Fits
    <3>3. File(p, Now(p).a) \in Files
      BY <3>2, FileIs DEF BuildInv
    <3>4. File(p, Now(p).a).of \in SUBSET Versions
      BY <3>1, <3>3 DEF Files, IsWhole
    <3> QED  BY <2>4, <3>1, <3>4 DEF DoLoad
  <2>5. CASE DoForget(p)
    <3>1. {} \in SUBSET Versions
      OBVIOUS
    <3> QED  BY <2>5, <3>1 DEF DoForget, Does
  <2> QED  BY <2>2, <2>3, <2>4, <2>5
<1> DEFINE r == [proc[p] EXCEPT !.mem = ms]
<1>2. /\ r \in Processes /\ r.mem = ms /\ r.script = proc[p].script /\ r.threw = proc[p].threw
      /\ r.files = proc[p].files /\ r.child = proc[p].child
  BY WithField
<1>3. Keeps(p, r)
  BY <1>1
<1> HIDE DEF r
<1> QED  BY <1>1, <1>2, <1>3, KeepsOn DEF MemOps

LEMMA ReturnStep ==
  ASSUME BuildInv, NEW p \in Procs, DoReturn(p)
  PROVE  BuildInv'
<1> DEFINE r == [proc[p] EXCEPT !.held = TRUE]
<1>1. /\ r \in Processes /\ r.mem = proc[p].mem /\ r.script = proc[p].script
      /\ r.threw = proc[p].threw
      /\ r.files = proc[p].files /\ r.child = proc[p].child
  BY WithField
<1>2. Running(p) /\ Now(p).op = "return" /\ Keeps(p, r)
  BY DEF DoReturn, Does
<1> HIDE DEF r
<1> QED  BY <1>1, <1>2, KeepsOn DEF MemOps

LEMMA ServiceStep ==
  ASSUME BuildInv, NEW p \in Procs, DoSpawn(p) \/ stopChild(p)
  PROVE  BuildInv'
<1>1. PICK ch \in {"none", "running", "exited"} :
        /\ Running(p) /\ Keeps(p, [proc[p] EXCEPT !.child = ch])
        /\ (Now(p).op = "spawn" /\ ch = "running") \/ (Now(p).op = "stop" /\ ch = "none")
  <2>1. CASE DoSpawn(p)
    BY <2>1 DEF DoSpawn, Does
  <2>2. CASE stopChild(p)
    <3>1. /\ Running(p) /\ Now(p).op \in {"stop", "stopNow"}
          /\ Keeps(p, [proc[p] EXCEPT !.child = "none"])
      BY <2>2 DEF stopChild
    <3>2. Now(p).op # "stopNow"
      BY <3>1, AtStep DEF Steps, Ops
    <3> QED  BY <3>1, <3>2
  <2> QED  BY <2>1, <2>2
<1> DEFINE r == [proc[p] EXCEPT !.child = ch]
<1>2. /\ r \in Processes /\ r.mem = proc[p].mem /\ r.script = proc[p].script
      /\ r.threw = proc[p].threw
      /\ r.files = proc[p].files /\ r.child = ch
  BY WithField
<1>3. Keeps(p, r)
  BY <1>1
<1> HIDE DEF r
<1> QED  BY <1>1, <1>2, <1>3, KeepsOn DEF MemOps

-----------------------------------------------------------------------------
(* The steps that change a file at its final place.                        *)
LEMMA DiskBut ==
  ASSUME NEW f, \A g \in Shared \ {f, "declarationStage"} : disk'[g] = disk[g]
  PROVE  \A g \in {"addon", "runtime", "declaration", "evidence", "checksum", "archive", "report",
                   "tarball", "assets", "manifest"} : g # f => disk'[g] = disk[g]
BY DEF Shared

LEMMA SetFinal ==
  ASSUME BuildInv, NEW f \in {"addon", "runtime", "declaration", "evidence"},
         accepted' = accepted, job' = job,
         \A g \in Shared \ {f, "declarationStage"} : disk'[g] = disk[g],
         disk'[f] # Absent => disk'[f].whole,
         f = "addon" /\ disk'[f] # Absent => disk'[f].of \subseteq Pinned
  PROVE  OnDisk'
<1>1. \A g \in {"addon", "runtime", "declaration", "evidence", "checksum", "archive", "report",
                "tarball", "assets", "manifest"} : g # f => disk'[g] = disk[g]
  BY DiskBut
<1>2. FinalFilesAreWhole'
  BY <1>1 DEF BuildInv, OnDisk, FinalFilesAreWhole, IsWhole
<1>3. \A g \in accepted : disk'[g] = disk[g]
  BY <1>1 DEF BuildInv, BuildTypes
<1>4. AcceptedBelongsTogether'
  BY <1>3 DEF BuildInv, OnDisk, AcceptedBelongsTogether, IsWhole
<1> QED  BY <1>1, <1>2, <1>4 DEF BuildInv, OnDisk

LEMMA SetAsset ==
  ASSUME BuildInv, NEW f \in {"assets", "manifest"},
         accepted' = accepted, job' = job, accepted = {},
         \A g \in Shared \ {f, "declarationStage"} : disk'[g] = disk[g]
  PROVE  OnDisk'
<1>1. \A g \in {"addon", "runtime", "declaration", "evidence", "checksum", "archive", "report",
                "tarball", "assets", "manifest"} : g # f => disk'[g] = disk[g]
  BY DiskBut
<1>2. FinalFilesAreWhole'
  BY <1>1 DEF BuildInv, OnDisk, FinalFilesAreWhole, IsWhole
<1> QED  BY <1>1, <1>2 DEF BuildInv, OnDisk, AcceptedBelongsTogether

LEMMA SetArchive ==
  ASSUME BuildInv, accepted' = accepted, job' = job, accepted = {},
         \A g \in Shared \ {"archive", "declarationStage"} : disk'[g] = disk[g],
         ~IsWhole(disk["checksum"]), disk["report"] = Absent
  PROVE  OnDisk'
<1>1. \A g \in {"addon", "runtime", "declaration", "evidence", "checksum", "archive", "report",
                "tarball", "assets", "manifest"} : g # "archive" => disk'[g] = disk[g]
  BY DiskBut
<1>2. FinalFilesAreWhole'
  BY <1>1 DEF BuildInv, OnDisk, FinalFilesAreWhole, IsWhole
<1> QED  BY <1>1, <1>2 DEF BuildInv, OnDisk, AcceptedBelongsTogether

LEMMA SetChecksum ==
  ASSUME BuildInv, accepted' = accepted, job' = job, accepted = {},
         \A g \in Shared \ {"checksum", "declarationStage"} : disk'[g] = disk[g],
         IsWhole(disk'["checksum"]) =>
           disk'["checksum"] = disk["archive"] /\ Cardinality(disk["archive"].of) = 1,
         disk["report"] = Absent
  PROVE  OnDisk'
<1>1. \A g \in {"addon", "runtime", "declaration", "evidence", "checksum", "archive", "report",
                "tarball", "assets", "manifest"} : g # "checksum" => disk'[g] = disk[g]
  BY DiskBut
<1>2. FinalFilesAreWhole'
  BY <1>1 DEF BuildInv, OnDisk, FinalFilesAreWhole, IsWhole
<1> QED  BY <1>1, <1>2 DEF BuildInv, OnDisk, AcceptedBelongsTogether

LEMMA SetReport ==
  ASSUME BuildInv, accepted' = accepted, job' = job, "emit" \in job,
         \A g \in Shared \ {"report", "declarationStage"} : disk'[g] = disk[g],
         IsWhole(disk["tarball"]), IsWhole(disk["archive"]), IsWhole(disk["checksum"])
  PROVE  OnDisk'
<1>1. \A g \in {"addon", "runtime", "declaration", "evidence", "checksum", "archive", "report",
                "tarball", "assets", "manifest"} : g # "report" => disk'[g] = disk[g]
  BY DiskBut
<1>2. FinalFilesAreWhole'
  BY <1>1 DEF BuildInv, OnDisk, FinalFilesAreWhole, IsWhole
<1>3. \A g \in accepted : disk'[g] = disk[g]
  BY <1>1 DEF BuildInv, BuildTypes
<1>4. AcceptedBelongsTogether'
  BY <1>3 DEF BuildInv, OnDisk, AcceptedBelongsTogether, IsWhole
<1> QED  BY <1>2, <1>4 DEF OnDisk

LEMMA SetTarball ==
  ASSUME BuildInv, accepted' = accepted, job' = job, disk["report"] = Absent,
         \A g \in Shared \ {"tarball", "declarationStage"} : disk'[g] = disk[g]
  PROVE  OnDisk'
<1>1. \A g \in {"addon", "runtime", "declaration", "evidence", "checksum", "archive", "report",
                "tarball", "assets", "manifest"} : g # "tarball" => disk'[g] = disk[g]
  BY DiskBut
<1>2. FinalFilesAreWhole'
  BY <1>1 DEF BuildInv, OnDisk, FinalFilesAreWhole, IsWhole
<1>3. \A g \in accepted : disk'[g] = disk[g]
  BY <1>1 DEF BuildInv, BuildTypes
<1>4. AcceptedBelongsTogether'
  BY <1>3 DEF BuildInv, OnDisk, AcceptedBelongsTogether, IsWhole
<1> QED  BY <1>1, <1>2, <1>4 DEF BuildInv, OnDisk

(* A step that sets a file leaves the invariant if it leaves the disk in   *)
(* order, which one that sets a file of its own does.                      *)
LEMMA SetsOn ==
  ASSUME BuildInv, NEW p \in Procs, Running(p), NEW f \in AllFiles, NEW v \in Files, Sets(p, f, v),
         Touches(Now(p), f), f \in Private => Makes(Now(p), f) \/ v = Absent,
         Now(p).op \in {"mkTemp", "copyInto", "create", "truncate", "fill", "copy", "link",
                        "remove", "finally", "catch", "finallyHeld"},
         Now(p).op \in {"finally", "mkTemp", "copyInto", "create", "fill"} => Now(p).a = f,
         Now(p).op = "finally" => v = Absent,
         Now(p).op \in {"mkTemp", "copyInto"} => v # Absent,
         Now(p).op = "copyInto" /\ LastInto(ScriptOf(p), proc[p].pc) => IsWhole(v),
         Now(p).op = "create" => ~IsWhole(v),
         Now(p).op = "fill" => IsWhole(v) /\ v.of = proc[p].mem,
         \/ f \in Private \cup {"declarationStage"}
         \/ (\A g \in Shared \ {f, "declarationStage"} : disk'[g] = disk[g])
              /\ disk'[f] = v /\ accepted' = accepted /\ job' = job => OnDisk'
  PROVE  BuildInv'
<1>1. /\ Did(p, Now(p)) /\ accepted' = accepted
      /\ File(p, f)' = v /\ proc'[p].mem = proc[p].mem
      /\ \A g \in Shared : g # f => disk'[g] = disk[g]
  BY SetsIs
<1>2. ASSUME NEW fact, Gives(Now(p), LastInto(ScriptOf(p), proc[p].pc), fact) PROVE Hold(fact, p)'
  <2>1. \/ Now(p).op \in {"mkTemp", "copyInto"} /\ fact = <<"there", f>>
        \/ Now(p).op = "copyInto" /\ LastInto(ScriptOf(p), proc[p].pc) /\ fact = <<"whole", f>>
        \/ Now(p).op = "create" /\ fact = <<"part", f>>
        \/ Now(p).op = "fill" /\ fact = <<"read", f>>
    BY <1>2 DEF Gives
  <2> QED  BY <1>1, <2>1, HoldWill
<1>3. OnDisk'
  <2>1. job' = job
    BY DEF Sets
  <2>2. CASE f \in Private \cup {"declarationStage"}
    <3>1. \A g \in Shared \ {"declarationStage"} : g # f
      BY <2>2 DEF Shared, Private
    <3> QED  BY <1>1, <2>1, <3>1, DiskFrame
  <2>3. CASE f \notin Private \cup {"declarationStage"}
    <3>1. disk'[f] = v
      BY <1>1, <2>3 DEF File
    <3> QED  BY <1>1, <2>1, <2>3, <3>1
  <2> QED  BY <2>2, <2>3
<1> QED  BY <1>1, <1>2, <1>3, GoesOn

-----------------------------------------------------------------------------
(* The steps that set a file.                                              *)
LEMMA FileMade ==
  ASSUME NEW ms \in SUBSET Versions, NEW b \in BOOLEAN
  PROVE  LET v == [of |-> ms, whole |-> b]
         IN  v \in Files /\ v # Absent /\ v.of = ms /\ v.whole = b /\ IsWhole(v) = b
<1> DEFINE v == [of |-> ms, whole |-> b]
<1>1. v \in [of : SUBSET Versions, whole : BOOLEAN] /\ v.of = ms /\ v.whole = b
  OBVIOUS
<1> HIDE DEF v
<1>2. v # Absent
  BY <1>1, BuildAssumption
<1> QED  BY <1>1, <1>2 DEF Files, IsWhole, v

(* What a step that is no cleanup knows: nothing was thrown.               *)
LEMMA Knowing ==
  ASSUME BuildInv, NEW p \in Procs, Running(p), Now(p).op \notin Cleanups
  PROVE  /\ proc[p].threw = Absent /\ Fits(Now(p))
         /\ \E k : k \subseteq Facts /\ Permits(k, Now(p)) /\ \A fact \in k : Hold(fact, p)
<1>1. proc[p].threw = Absent
  BY AtStep
<1> QED  BY <1>1, AtStep, ScriptIs

LEMMA DiskFile ==
  ASSUME NEW p, NEW f \in Shared
  PROVE  File(p, f) = disk[f]
BY DEF File, Shared, Private

LEMMA TemporaryStep ==
  ASSUME BuildInv, NEW p \in Procs, DoMkTemp(p)
  PROVE  BuildInv'
<1> DEFINE v == [of |-> {}, whole |-> FALSE]
<1>1. Running(p) /\ Now(p).op = "mkTemp" /\ Sets(p, Now(p).a, v)
  BY DEF DoMkTemp, Does
<1>2. PICK f : f = Now(p).a
  OBVIOUS
<1>3. f \in Private /\ f \in AllFiles
  BY <1>1, <1>2, AtStep DEF Fits, AllFiles
<1>4. v \in Files /\ v # Absent
  BY FileMade
<1> HIDE DEF v
<1>5. Touches(Now(p), f) /\ Makes(Now(p), f) /\ Sets(p, f, v)
  BY <1>1, <1>2 DEF Touches, Makes
<1> QED  BY <1>1, <1>2, <1>3, <1>4, <1>5, SetsOn

LEMMA CopyIntoStep ==
  ASSUME BuildInv, NEW p \in Procs, DoCopyInto(p)
  PROVE  BuildInv'
<1>1. PICK f : f = Now(p).a
  OBVIOUS
<1> DEFINE l == ScriptOf(p)[proc[p].pc + 1].op # "copyInto"
           ms == File(p, f).of \cup {source}
           v == [of |-> ms, whole |-> l]
<1>2. Running(p) /\ Now(p).op = "copyInto" /\ Sets(p, f, v)
  BY <1>1 DEF DoCopyInto, Does
<1>3. f \in Private /\ f \in AllFiles
  BY <1>1, <1>2, AtStep DEF Fits, AllFiles
<1>4. PICK k : Permits(k, Now(p)) /\ \A fact \in k : Hold(fact, p)
  BY <1>2, Knowing DEF Cleanups
<1>5. File(p, f) # Absent
  BY <1>1, <1>2, <1>4 DEF Permits, Hold
<1>6. File(p, f).of \in SUBSET Versions /\ source \in Versions
  BY <1>3, <1>5, FileIs DEF Files, BuildInv, BuildTypes
<1>7. v \in Files /\ v # Absent /\ IsWhole(v) = l
  <2>1. ms \in SUBSET Versions /\ l \in BOOLEAN
    BY <1>6
  <2> HIDE DEF ms, l
  <2> QED  BY <2>1, FileMade
<1>8. LastInto(ScriptOf(p), proc[p].pc) => l
  BY DEF LastInto
<1> HIDE DEF v, l
<1>9. Touches(Now(p), f) /\ Makes(Now(p), f)
  BY <1>1, <1>2 DEF Touches, Makes
<1> QED  BY <1>1, <1>2, <1>3, <1>7, <1>8, <1>9, SetsOn

LEMMA CreateStep ==
  ASSUME BuildInv, NEW p \in Procs, DoCreate(p)
  PROVE  BuildInv'
<1>1. PICK f : f = Now(p).a
  OBVIOUS
<1> DEFINE v == [of |-> proc[p].mem, whole |-> FALSE]
<1>2. Running(p) /\ Now(p).op = "create" /\ Sets(p, f, v)
  BY <1>1 DEF DoCreate, Does
<1>3. PICK k : Permits(k, Now(p)) /\ \A fact \in k : Hold(fact, p)
  BY <1>2, Knowing DEF Cleanups
<1>4. f \in Private \cup {"archive", "checksum", "report"} /\ f \in AllFiles
  BY <1>1, <1>2, AtStep DEF Fits, AllFiles, Shared
<1>5. v \in Files /\ ~IsWhole(v)
  BY FileMade, RunIs DEF Processes
<1> HIDE DEF v
<1>6. Touches(Now(p), f) /\ Makes(Now(p), f)
  BY <1>1, <1>2 DEF Touches, Makes
<1>7. ASSUME f \notin Private, \A g \in Shared \ {f, "declarationStage"} : disk'[g] = disk[g],
             disk'[f] = v, accepted' = accepted, job' = job
      PROVE  OnDisk'
  <2>1. {"archive", "checksum", "report", "tarball"} \subseteq Shared
    BY DEF Shared
  <2>2. CASE f \in {"archive", "checksum"}
    <3>1. {<<"absent", "report">>, <<"accepted", "none">>, <<"absent", "checksum">>} \subseteq k
      BY <1>1, <1>2, <1>3, <2>2 DEF Permits
    <3>2. accepted = {} /\ disk["report"] = Absent /\ disk["checksum"] = Absent
      BY <1>3, <2>1, <3>1, DiskFile DEF Hold
    <3> QED  BY <1>5, <1>7, <2>2, <3>2, SetArchive, SetChecksum DEF IsWhole
  <2>3. CASE f = "report"
    <3>1. {<<"whole", "tarball">>, <<"whole", "archive">>, <<"whole", "checksum">>,
           <<"job", "emit">>} \subseteq k
      BY <1>1, <1>2, <1>3, <2>3 DEF Permits
    <3>2. /\ IsWhole(disk["tarball"]) /\ IsWhole(disk["archive"]) /\ IsWhole(disk["checksum"])
          /\ "emit" \in job
      BY <1>3, <2>1, <3>1, DiskFile DEF Hold
    <3> QED  BY <1>7, <2>3, <3>2, SetReport
  <2> QED  BY <1>4, <1>7, <2>2, <2>3
<1> QED  BY <1>1, <1>2, <1>4, <1>5, <1>6, <1>7, SetsOn

LEMMA TruncateStep ==
  ASSUME BuildInv, NEW p \in Procs, DoTruncate(p)
  PROVE  BuildInv'
<1>1. PICK f : f = Now(p).a
  OBVIOUS
<1> DEFINE v == [of |-> proc[p].mem, whole |-> FALSE]
<1>2. Running(p) /\ Now(p).op = "truncate" /\ Sets(p, f, v)
  BY <1>1 DEF DoTruncate, Does
<1>3. PICK k : Permits(k, Now(p)) /\ \A fact \in k : Hold(fact, p)
  BY <1>2, Knowing DEF Cleanups
<1>4. f \in Private \cup {"declarationStage", "assets", "manifest", "tarball"} /\ f \in AllFiles
  BY <1>1, <1>2, AtStep DEF Fits, AllFiles, Shared
<1>5. v \in Files
  BY FileMade, RunIs DEF Processes
<1> HIDE DEF v
<1>6. Touches(Now(p), f) /\ Makes(Now(p), f)
  BY <1>1, <1>2 DEF Touches, Makes
<1>7. ASSUME f \notin Private \cup {"declarationStage"},
             \A g \in Shared \ {f, "declarationStage"} : disk'[g] = disk[g],
             disk'[f] = v, accepted' = accepted, job' = job
      PROVE  OnDisk'
  <2>1. CASE f \in {"assets", "manifest"}
    <3>1. <<"accepted", "none">> \in k
      BY <1>1, <1>2, <1>3, <2>1 DEF Permits
    <3>2. accepted = {}
      BY <1>3, <3>1 DEF Hold
    <3> QED  BY <1>7, <2>1, <3>2, SetAsset
  <2>2. CASE f = "tarball"
    <3>1. <<"absent", "report">> \in k /\ "report" \in Shared
      BY <1>1, <1>2, <1>3, <2>2 DEF Permits, Shared
    <3>2. disk["report"] = Absent
      BY <1>3, <3>1, DiskFile DEF Hold
    <3> QED  BY <1>7, <2>2, <3>2, SetTarball
  <2> QED  BY <1>4, <1>7, <2>1, <2>2
<1> QED  BY <1>1, <1>2, <1>4, <1>5, <1>6, <1>7, SetsOn

LEMMA FillStep ==
  ASSUME BuildInv, NEW p \in Procs, DoFill(p)
  PROVE  BuildInv'
<1>1. PICK f : f = Now(p).a
  OBVIOUS
<1> DEFINE v == [of |-> proc[p].mem, whole |-> TRUE]
<1>2. Running(p) /\ Now(p).op = "fill" /\ Sets(p, f, v)
  BY <1>1 DEF DoFill, Does
<1>3. PICK k : Permits(k, Now(p)) /\ \A fact \in k : Hold(fact, p)
  BY <1>2, Knowing DEF Cleanups
<1>4. /\ f \in Private \cup {"archive", "checksum", "report", "declarationStage", "assets",
                             "manifest", "tarball"}
      /\ f \in AllFiles
  BY <1>1, <1>2, AtStep DEF Fits, AllFiles, Shared
<1>5. v \in Files /\ IsWhole(v) /\ v.of = proc[p].mem
  BY FileMade, RunIs DEF Processes
<1>6. Touches(Now(p), f) /\ Makes(Now(p), f)
  BY <1>1, <1>2 DEF Touches, Makes
<1>7. ASSUME f \notin Private \cup {"declarationStage"},
             \A g \in Shared \ {f, "declarationStage"} : disk'[g] = disk[g],
             disk'[f] = v, accepted' = accepted, job' = job
      PROVE  OnDisk'
  <2>1. {"archive", "checksum", "report", "tarball"} \subseteq Shared
    BY DEF Shared
  <2>2. CASE f = "archive"
    <3>1. {<<"absent", "report">>, <<"accepted", "none">>, <<"absent", "checksum">>} \subseteq k
      BY <1>1, <1>2, <1>3, <2>2 DEF Permits
    <3>2. accepted = {} /\ disk["report"] = Absent /\ disk["checksum"] = Absent
      BY <1>3, <2>1, <3>1, DiskFile DEF Hold
    <3> QED  BY <1>7, <2>2, <3>2, SetArchive DEF IsWhole
  <2>3. CASE f = "checksum"
    <3>1. {<<"absent", "report">>, <<"accepted", "none">>, <<"read", "archive">>,
           <<"mem", "one">>} \subseteq k
      BY <1>1, <1>2, <1>3, <2>3 DEF Permits
    <3>2. /\ accepted = {} /\ disk["report"] = Absent /\ IsWhole(disk["archive"])
          /\ disk["archive"].of = proc[p].mem /\ Cardinality(proc[p].mem) = 1
      BY <1>3, <2>1, <3>1, DiskFile DEF Hold
    <3>3. disk["archive"] \in Files
      BY <2>1 DEF BuildInv, BuildTypes
    <3>4. disk["archive"] = v
      BY <3>2, <3>3 DEF Files, IsWhole
    <3> QED  BY <1>7, <2>3, <3>2, <3>4, SetChecksum
  <2>4. CASE f = "report"
    <3>1. {<<"whole", "tarball">>, <<"whole", "archive">>, <<"whole", "checksum">>,
           <<"job", "emit">>} \subseteq k
      BY <1>1, <1>2, <1>3, <2>4 DEF Permits
    <3>2. /\ IsWhole(disk["tarball"]) /\ IsWhole(disk["archive"]) /\ IsWhole(disk["checksum"])
          /\ "emit" \in job
      BY <1>3, <2>1, <3>1, DiskFile DEF Hold
    <3> QED  BY <1>7, <2>4, <3>2, SetReport
  <2>5. CASE f \in {"assets", "manifest"}
    <3>1. <<"accepted", "none">> \in k
      BY <1>1, <1>2, <1>3, <2>5 DEF Permits
    <3>2. accepted = {}
      BY <1>3, <3>1 DEF Hold
    <3> QED  BY <1>7, <2>5, <3>2, SetAsset
  <2>6. CASE f = "tarball"
    <3>1. <<"absent", "report">> \in k
      BY <1>1, <1>2, <1>3, <2>6 DEF Permits
    <3>2. disk["report"] = Absent
      BY <1>3, <2>1, <3>1, DiskFile DEF Hold
    <3> QED  BY <1>7, <2>6, <3>2, SetTarball
  <2> QED  BY <1>4, <1>7, <2>2, <2>3, <2>4, <2>5, <2>6
<1> HIDE DEF v
<1> QED  BY <1>1, <1>2, <1>4, <1>5, <1>6, <1>7, SetsOn

LEMMA CopyStep ==
  ASSUME BuildInv, NEW p \in Procs, DoCopy(p)
  PROVE  BuildInv'
<1>1. PICK f : f = Now(p).b
  OBVIOUS
<1> DEFINE v == File(p, Now(p).a)
<1>2. Running(p) /\ Now(p).op = "copy" /\ Sets(p, f, v)
  BY <1>1 DEF DoCopy, Does
<1>3. PICK k : Permits(k, Now(p)) /\ \A fact \in k : Hold(fact, p)
  BY <1>2, Knowing DEF Cleanups
<1>4. f \in {"retained", "tarball"} /\ Now(p).a \in Private
  BY <1>1, <1>2, AtStep DEF Fits
<1>5. v \in Files
  BY <1>4, FileIs DEF BuildInv, AllFiles
<1> HIDE DEF v
<1>6. f \in AllFiles /\ Touches(Now(p), f) /\ Makes(Now(p), f)
  BY <1>1, <1>2, <1>4 DEF Touches, Makes, AllFiles, Private, Shared
<1>7. ASSUME f \notin Private \cup {"declarationStage"},
             \A g \in Shared \ {f, "declarationStage"} : disk'[g] = disk[g],
             disk'[f] = v, accepted' = accepted, job' = job
      PROVE  OnDisk'
  <2>1. f = "tarball"
    BY <1>4, <1>7 DEF Private
  <2>2. <<"absent", "report">> \in k /\ "report" \in Shared
    BY <1>1, <1>2, <1>3, <2>1 DEF Permits, Shared
  <2>3. disk["report"] = Absent
    BY <1>3, <2>2, DiskFile DEF Hold
  <2> QED  BY <1>7, <2>1, <2>3, SetTarball
<1> QED  BY <1>2, <1>5, <1>6, <1>7, SetsOn

LEMMA LinkStep ==
  ASSUME BuildInv, NEW p \in Procs, DoLink(p)
  PROVE  BuildInv'
<1> DEFINE f == "addon"
           v == File(p, "temporary")
<1>1. Running(p) /\ Now(p).op = "link"
  BY DEF DoLink, Does
<1>2. Now(p).a = "temporary" /\ Now(p).b = "addon"
  BY <1>1, AtStep DEF Fits
<1>3. Sets(p, f, v)
  BY <1>2 DEF DoLink
<1>4. PICK k : Permits(k, Now(p)) /\ \A fact \in k : Hold(fact, p)
  BY <1>1, Knowing DEF Cleanups
<1>5. v \in Files /\ f \in AllFiles
  BY FileIs DEF BuildInv, AllFiles, Private, Shared
<1>6. IsWhole(v) /\ v.of \subseteq Pinned
  <2>1. <<"read", "temporary">> \in k /\ <<"mem", "pinned">> \in k
    BY <1>1, <1>4 DEF Permits
  <2> QED  BY <1>4, <2>1 DEF Hold
<1>7. Touches(Now(p), f) /\ f \notin Private
  BY <1>1, <1>2 DEF Touches, Private
<1> HIDE DEF v
<1>8. ASSUME \A g \in Shared \ {f, "declarationStage"} : disk'[g] = disk[g],
             disk'[f] = v, accepted' = accepted, job' = job
      PROVE  OnDisk'
  BY <1>6, <1>8, SetFinal DEF IsWhole
<1> QED  BY <1>1, <1>3, <1>5, <1>7, <1>8, SetsOn

(* The steps that remove a file, by themselves and as cleanups.            *)
LEMMA RemoveStep ==
  ASSUME BuildInv, NEW p \in Procs, DoRemove(p)
  PROVE  BuildInv'
<1>1. PICK f : f = Now(p).a
  OBVIOUS
<1>2. Running(p) /\ Now(p).op \in {"remove", "finally"} /\ Sets(p, f, Absent)
  BY <1>1 DEF DoRemove
<1>3. /\ Now(p).op = "remove" => f \in {"runtime", "assets", "addon"}
      /\ Now(p).op = "finally" => f \in Private \cup {"declarationStage"}
  BY <1>1, <1>2, AtStep DEF Fits
<1>4. f \in AllFiles /\ Touches(Now(p), f) /\ Absent \in Files
  BY <1>1, <1>2, <1>3 DEF Touches, AllFiles, Shared, Files
<1>5. ASSUME f \notin Private \cup {"declarationStage"},
             \A g \in Shared \ {f, "declarationStage"} : disk'[g] = disk[g],
             disk'[f] = Absent, accepted' = accepted, job' = job
      PROVE  OnDisk'
  <2>1. CASE f = "assets"
    <3>1. Now(p).op = "remove"
      BY <1>2, <1>3, <1>5
    <3>2. PICK k : Permits(k, Now(p)) /\ \A fact \in k : Hold(fact, p)
      BY <1>2, <3>1, Knowing DEF Cleanups
    <3>3. <<"accepted", "none">> \in k
      BY <1>1, <2>1, <3>1, <3>2 DEF Permits
    <3>4. accepted = {}
      BY <3>2, <3>3 DEF Hold
    <3> QED  BY <1>5, <2>1, <3>4, SetAsset
  <2>2. CASE f # "assets"
    <3>1. f \in {"runtime", "addon"}
      BY <1>2, <1>3, <1>5, <2>2
    <3> QED  BY <1>5, <3>1, SetFinal
  <2> QED  BY <2>1, <2>2
<1> QED  BY <1>1, <1>2, <1>4, <1>5, SetsOn

LEMMA CatchStep ==
  ASSUME BuildInv, NEW p \in Procs, DoCatch(p)
  PROVE  BuildInv'
<1> DEFINE t == proc[p].threw
<1>1. Running(p) /\ Now(p).op = "catch"
  BY DEF DoCatch, Does
<1>2. Now(p).a = "archive" /\ Now(p).b = "checksum"
  BY <1>1, AtStep DEF Fits
<1>3. CASE t # Absent /\ t.op \in {"create", "fill"} /\ t.a = Now(p).b
  <2>1. Sets(p, "archive", Absent)
    BY <1>2, <1>3 DEF DoCatch
  <2>2. NoChecksum(p)
    BY <1>1, <1>2, <1>3, AtStep DEF BuildInv, Orderly, CleansNext
  <2>3. "archive" \in AllFiles /\ "archive" \notin Private /\ Absent \in Files
    BY DEF AllFiles, Shared, Private, Files
  <2>4. Touches(Now(p), "archive")
    BY <1>1, <1>2 DEF Touches
  <2>5. ASSUME \A g \in Shared \ {"archive", "declarationStage"} : disk'[g] = disk[g],
               disk'["archive"] = Absent, accepted' = accepted, job' = job
        PROVE  OnDisk'
    BY <2>2, <2>5, SetArchive DEF NoChecksum
  <2> QED  BY <1>1, <2>1, <2>3, <2>4, <2>5, SetsOn
<1>4. CASE ~(t # Absent /\ t.op \in {"create", "fill"} /\ t.a = Now(p).b)
  <2>1. Keeps(p, proc[p])
    BY <1>4 DEF DoCatch
  <2> QED  BY <1>1, <2>1, RunIs, KeepsOn
<1> QED  BY <1>3, <1>4

LEMMA FinallyHeldStep ==
  ASSUME BuildInv, NEW p \in Procs, DoFinallyHeld(p)
  PROVE  BuildInv'
<1>1. Running(p) /\ Now(p).op = "finallyHeld"
  BY DEF DoFinallyHeld, Does
<1>2. Now(p).a = "retained"
  BY <1>1, AtStep DEF Fits
<1>3. CASE proc[p].held
  <2>1. Sets(p, "retained", Absent)
    BY <1>2, <1>3 DEF DoFinallyHeld
  <2>2. "retained" \in AllFiles /\ "retained" \in Private /\ Absent \in Files
    BY DEF AllFiles, Private, Files
  <2>3. Touches(Now(p), "retained")
    BY <1>1, <1>2 DEF Touches
  <2> QED  BY <1>1, <2>1, <2>2, <2>3, SetsOn
<1>4. CASE ~proc[p].held
  <2>1. Keeps(p, proc[p])
    BY <1>4 DEF DoFinallyHeld
  <2> QED  BY <1>1, <2>1, RunIs, KeepsOn
<1> QED  BY <1>3, <1>4

-----------------------------------------------------------------------------
(* The steps that move a file, and the one that accepts.                   *)
LEMMA MoveStep ==
  ASSUME BuildInv, NEW p \in Procs, DoMoveTree(p) \/ DoMoveFile(p)
  PROVE  BuildInv'
<1>1. Running(p) /\ Now(p).op \in {"moveTree", "moveFile"} /\ Moves(p, Now(p).a, Now(p).b)
  BY DEF DoMoveTree, DoMoveFile, Does
<1>2. PICK f, g : f = Now(p).a /\ g = Now(p).b
  OBVIOUS
<1>3. f \in {"temporary", "declarationStage"} /\ g \in {"runtime", "evidence", "declaration"}
  BY <1>1, <1>2, AtStep DEF Fits
<1>4. PICK k : Permits(k, Now(p)) /\ \A fact \in k : Hold(fact, p)
  BY <1>1, Knowing DEF Cleanups
<1>5. IsWhole(File(p, f))
  <2>1. <<"whole", f>> \in k
    BY <1>1, <1>2, <1>4 DEF Permits
  <2> QED  BY <1>4, <2>1 DEF Hold
<1>6. /\ Did(p, Now(p)) /\ accepted' = accepted /\ disk'[g] = File(p, f)
      /\ \A h \in Shared : h # f /\ h # g => disk'[h] = disk[h]
  BY <1>1, <1>2, <1>3, MovesIs
<1>7. \A h \in Shared \ {g, "declarationStage"} : disk'[h] = disk[h]
  BY <1>3, <1>6 DEF Shared
<1>8. job' = job
  BY <1>6 DEF Did
<1>9. OnDisk'
  BY <1>3, <1>5, <1>6, <1>7, <1>8, SetFinal DEF IsWhole
<1>10. \A fact : ~Gives(Now(p), LastInto(ScriptOf(p), proc[p].pc), fact)
  BY <1>1, NoGain
<1> QED  BY <1>1, <1>6, <1>9, <1>10, GoesOn

LEMMA AcceptStep ==
  ASSUME BuildInv, NEW p \in Procs, DoAccept(p)
  PROVE  BuildInv'
<1>1. /\ Running(p) /\ Now(p).op = "accept" /\ Ends(p, proc[p])
      /\ disk' = disk /\ source' = source /\ job' = job
  BY DEF DoAccept, Does
<1>2. PICK fs : fs = Now(p).a
  OBVIOUS
<1>3. accepted' = fs /\ fs \in {{"manifest", "assets"}, {"archive", "checksum"}}
  BY <1>1, <1>2, AtStep DEF DoAccept, Fits
<1>4. PICK k : Permits(k, Now(p)) /\ \A fact \in k : Hold(fact, p)
  BY <1>1, Knowing DEF Cleanups
<1>5. /\ proc' \in [Procs -> Processes] /\ \A q \in Procs \ {p} : proc'[q] = proc[q]
      /\ proc'[p].script = proc[p].script /\ proc'[p].pc = NextPc(p, proc[p].threw)
      /\ proc'[p].threw = proc[p].threw /\ proc'[p].mem = proc[p].mem
      /\ proc'[p].child = proc[p].child /\ proc'[p].files = proc[p].files
  BY <1>1, RunIs, EndsIs
<1>6. \A f : File(p, f)' = File(p, f)
  BY <1>1, <1>5 DEF File
<1>7. Did(p, Now(p))
  <2>1. BuildTypes'
    BY <1>1, <1>3, <1>5 DEF BuildInv, BuildTypes
  <2> QED  BY <1>1, <1>5, <1>6, <2>1 DEF Did
<1>8. \A fact : ~Gives(Now(p), LastInto(ScriptOf(p), proc[p].pc), fact)
  BY <1>1, NoGain
<1>9. {"manifest", "assets", "archive", "checksum"} \subseteq Shared
  BY DEF Shared
<1>10. \A f \in fs : IsWhole(disk[f])
  <2>1. ASSUME NEW f \in fs PROVE IsWhole(disk[f])
    <3>1. <<"whole", f>> \in k
      BY <1>1, <1>2, <1>4 DEF Permits
    <3>2. IsWhole(File(p, f))
      BY <1>4, <3>1 DEF Hold
    <3>3. f \in Shared
      BY <1>3, <1>9
    <3> QED  BY <3>2, <3>3, DiskFile
  <2> QED  BY <2>1
<1>11. \A f, g \in fs : disk[f] = disk[g]
  <2>1. ASSUME NEW f \in fs \cap {"checksum", "assets"} PROVE disk[f] = disk[Partner(f)]
    <3>1. <<"alike", f>> \in k
      BY <1>1, <1>2, <1>4 DEF Permits
    <3>2. File(p, f) = File(p, Partner(f))
      BY <1>4, <3>1 DEF Hold
    <3>3. f \in Shared /\ Partner(f) \in Shared
      BY <1>9 DEF Partner
    <3> QED  BY <3>2, <3>3, DiskFile
  <2>2. CASE fs = {"manifest", "assets"}
    <3>1. disk["assets"] = disk["manifest"]
      BY <2>1, <2>2 DEF Partner
    <3> QED  BY <2>2, <3>1
  <2>3. CASE fs = {"archive", "checksum"}
    <3>1. disk["checksum"] = disk["archive"]
      BY <2>1, <2>3 DEF Partner
    <3> QED  BY <2>3, <3>1
  <2> QED  BY <1>3, <2>2, <2>3
<1>12. OnDisk'
  <2>1. AcceptedBelongsTogether'
    BY <1>1, <1>3, <1>10, <1>11 DEF AcceptedBelongsTogether, IsWhole
  <2>2. FinalFilesAreWhole'
    BY <1>1 DEF BuildInv, OnDisk, FinalFilesAreWhole, IsWhole
  <2> QED  BY <1>1, <2>1, <2>2 DEF BuildInv, OnDisk
<1> QED  BY <1>1, <1>7, <1>8, <1>12, GoesOn

(* A step that throws: the next cleanup is next, what was made is still to *)
(* be cleaned up, and the checksum is not written.                         *)
LEMMA ThrowStep ==
  ASSUME BuildInv, NEW p \in Procs, StepThrows(p)
  PROVE  BuildInv'
<1> DEFINE s == proc[p].script
           i == proc[p].pc
           n == Len(Scripts[s])
<1>1. PICK st : st = Now(p)
  OBVIOUS
<1>2. Running(p) /\ st.op \notin Cleanups /\ Keeps(p, [proc[p] EXCEPT !.threw = st])
  BY <1>1 DEF StepThrows, Throws
<1>3. /\ s \in ScriptNames /\ i \in 1..n /\ i \in Nat /\ n \in Nat /\ ScriptOf(p) = Scripts[s]
      /\ st = Scripts[s][i] /\ st \in Steps /\ st # Absent /\ Busy(p) /\ proc[p].threw = Absent
  <2>1. ScriptOf(p) = Scripts[s] /\ st = Scripts[s][i]
    BY <1>1 DEF ScriptOf, Now
  <2>2. /\ s \in ScriptNames /\ i \in 1..Len(ScriptOf(p)) /\ Len(ScriptOf(p)) \in Nat
        /\ st \in Steps /\ st # Absent /\ Busy(p) /\ proc[p].threw = Absent
    BY <1>1, <1>2, AtStep
  <2> QED  BY <2>1, <2>2
<1>4. PICK m : m = NextPc(p, st)
  OBVIOUS
<1>5. /\ m \in (i + 1)..(n + 1)
      /\ m <= n => Scripts[s][m].op \in Cleanups
      /\ \A j \in (i + 1)..n : Scripts[s][j].op \in Cleanups => m <= j
  <2>1. i <= n /\ proc[p].pc = i /\ Len(ScriptOf(p)) = n
    BY <1>3
  <2> HIDE DEF i, n
  <2> QED  BY <1>3, <1>4, <2>1, NextPcIs
<1> DEFINE r == [proc[p] EXCEPT !.threw = st]
<1>6. /\ r \in Processes /\ r.script = s /\ r.threw = st /\ r.mem = proc[p].mem
      /\ r.child = proc[p].child /\ r.files = proc[p].files
  BY <1>3, RunIs DEF Processes
<1>7. Keeps(p, r)
  BY <1>2
<1> HIDE DEF r
<1>8. /\ proc' \in [Procs -> Processes] /\ \A q \in Procs \ {p} : proc'[q] = proc[q]
      /\ proc'[p].script = s /\ proc'[p].pc = m /\ proc'[p].threw = st
      /\ proc'[p].mem = proc[p].mem /\ proc'[p].child = proc[p].child
      /\ proc'[p].files = proc[p].files
      /\ disk' = disk /\ source' = source /\ accepted' = accepted /\ job' = job
  BY <1>2, <1>4, <1>6, <1>7, EndsIs DEF Keeps
<1>9. BuildTypes'
  BY <1>8 DEF BuildInv, BuildTypes
<1>10. OnDisk'
  BY <1>8, DiskFrame
<1>11. /\ Busy(p)' /\ ScriptOf(p)' = Scripts[s] /\ Now(p)' = Scripts[s][m]
  BY <1>3, <1>8 DEF Busy, ScriptOf, Now
<1>12. Alone'
  <2>1. \A q \in Procs : proc'[q].script = proc[q].script
    BY <1>8
  <2>2. \A q \in Procs : Busy(q)' = Busy(q)
    BY <2>1 DEF Busy
  <2>3. m <= n + 1
    BY <1>3, <1>5
  <2>4. ASSUME NEW q \in Procs, Busy(q) PROVE proc'[q].pc <= Len(ScriptOf(q)') + 1
    <3>1. CASE q = p
      BY <1>8, <1>11, <2>3, <3>1
    <3>2. CASE q # p
      BY <1>8, <2>4, <3>2 DEF BuildInv, Alone, ScriptOf
    <3> QED  BY <3>1, <3>2
  <2> QED  BY <1>8, <2>1, <2>2, <2>4 DEF BuildInv, Alone
<1>13. ASSUME NEW q \in Procs \ {p} PROVE Orderly(q)'
  BY <1>3, <1>8, OthersOrderly, OthersExclusive
<1>14. Orderly(p)
  BY DEF BuildInv
<1>15. Knows(p)'
  BY <1>3, <1>8 DEF Knows
<1>16. CleansNext(p)'
  <2>1. m <= n => Now(p)'.op \in Cleanups
    BY <1>5, <1>11
  <2>2. ASSUME st.op \in {"create", "fill"}, st.a = "checksum" PROVE NoChecksum(p)'
    <3> DEFINE k == Known[s][i]
    <3>1. Permits(k, st) /\ k \subseteq UsedFacts(s) /\ \A fact \in k : Hold(fact, p)
      BY <1>1, <1>2, <1>3, AtStep
    <3> HIDE DEF k
    <3>2. /\ <<"absent", "report">> \in k /\ <<"accepted", "none">> \in k
          /\ <<"absent", "checksum">> \in k \/ <<"part", "checksum">> \in k
      BY <2>2, <3>1 DEF Permits
    <3>3. disk["report"] = Absent /\ accepted = {} /\ ~IsWhole(disk["checksum"])
      <4>1. File(p, "report") = disk["report"] /\ File(p, "checksum") = disk["checksum"]
        BY DiskFile DEF Shared
      <4> QED  BY <3>1, <3>2, <4>1 DEF Hold, IsWhole
    <3>4. s \notin Exclusive
      BY <3>1, <3>2 DEF UsedFacts, PrivateFacts, Private
    <3> QED  BY <1>8, <3>3, <3>4 DEF NoChecksum, IsWhole
  <2> QED  BY <1>8, <1>11, <2>1, <2>2 DEF CleansNext
<1>17. WillClean(p)'
  <2>1. SUFFICES ASSUME NEW f \in Private \ {"retained"}, proc[p].files[f] # Absent
                 PROVE  \E j \in m..n : Scripts[s][j].op = "finally" /\ Scripts[s][j].a = f
    BY <1>8, <1>11 DEF WillClean
  <2>2. PICK j \in i..n : Scripts[s][j].op = "finally" /\ Scripts[s][j].a = f
    BY <1>3, <1>14, <2>1 DEF Orderly, WillClean
  <2>3. j # i
    BY <1>2, <1>3, <2>2 DEF Cleanups
  <2>4. j \in (i + 1)..n
    BY <1>3, <2>3
  <2>5. m <= j
    BY <1>5, <2>2, <2>4 DEF Cleanups
  <2>6. j \in m..n
    BY <1>3, <1>5, <2>4, <2>5
  <2> QED  BY <2>2, <2>6
<1>18. WillStop(p)'
  <2>1. SUFFICES ASSUME proc[p].child # "none" PROVE WillStop(p)'
    BY <1>8 DEF WillStop
  <2>2. /\ st.op = "poll" /\ i + 1 <= n /\ Scripts[s][i + 1].op = "stop"
        /\ proc[p].files["extracted"] # Absent
    BY <1>1, <1>2, <1>3, <1>14, <2>1 DEF Orderly, WillStop, Cleanups
  <2>3. m = i + 1
    <3>1. m <= i + 1
      BY <1>3, <1>5, <2>2 DEF Cleanups
    <3> QED  BY <1>3, <1>5, <3>1
  <2> QED  BY <1>8, <1>11, <2>2, <2>3 DEF WillStop
<1>19. Clean(p)'
  BY <1>11 DEF Clean
<1> QED  BY <1>8, <1>9, <1>10, <1>12, <1>13, <1>15, <1>16, <1>17, <1>18, <1>19 DEF BuildInv, Orderly

-----------------------------------------------------------------------------
(* A script that starts, ends or is killed, and what happens around it.    *)
LEMMA IdleIs ==
  /\ Idle \in Processes /\ Idle.script = Absent /\ Idle.pc = 1 /\ Idle.threw = Absent
  /\ Idle.child = "none" /\ Idle.files \in [Private -> {Absent}]
<1>1. [f \in Private |-> Absent] \in [Private -> Files] \cap [Private -> {Absent}]
  BY DEF Files
<1> QED  BY <1>1 DEF Idle, Processes

LEMMA StartStep ==
  ASSUME BuildInv, NEW p \in Procs, Start(p)
  PROVE  BuildInv'
<1>1. PICK s \in job :
        /\ \A q \in Procs \ {p} : Busy(q) => proc[q].script = s /\ s \in Exclusive
        /\ proc' = [proc EXCEPT ![p] = [Idle EXCEPT !.script = s]]
  BY DEF Start, Busy
<1>2. /\ ~Busy(p) /\ accepted' = {} /\ disk' = disk /\ source' = source /\ job' = job
      /\ job \in Jobs
  BY DEF Start, Busy, BuildInv, BuildTypes
<1>3. s \in ScriptNames
  BY <1>2 DEF Jobs, ScriptNames, Scripts
<1> DEFINE r == [Idle EXCEPT !.script = s]
<1>4. /\ r \in Processes /\ r.script = s /\ r.pc = 1 /\ r.threw = Absent /\ r.child = "none"
      /\ r.files \in [Private -> {Absent}]
  BY <1>3, IdleIs DEF Processes
<1>5. proc' = [proc EXCEPT ![p] = r]
  BY <1>1
<1> HIDE DEF r
<1>6. proc' \in [Procs -> Processes] /\ proc'[p] = r /\ \A q \in Procs \ {p} : proc'[q] = proc[q]
  BY <1>4, <1>5 DEF BuildInv, BuildTypes
<1>7. BuildTypes'
  BY <1>2, <1>6 DEF BuildInv, BuildTypes
<1>8. s # Absent /\ Busy(p)' /\ ScriptOf(p)' = Scripts[s]
  BY <1>3, <1>4, <1>6, BuildAssumption DEF Busy, ScriptOf
<1>9. \A q \in Procs \ {p} : Busy(q)' = Busy(q) /\ ScriptOf(q)' = ScriptOf(q)
  BY <1>6 DEF Busy, ScriptOf
<1>10. Alone'
  <2>1. proc'[p].pc <= Len(ScriptOf(p)') + 1
    BY <1>3, <1>4, <1>6, <1>8, ScriptIs
  <2>2. ASSUME NEW q \in Procs, Busy(q)'
        PROVE  proc'[q].script \in job' /\ proc'[q].pc <= Len(ScriptOf(q)') + 1
    <3>1. CASE q = p
      BY <1>2, <1>4, <1>6, <2>1, <3>1
    <3>2. CASE q # p
      BY <1>2, <1>6, <1>9, <2>2, <3>2 DEF BuildInv, Alone
    <3> QED  BY <3>1, <3>2
  <2>3. ASSUME NEW q \in Procs, Busy(q)', NEW o \in Procs \ {q}, Busy(o)'
        PROVE  proc'[o].script = proc'[q].script /\ proc'[q].script \in Exclusive
    <3>1. CASE q = p
      BY <1>1, <1>4, <1>6, <1>9, <2>3, <3>1
    <3>2. CASE o = p
      BY <1>1, <1>4, <1>6, <1>9, <2>3, <3>2
    <3>3. CASE q # p /\ o # p
      BY <1>1, <1>6, <1>9, <2>3, <3>3
    <3> QED  BY <3>1, <3>2, <3>3
  <2> QED  BY <2>2, <2>3 DEF Alone
<1>11. OnDisk'
  <2>1. AcceptedBelongsTogether'
    BY <1>2 DEF AcceptedBelongsTogether
  <2>2. FinalFilesAreWhole'
    BY <1>2 DEF BuildInv, OnDisk, FinalFilesAreWhole, IsWhole
  <2> QED  BY <1>2, <2>1, <2>2 DEF BuildInv, OnDisk
<1>12. ASSUME NEW q \in Procs \ {p} PROVE Orderly(q)'
  <2>1. Busy(q) => proc[q].script \in Exclusive
    BY <1>1, <1>12
  <2> QED  BY <1>6, <2>1, OthersOrderly
<1>13. Knows(p)'
  <2>1. SUFFICES ASSUME NEW fact \in StartFacts(s) PROVE Hold(fact, p)'
    BY <1>3, <1>4, <1>6, ScriptIs DEF Knows
  <2>2. /\ fact \in {<<"accepted", "none">>, <<"absent", "report">>, <<"job", "emit">>}
        /\ fact = <<"absent", "report">> => s \notin Exclusive /\ s # "emit"
        /\ fact = <<"job", "emit">> => s = "emit"
    BY DEF StartFacts, Fresh, Emitting
  <2>3. CASE fact = <<"accepted", "none">>
    BY <1>2, <2>3 DEF Hold
  <2>4. CASE fact = <<"absent", "report">>
    <3>1. "emit" \notin job
      BY <1>2, <2>2, <2>4 DEF Jobs
    <3>2. disk["report"] = Absent
      BY <3>1 DEF BuildInv, OnDisk
    <3>3. File(p, "report")' = Absent
      BY <1>2, <3>2 DEF File, Private
    <3> QED  BY <2>4, <3>3, HoldWill
  <2>5. CASE fact = <<"job", "emit">>
    BY <1>2, <2>2, <2>5 DEF Hold
  <2> QED  BY <2>2, <2>3, <2>4, <2>5
<1>14. CleansNext(p)' /\ WillStop(p)' /\ Clean(p)'
  BY <1>4, <1>6, <1>8 DEF CleansNext, WillStop, Clean
<1>15. WillClean(p)'
  BY <1>4, <1>6 DEF WillClean
<1> QED  BY <1>7, <1>10, <1>11, <1>12, <1>13, <1>14, <1>15 DEF BuildInv, Orderly

(* A process that has no script any more has left nothing.                 *)
LEMMA StopsOn ==
  ASSUME BuildInv, NEW p \in Procs, Busy(p), proc' \in [Procs -> Processes],
         \A q \in Procs \ {p} : proc'[q] = proc[q],
         proc'[p].script = Absent, proc'[p].child = "none",
         \A f \in Private : proc'[p].files[f] = Absent,
         disk' = disk, source' = source, accepted' = accepted, job' = job
  PROVE  BuildInv'
<1>1. BuildTypes'
  BY DEF BuildInv, BuildTypes
<1>2. ~Busy(p)'
  BY DEF Busy
<1>3. \A q \in Procs \ {p} : Busy(q)' = Busy(q) /\ ScriptOf(q)' = ScriptOf(q)
  BY DEF Busy, ScriptOf
<1>4. Alone'
  BY <1>2, <1>3 DEF BuildInv, Alone
<1>5. OnDisk'
  BY DiskFrame
<1>6. ASSUME NEW q \in Procs \ {p} PROVE Orderly(q)'
  BY OthersOrderly, OthersExclusive
<1>7. Orderly(p)'
  BY <1>2 DEF Orderly, Knows, CleansNext, WillClean, WillStop, Clean
<1> QED  BY <1>1, <1>4, <1>5, <1>6, <1>7 DEF BuildInv

LEMMA KilledStep ==
  ASSUME BuildInv, NEW p \in Procs, Killed(p)
  PROVE  BuildInv'
<1>1. /\ Busy(p) /\ proc' = [proc EXCEPT ![p] = Idle]
      /\ disk' = disk /\ source' = source /\ accepted' = accepted /\ job' = job
  BY DEF Killed, Busy
<1>2. /\ Idle \in Processes /\ Idle.script = Absent /\ Idle.child = "none"
      /\ \A f \in Private : Idle.files[f] = Absent
  BY IdleIs
<1> HIDE DEF Idle
<1>3. proc' \in [Procs -> Processes] /\ proc'[p] = Idle /\ \A q \in Procs \ {p} : proc'[q] = proc[q]
  BY <1>1, <1>2 DEF BuildInv, BuildTypes
<1> QED  BY <1>1, <1>2, <1>3, StopsOn

(* It has nothing left when its last step is done.                         *)
LEMMA EndStep ==
  ASSUME BuildInv, NEW p \in Procs, End(p)
  PROVE  BuildInv'
<1> DEFINE fs == [proc[p].files EXCEPT !["retained"] = Absent]
           c == proc[p].child
           r == [Idle EXCEPT !.child = c, !.files = fs]
<1>1. /\ Busy(p) /\ proc[p].pc > Len(ScriptOf(p)) /\ proc' = [proc EXCEPT ![p] = r]
      /\ disk' = disk /\ source' = source /\ accepted' = accepted /\ job' = job
  BY DEF End, Busy
<1>2. /\ proc[p] \in Processes /\ proc[p].pc \in Nat /\ proc[p].files \in [Private -> Files]
      /\ Len(ScriptOf(p)) \in Nat /\ Orderly(p)
  BY <1>1, RunIs, ScriptIs DEF Processes, ScriptOf, Busy, BuildInv
<1>3. c = "none"
  BY <1>1, <1>2 DEF Orderly, WillStop
<1>4. \A f \in Private \ {"retained"} : proc[p].files[f] = Absent
  <2>1. SUFFICES ASSUME NEW f \in Private \ {"retained"}, proc[p].files[f] # Absent PROVE FALSE
    OBVIOUS
  <2>2. PICK j \in proc[p].pc..Len(ScriptOf(p)) : TRUE
    BY <1>1, <1>2, <2>1 DEF Orderly, WillClean
  <2> QED  BY <1>1, <1>2, <2>2
<1>5. fs \in [Private -> {Absent}]
  BY <1>2, <1>4
<1> HIDE DEF fs, c
<1>6. /\ r \in Processes /\ r.script = Absent /\ r.child = "none"
      /\ \A f \in Private : r.files[f] = Absent
  BY <1>3, <1>5, IdleIs DEF Processes, Files
<1> HIDE DEF r
<1>7. proc' \in [Procs -> Processes] /\ proc'[p] = r /\ \A q \in Procs \ {p} : proc'[q] = proc[q]
  BY <1>1, <1>6 DEF BuildInv, BuildTypes
<1> QED  BY <1>1, <1>6, <1>7, StopsOn

(* The service exits by itself; it is still to be stopped.                 *)
LEMMA ExitStep ==
  ASSUME BuildInv, NEW p \in Procs, ChildExits(p)
  PROVE  BuildInv'
<1>1. /\ proc[p].child = "running" /\ proc' = [proc EXCEPT ![p].child = "exited"]
      /\ disk' = disk /\ source' = source /\ accepted' = accepted /\ job' = job
  BY DEF ChildExits
<1> DEFINE r == [proc[p] EXCEPT !.child = "exited"]
<1>2. /\ r \in Processes /\ r.child = "exited" /\ r.script = proc[p].script /\ r.pc = proc[p].pc
      /\ r.threw = proc[p].threw /\ r.mem = proc[p].mem /\ r.files = proc[p].files
  BY RunIs DEF Processes
<1>3. proc' = [proc EXCEPT ![p] = r]
  BY <1>1
<1> HIDE DEF r
<1>4. proc' \in [Procs -> Processes] /\ proc'[p] = r /\ \A q \in Procs \ {p} : proc'[q] = proc[q]
  BY <1>2, <1>3 DEF BuildInv, BuildTypes
<1>5. Orderly(p)
  BY DEF BuildInv
<1>6. Busy(p)
  BY <1>1, <1>5 DEF Orderly, WillStop
<1>7. /\ BuildTypes' /\ OnDisk'
  BY <1>1, <1>4, DiskFrame DEF BuildInv, BuildTypes
<1>8. /\ Busy(p)' = Busy(p) /\ ScriptOf(p)' = ScriptOf(p) /\ Now(p)' = Now(p)
      /\ \A f : File(p, f)' = File(p, f)
  BY <1>1, <1>2, <1>4 DEF Busy, ScriptOf, Now, File
<1>9. Alone'
  <2>1. \A q \in Procs : proc'[q].script = proc[q].script /\ proc'[q].pc = proc[q].pc
    BY <1>2, <1>4
  <2>2. \A q \in Procs : Busy(q)' = Busy(q) /\ ScriptOf(q)' = ScriptOf(q)
    BY <2>1 DEF Busy, ScriptOf
  <2> QED  BY <1>1, <2>1, <2>2 DEF BuildInv, Alone
<1>10. ASSUME NEW q \in Procs \ {p} PROVE Orderly(q)'
  BY <1>4, <1>6, OthersOrderly, OthersExclusive
<1>11. Knows(p)'
  <2>1. \A fact : Hold(fact, p)' = Hold(fact, p)
    BY <1>1, <1>2, <1>4, <1>8 DEF Hold
  <2> QED  BY <1>2, <1>4, <1>5, <1>8, <2>1 DEF Orderly, Knows
<1>12. CleansNext(p)'
  BY <1>1, <1>2, <1>4, <1>5, <1>8 DEF Orderly, CleansNext, NoChecksum, IsWhole
<1>13. WillClean(p)' /\ WillStop(p)' /\ Clean(p)'
  BY <1>1, <1>2, <1>4, <1>5, <1>6, <1>8 DEF Orderly, WillClean, WillStop, Clean
<1> QED  BY <1>7, <1>9, <1>10, <1>11, <1>12, <1>13 DEF BuildInv, Orderly

(* The source changes, or nothing does.                                    *)
LEMMA OutsideStep ==
  ASSUME BuildInv, proc' = proc, disk' = disk, accepted' = accepted, job' = job,
         source' \in Versions
  PROVE  BuildInv'
<1>1. \A p : /\ Busy(p)' = Busy(p) /\ ScriptOf(p)' = ScriptOf(p) /\ Now(p)' = Now(p)
             /\ \A f : File(p, f)' = File(p, f)
  BY DEF Busy, ScriptOf, Now, File
<1>2. BuildTypes' /\ OnDisk'
  BY DiskFrame DEF BuildInv, BuildTypes
<1>3. Alone'
  BY <1>1 DEF BuildInv, Alone
<1>4. ASSUME NEW p \in Procs PROVE Orderly(p)'
  <2>1. Orderly(p)
    BY DEF BuildInv
  <2>2. \A fact : Hold(fact, p)' = Hold(fact, p)
    BY <1>1 DEF Hold
  <2>3. Knows(p)'
    BY <1>1, <2>1, <2>2 DEF Orderly, Knows
  <2>4. CleansNext(p)'
    BY <1>1, <2>1 DEF Orderly, CleansNext, NoChecksum, IsWhole
  <2>5. WillClean(p)' /\ WillStop(p)' /\ Clean(p)'
    BY <1>1, <2>1 DEF Orderly, WillClean, WillStop, Clean
  <2> QED  BY <2>3, <2>4, <2>5 DEF Orderly
<1> QED  BY <1>2, <1>3, <1>4 DEF BuildInv

(* Somebody tidies up while no script runs.                                *)
LEMMA TidyStep ==
  ASSUME BuildInv, Tidy
  PROVE  BuildInv'
<1>1. PICK fs \in {{"addon"}, {"evidence"}, {"archive", "checksum", "tarball", "report"}} :
        disk' = [f \in Shared |-> IF f \in fs THEN Absent ELSE disk[f]]
  BY DEF Tidy
<1>2. /\ \A p \in Procs : ~Busy(p) /\ ~Busy(p)'
      /\ accepted' = {} /\ proc' = proc /\ source' = source /\ job' = job
  BY DEF Tidy, Busy
<1>3. disk \in [Shared -> Files] /\ Absent \in Files
  BY DEF BuildInv, BuildTypes, Files
<1>4. /\ disk' \in [Shared -> Files]
      /\ \A f \in Shared : disk'[f] = IF f \in fs THEN Absent ELSE disk[f]
  BY <1>1, <1>3
<1>5. BuildTypes'
  BY <1>2, <1>4 DEF BuildInv, BuildTypes
<1>6. OnDisk'
  <2>1. \A f \in {"addon", "runtime", "declaration", "evidence", "checksum", "archive", "report",
                  "tarball"} : disk'[f] = IF f \in fs THEN Absent ELSE disk[f]
    BY <1>4 DEF Shared
  <2>2. FinalFilesAreWhole'
    BY <2>1 DEF BuildInv, OnDisk, FinalFilesAreWhole, IsWhole
  <2> QED  BY <1>2, <2>1, <2>2 DEF BuildInv, OnDisk, AcceptedBelongsTogether
<1>7. Alone'
  BY <1>2 DEF Alone
<1>8. ASSUME NEW p \in Procs PROVE Orderly(p)'
  <2>1. Clean(p)
    BY DEF BuildInv, Orderly
  <2> QED  BY <1>2, <2>1 DEF Orderly, Knows, CleansNext, WillClean, WillStop, Clean
<1> QED  BY <1>5, <1>6, <1>7, <1>8 DEF BuildInv

LEMMA BuildsStart ==
  ASSUME BuildInit
  PROVE  BuildInv
<1>1. /\ proc = [p \in Procs |-> Idle] /\ disk = [f \in Shared |-> Absent]
      /\ source \in Versions /\ accepted = {} /\ job \in Jobs
  BY DEF BuildInit
<1>2. \A p \in Procs : proc[p] = Idle /\ ~Busy(p)
  BY <1>1, IdleIs DEF Busy
<1>3. BuildTypes
  <2>1. proc \in [Procs -> Processes]
    BY <1>1, IdleIs
  <2>2. disk \in [Shared -> Files]
    BY <1>1 DEF Files
  <2> QED  BY <1>1, <2>1, <2>2 DEF BuildTypes
<1>4. OnDisk
  BY <1>1 DEF OnDisk, FinalFilesAreWhole, AcceptedBelongsTogether, IsWhole, Shared
<1>5. Alone
  BY <1>2 DEF Alone
<1>6. ASSUME NEW p \in Procs PROVE Orderly(p)
  <2> HIDE DEF Idle
  <2> QED  BY <1>2, IdleIs DEF Orderly, Knows, CleansNext, WillClean, WillStop, Clean
<1> QED  BY <1>3, <1>4, <1>5, <1>6 DEF BuildInv

LEMMA BuildStep ==
  ASSUME BuildInv, [BuildNext]_buildVars
  PROVE  BuildInv'
<1>1. CASE \E p \in Procs : \/ DoRequireAbsent(p) \/ DoRequireSame(p) \/ DoRequirePinned(p)
                            \/ DoCompare(p) \/ DoMatches(p) \/ DoPoll(p)
  BY <1>1, QuietStep
<1>2. CASE \E p \in Procs : DoRead(p) \/ DoFetch(p) \/ DoLoad(p) \/ DoForget(p)
  BY <1>2, MemoryStep
<1>3. CASE \E p \in Procs : DoMkTemp(p)
  BY <1>3, TemporaryStep
<1>4. CASE \E p \in Procs : DoCopyInto(p)
  BY <1>4, CopyIntoStep
<1>5. CASE \E p \in Procs : DoCreate(p)
  BY <1>5, CreateStep
<1>6. CASE \E p \in Procs : DoTruncate(p)
  BY <1>6, TruncateStep
<1>7. CASE \E p \in Procs : DoFill(p)
  BY <1>7, FillStep
<1>8. CASE \E p \in Procs : DoCopy(p)
  BY <1>8, CopyStep
<1>9. CASE \E p \in Procs : DoLink(p)
  BY <1>9, LinkStep
<1>10. CASE \E p \in Procs : DoMoveTree(p) \/ DoMoveFile(p)
  BY <1>10, MoveStep
<1>11. CASE \E p \in Procs : DoRemove(p)
  BY <1>11, RemoveStep
<1>12. CASE \E p \in Procs : DoCatch(p)
  BY <1>12, CatchStep
<1>13. CASE \E p \in Procs : DoFinallyHeld(p)
  BY <1>13, FinallyHeldStep
<1>14. CASE \E p \in Procs : DoReturn(p)
  BY <1>14, ReturnStep
<1>15. CASE \E p \in Procs : DoSpawn(p) \/ stopChild(p)
  BY <1>15, ServiceStep
<1>16. CASE \E p \in Procs : ChildExits(p)
  BY <1>16, ExitStep
<1>17. CASE \E p \in Procs : DoAccept(p)
  BY <1>17, AcceptStep
<1>18. CASE \E p \in Procs : StepThrows(p)
  BY <1>18, ThrowStep
<1>19. CASE \E p \in Procs : Start(p)
  BY <1>19, StartStep
<1>20. CASE \E p \in Procs : End(p)
  BY <1>20, EndStep
<1>21. CASE \E p \in Procs : Killed(p)
  BY <1>21, KilledStep
<1>22. CASE EditSource
  BY <1>22, OutsideStep DEF EditSource
<1>23. CASE Tidy
  BY <1>23, TidyStep
<1>24. CASE UNCHANGED buildVars
  BY <1>24, OutsideStep DEF buildVars, BuildInv, BuildTypes
<1> QED  BY <1>1, <1>2, <1>3, <1>4, <1>5, <1>6, <1>7, <1>8, <1>9, <1>10, <1>11, <1>12, <1>13,
             <1>14, <1>15, <1>16, <1>17, <1>18, <1>19, <1>20, <1>21, <1>22, <1>23, <1>24
         DEF BuildNext

(* What a script that ended leaves: nothing; and the service it started    *)
(* never outlives the directory it runs from.                              *)
LEMMA BuildsEnd ==
  ASSUME BuildInv
  PROVE  BuildsAreSound
<1>1. EndedLeavesNothing
  BY DEF BuildInv, Orderly, Clean, WillStop, Busy, EndedLeavesNothing
<1> QED  BY <1>1 DEF BuildInv, OnDisk, BuildsAreSound

(***************************************************************************)
(* Whatever the scripts that make and verify the release are interrupted   *)
(* by (a failing step, a kill between any two, a source tree that changes  *)
(* under them, a race of two that write exclusively), for any number of    *)
(* processes and versions: what is at its final place is whole, what a     *)
(* verifier accepted belongs together, and a script that ended left        *)
(* neither its private files nor its service behind.                       *)
(***************************************************************************)
THEOREM BuildsSafe == BuildSpec => []BuildsAreSound
<1>1. BuildInit => BuildInv
  BY BuildsStart
<1>2. BuildInv /\ [BuildNext]_buildVars => BuildInv'
  BY BuildStep
<1>3. BuildInv => BuildsAreSound
  BY BuildsEnd
<1> QED  BY <1>1, <1>2, <1>3, PTL DEF BuildSpec
==============================================================================
