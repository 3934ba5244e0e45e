------------------------------ MODULE ReleaseWorld ------------------------------
(***************************************************************************)
(* What the release tools are given: builds of the publishing workflow,    *)
(* the tarballs they packed and the trust policy of the signed tag.  A     *)
(* build is one attempt of one run; files of several attempts and several  *)
(* runs lie about when a release is recovered, and each tool reads the     *)
(* ones it is pointed at.  A hash is its preimage and a signature names    *)
(* its key and the message, so two values agree exactly when the code's    *)
(* comparison of their digests does.                                       *)
(***************************************************************************)
EXTENDS Naturals, FiniteSets, Sequences

CONSTANTS
    Builds,         \* the attempts whose files may be read
    RunOf,          \* the run a build is an attempt of
    AttemptOf,      \* its attempt number
    CommitOf,       \* the source commit it built
    Frozen,         \* the builds of the frozen workflow at the frozen tag
    BuiltAt,        \* the instant its signing certificate is valid
    IssuerOf,       \* the authority that issued that certificate
    TarballOf,      \* the digest of the tarball a build packed for a package
    Generations,    \* generations of npm keys, logs and authorities
    Policies,       \* the trust policies a tag may carry
    None            \* no value

PACKAGE_NAMES == <<"hd-wallet-ui", "hd-wallet-wasm">>

Packages == {PACKAGE_NAMES[i] : i \in DOMAIN PACKAGE_NAMES}

Origins == Builds \X Packages

Runs == {RunOf[b] : b \in Builds}

Commits == {CommitOf[b] : b \in Builds}

Instants == {BuiltAt[b] : b \in Builds}

\* The tarball digest a provenance statement of an origin names.
Digest(o) == TarballOf[o[1]][o[2]]

Digests == {Digest(o) : o \in Origins}

(***************************************************************************)
(* A trust policy names, for each usage, the npm keys it authorizes and    *)
(* the instants they are authorized, and the same for each log and each    *)
(* authority.  It is taken only with exactly one npm key for each usage    *)
(* and no empty window.                                                    *)
(***************************************************************************)
Usages == {"npm:signatures", "npm:attestations"}

validateProvenanceTrustPolicy(policy) ==
    /\ \A u \in Usages : Cardinality(policy.npm[u]) = 1
    /\ policy.npmFor # {}
    /\ \A g \in Generations : policy.validFor[g] # {}

\* An npm key is authorized for a usage at the instant its entry was logged.
requireAuthorizedNpmKey(policy, usage, key, instant) ==
    /\ key \in policy.npm[usage]
    /\ instant \in policy.npmFor

requireAuthorizedTransparencyLog(policy, log, instant) ==
    instant \in policy.validFor[log]

requireAuthorizedAuthority(policy, root, instant) ==
    instant \in policy.validFor[root]

ASSUME WorldAssumption ==
    /\ Builds # {}
    /\ Frozen \subseteq Builds
    /\ \A b \in Builds : AttemptOf[b] \in Nat \ {0}
    /\ \A p \in Policies, u \in Usages : IsFiniteSet(p.npm[u])
    /\ None \notin Instants \cup Generations

=============================================================================
