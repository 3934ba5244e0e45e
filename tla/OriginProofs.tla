---------------------------- MODULE OriginProofs ----------------------------
(***************************************************************************)
(* Proofs about what the wallet origin's page is built on.                 *)
(*                                                                         *)
(* The remembered wallet, for any number of tabs and records: the type     *)
(* invariant, that only verified records become active, and that a         *)
(* remembered wallet is kept.  The consent memory: for any number of tabs  *)
(* its limits and that fields open only in the session of a grant; for one *)
(* tab, that a grant opens no more than it was given for.                  *)
(*                                                                         *)
(* The owner of secrets, for any number of handles, unlocks, transactions  *)
(* and revocations: no native handle is lost or used after its destruction, *)
(* a revoked page holds nothing, and a result leaves only from a page that *)
(* holds nothing.                                                          *)
(***************************************************************************)
EXTENDS RememberedStorage, ConsentMemory, OriginController, FiniteSetTheorems, TLAPS

(* The stages of a setup whose record native code has opened.              *)
Committing == {"committing", "comparing", "removing", "removed", "setting"}

(* Every setup that may still write the active slot holds a verified       *)
(* record: this is what makes ActiveWasVerified inductive.                 *)
CommitsVerified == \A t \in Tabs : tab[t].stage \in Committing => tab[t].record \in verified

(* A setup past authenticating has a record of its own, not Empty.         *)
HoldsRecord ==
  \A t \in Tabs : tab[t].stage \in Committing \cup {"authenticating", "beginning", "writing",
                                                   "readingBack", "verifying"}
                    => tab[t].record \in Records

TabStates == [stage : Stages, record : Records \cup {Empty, Garbage}, previous : Records \cup {Empty}]

StorageInv == StorageTypeOK /\ CommitsVerified /\ HoldsRecord /\ ActiveWasVerified

USE StorageAssumption DEF Records

LEMMA InitInv == StorageInit => StorageInv
  BY DEF StorageInit, StorageInv, StorageTypeOK, CommitsVerified, HoldsRecord, ActiveWasVerified,
         Idle, Stages, Committing, At

LEMMA SetupInv ==
  ASSUME StorageInv, NEW t \in Tabs, Setup(t)
  PROVE  StorageInv'
  BY DEF StorageInv, StorageTypeOK, CommitsVerified, HoldsRecord, ActiveWasVerified,
         Setup, CanSetup, Stages, Committing, At

(* A step that only moves one tab to a stage, and keeps its record.        *)
LEMMA MovesInv ==
  ASSUME StorageInv, NEW t \in Tabs, NEW check \in BOOLEAN, NEW stage \in Stages,
         Checked(t, check, stage),
         UNCHANGED <<active, pending, sealed, verified, remembered>>,
         stage \in Committing => tab[t].record \in verified,
         stage \in Committing \cup {"authenticating", "beginning", "writing", "readingBack",
                                   "verifying"} => tab[t].record \in Records,
         stage = "restoring" => tab[t].record \in verified
  PROVE  StorageInv'
  BY DEF StorageInv, StorageTypeOK, CommitsVerified, HoldsRecord, ActiveWasVerified,
         Checked, Idle, Stages, Committing, At

(* A step that only gives one tab a new state, of the kind its stage needs. *)
LEMMA TabMoves ==
  ASSUME StorageInv, NEW t \in Tabs, NEW p \in TabStates, tab' = [tab EXCEPT ![t] = p],
         UNCHANGED <<active, pending, sealed, verified, remembered>>,
         p.stage \in Committing \cup {"restoring"} => p.record \in verified,
         p.stage \in Committing \cup {"authenticating", "beginning", "writing", "readingBack",
                                     "verifying"} => p.record \in Records
  PROVE  StorageInv'
<1>1. tab' \in [Tabs -> TabStates] /\ tab'[t] = p /\ \A u \in Tabs : u # t => tab'[u] = tab[u]
  BY DEF StorageInv, StorageTypeOK, TabStates
<1>2. StorageTypeOK'
  BY <1>1 DEF StorageInv, StorageTypeOK, TabStates
<1>3. CommitsVerified' /\ HoldsRecord'
  BY <1>1 DEF StorageInv, CommitsVerified, HoldsRecord
<1>4. ActiveWasVerified'
  BY <1>1 DEF StorageInv, ActiveWasVerified, At
<1> QED BY <1>2, <1>3, <1>4 DEF StorageInv

LEMMA BeginInv ==
  ASSUME StorageInv, NEW t \in Tabs,
         \/ BeginReadsPending(t) \/ BeginReadsActive(t) \/ BeginWrites(t) \/ BeginReadsBack(t)
         \/ Verifies(t)
  PROVE  StorageInv'
<1>1. CASE BeginReadsPending(t)
  BY <1>1, MovesInv DEF BeginReadsPending, StorageInv, HoldsRecord, Stages, Committing, At
<1>2. CASE BeginReadsActive(t)
  <2>1. CASE Replaceable(active)
    <3> DEFINE p == [tab[t] EXCEPT !.stage = "writing", !.previous = active]
    <3>1. tab[t] \in TabStates /\ active \in Records \cup {Empty} /\ tab[t].record \in Records
          /\ tab' = [tab EXCEPT ![t] = p]
      BY <1>2, <2>1 DEF BeginReadsActive, Replaceable, StorageInv, StorageTypeOK, HoldsRecord,
                        TabStates, At
    <3>2. p \in TabStates /\ p.stage = "writing" /\ p.record \in Records
      BY ONLY <3>1 DEF TabStates, Stages
    <3> QED BY <1>2, <3>1, <3>2, TabMoves DEF BeginReadsActive, Committing
  <2>2. CASE ~Replaceable(active)
    BY <1>2, <2>2, TabMoves DEF BeginReadsActive, Idle, TabStates, Stages, Committing
  <2> QED BY <2>1, <2>2
<1>3. CASE BeginWrites(t)
  BY <1>3 DEF BeginWrites, Checked, StorageInv, StorageTypeOK, CommitsVerified,
              HoldsRecord, ActiveWasVerified, Idle, Stages, Committing, At
<1>4. CASE BeginReadsBack(t)
  BY <1>4, MovesInv DEF BeginReadsBack, StorageInv, HoldsRecord, Stages, Committing, At
<1>5. CASE Verifies(t)
  BY <1>5 DEF Verifies, Checked, StorageInv, StorageTypeOK, CommitsVerified,
              HoldsRecord, ActiveWasVerified, Idle, Stages, Committing, At
<1> QED BY <1>1, <1>2, <1>3, <1>4, <1>5

LEMMA CommitInv ==
  ASSUME StorageInv, NEW t \in Tabs,
         \/ CommitReadsPending(t) \/ CommitReadsActive(t) \/ CommitRemoves(t)
         \/ CommitReadsBack(t) \/ CommitSets(t)
  PROVE  StorageInv'
<1> USE DEF Stages, Committing, At
<1>1. CASE CommitReadsPending(t)
  BY <1>1, MovesInv DEF CommitReadsPending, StorageInv, HoldsRecord, CommitsVerified
<1>2. CASE CommitReadsActive(t)
  BY <1>2, MovesInv DEF CommitReadsActive, StorageInv, HoldsRecord, CommitsVerified
<1>3. CASE CommitRemoves(t)
  BY <1>3 DEF CommitRemoves, Checked, Idle, StorageInv, StorageTypeOK, CommitsVerified,
              HoldsRecord, ActiveWasVerified
<1>4. CASE CommitReadsBack(t)
  BY <1>4, MovesInv DEF CommitReadsBack, StorageInv, HoldsRecord, CommitsVerified
<1>5. CASE CommitSets(t)
  BY <1>5 DEF CommitSets, Checked, Idle, StorageInv, StorageTypeOK, CommitsVerified,
              HoldsRecord, ActiveWasVerified
<1> QED BY <1>1, <1>2, <1>3, <1>4, <1>5

LEMMA RestoreReadsActiveInv ==
  ASSUME StorageInv, NEW t \in Tabs, RestoreReadsActive(t)
  PROVE  StorageInv'
<1> USE DEF RestoreReadsActive
<1>1. CASE active \in Records
  <2> DEFINE p == [tab[t] EXCEPT !.stage = "restoring", !.record = active]
  <2>1. tab[t] \in TabStates /\ active \in verified /\ tab' = [tab EXCEPT ![t] = p]
    BY <1>1 DEF StorageInv, StorageTypeOK, ActiveWasVerified, TabStates
  <2>2. p \in TabStates /\ p.stage = "restoring" /\ p.record = active
    BY ONLY <1>1, <2>1 DEF TabStates, Stages
  <2> HIDE DEF p
  <2> QED BY <1>1, <2>1, <2>2, TabMoves
<1>2. CASE active \notin Records
  BY <1>2, TabMoves DEF Idle, TabStates, Stages, Committing
<1> QED BY <1>1, <1>2

LEMMA OtherInv ==
  ASSUME StorageInv, NEW t \in Tabs,
         \/ RestoreReadsPending(t) \/ RestoreReadsActive(t) \/ ForgetReads(t) \/ ForgetRemoves(t)
         \/ DeleteReads(t) \/ DeletePending(t) \/ DeleteActive(t) \/ Stops(t)
  PROVE  StorageInv'
<1> USE DEF Stages, Committing, At, Idle, StorageInv, StorageTypeOK, CommitsVerified, HoldsRecord,
            ActiveWasVerified
<1>1. CASE RestoreReadsPending(t)
  BY <1>1 DEF RestoreReadsPending
<1>2. CASE RestoreReadsActive(t)
  BY <1>2, RestoreReadsActiveInv
<1>3. CASE ForgetReads(t)
  BY <1>3 DEF ForgetReads
<1>4. CASE ForgetRemoves(t)
  BY <1>4 DEF ForgetRemoves, Checked
<1>5. CASE DeleteReads(t)
  <2>1. CASE /\ pending # Empty
             /\ tab' = [tab EXCEPT ![t] = [@ EXCEPT !.stage = "deletingPending"]]
    BY <1>5, <2>1 DEF DeleteReads
  <2>2. CASE /\ active = Garbage
             /\ tab' = [tab EXCEPT ![t] = [stage |-> "deletingActive", record |-> Garbage,
                                          previous |-> Empty]]
    BY <1>5, <2>2 DEF DeleteReads
  <2> QED BY <1>5, <2>1, <2>2 DEF DeleteReads
<1>6. CASE DeletePending(t)
  BY <1>6 DEF DeletePending, Checked
<1>7. CASE DeleteActive(t)
  BY <1>7 DEF DeleteActive, Checked
<1>8. CASE Stops(t)
  BY <1>8 DEF Stops, Checked
<1> QED BY <1>1, <1>2, <1>3, <1>4, <1>5, <1>6, <1>7, <1>8

LEMMA StepInv == StorageInv /\ [StorageNext]_storageVars => StorageInv'
<1>1. ASSUME StorageInv, StorageNext PROVE StorageInv'
  BY <1>1, SetupInv, BeginInv, CommitInv, OtherInv DEF StorageNext
<1>2. ASSUME StorageInv, UNCHANGED storageVars PROVE StorageInv'
  BY <1>2 DEF storageVars, StorageInv, StorageTypeOK, CommitsVerified, HoldsRecord, ActiveWasVerified, At
<1> QED BY <1>1, <1>2

(* The slots hold nothing but records and what was there at the start, and *)
(* what native code has not opened is never active or restored: the        *)
(* inductive invariant also says so of every setup that has been verified  *)
(* and has not yet written the active slot.                                *)
THEOREM StorageSafe == StorageSpec => [](StorageTypeOK /\ ActiveWasVerified)
<1>1. StorageInv => StorageTypeOK /\ ActiveWasVerified
  BY DEF StorageInv
<1> QED BY InitInv, StepInv, <1>1, PTL DEF StorageSpec

-----------------------------------------------------------------------------
(* A tab about to delete the active item has read no record there.         *)
KeptInv ==
  /\ \A t \in Tabs : tab[t].stage = "deletingActive" => tab[t].record \notin Records
  /\ RememberedIsKept

(* A wallet reported as remembered stays active until it is replaced by a  *)
(* later setup or forgotten, with any number of tabs that fail, crash and  *)
(* collide at any access of the storage, whatever the slots held at first. *)
THEOREM RememberedSafe == StorageSpec => []RememberedIsKept
<1>1. StorageInit => KeptInv
  BY DEF StorageInit, KeptInv, RememberedIsKept, Idle
<1>2. StorageInv /\ KeptInv /\ [StorageNext]_storageVars => KeptInv'
  <2> SUFFICES ASSUME StorageInv, KeptInv, [StorageNext]_storageVars
               PROVE  KeptInv'
    OBVIOUS
  <2> USE DEF StorageInv, StorageTypeOK, HoldsRecord, KeptInv, RememberedIsKept, Checked, Idle, At,
              Committing
  <2>1. ASSUME NEW t \in Tabs, Setup(t) PROVE KeptInv'
    BY <2>1 DEF Setup
  <2>2. ASSUME NEW t \in Tabs, BeginReadsPending(t) PROVE KeptInv'
    BY <2>2 DEF BeginReadsPending
  <2>3. ASSUME NEW t \in Tabs, BeginReadsActive(t) PROVE KeptInv'
    BY <2>3 DEF BeginReadsActive
  <2>4. ASSUME NEW t \in Tabs, BeginWrites(t) PROVE KeptInv'
    BY <2>4 DEF BeginWrites
  <2>5. ASSUME NEW t \in Tabs, BeginReadsBack(t) PROVE KeptInv'
    BY <2>5 DEF BeginReadsBack
  <2>6. ASSUME NEW t \in Tabs, Verifies(t) PROVE KeptInv'
    BY <2>6 DEF Verifies
  <2>7. ASSUME NEW t \in Tabs, CommitReadsPending(t) PROVE KeptInv'
    BY <2>7 DEF CommitReadsPending
  <2>8. ASSUME NEW t \in Tabs, CommitReadsActive(t) PROVE KeptInv'
    BY <2>8 DEF CommitReadsActive
  <2>9. ASSUME NEW t \in Tabs, CommitRemoves(t) PROVE KeptInv'
    BY <2>9 DEF CommitRemoves
  <2>10. ASSUME NEW t \in Tabs, CommitReadsBack(t) PROVE KeptInv'
    BY <2>10 DEF CommitReadsBack
  <2>11. ASSUME NEW t \in Tabs, CommitSets(t) PROVE KeptInv'
    BY <2>11 DEF CommitSets
  <2>12. ASSUME NEW t \in Tabs, RestoreReadsPending(t) PROVE KeptInv'
    BY <2>12 DEF RestoreReadsPending
  <2>13. ASSUME NEW t \in Tabs, RestoreReadsActive(t) PROVE KeptInv'
    BY <2>13 DEF RestoreReadsActive
  <2>14. ASSUME NEW t \in Tabs, ForgetReads(t) PROVE KeptInv'
    BY <2>14 DEF ForgetReads
  <2>15. ASSUME NEW t \in Tabs, ForgetRemoves(t) PROVE KeptInv'
    BY <2>15 DEF ForgetRemoves
  <2>16. ASSUME NEW t \in Tabs, DeleteReads(t) PROVE KeptInv'
    <3>1. CASE tab' = [tab EXCEPT ![t] = [@ EXCEPT !.stage = "deletingPending"]]
      BY <2>16, <3>1 DEF DeleteReads
    <3>2. CASE tab' = [tab EXCEPT ![t] = [stage |-> "deletingActive", record |-> Garbage,
                                         previous |-> Empty]]
      BY <2>16, <3>2 DEF DeleteReads
    <3> QED BY <2>16, <3>1, <3>2 DEF DeleteReads
  <2>17. ASSUME NEW t \in Tabs, DeletePending(t) PROVE KeptInv'
    BY <2>17 DEF DeletePending
  <2>18. ASSUME NEW t \in Tabs, DeleteActive(t) PROVE KeptInv'
    BY <2>18 DEF DeleteActive
  <2>19. ASSUME NEW t \in Tabs, Stops(t) PROVE KeptInv'
    BY <2>19 DEF Stops
  <2>20. CASE UNCHANGED storageVars
    BY <2>20 DEF storageVars
  <2> QED BY <2>1, <2>2, <2>3, <2>4, <2>5, <2>6, <2>7, <2>8, <2>9, <2>10, <2>11, <2>12, <2>13,
         <2>14, <2>15, <2>16, <2>17, <2>18, <2>19, <2>20 DEF StorageNext
<1>3. KeptInv => RememberedIsKept
  BY DEF KeptInv
<1> QED BY InitInv, StepInv, <1>1, <1>2, <1>3, PTL DEF StorageSpec
-----------------------------------------------------------------------------
(***************************************************************************)
(* The grants of the consent memory.                                       *)
(***************************************************************************)
LEMMA ConsentLimits ==
  /\ Session \in Nat /\ MaxUnattended \in Nat /\ MaxUnattended >= 1 /\ MaxGrants \in Nat
  /\ MaxNow \in Nat /\ 0 \in 0..MaxNow /\ Watched \in Scopes
BY ConsentAssumption

USE ConsentLimits

(* What the storage holds and what a page has read of it: finitely many    *)
(* grants, MaxGrants at the most.                                          *)
GrantMaps ==
  {g \in UNION {[S -> Grant] : S \in SUBSET Scopes} :
     IsFiniteSet(DOMAIN g) /\ Cardinality(DOMAIN g) <= MaxGrants}

LEMMA GrantMap ==
  ASSUME NEW g \in GrantMaps
  PROVE  /\ g \in [DOMAIN g -> Grant] /\ DOMAIN g \subseteq Scopes /\ IsFiniteSet(DOMAIN g)
         /\ Cardinality(DOMAIN g) \in Nat /\ Cardinality(DOMAIN g) <= MaxGrants
         /\ IsGrants(g)
<1>1. PICK S \in SUBSET Scopes : g \in [S -> Grant]
  BY DEF GrantMaps
<1>2. IsFiniteSet(DOMAIN g) /\ Cardinality(DOMAIN g) <= MaxGrants
  BY DEF GrantMaps
<1>3. Cardinality(DOMAIN g) \in Nat
  BY <1>2, FS_CardinalityType
<1> QED BY <1>1, <1>2, <1>3 DEF IsGrants

(* readGrants drops what is not live, and changes nothing else.            *)
LEMMA RestrictedMap ==
  ASSUME NEW g \in GrantMaps, NEW S \in SUBSET DOMAIN g
  PROVE  /\ Restrict(g, S) \in GrantMaps /\ DOMAIN Restrict(g, S) = S
         /\ \A x \in S : Restrict(g, S)[x] = g[x]
<1>1. DOMAIN Restrict(g, S) = S /\ \A x \in S : Restrict(g, S)[x] = g[x]
  BY DEF Restrict
<1>2. Restrict(g, S) \in [S -> Grant]
  BY GrantMap DEF Restrict
<1>3. IsFiniteSet(S) /\ Cardinality(S) <= Cardinality(DOMAIN g)
  BY GrantMap, FS_Subset
<1>4. Cardinality(S) <= MaxGrants
  BY <1>3, GrantMap, FS_CardinalityType
<1>5. S \in SUBSET Scopes
  BY GrantMap
<1> QED BY <1>1, <1>2, <1>3, <1>4, <1>5 DEF GrantMaps

(* take uses up one opening of its grant and no other.                     *)
LEMMA TakenMap ==
  ASSUME NEW g \in GrantMaps, NEW s \in DOMAIN g
  PROVE  /\ Taken(g, s) \in GrantMaps /\ DOMAIN Taken(g, s) \subseteq DOMAIN g
         /\ \A x \in DOMAIN Taken(g, s) : Taken(g, s)[x].expiresAt = g[x].expiresAt
         /\ \A x \in DOMAIN Taken(g, s) \ {s} : Taken(g, s)[x] = g[x]
         /\ s \in DOMAIN Taken(g, s) => Taken(g, s)[s].remaining = g[s].remaining - 1
<1>1. CASE g[s].remaining = 1
  BY <1>1, RestrictedMap DEF Taken
<1>2. CASE g[s].remaining # 1
  <2>1. g \in [DOMAIN g -> Grant]
    BY GrantMap
  <2>2. Taken(g, s) = [g EXCEPT ![s].remaining = @ - 1]
    BY <1>2 DEF Taken
  <2>3. g[s].remaining - 1 \in 1..MaxUnattended
    BY <1>2, <2>1 DEF Grant
  <2>4. Taken(g, s) \in [DOMAIN g -> Grant]
    BY <2>1, <2>2, <2>3 DEF Grant
  <2>5. Taken(g, s) \in GrantMaps
    BY <2>4, GrantMap DEF GrantMaps
  <2> QED BY <2>1, <2>2, <2>4, <2>5 DEF Grant
<1> QED BY <1>1, <1>2

(* grant adds its grant, drops one if there are too many, and changes no   *)
(* other.                                                                  *)
LEMMA GrantedMap ==
  ASSUME NEW g \in GrantMaps, NEW s \in Scopes, NEW n \in 0..MaxNow,
         NEW e \in Evictions(With(g, s, n), s)
  PROVE  /\ e \in GrantMaps
         /\ s \in DOMAIN e => e[s] = [expiresAt |-> n + Session, remaining |-> MaxUnattended]
         /\ \A x \in DOMAIN e \ {s} : x \in DOMAIN g /\ e[x] = g[x]
<1> DEFINE w == With(g, s, n)
<1>1. [expiresAt |-> n + Session, remaining |-> MaxUnattended] \in Grant
  BY DEF Grant
<1>2. /\ w \in [DOMAIN g \cup {s} -> Grant] /\ DOMAIN w = DOMAIN g \cup {s}
      /\ w[s] = [expiresAt |-> n + Session, remaining |-> MaxUnattended]
      /\ \A x \in DOMAIN w \ {s} : x \in DOMAIN g /\ w[x] = g[x]
  BY <1>1, GrantMap DEF With
<1>3. IsFiniteSet(DOMAIN w) /\ Cardinality(DOMAIN w) <= MaxGrants + 1 /\ Cardinality(DOMAIN w) \in Nat
  <2>1. IsFiniteSet(DOMAIN g) /\ Cardinality(DOMAIN g) \in Nat /\ Cardinality(DOMAIN g) <= MaxGrants
    BY GrantMap
  <2>2. /\ IsFiniteSet(DOMAIN g \cup {s})
        /\ Cardinality(DOMAIN g \cup {s}) = IF s \in DOMAIN g THEN Cardinality(DOMAIN g)
                                            ELSE Cardinality(DOMAIN g) + 1
    BY <2>1, FS_AddElement
  <2>3. Cardinality(DOMAIN g \cup {s}) <= MaxGrants + 1 /\ Cardinality(DOMAIN g \cup {s}) \in Nat
    BY <2>1, <2>2
  <2> QED BY <1>2, <2>2, <2>3
<1>4. DOMAIN w \in SUBSET Scopes
  BY <1>2, GrantMap
<1> HIDE DEF w
<1>5. CASE Cardinality(DOMAIN w) <= MaxGrants
  <2>1. e = w
    BY <1>5 DEF Evictions, w
  <2>2. w \in GrantMaps
    BY <1>2, <1>3, <1>4, <1>5 DEF GrantMaps
  <2> QED BY <1>2, <2>1, <2>2
<1>6. CASE ~(Cardinality(DOMAIN w) <= MaxGrants)
  <2>1. PICK x \in DOMAIN w : e = Restrict(w, DOMAIN w \ {x})
    BY <1>2, <1>6 DEF Evictions, w
  <2>2. IsFiniteSet(DOMAIN w \ {x}) /\ Cardinality(DOMAIN w \ {x}) <= MaxGrants
    <3>1. IsFiniteSet(DOMAIN w \ {x}) /\ Cardinality(DOMAIN w \ {x}) = Cardinality(DOMAIN w) - 1
      BY <1>3, FS_RemoveElement
    <3> QED BY <1>3, <3>1
  <2>3. e \in [DOMAIN w \ {x} -> Grant] /\ DOMAIN e = DOMAIN w \ {x}
        /\ \A y \in DOMAIN e : e[y] = w[y]
    BY <1>2, <2>1 DEF Restrict
  <2>4. e \in GrantMaps
    BY <1>4, <2>2, <2>3 DEF GrantMaps
  <2> QED BY <1>2, <2>3, <2>4
<1> QED BY <1>5, <1>6

-----------------------------------------------------------------------------
PageStates == [stage : PageStages, scope : SUBSET Scopes, read : GrantMaps, at : 0..MaxNow]

(* The pages that a grant is about know which one, and a page that is      *)
(* about to write one use of it has read it.                               *)
Scoped(t) ==
  page[t].stage \in {"validated", "taking", "asking", "granting"} =>
    \E s \in Scopes : page[t].scope = {s}

PagesInv ==
  /\ stored \in GrantMaps
  /\ page \in [ConsentTabs -> PageStates]
  /\ \A t \in ConsentTabs :
       /\ Scoped(t)
       /\ page[t].scope = {} \/ \E s \in Scopes : page[t].scope = {s}
       /\ page[t].stage = "taking" => Scope(t) \in DOMAIN page[t].read

ClockInv ==
  /\ now \in 0..MaxNow /\ given \subseteq 0..MaxNow
  /\ used \in 0..(MaxUnattended + 1) /\ forgotten \in BOOLEAN

(* A grant of Watched ends one session after a person gave it.             *)
GivenAt(g) == Watched \in DOMAIN g => \E n \in given : g[Watched].expiresAt = n + Session
GivenInv == GivenAt(stored) /\ \A t \in ConsentTabs : GivenAt(page[t].read)

LEMMA ScopeIs ==
  ASSUME NEW t \in ConsentTabs, NEW s \in Scopes, page[t].scope = {s}
  PROVE  Scope(t) = s
BY DEF Scope

LEMMA NoGrantsMap == NoGrants \in GrantMaps /\ DOMAIN NoGrants = {}
<1>1. NoGrants \in [{} -> Grant] /\ DOMAIN NoGrants = {}
  BY DEF NoGrants
<1>2. IsFiniteSet(DOMAIN NoGrants) /\ Cardinality(DOMAIN NoGrants) <= MaxGrants
  BY <1>1, FS_EmptySet
<1> QED BY <1>1, <1>2 DEF GrantMaps

LEMMA ReadMap ==
  ASSUME PagesInv, NEW n \in Nat
  PROVE  /\ ReadGrants(n) \in GrantMaps /\ DOMAIN ReadGrants(n) \subseteq DOMAIN stored
         /\ \A s \in DOMAIN ReadGrants(n) : ReadGrants(n)[s] = stored[s] /\ Live(stored[s], n)
<1> DEFINE S == {s \in DOMAIN stored : Live(stored[s], n)}
<1>1. S \in SUBSET DOMAIN stored
  OBVIOUS
<1> QED BY <1>1, RestrictedMap DEF ReadGrants, PagesInv

(* A page that goes to another stage, and reads or forgets some grants.    *)
LEMMA PageMoves ==
  ASSUME PagesInv, ClockInv, NEW t \in ConsentTabs, NEW p \in PageStates,
         page' = [page EXCEPT ![t] = p],
         p.scope = {} \/ \E s \in Scopes : p.scope = {s},
         p.stage \in {"validated", "taking", "asking", "granting"} => p.scope # {},
         p.stage = "taking" => \A s \in Scopes : p.scope = {s} => s \in DOMAIN p.read,
         stored' \in GrantMaps
  PROVE  PagesInv'
<1>1. page' \in [ConsentTabs -> PageStates] /\ page'[t] = p
      /\ \A x \in ConsentTabs \ {t} : page'[x] = page[x]
  BY DEF PagesInv
<1>2. ASSUME NEW x \in ConsentTabs
      PROVE  /\ Scoped(x)'
             /\ (page[x].scope = {} \/ \E s \in Scopes : page[x].scope = {s})'
             /\ (page[x].stage = "taking" => Scope(x) \in DOMAIN page[x].read)'
  <2>1. CASE x = t
    BY <1>1, <2>1 DEF Scoped, Scope
  <2>2. CASE x # t
    BY <1>1, <2>2 DEF PagesInv, Scoped, Scope
  <2> QED BY <2>1, <2>2
<1> QED BY <1>1, <1>2 DEF PagesInv

ConsentInv == PagesInv /\ ClockInv /\ GivenInv

(* A page that keeps what it has read, while nothing is stored.            *)
LEMMA StageInv ==
  ASSUME ConsentInv, NEW t \in ConsentTabs, NEW stage \in PageStages \ {"validated", "taking", "granting"},
         Goes(t, stage), stage = "asking" => PageAt(t, "validated"),
         ClockInv', given \subseteq given', UNCHANGED stored
  PROVE  ConsentInv'
<1> USE DEF ConsentInv
<1> DEFINE p == [page[t] EXCEPT !.stage = stage]
<1>1. p \in PageStates /\ p.stage = stage /\ p.scope = page[t].scope /\ p.read = page[t].read
  BY DEF PagesInv, PageStates
<1>2. page' = [page EXCEPT ![t] = p]
  BY DEF PagesInv, PageStates, Goes
<1> HIDE DEF p
<1>3. p.scope = {} \/ \E s \in Scopes : p.scope = {s}
  BY <1>1 DEF PagesInv
<1>4. stage = "asking" => p.scope # {}
  BY <1>1 DEF PagesInv, PageAt, Scoped
<1>5. PagesInv'
  BY <1>1, <1>2, <1>3, <1>4, PageMoves DEF PagesInv
<1>6. GivenInv'
  BY <1>1, <1>2 DEF PagesInv, GivenInv, GivenAt
<1> QED BY <1>5, <1>6

(* A page that leaves: idle, with nothing read.                            *)
LEMMA IdleInv ==
  ASSUME ConsentInv, NEW t \in ConsentTabs, page' = [page EXCEPT ![t] = IdlePage],
         ClockInv', given \subseteq given', stored' = stored \/ stored' = NoGrants
  PROVE  ConsentInv'
<1> USE DEF ConsentInv
<1>1. IdlePage \in PageStates /\ IdlePage.stage = "idle" /\ IdlePage.scope = {} /\ IdlePage.read = NoGrants
  BY NoGrantsMap DEF IdlePage, PageStates, PageStages
<1>2. PagesInv'
  BY <1>1, NoGrantsMap, PageMoves DEF PagesInv
<1>3. GivenInv'
  BY <1>1, NoGrantsMap DEF PagesInv, GivenInv, GivenAt
<1> QED BY <1>2, <1>3

(* A page that has written what it read, or could not.                     *)
LEMMA LeftInv ==
  ASSUME ConsentInv, NEW t \in ConsentTabs, NEW stage \in {"opening", "asking"}, Left(t, stage),
         stage = "asking" => PageAt(t, "taking"),
         ClockInv', given \subseteq given', stored' \in GrantMaps, GivenAt(stored)'
  PROVE  ConsentInv'
<1> USE DEF ConsentInv
<1> DEFINE p == [page[t] EXCEPT !.stage = stage, !.read = NoGrants, !.at = 0]
<1>1. page[t] \in PageStates /\ page' = [page EXCEPT ![t] = p]
  BY DEF PagesInv, Left
<1>2. p \in PageStates
  BY ONLY <1>1, NoGrantsMap, 0 \in 0..MaxNow, stage \in {"opening", "asking"} DEF PageStates, PageStages
<1>3. p.stage = stage /\ p.scope = page[t].scope /\ p.read = NoGrants
  BY ONLY <1>1 DEF PageStates
<1> HIDE DEF p
<1>4. p.scope = {} \/ \E s \in Scopes : p.scope = {s}
  BY <1>3 DEF PagesInv
<1>5. stage = "asking" => p.scope # {}
  BY <1>3 DEF PagesInv, PageAt, Scoped
<1>6. PagesInv'
  BY <1>1, <1>2, <1>3, <1>4, <1>5, PageMoves
<1>7. GivenInv'
  BY <1>1, <1>3, NoGrantsMap DEF PagesInv, GivenInv, GivenAt
<1> QED BY <1>6, <1>7

LEMMA OpenPageInv ==
  ASSUME ConsentInv, NEW t \in ConsentTabs, OpenPage(t)
  PROVE  ConsentInv'
<1> USE DEF OpenPage, ConsentInv
<1>1. ClockInv'
  BY DEF ClockInv
<1>2. CASE Goes(t, "confirming")
  BY <1>1, <1>2, StageInv DEF PageStages
<1>3. ASSUME NEW s \in Scopes, page' = [page EXCEPT ![t] = [@ EXCEPT !.stage = "validated", !.scope = {s}]]
      PROVE  ConsentInv'
  <2> DEFINE p == [page[t] EXCEPT !.stage = "validated", !.scope = {s}]
  <2>1. page[t] \in PageStates /\ page' = [page EXCEPT ![t] = p]
    BY <1>3 DEF PagesInv
  <2>2. p \in PageStates
    BY ONLY <2>1, s \in Scopes DEF PageStates, PageStages
  <2>3. p.stage = "validated" /\ p.scope = {s} /\ p.read = page[t].read
    BY ONLY <2>1 DEF PageStates
  <2> HIDE DEF p
  <2>4. PagesInv'
    BY <2>1, <2>2, <2>3, PageMoves DEF PagesInv
  <2>5. \A x \in ConsentTabs : page'[x].read = page[x].read
    BY <2>1, <2>3 DEF PagesInv
  <2>6. GivenInv'
    BY <2>5 DEF GivenInv, GivenAt
  <2> QED BY <1>1, <2>4, <2>6
<1> QED BY <1>2, <1>3

(* take reads the grants, and its page goes on to use one or to ask.       *)
LEMMA TakeReadsInv ==
  ASSUME ConsentInv, NEW t \in ConsentTabs, TakeReads(t)
  PROVE  ConsentInv'
<1> USE DEF ConsentInv
<1> DEFINE g == ReadGrants(now)
           s == Scope(t)
           stage == IF s \in DOMAIN g THEN "taking" ELSE "asking"
           read == IF s \in DOMAIN g THEN g ELSE NoGrants
           p == [page[t] EXCEPT !.stage = stage, !.read = read]
<1>1. page[t] \in PageStates /\ page' = [page EXCEPT ![t] = p] /\ UNCHANGED <<now, stored, given, used, forgotten>>
  BY DEF TakeReads, PagesInv
<1>2. g \in GrantMaps /\ DOMAIN g \subseteq DOMAIN stored /\ \A x \in DOMAIN g : g[x] = stored[x]
  BY ReadMap DEF ClockInv
<1> HIDE DEF g
<1>3. read \in GrantMaps /\ stage \in {"taking", "asking"} /\ (stage = "taking" => s \in DOMAIN read)
      /\ DOMAIN read \subseteq DOMAIN stored /\ \A x \in DOMAIN read : read[x] = stored[x]
  BY <1>2, NoGrantsMap
<1>4. s \in Scopes /\ page[t].scope = {s}
  BY ScopeIs DEF TakeReads, PageAt, PagesInv, Scoped
<1> HIDE DEF s, stage, read
<1>5. p \in PageStates /\ p.stage = stage /\ p.scope = page[t].scope /\ p.read = read
  BY ONLY <1>1, <1>3 DEF PageStates, PageStages
<1> HIDE DEF p
<1>6. stored' \in GrantMaps /\ p.scope # {} /\ \A x \in Scopes : p.scope = {x} => x = s
  BY <1>1, <1>4, <1>5 DEF PagesInv
<1>7. PagesInv'
  BY <1>1, <1>3, <1>4, <1>5, <1>6, PageMoves
<1>8. GivenInv'
  BY <1>1, <1>3, <1>5 DEF PagesInv, GivenInv, GivenAt
<1>9. ClockInv'
  BY <1>1 DEF ClockInv
<1> QED BY <1>7, <1>8, <1>9

LEMMA GrantReadsInv ==
  ASSUME ConsentInv, NEW t \in ConsentTabs, GrantReads(t)
  PROVE  ConsentInv'
<1> USE DEF ConsentInv
<1> DEFINE g == ReadGrants(now)
           p == [page[t] EXCEPT !.stage = "granting", !.read = g, !.at = now]
<1>1. page[t] \in PageStates /\ page' = [page EXCEPT ![t] = p] /\ UNCHANGED <<now, stored, given, used, forgotten>>
      /\ page[t].scope # {} /\ now \in 0..MaxNow
  BY DEF GrantReads, PagesInv, ClockInv, PageAt, Scoped
<1>2. g \in GrantMaps /\ DOMAIN g \subseteq DOMAIN stored /\ \A x \in DOMAIN g : g[x] = stored[x]
  BY ReadMap DEF ClockInv
<1> HIDE DEF g
<1>3. p \in PageStates /\ p.stage = "granting" /\ p.scope = page[t].scope /\ p.read = g
  BY ONLY <1>1, <1>2 DEF PageStates, PageStages
<1> HIDE DEF p
<1>4. PagesInv'
  BY <1>1, <1>3, PageMoves DEF PagesInv
<1>5. GivenInv'
  BY <1>1, <1>2, <1>3 DEF PagesInv, GivenInv, GivenAt
<1>6. ClockInv'
  BY <1>1 DEF ClockInv
<1> QED BY <1>4, <1>5, <1>6

LEMMA TakeWritesInv ==
  ASSUME ConsentInv, NEW t \in ConsentTabs, TakeWrites(t)
  PROVE  ConsentInv'
<1> USE DEF TakeWrites, ConsentInv
<1>1. page[t].read \in GrantMaps /\ Scope(t) \in DOMAIN page[t].read
  BY DEF PagesInv, PageStates, PageAt
<1>2. stored' \in GrantMaps /\ GivenAt(stored)'
  BY <1>1, TakenMap DEF WriteGrants, GivenInv, GivenAt
<1>3. ClockInv'
  BY DEF ClockInv, Opened
<1> QED BY <1>2, <1>3, LeftInv

LEMMA GrantWritesInv ==
  ASSUME ConsentInv, NEW t \in ConsentTabs, GrantWrites(t)
  PROVE  ConsentInv'
<1> USE DEF GrantWrites, ConsentInv
<1>1. page[t].read \in GrantMaps /\ Scope(t) \in Scopes /\ page[t].at \in 0..MaxNow
  BY ScopeIs DEF PagesInv, PageStates, PageAt, Scoped
<1>2. PICK g \in Evictions(With(page[t].read, Scope(t), page[t].at), Scope(t)) : stored' = g
  BY DEF WriteGrants
<1>3. stored' \in GrantMaps
  BY <1>1, <1>2, GrantedMap
<1>4. GivenAt(stored)'
  <2> DEFINE n == page[t].at
             s == Scope(t)
             read == page[t].read
  <2>1. /\ s \in DOMAIN g => g[s] = [expiresAt |-> n + Session, remaining |-> MaxUnattended]
        /\ \A x \in DOMAIN g \ {s} : x \in DOMAIN read /\ g[x] = read[x]
    BY <1>1, <1>2, GrantedMap
  <2>2. GivenAt(read) /\ given \subseteq given' /\ (s = Watched => n \in given')
    BY DEF GivenInv
  <2> HIDE DEF n, s, read
  <2>3. CASE s = Watched
    BY <1>2, <2>1, <2>2, <2>3 DEF GivenAt
  <2>4. CASE s # Watched
    BY <1>2, <2>1, <2>2, <2>4 DEF GivenAt
  <2> QED BY <2>3, <2>4
<1>5. ClockInv' /\ given \subseteq given'
  <2>1. given' \subseteq 0..MaxNow /\ given \subseteq given'
    BY <1>1 DEF ClockInv
  <2>2. used' = 0 \/ used' = used
    OBVIOUS
  <2>3. used' \in 0..(MaxUnattended + 1)
    BY <2>2 DEF ClockInv
  <2> QED BY <2>1, <2>3 DEF ClockInv
<1> QED BY <1>3, <1>4, <1>5, LeftInv

LEMMA OtherPagesInv ==
  ASSUME ConsentInv, NEW t \in ConsentTabs,
         \/ TakeFails(t) \/ GrantFails(t) \/ Agree(t) \/ ShowAccount(t)
         \/ LogoutAccount(t) \/ LogoutPage(t) \/ PageEnds(t)
  PROVE  ConsentInv'
<1>1. CASE TakeFails(t) \/ GrantFails(t)
  <2>1. ClockInv' /\ stored' \in GrantMaps /\ GivenAt(stored)' /\ given' = given
    BY <1>1 DEF TakeFails, GrantFails, WriteFails, ConsentInv, ClockInv, PagesInv, GivenInv, GivenAt
  <2> QED BY <1>1, <2>1, LeftInv DEF TakeFails, GrantFails
<1>2. CASE Agree(t) \/ ShowAccount(t)
  <2>1. ClockInv'
    BY <1>2 DEF Agree, ShowAccount, ConsentInv, ClockInv
  <2> QED BY <1>2, <2>1, StageInv DEF Agree, ShowAccount, PageStages
<1>3. CASE LogoutAccount(t) \/ LogoutPage(t) \/ PageEnds(t)
  <2>1. ClockInv'
    BY <1>3 DEF LogoutAccount, LogoutPage, PageEnds, ConsentInv, ClockInv
  <2> QED BY <1>3, <2>1, IdleInv DEF LogoutAccount, LogoutPage, PageEnds, WriteGrants, WriteFails
<1> QED BY <1>1, <1>2, <1>3

LEMMA ConsentStepInv == ConsentInv /\ [ConsentNext]_consentVars => ConsentInv'
<1>1. ASSUME ConsentInv, Tick \/ StepBack \/ UNCHANGED consentVars PROVE ConsentInv'
  <2>1. UNCHANGED <<stored, page, given, used, forgotten>> /\ now' \in 0..MaxNow
    BY <1>1 DEF Tick, StepBack, consentVars, ConsentInv, ClockInv
  <2> QED BY <1>1, <2>1 DEF ConsentInv, PagesInv, ClockInv, Scoped, Scope, GivenInv, GivenAt
<1> QED BY <1>1, OpenPageInv, TakeReadsInv, TakeWritesInv, GrantReadsInv, GrantWritesInv, OtherPagesInv
        DEF ConsentNext

LEMMA ConsentInitInv == ConsentInit => ConsentInv
<1> SUFFICES ASSUME ConsentInit PROVE ConsentInv
  OBVIOUS
<1> USE DEF ConsentInit
<1>1. IdlePage \in PageStates /\ IdlePage.stage = "idle" /\ IdlePage.scope = {} /\ IdlePage.read = NoGrants
  BY NoGrantsMap DEF IdlePage, PageStates, PageStages
<1>2. PagesInv
  BY <1>1, NoGrantsMap DEF PagesInv, Scoped
<1>3. ClockInv
  <2>1. forgotten \in BOOLEAN /\ given \subseteq 0..MaxNow
    OBVIOUS
  <2>2. now \in 0..MaxNow /\ used \in 0..(MaxUnattended + 1)
    OBVIOUS
  <2> QED BY <2>1, <2>2 DEF ClockInv
<1>4. GivenInv
  BY <1>1, NoGrantsMap DEF GivenInv, GivenAt
<1> QED BY <1>2, <1>3, <1>4 DEF ConsentInv

LEMMA ConsentInvariant == ConsentSpec => []ConsentInv
BY ConsentInitInv, ConsentStepInv, PTL DEF ConsentSpec

LEMMA ConsentTypes == ConsentInv => ConsentTypeOK
<1> SUFFICES ASSUME ConsentInv PROVE ConsentTypeOK
  OBVIOUS
<1> USE DEF ConsentInv
<1>1. IsGrants(stored) /\ Cardinality(DOMAIN stored) <= MaxGrants
  BY GrantMap DEF PagesInv
<1>2. ASSUME NEW t \in ConsentTabs
      PROVE  /\ page[t].stage \in PageStages
             /\ \E S \in SUBSET Scopes : page[t].scope = S /\ Cardinality(S) <= 1
             /\ IsGrants(page[t].read) /\ page[t].at \in 0..MaxNow
  <2>1. page[t] \in PageStates
    BY DEF PagesInv
  <2>2. Cardinality(page[t].scope) <= 1
    <3>1. CASE page[t].scope = {}
      BY <3>1, FS_EmptySet
    <3>2. ASSUME NEW s \in Scopes, page[t].scope = {s} PROVE Cardinality(page[t].scope) <= 1
      <4>1. Cardinality({s}) = 1
        BY FS_Singleton
      <4> QED BY <3>2, <4>1
    <3> QED BY <3>1, <3>2 DEF PagesInv
  <2> QED BY <2>1, <2>2, GrantMap DEF PageStates
<1> QED BY <1>1, <1>2 DEF ConsentTypeOK, ClockInv, PagesInv

(* take lets a page through only in the session of a grant that a person   *)
(* gave: whatever other tabs write between its read and its write, and     *)
(* however the clock was set.                                              *)
THEOREM ConsentSessions == ConsentSpec => OpenedInSession
<1> DEFINE InSession ==
      \A t \in ConsentTabs :
        PageAt(t, "validated") /\ page'[t].stage = "taking" /\ Scope(t) = Watched =>
          \E n \in given : n <= now /\ now < n + Session
<1>1. ASSUME ConsentInv, ConsentNext PROVE InSession
  <2> SUFFICES ASSUME NEW t \in ConsentTabs, PageAt(t, "validated"), page'[t].stage = "taking",
                      Scope(t) = Watched
               PROVE  \E n \in given : n <= now /\ now < n + Session
    OBVIOUS
  <2>1. PICK u \in ConsentTabs :
          \/ OpenPage(u) \/ TakeReads(u) \/ TakeWrites(u) \/ TakeFails(u)
          \/ Agree(u) \/ GrantReads(u) \/ GrantWrites(u) \/ GrantFails(u)
          \/ ShowAccount(u) \/ LogoutAccount(u) \/ LogoutPage(u) \/ PageEnds(u)
    BY <1>1 DEF ConsentNext, Tick, StepBack, PageAt
  <2>2. page \in [ConsentTabs -> PageStates] /\ u = t
    BY <1>1, <2>1 DEF ConsentInv, PagesInv, PageStates, OpenPage, TakeReads, TakeWrites, TakeFails, Agree,
          GrantReads, GrantWrites, GrantFails, ShowAccount, LogoutAccount, LogoutPage, PageEnds, PageAt,
          Goes, Left
  <2>3. TakeReads(t)
    <3>1. ~(OpenPage(t) \/ GrantReads(t) \/ GrantWrites(t) \/ GrantFails(t) \/ TakeWrites(t) \/ TakeFails(t)
            \/ Agree(t) \/ ShowAccount(t) \/ LogoutAccount(t))
      BY DEF OpenPage, GrantReads, GrantWrites, GrantFails, TakeWrites, TakeFails, Agree, ShowAccount,
             LogoutAccount, PageAt
    <3>2. ~(LogoutPage(t) \/ PageEnds(t))
      BY <2>2 DEF LogoutPage, PageEnds, IdlePage
    <3> QED BY <2>1, <2>2, <3>1, <3>2
  <2>4. Watched \in DOMAIN ReadGrants(now)
    BY <2>2, <2>3 DEF TakeReads, PageStates
  <2>5. Watched \in DOMAIN stored /\ Live(stored[Watched], now)
    BY <1>1, <2>4, ReadMap DEF ConsentInv, ClockInv
  <2>6. PICK n \in given : stored[Watched].expiresAt = n + Session
    BY <1>1, <2>5 DEF ConsentInv, GivenInv, GivenAt
  <2> QED BY <1>1, <2>5, <2>6 DEF Live, ConsentInv, ClockInv
<1>2. ASSUME UNCHANGED consentVars PROVE InSession
  BY <1>2 DEF consentVars, PageAt
<1> QED BY ConsentInvariant, <1>1, PTL DEF ConsentSpec, OpenedInSession

-----------------------------------------------------------------------------
(* With one tab, the openings left on a grant and those it has had since   *)
(* it was given are MaxUnattended together: in the storage, and in what    *)
(* the page has read to write back.                                        *)
WithinGrant(g) == Watched \in DOMAIN g => used + g[Watched].remaining <= MaxUnattended

OpeningsInv ==
  /\ used \in 0..MaxUnattended
  /\ WithinGrant(stored)
  /\ \A t \in ConsentTabs : WithinGrant(page[t].read)

OneTab == \A s, t \in ConsentTabs : s = t

LEMMA Remaining ==
  ASSUME NEW g \in GrantMaps, NEW s \in DOMAIN g
  PROVE  g[s].remaining \in 1..MaxUnattended /\ g[s].remaining \in Nat
BY GrantMap DEF Grant

(* What is read of the grants is within the grant if the storage is.       *)
LEMMA ReadWithin ==
  ASSUME ConsentInv, OpeningsInv
  PROVE  WithinGrant(ReadGrants(now))
BY ReadMap DEF ConsentInv, ClockInv, OpeningsInv, WithinGrant

(* A step after which the tab holds what it held, the grants it has just   *)
(* read, or nothing.                                                       *)
LEMMA ReadsInv ==
  ASSUME ConsentInv, OpeningsInv, UNCHANGED used, stored' = stored \/ stored' = NoGrants,
         \A t \in ConsentTabs : page'[t].read \in {page[t].read, ReadGrants(now), NoGrants}
  PROVE  OpeningsInv'
BY ReadWithin, NoGrantsMap DEF OpeningsInv, WithinGrant

LEMMA TakeWritesOpenings ==
  ASSUME OneTab, ConsentInv, OpeningsInv, NEW t \in ConsentTabs, TakeWrites(t)
  PROVE  OpeningsInv'
<1> USE DEF TakeWrites
<1> DEFINE g == page[t].read
           s == Scope(t)
<1>1. g \in GrantMaps /\ s \in DOMAIN g /\ page \in [ConsentTabs -> PageStates] /\ used \in 0..MaxUnattended
  BY DEF ConsentInv, OpeningsInv, PagesInv, PageStates, PageAt
<1>2. WithinGrant(g)
  BY DEF OpeningsInv
<1>3. stored' = Taken(g, s) /\ used' = IF s = Watched /\ used <= MaxUnattended THEN used + 1 ELSE used
  BY DEF WriteGrants, Opened
<1>4. page'[t].read = NoGrants /\ \A x \in ConsentTabs : x = t
  BY <1>1 DEF OneTab, Left, PageStates
<1> HIDE DEF g, s
<1>5. CASE s = Watched
  <2>1. used + g[s].remaining <= MaxUnattended /\ g[s].remaining \in Nat /\ g[s].remaining >= 1
    BY <1>1, <1>2, <1>5, Remaining DEF WithinGrant
  <2>2. used' = used + 1
    BY <1>1, <1>3, <1>5
  <2>3. WithinGrant(stored)'
    BY <1>1, <1>3, <1>5, <2>1, <2>2, TakenMap DEF WithinGrant
  <2>4. used' \in 0..MaxUnattended
    BY <1>1, <2>1, <2>2
  <2> QED BY <1>4, <2>3, <2>4, NoGrantsMap DEF OpeningsInv, WithinGrant
<1>6. CASE s # Watched
  <2>1. used' = used
    BY <1>3, <1>6
  <2>2. WithinGrant(stored)'
    BY <1>1, <1>2, <1>3, <1>6, <2>1, TakenMap DEF WithinGrant
  <2> QED BY <1>1, <1>4, <2>1, <2>2, NoGrantsMap DEF OpeningsInv, WithinGrant
<1> QED BY <1>5, <1>6

LEMMA GrantWritesOpenings ==
  ASSUME OneTab, ConsentInv, OpeningsInv, NEW t \in ConsentTabs, GrantWrites(t)
  PROVE  OpeningsInv'
<1> USE DEF GrantWrites
<1> DEFINE g == page[t].read
           s == Scope(t)
           n == page[t].at
<1>1. g \in GrantMaps /\ s \in Scopes /\ n \in 0..MaxNow /\ page \in [ConsentTabs -> PageStates]
      /\ used \in 0..MaxUnattended
  BY ScopeIs DEF ConsentInv, OpeningsInv, PagesInv, PageStates, PageAt, Scoped
<1>2. WithinGrant(g)
  BY DEF OpeningsInv
<1>3. PICK e \in Evictions(With(g, s, n), s) : stored' = e
  BY DEF WriteGrants
<1>4. used' = IF s = Watched THEN 0 ELSE used
  OBVIOUS
<1>5. page'[t].read = NoGrants /\ \A x \in ConsentTabs : x = t
  BY <1>1 DEF OneTab, Left, PageStates
<1>6. /\ s \in DOMAIN e => e[s] = [expiresAt |-> n + Session, remaining |-> MaxUnattended]
      /\ \A x \in DOMAIN e \ {s} : x \in DOMAIN g /\ e[x] = g[x]
  BY <1>1, GrantedMap
<1> HIDE DEF g, s, n
<1>7. WithinGrant(stored)' /\ used' \in 0..MaxUnattended
  <2>1. s \in DOMAIN e => e[s].remaining = MaxUnattended
    BY <1>6
  <2>2. CASE s = Watched
    <3>1. used' = 0
      BY <1>4, <2>2
    <3> QED BY <1>3, <2>1, <2>2, <3>1 DEF WithinGrant
  <2>3. CASE s # Watched
    <3>1. used' = used
      BY <1>4, <2>3
    <3> QED BY <1>1, <1>2, <1>3, <1>6, <2>3, <3>1 DEF WithinGrant
  <2> QED BY <2>2, <2>3
<1> QED BY <1>5, <1>7, NoGrantsMap DEF OpeningsInv, WithinGrant

LEMMA OpeningsStep == OneTab /\ ConsentInv /\ OpeningsInv /\ [ConsentNext]_consentVars => OpeningsInv'
<1> SUFFICES ASSUME OneTab, ConsentInv, OpeningsInv, [ConsentNext]_consentVars PROVE OpeningsInv'
  OBVIOUS
<1>1. page \in [ConsentTabs -> PageStates]
  BY DEF ConsentInv, PagesInv
<1>2. ASSUME NEW t \in ConsentTabs, OpenPage(t) \/ Agree(t) \/ ShowAccount(t)
      PROVE  OpeningsInv'
  <2>1. UNCHANGED <<stored, used>>
    BY <1>2 DEF OpenPage, Agree, ShowAccount
  <2>2. ASSUME NEW stage, Goes(t, stage) PROVE \A x \in ConsentTabs : page'[x].read = page[x].read
    BY <1>1, <2>2 DEF Goes, PageStates
  <2>3. ASSUME NEW s, page' = [page EXCEPT ![t] = [@ EXCEPT !.stage = "validated", !.scope = {s}]]
        PROVE  \A x \in ConsentTabs : page'[x].read = page[x].read
    BY ONLY <1>1, <2>3 DEF PageStates
  <2>4. \A x \in ConsentTabs : page'[x].read = page[x].read
    BY <1>2, <2>2, <2>3 DEF OpenPage, Agree, ShowAccount
  <2> QED BY <2>1, <2>4, ReadsInv
<1>3. ASSUME NEW t \in ConsentTabs, TakeReads(t) \/ GrantReads(t) PROVE OpeningsInv'
  <2>1. UNCHANGED <<stored, used>>
    BY <1>3 DEF TakeReads, GrantReads
  <2>2. CASE TakeReads(t)
    <3> DEFINE p == [page[t] EXCEPT
                       !.stage = IF Scope(t) \in DOMAIN ReadGrants(now) THEN "taking" ELSE "asking",
                       !.read = IF Scope(t) \in DOMAIN ReadGrants(now) THEN ReadGrants(now) ELSE NoGrants]
    <3>1. page' = [page EXCEPT ![t] = p]
      BY <2>2 DEF TakeReads
    <3>2. p.read \in {ReadGrants(now), NoGrants}
      BY ONLY <1>1, <1>3 DEF PageStates
    <3> HIDE DEF p
    <3> QED BY <1>1, <2>1, <3>1, <3>2, ReadsInv
  <2>3. CASE GrantReads(t)
    <3> DEFINE p == [page[t] EXCEPT !.stage = "granting", !.read = ReadGrants(now), !.at = now]
    <3>1. page' = [page EXCEPT ![t] = p]
      BY <2>3 DEF GrantReads
    <3>2. p.read = ReadGrants(now)
      BY ONLY <1>1, <1>3 DEF PageStates
    <3> HIDE DEF p
    <3> QED BY <1>1, <2>1, <3>1, <3>2, ReadsInv
  <2> QED BY <1>3, <2>2, <2>3
<1>4. ASSUME NEW t \in ConsentTabs, TakeFails(t) \/ GrantFails(t) PROVE OpeningsInv'
  <2>1. UNCHANGED <<stored, used>>
    BY <1>4 DEF TakeFails, GrantFails, WriteFails
  <2>2. PICK stage : Left(t, stage)
    BY <1>4 DEF TakeFails, GrantFails
  <2> DEFINE p == [page[t] EXCEPT !.stage = stage, !.read = NoGrants, !.at = 0]
  <2>3. page' = [page EXCEPT ![t] = p]
    BY <2>2 DEF Left
  <2>4. p.read = NoGrants
    BY ONLY <1>1, <1>4 DEF PageStates
  <2> HIDE DEF p
  <2> QED BY <1>1, <2>1, <2>3, <2>4, ReadsInv
<1>5. ASSUME NEW t \in ConsentTabs, LogoutAccount(t) \/ LogoutPage(t) \/ PageEnds(t) PROVE OpeningsInv'
  BY <1>1, <1>5, ReadsInv DEF LogoutAccount, LogoutPage, PageEnds, WriteGrants, WriteFails, IdlePage
<1>6. CASE Tick \/ StepBack \/ UNCHANGED consentVars
  BY <1>6, ReadsInv DEF Tick, StepBack, consentVars
<1> QED BY <1>2, <1>3, <1>4, <1>5, <1>6, TakeWritesOpenings, GrantWritesOpenings DEF ConsentNext

(* With one tab a person's "don't ask again" opens MaxUnattended fields at *)
(* the most, and the storage holds MaxGrants grants at the most, whatever  *)
(* writes fail, wherever pages end and however the clock is set.           *)
THEOREM ConsentBounded ==
  ASSUME OneTab
  PROVE  ConsentSpec => []ConsentIsBounded
<1>1. ConsentInit => OpeningsInv
  <2> SUFFICES ASSUME ConsentInit PROVE OpeningsInv
    OBVIOUS
  <2>1. \A t \in ConsentTabs : page[t].read = NoGrants
    BY DEF ConsentInit, IdlePage
  <2> QED BY <2>1, NoGrantsMap DEF ConsentInit, OpeningsInv, WithinGrant
<1>2. ConsentInv /\ OpeningsInv => ConsentIsBounded
  BY ConsentTypes DEF OpeningsInv, ConsentIsBounded, BoundedOpenings
<1>3. ConsentInv /\ OpeningsInv /\ [ConsentNext]_consentVars => OpeningsInv'
  BY OneTab, OpeningsStep
<1> QED BY ConsentInvariant, <1>1, <1>2, <1>3, PTL DEF ConsentSpec

(* For any number of tabs the storage holds MaxGrants grants at the most,  *)
(* each with an opening left, although two tabs may write over each other. *)
THEOREM ConsentTyped == ConsentSpec => []ConsentTypeOK
BY ConsentInvariant, ConsentTypes, PTL

-----------------------------------------------------------------------------
(* Unlocks that were given a handle which is not installed yet ...         *)
Holding(u) == unlock[u].stage \in {"derived", "restored"}
(* ... and those that have nothing installed yet.                          *)
Pending(u) == unlock[u].stage \in {"deriving", "derived", "restoring", "restored"}

(* A handle that native code makes next is nobody's yet.                   *)
Fresh ==
  /\ owned \subseteq 1..made /\ live \subseteq 1..made /\ handle <= made
  /\ \A u \in Unlocks : unlock[u].handle <= made
  /\ \A x \in Transactions : tx[x].handle <= made

(* The handle of an unlock that has not installed it is that unlock's only. *)
Apart ==
  /\ \A u \in Unlocks : Holding(u) => unlock[u].handle # 0 /\ unlock[u].handle # handle
  /\ \A u, v \in Unlocks : Holding(u) /\ Holding(v) /\ u # v => unlock[u].handle # unlock[v].handle
  /\ \A u \in Unlocks, x \in Transactions : Holding(u) => unlock[u].handle # tx[x].handle
  /\ \A u \in Unlocks : unlock[u].stage = "derived" => unlock[u].handle \in live \ owned

(* Unlocks under way began at different generations, and the latest one    *)
(* finds nothing installed.                                                *)
Turns ==
  /\ destroyed => revoked
  /\ \A u \in Unlocks : unlock[u].stage # "idle" => unlock[u].generation <= generation
  /\ \A u, v \in Unlocks : unlock[u].stage # "idle" /\ unlock[v].stage # "idle" /\ u # v =>
       unlock[u].generation # unlock[v].generation
  /\ \A u \in Unlocks : ~revoked /\ Pending(u) /\ unlock[u].generation = generation => handle = 0

(* Who captured a handle captured one.                                     *)
Captured ==
  /\ \A u \in Unlocks : unlock[u].stage = "remembering" => unlock[u].handle # 0
  /\ \A x \in Transactions : Executing(x) => tx[x].handle # 0

OwnsInstalled == ~revoked => owned = ({handle} \cup Restored) \ {0}

PermitInv == permit # None => revoked /\ owned = {}

IndInv == ControllerTypeOK /\ Fresh /\ Apart /\ Turns /\ Captured /\ NoHandleEscapes
          /\ NoUseAfterDestroy /\ RevokedHoldsNothing /\ OwnsInstalled /\ PermitInv

USE OriginAssumption

LEMMA InitHandlesInv == ControllerInit => IndInv
<1> SUFFICES ASSUME ControllerInit PROVE IndInv
  OBVIOUS
<1> USE DEF ControllerInit, IdleUnlock, NewTx, NoAccount
<1>1. unlock \in [Unlocks -> UnlockCalls] /\ tx \in [Transactions -> TxCalls] /\ account \in AccountStates
  BY DEF UnlockCalls, UnlockStages, TxCalls, TxStages, AccountStates, AccountStages
<1>2. ControllerTypeOK
  <2>1. revoked \in BOOLEAN /\ destroyed \in BOOLEAN /\ activeTransaction \in BOOLEAN
        /\ retained \in BOOLEAN /\ typed \in BOOLEAN
    OBVIOUS
  <2>2. generation \in Nat /\ epoch \in 0..MaxRevocations /\ made \in 0..MaxHandles
    OBVIOUS
  <2>3. permit \in Transactions \cup {None} /\ handle \in Handles \cup {0} /\ owned \subseteq Handles
        /\ live \subseteq Handles /\ misused \subseteq Handles /\ secrets \subseteq Unlocks
    OBVIOUS
  <2> QED BY <1>1, <2>1, <2>2, <2>3 DEF ControllerTypeOK
<1>3. Fresh /\ Apart /\ Turns /\ Captured
  BY DEF Fresh, Apart, Turns, Captured, Holding, Pending, Executing
<1>4. NoHandleEscapes /\ NoUseAfterDestroy /\ RevokedHoldsNothing /\ PermitInv
  BY DEF NoHandleEscapes, InFlight, NoUseAfterDestroy, RevokedHoldsNothing, PermitInv
<1>5. OwnsInstalled
  BY DEF OwnsInstalled, Restored
<1> QED BY <1>2, <1>3, <1>4, <1>5 DEF IndInv

-----------------------------------------------------------------------------
(* Steps that move transactions and results, and touch no handle.          *)
LEMMA QuietInv ==
  ASSUME IndInv, ControllerTypeOK',
         UNCHANGED <<generation, revoked, destroyed, handle, owned, live, secrets, typed, unlock, history>>,
         permit' = permit \/ permit' = None,
         \A x \in Transactions :
           /\ tx'[x].handle \in {tx[x].handle, handle, 0}
           /\ Executing(x)' => tx'[x].handle # 0
  PROVE  IndInv'
<1> USE DEF IndInv, history
<1>1. Fresh' /\ Apart'
  BY DEF ControllerTypeOK, Fresh, Apart, Holding
<1>2. Turns' /\ Captured'
  BY DEF Turns, Captured, Pending
<1>3. NoHandleEscapes' /\ NoUseAfterDestroy' /\ RevokedHoldsNothing' /\ PermitInv'
  BY DEF NoHandleEscapes, InFlight, NoUseAfterDestroy, RevokedHoldsNothing, PermitInv
<1>4. OwnsInstalled'
  BY DEF OwnsInstalled, Restored, UnlockIsCurrent, Usable
<1> QED BY <1>1, <1>2, <1>3, <1>4

(* The handles in H, and every owned one is among them, are destroyed or   *)
(* stay owned.                                                             *)
Spent(H) ==
  \E gone \in Destroyable(H) : owned' = H \ gone /\ live' = (live \cup H) \ gone

(* Steps that end the authority of the page: it holds nothing afterwards   *)
(* that the native side agreed to destroy.                                 *)
LEMMA EndsInv ==
  ASSUME IndInv, ControllerTypeOK', NoUseAfterDestroy',
         generation' >= generation, made' >= made, revoked', handle' = 0, secrets' = {}, ~typed',
         \A u \in Unlocks : unlock'[u] = unlock[u] \/ unlock'[u] = IdleUnlock,
         \A x \in Transactions : tx'[x].handle = tx[x].handle /\ (Executing(x)' => Executing(x)),
         NEW H, Spent(H), owned \subseteq H, H \subseteq 1..made', InFlight' = InFlight \ H,
         permit' # None => owned' = {}
  PROVE  IndInv'
<1> USE DEF IndInv, IdleUnlock
<1> PICK gone \in Destroyable(H) : owned' = H \ gone /\ live' = (live \cup H) \ gone
  BY DEF Spent
<1>1. gone \subseteq H /\ (~NativeMayFail => gone = H)
  BY DEF Destroyable
<1>2. Fresh'
  <2>1. (owned \subseteq 1..made /\ live \subseteq 1..made)'
    BY <1>1 DEF ControllerTypeOK, Fresh
  <2>2. (handle <= made /\ \A u \in Unlocks : unlock[u].handle <= made)'
    BY DEF ControllerTypeOK, Fresh, UnlockCalls, Handles
  <2>3. (\A x \in Transactions : tx[x].handle <= made)'
    BY DEF ControllerTypeOK, Fresh, TxCalls, Handles
  <2> QED BY <2>1, <2>2, <2>3 DEF Fresh
<1>3. Apart'
  <2>1. ASSUME NEW u \in Unlocks, Holding(u)' PROVE unlock'[u] = unlock[u] /\ Holding(u)
    BY <2>1 DEF Holding
  <2>2. ASSUME NEW u \in Unlocks, (unlock[u].stage = "derived")'
        PROVE  unlock'[u].handle \in live' \ owned'
    BY <1>1, <2>1, <2>2 DEF Holding, Apart, InFlight
  <2> QED BY <2>1, <2>2 DEF ControllerTypeOK, UnlockCalls, Apart, Handles
<1>4. Turns' /\ Captured'
  BY DEF ControllerTypeOK, Turns, Captured, UnlockCalls
<1>5. NoHandleEscapes'
  BY <1>1 DEF NoHandleEscapes
<1>6. RevokedHoldsNothing' /\ OwnsInstalled' /\ PermitInv'
  BY <1>1 DEF RevokedHoldsNothing, OwnsInstalled, PermitInv
<1> QED BY <1>2, <1>3, <1>4, <1>5, <1>6

-----------------------------------------------------------------------------
LEMMA PrepareInv ==
  ASSUME IndInv, NEW x \in Transactions, Prepare(x)
  PROVE  IndInv'
<1> USE DEF Prepare, holdings, history
<1>1. PICK h \in {0, handle} : tx' = [tx EXCEPT ![x] =
        [@ EXCEPT !.stage = "preparing", !.generation = generation, !.handle = h]]
  OBVIOUS
<1>2. tx \in [Transactions -> TxCalls] /\ generation \in Nat /\ h \in Handles \cup {0}
  BY DEF IndInv, ControllerTypeOK
<1>3. tx' \in [Transactions -> TxCalls]
  BY ONLY <1>1, <1>2 DEF TxCalls, TxStages
<1>4. ControllerTypeOK'
  BY <1>3 DEF IndInv, ControllerTypeOK
<1>5. tx'[x].handle \in {handle, 0} /\ ~Executing(x)' /\ \A y \in Transactions : y # x => tx'[y] = tx[y]
  BY ONLY <1>1, <1>2, <1>3 DEF TxCalls, Executing
<1> QED BY <1>4, <1>5, QuietInv DEF IndInv, Captured, Executing

LEMMA PrepareReturnsInv ==
  ASSUME IndInv, NEW x \in Transactions, PrepareReturns(x)
  PROVE  IndInv'
<1> USE DEF PrepareReturns, holdings, history
<1>1. PICK s \in {"prepared", "ended"} : tx' = [tx EXCEPT ![x].stage = s]
  OBVIOUS
<1>2. activeTransaction' \in BOOLEAN
  BY DEF IndInv, ControllerTypeOK
<1>3. tx' \in [Transactions -> TxCalls]
  BY <1>1 DEF IndInv, ControllerTypeOK, TxCalls, TxStages
<1>4. ControllerTypeOK'
  BY <1>2, <1>3 DEF IndInv, ControllerTypeOK
<1> QED BY <1>1, <1>4, QuietInv DEF IndInv, ControllerTypeOK, TxCalls, Captured, Executing

LEMMA ExecutePreparedInv ==
  ASSUME IndInv, NEW x \in Transactions, ExecutePrepared(x)
  PROVE  IndInv'
<1> USE DEF ExecutePrepared, holdings, history
<1>1. CASE Usable /\ handle # 0
  <2>1. PICK a \in BOOLEAN : tx' = [tx EXCEPT ![x] =
          [@ EXCEPT !.stage = "validating", !.generation = generation, !.handle = handle, !.account = a]]
    BY <1>1
  <2>2. tx \in [Transactions -> TxCalls] /\ generation \in Nat /\ handle \in Handles \cup {0}
    BY DEF IndInv, ControllerTypeOK
  <2>3. tx' \in [Transactions -> TxCalls]
    <3> DEFINE c == [tx[x] EXCEPT !.stage = "validating", !.generation = generation,
                                  !.handle = handle, !.account = a]
    <3>1. tx[x] \in TxCalls /\ "validating" \in TxStages
      BY <2>2 DEF TxStages
    <3>2. c \in TxCalls
      BY ONLY <2>1, <2>2, <3>1 DEF TxCalls
    <3>3. tx' = [tx EXCEPT ![x] = c]
      BY <2>1
    <3> HIDE DEF c
    <3> QED BY ONLY <2>2, <3>2, <3>3
  <2>4. ControllerTypeOK'
    BY <1>1, <2>3 DEF IndInv, ControllerTypeOK
  <2>5. tx'[x].handle = handle /\ \A y \in Transactions : y # x => tx'[y] = tx[y]
    BY ONLY <2>1, <2>2 DEF TxCalls
  <2> QED BY <1>1, <2>4, <2>5, QuietInv DEF IndInv, Captured, Executing
<1>2. CASE ~(Usable /\ handle # 0)
  <2>1. tx' = [tx EXCEPT ![x].stage = "ended"] /\ activeTransaction' = FALSE
    BY <1>2
  <2>2. tx' \in [Transactions -> TxCalls]
    <3>1. tx \in [Transactions -> TxCalls]
      BY DEF IndInv, ControllerTypeOK
    <3> QED BY ONLY <2>1, <3>1 DEF TxCalls, TxStages
  <2>3. ControllerTypeOK'
    BY <2>1, <2>2 DEF IndInv, ControllerTypeOK
  <2> QED BY <2>1, <2>3, QuietInv, ZenonT(60) DEF IndInv, ControllerTypeOK, TxCalls, Captured, Executing
<1> QED BY <1>1, <1>2

LEMMA PublicationInv ==
  ASSUME IndInv, NEW x \in Transactions, Navigate(x) \/ PublicationFails(x)
  PROVE  IndInv'
<1> USE DEF Navigate, PublicationFails, holdings, history
<1>1. ControllerTypeOK'
  <2>1. ControllerTypeOK
    BY DEF IndInv
  <2> QED BY ONLY <2>1, x \in Transactions, Navigate(x) \/ PublicationFails(x)
          DEF ControllerTypeOK, TxCalls, TxStages, Navigate, PublicationFails, holdings, history
<1> QED BY <1>1, QuietInv DEF IndInv, ControllerTypeOK, TxCalls, Captured, Executing

LEMMA AccountInv ==
  ASSUME IndInv, LeaveAccount \/ NavigateAccount \/ AccountFails
  PROVE  IndInv'
<1> USE DEF LeaveAccount, NavigateAccount, AccountFails, holdings, history
<1>1. ControllerTypeOK'
  BY ZenonT(60) DEF IndInv, ControllerTypeOK, AccountStates, AccountStages
<1> QED BY <1>1, QuietInv DEF IndInv, ControllerTypeOK, TxCalls, Captured, Executing

(* The operation is given a handle of the page: it is still current, so    *)
(* the handle it captured is the installed one.                            *)
LEMMA AdvanceInv ==
  ASSUME IndInv, NEW x \in Transactions, Advance(x)
  PROVE  IndInv'
<1> USE DEF Advance, holdings, authority, history
<1>1. tx[x].stage \in {"validating", "confirming", "revalidating", "contacting"}
  BY DEF NextStages
<1>2. tx[x].handle \in live
  BY <1>1 DEF IndInv, Captured, Executing, IsCurrent, NoHandleEscapes
<1>3. misused' = misused
  BY <1>2
<1>4. PICK s \in TxStages : tx' = [tx EXCEPT ![x].stage = s]
  BY DEF NextStages, TxStages
<1>5. ControllerTypeOK'
  BY <1>3, <1>4 DEF IndInv, ControllerTypeOK, TxCalls
<1> QED BY <1>1, <1>3, <1>4, <1>5, QuietInv DEF IndInv, ControllerTypeOK, TxCalls, Captured, Executing
-----------------------------------------------------------------------------
(* revokeNow: what is typed afterwards, and what is left of what it held.  *)
LEMMA RevocationTypes ==
  ASSUME ControllerTypeOK, NEW g \in Nat, Revocation(g)
  PROVE  /\ epoch' \in 0..MaxRevocations /\ permit' = None /\ account' \in AccountStates
         /\ generation' \in Nat /\ generation' >= g
         /\ revoked' = TRUE /\ activeTransaction' \in BOOLEAN
<1> USE DEF Revocation, ControllerTypeOK
<1>1. account' \in AccountStates
  BY DEF NoAccount, AccountStates, AccountStages
<1>2. activeTransaction' \in BOOLEAN
  OBVIOUS
<1> QED BY <1>1, <1>2

LEMMA HoldingsSpent ==
  ASSUME IndInv, NEW H, owned \subseteq H, H \subseteq live, RevocationHoldings(H)
  PROVE  Spent(H)
BY DEF RevocationHoldings, Spent, Destroyed

LEMMA SpentTypes ==
  ASSUME IndInv, NEW H, Spent(H), H \subseteq Handles
  PROVE  owned' \subseteq Handles /\ live' \subseteq Handles
BY DEF Spent, Destroyable, IndInv, ControllerTypeOK

(* Between two calls of native code what is in flight is not owned.        *)
LEMMA InFlightNotOwned == IndInv => InFlight = InFlight \ owned
BY DEF IndInv, InFlight, Apart

(* A revocation, whatever came before it in the same step: the page may    *)
(* have been given a handle, and an unlock or a transaction may end.       *)
LEMMA RevokeInv ==
  ASSUME IndInv, NEW g \in {generation, generation + 1}, Revocation(g), destroyed' \in BOOLEAN,
         handle' = 0, retained' = FALSE, secrets' = {}, typed' = FALSE,
         made' \in made..MaxHandles, misused' = misused,
         unlock' \in [Unlocks -> UnlockCalls],
         \A u \in Unlocks : unlock'[u] = unlock[u] \/ unlock'[u] = IdleUnlock,
         tx' \in [Transactions -> TxCalls],
         \A x \in Transactions : tx'[x].handle = tx[x].handle /\ (Executing(x)' => Executing(x)),
         NEW H, Spent(H), owned \subseteq H, H \subseteq 1..made', InFlight' = InFlight \ H
  PROVE  IndInv'
<1>1. g \in Nat /\ g >= generation /\ made \in Nat /\ generation \in Nat
  BY DEF IndInv, ControllerTypeOK
<1>2. revoked' = TRUE /\ permit' = None /\ account' \in AccountStates /\ epoch' \in 0..MaxRevocations
      /\ generation' \in Nat /\ generation' >= g
  BY <1>1, RevocationTypes DEF IndInv
<1>3. activeTransaction' \in BOOLEAN
  BY <1>1, RevocationTypes DEF IndInv
<1>4. owned' \subseteq Handles /\ live' \subseteq Handles
  <2>1. H \subseteq Handles
    BY <1>1 DEF Handles, OriginAssumption
  <2> QED BY <2>1, SpentTypes
<1>5. made' \in 0..MaxHandles /\ made' >= made /\ generation' >= generation
  BY <1>1, <1>2
<1>6. ControllerTypeOK'
  BY <1>2, <1>3, <1>4, <1>5 DEF IndInv, ControllerTypeOK
<1> QED BY <1>2, <1>5, <1>6, EndsInv DEF IndInv, NoUseAfterDestroy

LEMMA RevokeOwnedInv ==
  ASSUME IndInv, NEW g \in {generation, generation + 1}, Revocation(g), RevocationHoldings(owned),
         destroyed' \in BOOLEAN, UNCHANGED <<unlock, tx, history>>
  PROVE  IndInv'
<1> USE DEF history
<1>1. Spent(owned)
  BY HoldingsSpent DEF IndInv, NoHandleEscapes
<1>2. InFlight' = InFlight \ owned
  BY InFlightNotOwned DEF InFlight
<1>3. made' \in made..MaxHandles /\ owned \subseteq 1..made'
  BY DEF IndInv, ControllerTypeOK, Fresh
<1>4. unlock' \in [Unlocks -> UnlockCalls] /\ tx' \in [Transactions -> TxCalls]
  BY DEF IndInv, ControllerTypeOK
<1>5. \A x \in Transactions : tx'[x].handle = tx[x].handle /\ (Executing(x)' => Executing(x))
  BY DEF Executing
<1> QED BY <1>1, <1>2, <1>3, <1>4, <1>5, RevokeInv DEF RevocationHoldings

LEMMA RevocationsInv ==
  ASSUME IndInv, Lifecycle \/ Logout \/ Destroy \/ \E u \in Unlocks : UnlockRefused(u)
  PROVE  IndInv'
<1>1. CASE Lifecycle \/ Logout
  BY <1>1, RevokeOwnedInv DEF Lifecycle, Logout, RevokeNow, IndInv, ControllerTypeOK
<1>2. CASE Destroy
  BY <1>2, RevokeOwnedInv DEF Destroy
<1>3. ASSUME NEW u \in Unlocks, UnlockRefused(u) PROVE IndInv'
  BY <1>3, RevokeOwnedInv DEF UnlockRefused, IndInv, ControllerTypeOK
<1> QED BY <1>1, <1>2, <1>3

LEMMA DestroyAgainInv ==
  ASSUME IndInv, DestroyAgain
  PROVE  IndInv'
<1> USE DEF DestroyAgain, Destroyed, IndInv, authority, history
<1>1. ControllerTypeOK'
  BY DEF ControllerTypeOK
<1>2. Fresh' /\ Apart' /\ Captured'
  BY DEF ControllerTypeOK, Fresh, Apart, Holding, Destroyable, Captured, Executing
<1>3. Turns' /\ NoUseAfterDestroy' /\ PermitInv'
  BY DEF Turns, Pending, NoUseAfterDestroy, PermitInv
<1>4. NoHandleEscapes' /\ RevokedHoldsNothing' /\ OwnsInstalled'
  BY DEF Turns, NoHandleEscapes, InFlight, RevokedHoldsNothing, OwnsInstalled, Destroyable
<1> QED BY <1>1, <1>2, <1>3, <1>4

LEMMA RegisterInv ==
  ASSUME IndInv, RegisterCredentialControls
  PROVE  IndInv'
<1> USE DEF RegisterCredentialControls, IndInv, authority, history
<1>1. ControllerTypeOK'
  BY DEF ControllerTypeOK
<1>2. Fresh' /\ Apart' /\ Captured'
  BY DEF Fresh, Apart, Holding, Captured, Executing
<1>3. Turns' /\ NoUseAfterDestroy' /\ PermitInv'
  BY DEF Turns, Pending, NoUseAfterDestroy, PermitInv
<1>4. NoHandleEscapes' /\ RevokedHoldsNothing' /\ OwnsInstalled'
  BY DEF NoHandleEscapes, InFlight, RevokedHoldsNothing, OwnsInstalled, Restored, UnlockIsCurrent, Usable
<1> QED BY <1>1, <1>2, <1>3, <1>4

-----------------------------------------------------------------------------
(* The page is spent by a transaction: it publishes its result, or fails.  *)
LEMMA FinishInv ==
  ASSUME IndInv, NEW x \in Transactions, NEW keep \in BOOLEAN, FinishOneShot(x, keep),
         NEW gone \in Destroyable(owned), Destroyed(gone, owned),
         tx' \in [Transactions -> TxCalls], account' \in AccountStates,
         \A y \in Transactions : tx'[y].handle = tx[y].handle /\ ~(Executing(y)' /\ ~Executing(y)),
         permit' \in Transactions \cup {None}, permit' # None => gone = owned
  PROVE  IndInv'
<1> USE DEF FinishOneShot, history
<1>1. Spent(owned)
  BY DEF Spent, Destroyed, IndInv, NoHandleEscapes
<1>2. ControllerTypeOK'
  <2>1. owned' \subseteq Handles /\ live' \subseteq Handles
    BY <1>1, SpentTypes DEF IndInv, ControllerTypeOK
  <2>2. generation' \in Nat
    BY DEF IndInv, ControllerTypeOK
  <2>3. revoked' \in BOOLEAN /\ activeTransaction' \in BOOLEAN /\ typed' \in BOOLEAN
    OBVIOUS
  <2>4. retained' \in BOOLEAN
    BY Zenon
  <2> QED BY <2>1, <2>2, <2>3, <2>4 DEF IndInv, ControllerTypeOK
<1>3. InFlight' = InFlight \ owned
  BY InFlightNotOwned DEF InFlight
<1>4. generation' >= generation /\ made' >= made /\ revoked' /\ handle' = 0 /\ secrets' = {} /\ ~typed'
  BY DEF IndInv, ControllerTypeOK
<1>5. owned \subseteq 1..made' /\ NoUseAfterDestroy'
  BY DEF IndInv, Fresh, NoUseAfterDestroy
<1>6. permit' # None => owned' = {}
  BY DEF Destroyed
<1> QED BY <1>1, <1>2, <1>3, <1>4, <1>5, <1>6, EndsInv

LEMMA OperationDoneInv ==
  ASSUME IndInv, NEW x \in Transactions, OperationDone(x)
  PROVE  IndInv'
<1> USE DEF OperationDone
<1>1. tx \in [Transactions -> TxCalls] /\ epoch \in Nat
  BY DEF IndInv, ControllerTypeOK
<1>2. /\ tx' \in [Transactions -> TxCalls]
      /\ \A y \in Transactions : tx'[y].handle = tx[y].handle /\ ~(Executing(y)' /\ ~Executing(y))
  <2>1. CASE tx' = [tx EXCEPT ![x].stage = "ended"]
    BY <1>1, <2>1 DEF TxCalls, TxStages, Executing
  <2>2. CASE tx' = [tx EXCEPT ![x] = [@ EXCEPT !.stage = "publishing", !.epoch = epoch]]
    <3> DEFINE c == [tx[x] EXCEPT !.stage = "publishing", !.epoch = epoch]
    <3>1. tx[x] \in TxCalls /\ "publishing" \in TxStages
      BY <1>1 DEF TxStages
    <3>2. c \in TxCalls /\ c.handle = tx[x].handle /\ c.stage = "publishing"
      BY ONLY <1>1, <3>1 DEF TxCalls
    <3>3. tx' = [tx EXCEPT ![x] = c]
      BY <2>2
    <3> HIDE DEF c
    <3> QED BY ONLY <1>1, <3>2, <3>3 DEF Executing
  <2> QED BY <2>1, <2>2
<1>3. account' \in AccountStates /\ tx[x].account \in BOOLEAN
  BY <1>1 DEF IndInv, ControllerTypeOK, TxCalls, AccountStates, AccountStages
<1>4. owned \in Destroyable(owned)
  BY DEF Destroyable
<1> QED BY <1>2, <1>3, <1>4, FinishInv

LEMMA TransactionFailsInv ==
  ASSUME IndInv, NEW x \in Transactions, TransactionFails(x)
  PROVE  IndInv'
<1> USE DEF TransactionFails
<1>1. /\ tx' \in [Transactions -> TxCalls]
      /\ \A y \in Transactions : tx'[y].handle = tx[y].handle /\ ~(Executing(y)' /\ ~Executing(y))
  BY DEF IndInv, ControllerTypeOK, TxCalls, TxStages, Executing
<1> QED BY <1>1, FinishInv DEF IndInv, ControllerTypeOK

LEMMA PrepareFailsInv ==
  ASSUME IndInv, NEW x \in Transactions, PrepareFails(x)
  PROVE  IndInv'
<1> USE DEF PrepareFails
<1>1. /\ tx' \in [Transactions -> TxCalls]
      /\ \A y \in Transactions : tx'[y].handle = tx[y].handle /\ ~(Executing(y)' /\ ~Executing(y))
  BY DEF IndInv, ControllerTypeOK, TxCalls, TxStages, Executing
<1>2. CASE tx[x].handle # 0 /\ IsCurrent(x)
  BY <1>1, <1>2, FinishInv DEF IndInv, ControllerTypeOK
<1>3. CASE ~(tx[x].handle # 0 /\ IsCurrent(x))
  <2>1. activeTransaction' = FALSE
        /\ UNCHANGED <<generation, epoch, revoked, destroyed, permit, holdings, unlock, history, account>>
    BY <1>3
  <2>2. ControllerTypeOK'
    BY <1>1, <2>1 DEF IndInv, ControllerTypeOK, holdings, history
  <2> QED BY <1>1, <2>1, <2>2, QuietInv DEF IndInv, Captured, Executing, holdings
<1> QED BY <1>2, <1>3
-----------------------------------------------------------------------------
(* Unlocks.                                                                *)
LEMMA UnlockBeginsInv ==
  ASSUME IndInv, NEW u \in Unlocks, UnlockBegins(u), secrets' \subseteq Unlocks,
         NEW c \in UnlockCalls, c.generation = generation + 1, c.handle = 0,
         c.stage \in {"idle", "deriving", "restoring"},
         unlock' = unlock \/ unlock' = [unlock EXCEPT ![u] = c]
  PROVE  IndInv'
<1> USE DEF UnlockBegins, Destroyed, IndInv, history
<1>1. ControllerTypeOK'
  <2>1. unlock' \in [Unlocks -> UnlockCalls]
    BY DEF ControllerTypeOK
  <2>2. generation' \in Nat /\ owned' \subseteq Handles /\ live' \subseteq Handles /\ handle' = 0
    BY DEF ControllerTypeOK
  <2> QED BY <2>1, <2>2 DEF ControllerTypeOK
<1>2. Fresh'
  BY DEF ControllerTypeOK, Fresh
<1>3. Apart' /\ Captured'
  BY DEF ControllerTypeOK, Apart, Holding, Captured, Executing
<1>4. Turns'
  BY DEF ControllerTypeOK, UnlockCalls, Usable, Turns, Pending
<1>5. InFlight' = InFlight
  BY DEF ControllerTypeOK, InFlight
<1>6. NoHandleEscapes' /\ NoUseAfterDestroy' /\ PermitInv'
  BY <1>5, InFlightNotOwned DEF NoHandleEscapes, NoUseAfterDestroy, PermitInv, Usable
<1>7. RevokedHoldsNothing' /\ OwnsInstalled'
  BY DEF ControllerTypeOK, Turns, RevokedHoldsNothing, OwnsInstalled, Restored, UnlockIsCurrent, Usable
<1> QED BY <1>1, <1>2, <1>3, <1>4, <1>6, <1>7

LEMMA UnlocksInv ==
  ASSUME IndInv, NEW u \in Unlocks,
         UnlockPassword(u) \/ UnlockLegacy(u) \/ UnlockRemembered(u) \/ CredentialsRefused(u)
  PROVE  IndInv'
<1> DEFINE Call(stage, remember) == [stage |-> stage, generation |-> generation + 1,
                                     handle |-> 0, remember |-> remember]
<1>1. \A stage \in UnlockStages, remember \in BOOLEAN : Call(stage, remember) \in UnlockCalls
  BY DEF IndInv, ControllerTypeOK, UnlockCalls
<1>2. CASE UnlockPassword(u)
  BY <1>1, <1>2, UnlockBeginsInv DEF UnlockPassword, Suspended, UnlockStages
<1>3. CASE UnlockLegacy(u)
  BY <1>1, <1>3, UnlockBeginsInv DEF UnlockLegacy, Suspended, UnlockStages
<1>4. CASE UnlockRemembered(u)
  BY <1>1, <1>4, UnlockBeginsInv DEF UnlockRemembered, Suspended, UnlockStages
<1>5. CASE CredentialsRefused(u)
  BY <1>1, <1>5, UnlockBeginsInv DEF CredentialsRefused, UnlockStages
<1> QED BY <1>2, <1>3, <1>4, <1>5

(* An unlock is given the handle native code has made for it.              *)
Given(c, s, h) == [c EXCEPT !.stage = s, !.handle = h]

LEMMA UnlockGiven ==
  ASSUME NEW c \in UnlockCalls, NEW s \in UnlockStages, NEW h \in Handles
  PROVE  /\ Given(c, s, h) \in UnlockCalls /\ Given(c, s, h).stage = s
         /\ Given(c, s, h).handle = h /\ Given(c, s, h).generation = c.generation
<1> DEFINE e == [c EXCEPT !.stage = s]
<1>1. e \in UnlockCalls /\ e.stage = s /\ e.generation = c.generation
  BY DEF UnlockCalls
<1> HIDE DEF e
<1> DEFINE d == [e EXCEPT !.handle = h]
<1>2. d \in UnlockCalls /\ d.stage = s /\ d.handle = h /\ d.generation = c.generation
  BY <1>1 DEF UnlockCalls
<1> QED  BY <1>2 DEF e, Given

(* Native code makes a handle for an unlock, which holds it ("derived") or *)
(* whose page owns it at once ("restored").                                *)
LEMMA NativeDerivesInv ==
  ASSUME IndInv, NEW u \in Unlocks, NativeDerives(u)
  PROVE  IndInv'
<1> USE DEF NativeDerives, IndInv, authority
<1>1. made' \in Handles /\ made' \notin live /\ made' \notin owned /\ made' # handle
  BY DEF ControllerTypeOK, Fresh, Handles
<1>2. unlock' \in [Unlocks -> UnlockCalls]
      /\ unlock'[u].stage = "derived" /\ unlock'[u].handle = made'
      /\ unlock'[u].generation = unlock[u].generation
      /\ \A v \in Unlocks : v # u => unlock'[v] = unlock[v]
  <2>1. unlock \in [Unlocks -> UnlockCalls] /\ "derived" \in UnlockStages
    BY DEF ControllerTypeOK, UnlockStages
  <2>2. unlock' = [unlock EXCEPT ![u] = [@ EXCEPT !.stage = "derived", !.handle = made']]
    OBVIOUS
  <2> DEFINE d == Given(unlock[u], "derived", made')
  <2>3. d \in UnlockCalls /\ d.stage = "derived" /\ d.handle = made' /\ d.generation = unlock[u].generation
    BY <1>1, <2>1, UnlockGiven
  <2>4. unlock' = [unlock EXCEPT ![u] = d]
    BY <2>2 DEF Given
  <2> HIDE DEF d
  <2> QED  BY <2>1, <2>3, <2>4
<1>3. ControllerTypeOK'
  BY <1>1, <1>2 DEF ControllerTypeOK
<1>4. Fresh'
  BY <1>1, <1>2 DEF ControllerTypeOK, UnlockCalls, TxCalls, Handles, Fresh
<1>5. Apart'
  BY <1>1, <1>2 DEF ControllerTypeOK, UnlockCalls, TxCalls, Handles, Fresh, Apart, Holding
<1>6. Turns' /\ Captured'
  BY <1>2 DEF Turns, Pending, Captured, Executing
<1>7. InFlight' = InFlight \cup {made'}
  BY <1>2 DEF InFlight
<1>8. NoHandleEscapes' /\ NoUseAfterDestroy' /\ RevokedHoldsNothing' /\ PermitInv'
  BY <1>7 DEF NoHandleEscapes, NoUseAfterDestroy, RevokedHoldsNothing, PermitInv
<1>9. Restored' = Restored
  BY <1>2 DEF Restored, UnlockIsCurrent, Usable
<1>10. OwnsInstalled'
  BY <1>9 DEF OwnsInstalled
<1> QED BY <1>3, <1>4, <1>5, <1>6, <1>8, <1>10

LEMMA RestoreOpensInv ==
  ASSUME IndInv, NEW u \in Unlocks, RestoreOpens(u)
  PROVE  IndInv'
<1> USE DEF RestoreOpens, IndInv, authority
<1>1. made' \in Handles /\ made' \notin live /\ made' \notin owned /\ made' # handle
  BY DEF ControllerTypeOK, Fresh, Handles
<1>2. unlock' \in [Unlocks -> UnlockCalls]
      /\ unlock'[u].stage = "restored" /\ unlock'[u].handle = made'
      /\ unlock'[u].generation = unlock[u].generation
      /\ \A v \in Unlocks : v # u => unlock'[v] = unlock[v]
  <2>1. unlock \in [Unlocks -> UnlockCalls] /\ "restored" \in UnlockStages
    BY DEF ControllerTypeOK, UnlockStages
  <2>2. unlock' = [unlock EXCEPT ![u] = [@ EXCEPT !.stage = "restored", !.handle = made']]
    OBVIOUS
  <2> DEFINE d == Given(unlock[u], "restored", made')
  <2>3. d \in UnlockCalls /\ d.stage = "restored" /\ d.handle = made' /\ d.generation = unlock[u].generation
    BY <1>1, <2>1, UnlockGiven
  <2>4. unlock' = [unlock EXCEPT ![u] = d]
    BY <2>2 DEF Given
  <2> HIDE DEF d
  <2> QED  BY <2>1, <2>3, <2>4
<1>3. ControllerTypeOK'
  BY <1>1, <1>2 DEF ControllerTypeOK
<1>4. Fresh'
  BY <1>1, <1>2 DEF ControllerTypeOK, UnlockCalls, TxCalls, Handles, Fresh
<1>5. Apart'
  BY <1>1, <1>2 DEF ControllerTypeOK, UnlockCalls, TxCalls, Handles, Fresh, Apart, Holding
<1>6. Turns' /\ Captured'
  BY <1>2 DEF Turns, Pending, Captured, Executing
<1>7. InFlight' = InFlight
  BY <1>2 DEF InFlight
<1>8. NoHandleEscapes' /\ NoUseAfterDestroy' /\ RevokedHoldsNothing' /\ PermitInv'
  BY <1>7 DEF NoHandleEscapes, NoUseAfterDestroy, RevokedHoldsNothing, PermitInv, UnlockIsCurrent, Usable
<1>9. handle = 0 /\ Restored = {} /\ Restored' = {made'}
  BY <1>2 DEF Restored, Turns, Pending, UnlockIsCurrent, Usable
<1>10. OwnsInstalled'
  BY <1>1, <1>9 DEF OwnsInstalled, UnlockIsCurrent, Usable, Handles, ControllerTypeOK
<1> QED BY <1>3, <1>4, <1>5, <1>6, <1>8, <1>10
(* An unlock ends, and no handle is made, installed or destroyed.          *)
LEMMA ReturnsInv ==
  ASSUME IndInv, NEW u \in Unlocks, unlock[u].stage \notin {"derived", "restored"},
         unlock' = [unlock EXCEPT ![u] = IdleUnlock], secrets' \subseteq secrets,
         made' \in made..MaxHandles, misused' = misused,
         UNCHANGED <<authority, handle, owned, live, retained, typed, tx, account>>
  PROVE  IndInv'
<1> USE DEF IndInv, authority
<1>1. /\ unlock' \in [Unlocks -> UnlockCalls]
      /\ unlock'[u] = IdleUnlock /\ \A v \in Unlocks : v # u => unlock'[v] = unlock[v]
  BY DEF ControllerTypeOK, UnlockCalls, UnlockStages, IdleUnlock
<1>2. ControllerTypeOK'
  BY <1>1 DEF ControllerTypeOK
<1>3. Fresh'
  BY <1>1 DEF ControllerTypeOK, UnlockCalls, TxCalls, Handles, IdleUnlock, Fresh
<1>4. Apart' /\ Turns' /\ Captured'
  BY <1>1 DEF IdleUnlock, Apart, Holding, Turns, Pending, Captured, Executing
<1>5. InFlight' = InFlight /\ Restored' = Restored
  BY <1>1 DEF IdleUnlock, InFlight, Restored, UnlockIsCurrent, Usable
<1>6. NoHandleEscapes' /\ NoUseAfterDestroy' /\ RevokedHoldsNothing' /\ OwnsInstalled' /\ PermitInv'
  BY <1>5 DEF NoHandleEscapes, NoUseAfterDestroy, RevokedHoldsNothing, OwnsInstalled, PermitInv
<1> QED BY <1>2, <1>3, <1>4, <1>6

LEMMA UnlockStopsInv ==
  ASSUME IndInv, NEW u \in Unlocks, UnlockFails(u) \/ SetupStops(u)
  PROVE  IndInv'
<1>1. made' \in made..MaxHandles /\ misused' = misused
  BY DEF UnlockFails, SetupStops, history, IndInv, ControllerTypeOK
<1> QED BY <1>1, ReturnsInv DEF UnlockFails, SetupStops, UnlockReturns

(* A handle is made for a check, its destruction fails, and the page is    *)
(* revoked.                                                                *)
LEMMA RevokeNewInv ==
  ASSUME IndInv, NEW u \in Unlocks, unlock[u].stage # "derived",
         unlock' = [unlock EXCEPT ![u] = IdleUnlock], Revocation(generation),
         made' \in Nat, made' = made + 1, made < MaxHandles, RevocationOfNew(made'), misused' = misused,
         UNCHANGED <<destroyed, tx>>
  PROVE  IndInv'
<1>1. /\ unlock' \in [Unlocks -> UnlockCalls]
      /\ unlock'[u] = IdleUnlock /\ \A v \in Unlocks : v # u => unlock'[v] = unlock[v]
  BY DEF IndInv, ControllerTypeOK, UnlockCalls, UnlockStages, IdleUnlock
<1>2. Spent(owned \cup {made'})
  BY DEF RevocationOfNew, Spent, IndInv, NoHandleEscapes
<1>3. made' \in made..MaxHandles /\ owned \cup {made'} \subseteq 1..made'
  BY DEF IndInv, ControllerTypeOK, Fresh
<1>4. made' \notin InFlight
  BY DEF IndInv, ControllerTypeOK, UnlockCalls, Handles, Fresh, InFlight
<1>5. InFlight' = InFlight
  BY <1>1 DEF InFlight, IdleUnlock
<1>6. InFlight' = InFlight \ (owned \cup {made'})
  BY <1>4, <1>5, InFlightNotOwned
<1>7. tx' \in [Transactions -> TxCalls] /\ destroyed' \in BOOLEAN
  BY DEF IndInv, ControllerTypeOK
<1>8. \A x \in Transactions : tx'[x].handle = tx[x].handle /\ (Executing(x)' => Executing(x))
  BY DEF Executing
<1> QED BY <1>1, <1>2, <1>3, <1>6, <1>7, <1>8, RevokeInv DEF RevocationOfNew

LEMMA RestoreMalformedInv ==
  ASSUME IndInv, NEW u \in Unlocks, RestoreMalformed(u)
  PROVE  IndInv'
<1> USE DEF RestoreMalformed
<1>1. made' \in made..MaxHandles /\ made' \in Nat /\ misused' = misused
  BY DEF IndInv, ControllerTypeOK
<1>2. CASE UNCHANGED <<authority, holdings, account>>
  BY <1>1, <1>2, ReturnsInv DEF holdings
<1>3. CASE Revocation(generation) /\ RevocationOfNew(made') /\ UNCHANGED destroyed
  BY <1>1, <1>3, RevokeNewInv
<1> QED BY <1>2, <1>3

(* setup uses the handle it installed, which is still the page's.          *)
LEMMA SetupSealsInv ==
  ASSUME IndInv, NEW u \in Unlocks, SetupSeals(u)
  PROVE  IndInv'
<1> USE DEF SetupSeals
<1>1. made' \in made..MaxHandles /\ made' \in Nat
  BY DEF IndInv, ControllerTypeOK
<1>2. misused' = misused
  BY DEF IndInv, SetupIsCurrent, Captured, NoHandleEscapes
<1>3. CASE UnlockReturns(u) /\ UNCHANGED <<authority, handle, owned, live, retained, typed, account>>
  BY <1>1, <1>2, <1>3, ReturnsInv DEF UnlockReturns
<1>4. CASE /\ Revocation(generation) /\ RevocationOfNew(made')
           /\ unlock' = [unlock EXCEPT ![u] = IdleUnlock] /\ UNCHANGED destroyed
  BY <1>1, <1>2, <1>4, RevokeNewInv
<1> QED BY <1>3, <1>4
(* The handle of an unlock is installed: until then nothing else was.      *)
LEMMA UnlockInstallsInv ==
  ASSUME IndInv, NEW u \in Unlocks, UnlockInstalls(u)
  PROVE  IndInv'
<1> USE DEF UnlockInstalls, IndInv, authority, history
<1> DEFINE h == unlock[u].handle
<1>1. h \in live \ owned /\ h # 0 /\ h \in Handles
  BY DEF ControllerTypeOK, UnlockCalls, Apart, Holding
<1>2. ~revoked /\ handle = 0 /\ Restored = {}
  BY DEF UnlockIsCurrent, Usable, Turns, Pending, Restored
<1>3. owned = {}
  BY <1>2 DEF OwnsInstalled
<1>4. /\ unlock' \in [Unlocks -> UnlockCalls] /\ secrets' \subseteq Unlocks
      /\ \A v \in Unlocks : v # u => unlock'[v] = unlock[v]
      /\ unlock'[u] = IdleUnlock \/ (unlock'[u].stage = "remembering" /\ unlock'[u].handle = h
                                     /\ unlock'[u].generation = unlock[u].generation)
  <2>1. unlock' = [unlock EXCEPT ![u] = IdleUnlock] \/ unlock' = [unlock EXCEPT ![u].stage = "remembering"]
    BY DEF UnlockReturns
  <2>2. secrets' \subseteq Unlocks
    BY DEF UnlockReturns, ControllerTypeOK
  <2>3. CASE unlock' = [unlock EXCEPT ![u] = IdleUnlock]
    BY <2>2, <2>3 DEF ControllerTypeOK, UnlockCalls, UnlockStages, IdleUnlock
  <2>4. CASE unlock' = [unlock EXCEPT ![u].stage = "remembering"]
    BY <2>2, <2>4 DEF ControllerTypeOK, UnlockCalls, UnlockStages
  <2> QED BY <2>1, <2>3, <2>4
<1>5. ControllerTypeOK'
  BY <1>1, <1>4 DEF ControllerTypeOK
<1>6. Fresh'
  BY <1>1, <1>4 DEF ControllerTypeOK, UnlockCalls, TxCalls, Handles, Fresh, IdleUnlock
<1>7. Apart'
  BY <1>1, <1>4 DEF Apart, Holding, IdleUnlock
<1>8. Turns' /\ Captured'
  BY <1>1, <1>2, <1>4 DEF UnlockIsCurrent, Usable, Turns, Pending, Captured, Executing, IdleUnlock
<1>9. InFlight' = InFlight \ {h}
  BY <1>4 DEF InFlight, Apart, Holding, IdleUnlock
<1>10. Restored' = {}
  BY <1>2, <1>4 DEF Restored, UnlockIsCurrent, Usable, IdleUnlock
<1>11. NoHandleEscapes' /\ NoUseAfterDestroy' /\ RevokedHoldsNothing' /\ OwnsInstalled' /\ PermitInv'
  BY <1>1, <1>2, <1>3, <1>9, <1>10
     DEF NoHandleEscapes, NoUseAfterDestroy, RevokedHoldsNothing, OwnsInstalled, PermitInv
<1> QED BY <1>5, <1>6, <1>7, <1>8, <1>11

LEMMA RestoreInstallsInv ==
  ASSUME IndInv, NEW u \in Unlocks, RestoreInstalls(u)
  PROVE  IndInv'
<1> USE DEF RestoreInstalls, IndInv, authority, history
<1> DEFINE h == unlock[u].handle
<1>1. h # 0 /\ h \in Handles
  BY DEF ControllerTypeOK, UnlockCalls, Apart, Holding
<1>2. ~revoked /\ handle = 0 /\ Restored = {h}
  BY DEF UnlockIsCurrent, Usable, Turns, Pending, Restored
<1>3. owned = {h}
  BY <1>1, <1>2 DEF OwnsInstalled
<1>4. /\ unlock' \in [Unlocks -> UnlockCalls]
      /\ unlock'[u] = IdleUnlock /\ \A v \in Unlocks : v # u => unlock'[v] = unlock[v]
  BY DEF ControllerTypeOK, UnlockCalls, UnlockStages, IdleUnlock
<1>5. ControllerTypeOK'
  BY <1>1, <1>4 DEF ControllerTypeOK
<1>6. Fresh'
  BY <1>1, <1>4 DEF ControllerTypeOK, UnlockCalls, TxCalls, Handles, Fresh, IdleUnlock
<1>7. Apart'
  BY <1>1, <1>4 DEF Apart, Holding, IdleUnlock
<1>8. Turns' /\ Captured'
  BY <1>2, <1>4 DEF UnlockIsCurrent, Usable, Turns, Pending, Captured, Executing, IdleUnlock
<1>9. InFlight' = InFlight
  BY <1>4 DEF InFlight, IdleUnlock
<1>10. Restored' = {}
  BY <1>2, <1>4 DEF Restored, UnlockIsCurrent, Usable, IdleUnlock, Turns
<1>11. NoHandleEscapes' /\ NoUseAfterDestroy' /\ RevokedHoldsNothing' /\ OwnsInstalled' /\ PermitInv'
  BY <1>1, <1>2, <1>3, <1>9, <1>10
     DEF NoHandleEscapes, NoUseAfterDestroy, RevokedHoldsNothing, OwnsInstalled, PermitInv
<1> QED BY <1>5, <1>6, <1>7, <1>8, <1>11

(* A replaced or revoked unlock gives up its handle, which is destroyed or *)
(* stays owned by a page that is revoked.                                  *)
LEMMA UnlockDiscardsInv ==
  ASSUME IndInv, NEW u \in Unlocks, UnlockDiscards(u)
  PROVE  IndInv'
<1> USE DEF UnlockDiscards
<1> DEFINE h == unlock[u].handle
<1>1. h \in live \ owned /\ h # 0 /\ h \in Handles
  BY DEF IndInv, ControllerTypeOK, UnlockCalls, Apart, Holding
<1>2. /\ unlock' \in [Unlocks -> UnlockCalls]
      /\ unlock'[u] = IdleUnlock /\ \A v \in Unlocks : v # u => unlock'[v] = unlock[v]
  BY DEF IndInv, ControllerTypeOK, UnlockCalls, UnlockStages, IdleUnlock
<1>3. InFlight' = InFlight \ {h}
  BY <1>2 DEF IndInv, InFlight, Apart, Holding, IdleUnlock
<1>4. CASE /\ Destroyed({h}, owned \cup {h}) /\ secrets' = secrets \ {u}
           /\ UNCHANGED <<authority, handle, retained, typed, account, tx, history>>
  <2> USE <1>4 DEF IndInv, authority, history
  <2>1. owned' = owned /\ live' = live \ {h}
    BY <1>1 DEF Destroyed
  <2>2. ControllerTypeOK'
    BY <1>2, <2>1 DEF ControllerTypeOK
  <2>3. Fresh'
    <3>1. made' = made /\ owned' \subseteq 1..made /\ live' \subseteq 1..made
      BY <2>1 DEF Fresh
    <3>2. \A v \in Unlocks : unlock'[v].handle <= made
      BY <1>2 DEF ControllerTypeOK, Fresh, IdleUnlock
    <3> QED BY <3>1, <3>2 DEF Fresh
  <2>4. Apart' /\ Turns' /\ Captured'
    BY <1>2, <2>1 DEF Apart, Holding, Turns, Pending, Captured, Executing, IdleUnlock
  <2>5. Restored' = Restored
    BY <1>2 DEF Restored, UnlockIsCurrent, Usable, IdleUnlock
  <2>6. NoHandleEscapes' /\ NoUseAfterDestroy' /\ RevokedHoldsNothing' /\ OwnsInstalled' /\ PermitInv'
    BY <1>1, <1>3, <2>1, <2>5
       DEF NoHandleEscapes, NoUseAfterDestroy, RevokedHoldsNothing, OwnsInstalled, PermitInv
  <2> QED BY <2>2, <2>3, <2>4, <2>6
<1>5. CASE /\ Revocation(generation) /\ RevocationHoldings(owned \cup {h})
           /\ UNCHANGED <<destroyed, tx, history>>
  <2> USE <1>5 DEF history
  <2>1. Spent(owned \cup {h})
    BY <1>1, HoldingsSpent DEF IndInv, NoHandleEscapes
  <2>2. made' \in made..MaxHandles /\ owned \cup {h} \subseteq 1..made'
    <3>1. made' = made /\ made \in 0..MaxHandles /\ owned \subseteq 1..made /\ h \in 1..made
      BY <1>1 DEF IndInv, ControllerTypeOK, Fresh
    <3> HIDE DEF h
    <3> QED BY <3>1
  <2>3. InFlight' = InFlight \ (owned \cup {h})
    BY <1>3, InFlightNotOwned
  <2>4. tx' \in [Transactions -> TxCalls] /\ destroyed' \in BOOLEAN
    BY DEF IndInv, ControllerTypeOK
  <2>5. \A x \in Transactions : tx'[x].handle = tx[x].handle /\ (Executing(x)' => Executing(x))
    BY DEF Executing
  <2> QED BY <1>2, <2>1, <2>2, <2>3, <2>4, <2>5, RevokeInv DEF RevocationHoldings
<1> QED BY <1>4, <1>5

LEMMA RestoreStaleInv ==
  ASSUME IndInv, NEW u \in Unlocks, RestoreStale(u)
  PROVE  IndInv'
<1> USE DEF RestoreStale
<1> DEFINE mine == {unlock[u].handle} \cap owned
<1>1. /\ unlock' \in [Unlocks -> UnlockCalls]
      /\ unlock'[u] = IdleUnlock /\ \A v \in Unlocks : v # u => unlock'[v] = unlock[v]
  BY DEF IndInv, ControllerTypeOK, UnlockCalls, UnlockStages, IdleUnlock
<1>2. InFlight' = InFlight
  BY <1>1 DEF IndInv, InFlight, IdleUnlock
<1>3. CASE Destroyed(mine, owned) /\ UNCHANGED <<authority, handle, secrets, retained, typed, account, tx, history>>
  <2> USE <1>3 DEF IndInv, authority, history
  <2>1. owned' = owned \ mine /\ live' = live \ mine
    BY DEF Destroyed
  <2>2. ControllerTypeOK'
    BY <1>1, <2>1 DEF ControllerTypeOK
  <2>3. Fresh'
    <3>1. made' = made /\ owned' \subseteq 1..made /\ live' \subseteq 1..made
      BY <2>1 DEF Fresh
    <3>2. \A v \in Unlocks : unlock'[v].handle <= made
      BY <1>1 DEF ControllerTypeOK, Fresh, IdleUnlock
    <3> QED BY <3>1, <3>2 DEF Fresh
  <2>4. Apart' /\ Turns' /\ Captured'
    BY <1>1, <2>1 DEF Apart, Holding, Turns, Pending, Captured, Executing, IdleUnlock
  <2>5. Restored' = Restored
    BY <1>1 DEF Restored, UnlockIsCurrent, Usable, IdleUnlock
  <2>6. ~revoked => mine = {}
    BY DEF OwnsInstalled, Apart, Holding, Restored
  <2>7. NoHandleEscapes'
    BY <1>2, <2>1 DEF NoHandleEscapes, Apart, Holding
  <2>8. NoUseAfterDestroy' /\ RevokedHoldsNothing' /\ OwnsInstalled' /\ PermitInv'
    BY <2>1, <2>5, <2>6 DEF NoUseAfterDestroy, RevokedHoldsNothing, OwnsInstalled, PermitInv
  <2> QED BY <2>2, <2>3, <2>4, <2>7, <2>8
<1>4. CASE /\ Revocation(generation) /\ RevocationHoldings(owned) /\ UNCHANGED <<destroyed, tx, history>>
  <2> USE <1>4 DEF history
  <2>1. Spent(owned)
    BY HoldingsSpent DEF IndInv, NoHandleEscapes
  <2>2. made' \in made..MaxHandles /\ owned \subseteq 1..made'
    BY DEF IndInv, ControllerTypeOK, Fresh
  <2>3. InFlight' = InFlight \ owned
    BY <1>2, InFlightNotOwned
  <2>4. tx' \in [Transactions -> TxCalls] /\ destroyed' \in BOOLEAN
    BY DEF IndInv, ControllerTypeOK
  <2>5. \A x \in Transactions : tx'[x].handle = tx[x].handle /\ (Executing(x)' => Executing(x))
    BY DEF Executing
  <2> QED BY <1>1, <2>1, <2>2, <2>3, <2>4, <2>5, RevokeInv DEF RevocationHoldings
<1> QED BY <1>3, <1>4

(* A stale transaction takes the handle it captured with it, if the page   *)
(* still owns that: then it is the installed one.                          *)
LEMMA TransactionStaleInv ==
  ASSUME IndInv, NEW x \in Transactions, TransactionStale(x)
  PROVE  IndInv'
<1> USE DEF TransactionStale
<1> DEFINE mine == {tx[x].handle} \cap owned
<1>1. /\ tx' \in [Transactions -> TxCalls]
      /\ \A y \in Transactions : tx'[y].handle = tx[y].handle /\ (Executing(y)' => Executing(y))
  BY DEF IndInv, ControllerTypeOK, TxCalls, TxStages, Executing
<1>2. InFlight' = InFlight
  BY DEF InFlight
<1>3. CASE /\ Destroyed(mine, owned) /\ handle' = IF handle \in mine THEN 0 ELSE handle
           /\ UNCHANGED <<authority, secrets, retained, typed, account, unlock, history>>
  <2> USE <1>3 DEF IndInv, authority, history
  <2>1. owned' = owned \ mine /\ live' = live \ mine
    BY DEF Destroyed
  <2>2. ControllerTypeOK'
    BY <1>1, <2>1 DEF ControllerTypeOK
  <2>3. Fresh'
    BY <1>1, <2>1 DEF ControllerTypeOK, Fresh
  <2>4. Apart' /\ Turns' /\ Captured'
    BY <1>1, <2>1 DEF Apart, Holding, Turns, Pending, Captured
  <2>5. NoHandleEscapes'
    BY <1>2, <2>1, InFlightNotOwned DEF NoHandleEscapes
  <2>6. Restored' = Restored /\ mine \cap Restored = {}
    BY DEF Restored, UnlockIsCurrent, Usable, Apart, Holding
  <2>7. OwnsInstalled'
    BY <2>1, <2>6 DEF OwnsInstalled
  <2>8. NoUseAfterDestroy' /\ RevokedHoldsNothing' /\ PermitInv'
    BY <2>1 DEF NoUseAfterDestroy, RevokedHoldsNothing, PermitInv
  <2> QED BY <2>2, <2>3, <2>4, <2>5, <2>7, <2>8
<1>4. CASE Revocation(generation) /\ RevocationHoldings(owned) /\ UNCHANGED <<destroyed, unlock, history>>
  <2> USE <1>4 DEF history
  <2>1. Spent(owned)
    BY HoldingsSpent DEF IndInv, NoHandleEscapes
  <2>2. made' \in made..MaxHandles /\ owned \subseteq 1..made'
    BY DEF IndInv, ControllerTypeOK, Fresh
  <2>3. InFlight' = InFlight \ owned
    BY <1>2, InFlightNotOwned
  <2>4. unlock' \in [Unlocks -> UnlockCalls] /\ destroyed' \in BOOLEAN
    BY DEF IndInv, ControllerTypeOK
  <2> QED BY <1>1, <2>1, <2>2, <2>3, <2>4, RevokeInv DEF RevocationHoldings
<1> QED BY <1>3, <1>4

-----------------------------------------------------------------------------
LEMMA StepHandlesInv == IndInv /\ [ControllerNext]_controllerVars => IndInv'
<1>1. ASSUME IndInv, ControllerNext PROVE IndInv'
  BY <1>1, RegisterInv, RevocationsInv, DestroyAgainInv, UnlocksInv, NativeDerivesInv, UnlockStopsInv,
     UnlockInstallsInv, UnlockDiscardsInv, RestoreOpensInv, RestoreMalformedInv, RestoreInstallsInv,
     RestoreStaleInv, SetupSealsInv, PrepareInv, PrepareReturnsInv, PrepareFailsInv,
     ExecutePreparedInv, AdvanceInv, OperationDoneInv, TransactionFailsInv, TransactionStaleInv,
     PublicationInv, AccountInv
     DEF ControllerNext
<1>2. ASSUME IndInv, UNCHANGED controllerVars PROVE IndInv'
  <2>1. UNCHANGED <<generation, epoch, revoked, destroyed, activeTransaction, permit, handle, owned, live,
                    secrets, retained, typed, unlock, tx, account, history>>
    BY <1>2 DEF controllerVars, authority, holdings, history
  <2>2. ControllerTypeOK'
    BY <1>2, <2>1 DEF IndInv, ControllerTypeOK, history
  <2> QED BY <1>2, <2>1, <2>2, QuietInv DEF IndInv, Captured, Executing
<1> QED BY <1>1, <1>2

LEMMA Invariant == ControllerSpec => []IndInv
BY InitHandlesInv, StepHandlesInv, PTL DEF ControllerSpec

(* A page that is not revoked owns one handle at the most: the installed   *)
(* one, or that of the latest unlock, before which nothing is installed.   *)
LEMMA OwnsOne == IndInv => OwnsOnlyInstalled
<1> SUFFICES ASSUME IndInv, ~revoked PROVE Cardinality(owned) <= 1 /\ owned = ({handle} \cup Restored) \ {0}
  BY DEF OwnsOnlyInstalled
<1> USE DEF IndInv
<1>1. owned = ({handle} \cup Restored) \ {0}
  BY DEF OwnsInstalled
<1>2. \A a, b \in Restored : a = b /\ handle = 0
  BY DEF Restored, UnlockIsCurrent, Turns, Pending
<1>3. owned = {} \/ \E a : owned = {a}
  BY <1>1, <1>2
<1>4. Cardinality(owned) <= 1
  <2>1. CASE owned = {}
    BY <2>1, FS_EmptySet
  <2>2. ASSUME NEW a, owned = {a} PROVE Cardinality(owned) <= 1
    <3>1. Cardinality({a}) = 1
      BY FS_Singleton
    <3> QED BY <2>2, <3>1
  <2> QED BY <1>3, <2>1, <2>2
<1> QED BY <1>1, <1>4

(* No native handle is lost: each one is owned by the page, so that every  *)
(* later revocation tries it again, or is about to reach the unlock that   *)
(* asked for it; and native code is never given one that is gone.          *)
THEOREM HandlesSafe == ControllerSpec => []HandlesAreAccountedFor
BY Invariant, PTL DEF IndInv, HandlesAreAccountedFor

(* A page that is not revoked owns the installed identity and no other; a  *)
(* revoked one holds no secret, and no handle but those that the native    *)
(* side refused to destroy.                                                *)
THEOREM HoldingsSafe == ControllerSpec => []HoldsOnlyItsIdentity
<1>1. IndInv => HoldsOnlyItsIdentity
  BY OwnsOne DEF IndInv, HoldsOnlyItsIdentity
<1> QED BY Invariant, <1>1, PTL

(* While a result may still be published the page holds nothing.           *)
THEOREM PublicationSafe == ControllerSpec => []PermitMeansClean
<1>1. IndInv => PermitMeansClean
  BY DEF IndInv, PermitInv, RevokedHoldsNothing, PermitMeansClean
<1> QED BY Invariant, <1>1, PTL

(* What other steps do to the account result.                              *)

-----------------------------------------------------------------------------
(* One result at most.  The first one finds the page neither revoked nor   *)
(* destroyed, so that nothing was revoked before it, and leaves it revoked *)
(* for good, so that no second one follows.                                *)
HasResult(x) == tx[x].stage \in {"publishing", "navigated"}

ResultInv ==
  /\ ~revoked => epoch = 0
  /\ \A x \in Transactions : HasResult(x) =>
       /\ revoked /\ tx[x].epoch = 0 /\ account.stage = "none"
       /\ \A y \in Transactions : HasResult(y) => x = y
  /\ account.stage # "none" => revoked /\ account.epoch = 0

(* What keeps the results there are and makes none.                        *)
LEMMA ResultsStay ==
  ASSUME ResultInv,
         revoked => revoked', revoked' \/ epoch' = epoch,
         account'.stage = "none" \/ (account'.epoch = account.epoch /\ account.stage # "none"),
         \A x \in Transactions : HasResult(x)' => HasResult(x) /\ tx'[x].epoch = tx[x].epoch
  PROVE  ResultInv'
BY DEF ResultInv

(* What becomes of the results a transaction has or has not when it moves, *)
(* short of making one.                                                    *)
LEMMA TransactionResults ==
  ASSUME IndInv, ResultInv, NEW x \in Transactions,
         \/ Prepare(x) \/ PrepareReturns(x) \/ PrepareFails(x) \/ ExecutePrepared(x)
         \/ Advance(x) \/ TransactionFails(x) \/ TransactionStale(x)
         \/ Navigate(x) \/ PublicationFails(x)
  PROVE  \A y \in Transactions : HasResult(y)' => HasResult(y) /\ tx'[y].epoch = tx[y].epoch
<1>1. tx \in [Transactions -> TxCalls]
  BY DEF IndInv, ControllerTypeOK
<1>2. CASE Prepare(x)
  <2>1. PICK h \in {0, handle} : tx' = [tx EXCEPT ![x] =
          [@ EXCEPT !.stage = "preparing", !.generation = generation, !.handle = h]]
    BY <1>2 DEF Prepare
  <2> QED BY ONLY <1>1, <2>1 DEF TxCalls, HasResult
<1>3. CASE ExecutePrepared(x)
  <2>1. CASE Usable /\ handle # 0
    <3>1. PICK a \in BOOLEAN : tx' = [tx EXCEPT ![x] =
            [@ EXCEPT !.stage = "validating", !.generation = generation,
                      !.handle = handle, !.account = a]]
      BY <1>3, <2>1 DEF ExecutePrepared
    <3> QED BY ONLY <1>1, <3>1 DEF TxCalls, HasResult
  <2>2. CASE ~(Usable /\ handle # 0)
    <3>1. tx' = [tx EXCEPT ![x].stage = "ended"]
      BY <1>3, <2>2 DEF ExecutePrepared
    <3> QED BY ONLY <1>1, <3>1 DEF TxCalls, HasResult
  <2> QED BY <2>1, <2>2
<1>4. CASE PrepareReturns(x) \/ Advance(x)
  <2>1. PICK s \in TxStages \ {"publishing", "navigated"} : tx' = [tx EXCEPT ![x].stage = s]
    BY <1>4 DEF PrepareReturns, Advance, NextStages, TxStages
  <2> QED BY ONLY <1>1, <2>1 DEF TxCalls, HasResult
<1>5. CASE PrepareFails(x) \/ TransactionFails(x) \/ TransactionStale(x) \/ PublicationFails(x)
  <2>1. tx' = [tx EXCEPT ![x].stage = "ended"]
    BY <1>5 DEF PrepareFails, TransactionFails, TransactionStale, PublicationFails
  <2> QED BY ONLY <1>1, <2>1 DEF TxCalls, HasResult
<1>6. CASE Navigate(x)
  <2>1. tx' = [tx EXCEPT ![x].stage = "navigated"] /\ tx[x].stage = "publishing"
    BY <1>6 DEF Navigate
  <2> QED BY ONLY <1>1, <2>1 DEF TxCalls, HasResult
<1> QED BY <1>2, <1>3, <1>4, <1>5, <1>6

LEMMA TransactionKeepsResults ==
  ASSUME IndInv, ResultInv, NEW x \in Transactions,
         \/ Prepare(x) \/ PrepareReturns(x) \/ PrepareFails(x) \/ ExecutePrepared(x)
         \/ Advance(x) \/ TransactionFails(x) \/ TransactionStale(x)
         \/ Navigate(x) \/ PublicationFails(x)
  PROVE  ResultInv'
<1>1. \A y \in Transactions : HasResult(y)' => HasResult(y) /\ tx'[y].epoch = tx[y].epoch
  BY TransactionResults
<1>2. CASE \/ Prepare(x) \/ PrepareReturns(x) \/ ExecutePrepared(x) \/ Advance(x)
           \/ Navigate(x) \/ PublicationFails(x)
  <2>1. UNCHANGED <<account, revoked, epoch>>
    BY <1>2 DEF Prepare, PrepareReturns, ExecutePrepared, Advance, Navigate, PublicationFails,
                authority
  <2> QED BY <1>1, <2>1, ResultsStay
<1>3. CASE PrepareFails(x) \/ TransactionFails(x)
  <2>1. UNCHANGED <<account, epoch>> /\ (revoked' = revoked \/ revoked' = TRUE)
    BY <1>3 DEF PrepareFails, TransactionFails, FinishOneShot
  <2> QED BY <1>1, <2>1, ResultsStay
<1>4. CASE TransactionStale(x)
  <2>1. UNCHANGED <<account, revoked, epoch>>
        \/ (revoked' /\ (account'.stage = "none" \/ account' = account))
    BY <1>4 DEF TransactionStale, Revocation, NoAccount, authority
  <2> QED BY <1>1, <2>1, ResultsStay
<1> QED BY <1>2, <1>3, <1>4

LEMMA OperationGivesResult ==
  ASSUME IndInv, ResultInv, NEW x \in Transactions, OperationDone(x)
  PROVE  ResultInv'
<1>1. ~revoked /\ epoch = 0 /\ revoked' = TRUE /\ epoch' = 0
  BY DEF OperationDone, IsCurrent, Usable, ResultInv, FinishOneShot
<1>2. account.stage = "none" /\ \A y \in Transactions : ~HasResult(y)
  BY <1>1 DEF ResultInv
<1>3. tx \in [Transactions -> TxCalls]
  BY DEF IndInv, ControllerTypeOK
<1>4. CASE tx[x].account
  <2>1. tx' = [tx EXCEPT ![x].stage = "ended"] /\ account' = [stage |-> "ready", epoch |-> 0, permit |-> x]
    BY <1>1, <1>4 DEF OperationDone
  <2>2. \A y \in Transactions : ~HasResult(y)'
    BY ONLY <1>2, <1>3, <2>1 DEF TxCalls, HasResult
  <2> QED BY <1>1, <2>1, <2>2 DEF ResultInv
<1>5. CASE ~tx[x].account
  <2>1. tx' = [tx EXCEPT ![x] = [@ EXCEPT !.stage = "publishing", !.epoch = 0]] /\ account' = account
    BY <1>1, <1>5 DEF OperationDone
  <2>2. tx'[x].epoch = 0 /\ \A y \in Transactions : HasResult(y)' => y = x
    BY ONLY <1>2, <1>3, <2>1 DEF TxCalls, HasResult
  <2> QED BY <1>1, <1>2, <2>1, <2>2 DEF ResultInv
<1> QED BY <1>4, <1>5

LEMMA ResultStep == IndInv /\ ResultInv /\ [ControllerNext]_controllerVars => ResultInv'
<1> SUFFICES ASSUME IndInv, ResultInv, [ControllerNext]_controllerVars PROVE ResultInv'
  OBVIOUS
<1>1. ASSUME NEW g, Revocation(g), tx' = tx PROVE ResultInv'
  <2>1. revoked' /\ (account'.stage = "none" \/ account' = account)
    BY <1>1 DEF Revocation, NoAccount
  <2>2. \A x \in Transactions : HasResult(x)' => HasResult(x) /\ tx'[x].epoch = tx[x].epoch
    BY <1>1 DEF HasResult
  <2> QED BY <2>1, <2>2, ResultsStay
<1>2. ASSUME UNCHANGED <<revoked, epoch, account, tx>> PROVE ResultInv'
  BY <1>2 DEF ResultInv, HasResult
<1>3. CASE \E u \in Unlocks : UnlockRefused(u) \/ UnlockDiscards(u) \/ RestoreMalformed(u)
                             \/ RestoreStale(u) \/ SetupSeals(u)
  BY <1>1, <1>2, <1>3
     DEF UnlockRefused, UnlockDiscards, RestoreMalformed, RestoreStale, SetupSeals, authority
<1>4. CASE Lifecycle \/ Logout \/ Destroy
  BY <1>1, <1>4 DEF Lifecycle, Logout, Destroy, RevokeNow
<1>5. CASE \E x \in Transactions :
             \/ Prepare(x) \/ PrepareReturns(x) \/ PrepareFails(x) \/ ExecutePrepared(x)
             \/ Advance(x) \/ TransactionFails(x) \/ TransactionStale(x)
             \/ Navigate(x) \/ PublicationFails(x)
  BY <1>5, TransactionKeepsResults
<1>6. CASE \E x \in Transactions : OperationDone(x)
  BY <1>6, OperationGivesResult
<1>7. CASE LeaveAccount \/ NavigateAccount \/ AccountFails
  <2>1. account \in AccountStates /\ account.stage # "none"
    BY <1>7 DEF LeaveAccount, NavigateAccount, AccountFails, IndInv, ControllerTypeOK
  <2>2. PICK s : account' = [account EXCEPT !.stage = s]
    BY <1>7 DEF LeaveAccount, NavigateAccount, AccountFails
  <2>3. account'.epoch = account.epoch
    BY ONLY <2>1, <2>2 DEF AccountStates
  <2>4. UNCHANGED <<tx, revoked, epoch>>
    BY <1>7 DEF LeaveAccount, NavigateAccount, AccountFails
  <2> QED BY <2>1, <2>3, <2>4, ResultsStay DEF HasResult
<1>8. CASE \/ RegisterCredentialControls \/ DestroyAgain
           \/ \E u \in Unlocks :
                \/ UnlockPassword(u) \/ UnlockLegacy(u) \/ UnlockRemembered(u)
                \/ CredentialsRefused(u) \/ NativeDerives(u) \/ UnlockFails(u)
                \/ UnlockInstalls(u) \/ RestoreOpens(u) \/ RestoreInstalls(u) \/ SetupStops(u)
  BY <1>2, <1>8
     DEF RegisterCredentialControls, DestroyAgain, UnlockPassword, UnlockLegacy, UnlockRemembered,
         CredentialsRefused, UnlockBegins, NativeDerives, UnlockFails, UnlockInstalls, RestoreOpens,
         RestoreInstalls, SetupStops, authority
<1>9. CASE UNCHANGED controllerVars
  BY <1>2, <1>9 DEF controllerVars, authority
<1> QED BY <1>3, <1>4, <1>5, <1>6, <1>7, <1>8, <1>9 DEF ControllerNext

LEMMA AccountMoves ==
  ASSUME ControllerNext, ~NavigateAccount
  PROVE  account' \in {account, NoAccount, [account EXCEPT !.stage = "publishing"]}
         \/ account'.stage \in {"ready", "ended"}
<1>1. ASSUME NEW g, Revocation(g) PROVE account' \in {account, NoAccount}
  BY <1>1 DEF Revocation
<1>2. CASE \E u \in Unlocks : UnlockRefused(u) \/ UnlockDiscards(u) \/ RestoreMalformed(u)
                             \/ RestoreStale(u) \/ SetupSeals(u)
  BY <1>1, <1>2 DEF UnlockRefused, UnlockDiscards, RestoreMalformed, RestoreStale, SetupSeals
<1>3. CASE Lifecycle \/ Logout \/ Destroy
  BY <1>1, <1>3 DEF Lifecycle, Logout, Destroy, RevokeNow
<1>4. CASE \E x \in Transactions : TransactionStale(x)
  BY <1>1, <1>4 DEF TransactionStale
<1>5. CASE \E x \in Transactions : OperationDone(x)
  BY <1>5 DEF OperationDone
<1>6. CASE LeaveAccount \/ AccountFails
  BY <1>6 DEF LeaveAccount, AccountFails
<1>7. CASE UNCHANGED account
  BY <1>7
<1> QED BY <1>2, <1>3, <1>4, <1>5, <1>6, <1>7
      DEF ControllerNext, RegisterCredentialControls, DestroyAgain, UnlockPassword, UnlockLegacy,
          UnlockRemembered, CredentialsRefused, UnlockBegins, NativeDerives, UnlockFails, UnlockInstalls,
          RestoreOpens, RestoreInstalls, SetupStops, Prepare, PrepareReturns, PrepareFails,
          ExecutePrepared, Advance, TransactionFails, Navigate, PublicationFails

(* Only the two navigations take a result out of the page.                 *)
LEMMA NothingElseLeaves ==
  ASSUME IndInv, ResultInv, ControllerNext, ~NavigateAccount,
         \A x \in Transactions : ~Navigate(x)
  PROVE  ~ResultLeaves
<1>1. ASSUME NEW y \in Transactions, tx[y].stage = "publishing", tx'[y].stage = "navigated"
      PROVE  FALSE
  <2> USE <1>1 DEF IndInv, ControllerTypeOK, TxCalls
  <2>1. PICK x \in Transactions : Prepare(x) \/ PrepareReturns(x) \/ PrepareFails(x)
           \/ ExecutePrepared(x) \/ Advance(x) \/ OperationDone(x) \/ TransactionFails(x)
           \/ TransactionStale(x) \/ PublicationFails(x)
    <3>1. tx' # tx
      OBVIOUS
    <3> QED BY <3>1 DEF ControllerNext, RegisterCredentialControls, Lifecycle, Logout, Destroy,
              DestroyAgain, RevokeNow, UnlockPassword, UnlockLegacy, UnlockRemembered,
              CredentialsRefused, UnlockBegins, UnlockRefused, NativeDerives, UnlockFails,
              UnlockInstalls, UnlockDiscards, RestoreOpens, RestoreMalformed, RestoreInstalls,
              RestoreStale, SetupSeals, SetupStops, LeaveAccount, AccountFails
  <2>2. x = y
    BY <2>1 DEF Prepare, PrepareReturns, PrepareFails, ExecutePrepared, Advance, OperationDone,
                TransactionFails, TransactionStale, PublicationFails
  <2> QED BY <2>1, <2>2, ZenonT(60)
         DEF Prepare, PrepareReturns, PrepareFails, ExecutePrepared, Advance, NextStages,
             OperationDone, TransactionFails, TransactionStale, PublicationFails, Executing
<1>2. ~(account.stage = "publishing" /\ account'.stage = "navigated")
  BY AccountMoves DEF IndInv, ControllerTypeOK, AccountStates, NoAccount
<1> QED BY <1>1, <1>2 DEF ResultLeaves

(* A navigation takes the one result there is.                             *)
LEMMA OneLeaves ==
  ASSUME IndInv, ResultInv, ControllerNext, ResultLeaves
  PROVE  ~ResultLeft /\ epoch = 0 /\ ~destroyed
<1>1. CASE \E x \in Transactions : Navigate(x)
  <2>1. PICK x \in Transactions : Navigate(x)
    BY <1>1
  <2>2. HasResult(x) /\ tx[x].stage = "publishing" /\ epoch = tx[x].epoch /\ ~destroyed
    BY <2>1 DEF Navigate, PublicationCurrent, HasResult
  <2>3. ~ResultLeft
    BY <2>2 DEF ResultInv, ResultLeft, HasResult
  <2> QED BY <2>2, <2>3 DEF ResultInv
<1>2. CASE NavigateAccount
  <2>1. account.stage = "publishing" /\ epoch = account.epoch /\ ~destroyed
    BY <1>2 DEF NavigateAccount, PublicationCurrent
  <2> QED BY <2>1 DEF ResultInv, ResultLeft, HasResult
<1>3. CASE ~NavigateAccount /\ \A x \in Transactions : ~Navigate(x)
  BY <1>3, NothingElseLeaves
<1> QED BY <1>1, <1>2, <1>3

(* A page sends at most one result back, and none once it was ever revoked *)
(* or destroyed, for any number of unlocks, transactions and handles: the  *)
(* first result spends the page (#finishOneShot), and only a page that was *)
(* never revoked has one (#assertCurrent, #assertPublicationCurrent).      *)
THEOREM OneResult == ControllerSpec => OneResultPerPage
<1>1. ControllerInit => ResultInv
  BY DEF ControllerInit, ResultInv, HasResult, NewTx, NoAccount
<1>2. IndInv /\ ResultInv /\ [ControllerNext]_controllerVars
        => [ResultLeaves => ~ResultLeft /\ epoch = 0 /\ ~destroyed]_controllerVars
  BY OneLeaves
<1> QED BY Invariant, <1>1, <1>2, ResultStep, PTL DEF ControllerSpec, OneResultPerPage
=============================================================================
