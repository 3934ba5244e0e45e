---------------------------- MODULE NativeProofs ----------------------------
(***************************************************************************)
(* Proofs about the native state behind the package of the wallet: the     *)
(* identities of SdnIdentity, for any number of slots and of password      *)
(* derivations that interleave, and the instances and keys of              *)
(* WasmInstances, for any number of copies, loads and keys, and the calls  *)
(* of the wrappers (WasmCalls), for every wrapper of WasmBindings and      *)
(* WasmCapabilities.                                                       *)
(***************************************************************************)
EXTENDS WasmCapabilities, SdnIdentity, WasmInstances, FiniteSetTheorems, SequenceTheorems,
        TLAPS

LEMMA AtMostOne ==
  ASSUME NEW S, NEW a, S \subseteq {a}
  PROVE  Cardinality(S) <= 1
<1>1. IsFiniteSet({a}) /\ Cardinality({a}) = 1
  BY FS_Singleton
<1>2. Cardinality(S) <= Cardinality({a})
  BY <1>1, FS_Subset
<1> QED BY <1>1, <1>2

LEMMA EmptyOrOne == Cardinality({}) <= 1 /\ \A a : Cardinality({a}) <= 1
BY FS_EmptySet, FS_Singleton

(***************************************************************************)
(* The native identities.                                                  *)
(***************************************************************************)
USE SlotsAssumption

(* Values are opened in order, and nothing but the values opened so far is *)
(* held or recorded.  A queued identity has no handle, so nobody but the   *)
(* next drain can close its slot: this is what keeps the queue within the  *)
(* slots.                                                                  *)
ValuesInv ==
  /\ slots \subseteq 1..made /\ held \subseteq 1..made
  /\ \A v \in Values : v > made => record[v] = "none"
  /\ queue \subseteq slots
  /\ \A v \in queue : record[v] = "none"
  /\ queue = {} \/ \E v \in Values : queue = {v}

ActiveIsOpen == \A v \in Values : record[v] = "active" => v \in slots

DerivationsInv == \A c \in Calls : call[c] \in {"returned", "failed"} => kdf[c] # "secrets"

SdnInv == SdnTypeOK /\ ValuesInv /\ ActiveIsOpen /\ DerivationsInv

(* What a call does to the native identities, whichever call it is.        *)
Kept == SdnTypeOK /\ ValuesInv /\ ActiveIsOpen

LEMMA SdnInitInv == SdnInit => SdnInv
BY DEF SdnInit, SdnInv, SdnTypeOK, ValuesInv, ActiveIsOpen, DerivationsInv, Values

(* The outcomes of a call that opens an identity and keeps what it opened: *)
(* the queue is drained first, whatever the new identity is recorded as.   *)
LEMMA OpensInv ==
  ASSUME Kept, CanOpen, made' = made + 1,
         slots' = Drained \/ slots' = Drained \union {made'},
         queue' = {} \/ queue' = {made'},
         queue' \subseteq slots',
         NEW s \in {"none", "active", "destroy-pending", "destroyed"},
         record' = [record EXCEPT ![made'] = s],
         s = "active" => slots' = Drained \union {made'},
         queue' # {} => s = "none",
         held' = held \/ held' = held \union {made'},
         call' \in [Calls -> {"idle", "instance", "deriving", "returned", "failed"}],
         kdf' \in [Calls -> {"none", "secrets", "zeroed"}]
  PROVE  Kept'
<1> USE DEF Kept, Drained, Values
<1>1. made \in Nat /\ made' \in Values /\ made' \notin slots
  BY DEF SdnTypeOK, ValuesInv, CanOpen
<1>2. SdnTypeOK'
  <2>1. slots' \subseteq Values /\ queue' \subseteq Values /\ held' \subseteq Values
    BY <1>1 DEF SdnTypeOK
  <2>2. made' \in 0..MaxValues
    BY <1>1
  <2>3. record' \in [Values -> {"none", "active", "destroy-pending", "destroyed"}]
    BY <1>1 DEF SdnTypeOK
  <2> QED BY <2>1, <2>2, <2>3 DEF SdnTypeOK
<1>3. \A v \in Values : record'[v] = IF v = made' THEN s ELSE record[v]
  BY <1>1 DEF SdnTypeOK
<1>4. ValuesInv'
  <2>1. 1..made \subseteq 1..made' /\ made' \in 1..made'
    BY <1>1
  <2>4. slots' \subseteq 1..made' /\ held' \subseteq 1..made'
    BY <2>1 DEF ValuesInv
  <2>2. \A v \in Values : v > made' => record'[v] = "none"
    BY <1>1, <1>3 DEF ValuesInv
  <2>3. \A v \in queue' : record'[v] = "none"
    BY <1>1, <1>3
  <2> QED BY <1>1, <2>4, <2>2, <2>3 DEF ValuesInv
<1>5. ActiveIsOpen'
  BY <1>1, <1>3 DEF ActiveIsOpen, ValuesInv
<1> QED BY <1>2, <1>4, <1>5

(* The drain destroys queued identities and nothing is opened.             *)
LEMMA DrainsInv ==
  ASSUME Kept, NEW gone \in SUBSET queue, slots' = slots \ gone, queue' = queue \ gone,
         UNCHANGED <<made, record, held>>,
         call' \in [Calls -> {"idle", "instance", "deriving", "returned", "failed"}],
         kdf' \in [Calls -> {"none", "secrets", "zeroed"}]
  PROVE  Kept'
<1>1. SdnTypeOK'
  BY DEF Kept, SdnTypeOK
<1>2. ValuesInv'
  BY DEF Kept, ValuesInv
<1>3. ActiveIsOpen'
  BY DEF Kept, ValuesInv, ActiveIsOpen
<1> QED BY <1>1, <1>2, <1>3 DEF Kept

LEMMA DeriveInv ==
  ASSUME Kept, Issued \/ DeriveFails, held' = held \/ (Issued /\ held' = held \union {made'}),
         call' \in [Calls -> {"idle", "instance", "deriving", "returned", "failed"}],
         kdf' \in [Calls -> {"none", "secrets", "zeroed"}]
  PROVE  Kept'
<1>1. CASE Issued
  BY <1>1, OpensInv DEF Issued
<1>2. CASE DeriveFails /\ ~Issued
  <2>1. UNCHANGED held
    BY <1>2
  <2>2. CASE DrainFails
    BY <2>1, <2>2, DrainsInv DEF DrainFails
  <2>3. CASE Refused
    BY <2>1, <2>3, DrainsInv DEF Refused, Drained
  <2>4. CASE RolledBack \/ RollbackFails
    <3>1. record' = [record EXCEPT ![made'] = "none"]
      BY <2>4 DEF RolledBack, RollbackFails, CanOpen, Kept, SdnTypeOK, ValuesInv, Values
    <3>2. CASE RolledBack
      BY <2>1, <3>1, <3>2, OpensInv DEF RolledBack
    <3>3. CASE RollbackFails
      BY <2>1, <3>1, <3>3, OpensInv DEF RollbackFails
    <3> QED BY <2>4, <3>2, <3>3
  <2> QED BY <1>2, <2>2, <2>3, <2>4 DEF DeriveFails
<1> QED BY <1>1, <1>2

LEMMA EndsCall ==
  ASSUME SdnTypeOK, DerivationsInv, NEW c \in Calls, NEW how \in {"returned", "failed"}, Ends(c, how)
  PROVE  /\ call' \in [Calls -> {"idle", "instance", "deriving", "returned", "failed"}]
         /\ kdf' \in [Calls -> {"none", "secrets", "zeroed"}]
         /\ DerivationsInv'
BY DEF SdnTypeOK, DerivationsInv, Ends

LEMMA SdnStepInv == SdnInv /\ [SdnNext]_sdnVars => SdnInv'
<1> SUFFICES ASSUME SdnInv, [SdnNext]_sdnVars PROVE Kept' /\ DerivationsInv'
  BY DEF Kept, SdnInv
<1>1. Kept /\ SdnTypeOK /\ DerivationsInv
  BY DEF Kept, SdnInv
<1>2. CASE Derive
  <2>1. UNCHANGED <<call, kdf>>
    BY <1>2 DEF Derive
  <2>2. Kept'
    BY <1>1, <1>2, <2>1, DeriveInv DEF Derive, SdnTypeOK
  <2> QED BY <1>1, <2>1, <2>2 DEF DerivationsInv
<1>3. ASSUME NEW c \in Calls, Password(c) \/ InstanceLoads(c) PROVE Kept' /\ DerivationsInv'
  <2>1. UNCHANGED <<slots, made, record, queue, held>>
    BY <1>3 DEF Password, InstanceLoads
  <2>2. SdnTypeOK' /\ DerivationsInv'
    BY <1>1, <1>3, <2>1 DEF Password, InstanceLoads, SdnTypeOK, DerivationsInv
  <2> QED BY <1>1, <2>1, <2>2 DEF Kept, ValuesInv, ActiveIsOpen
<1>4. ASSUME NEW c \in Calls, PasswordFails(c) \/ TransferFails(c) PROVE Kept' /\ DerivationsInv'
  <2>1. Ends(c, "failed") /\ UNCHANGED <<slots, made, record, queue, held>>
    BY <1>4 DEF PasswordFails, TransferFails
  <2> QED BY <1>1, <2>1, EndsCall DEF Kept, SdnTypeOK, ValuesInv, ActiveIsOpen
<1>5. ASSUME NEW c \in Calls, OpenFails(c) \/ Transferred(c) \/ CleanupFails(c)
      PROVE  Kept' /\ DerivationsInv'
  <2>1. PICK how \in {"returned", "failed"} : Ends(c, how)
    BY <1>5 DEF OpenFails, Transferred, CleanupFails
  <2>2. Issued \/ DeriveFails
    BY <1>5 DEF OpenFails, Transferred, CleanupFails
  <2>3. held' = held \/ (Issued /\ held' = held \union {made'})
    BY <1>5 DEF OpenFails, Transferred, CleanupFails
  <2> QED BY <1>1, <2>1, <2>2, <2>3, EndsCall, DeriveInv
<1>6. ASSUME NEW c \in Calls, TransferDiffers(c) PROVE Kept' /\ DerivationsInv'
  BY <1>1, <1>6, EndsCall, OpensInv DEF TransferDiffers
<1>7. ASSUME NEW c \in Calls, TransferDiffersDestroyThrows(c) PROVE Kept' /\ DerivationsInv'
  BY <1>1, <1>7, EndsCall, OpensInv DEF TransferDiffersDestroyThrows
<1>8. ASSUME NEW v \in Values, DestroyIdentity(v) \/ DestroyIdentityThrows(v)
      PROVE  Kept' /\ DerivationsInv'
  <2>1. v \notin queue
    BY <1>1, <1>8 DEF DestroyIdentity, DestroyIdentityThrows, Kept, ValuesInv
  <2>2. PICK s \in {"destroyed", "destroy-pending"} : record' = [record EXCEPT ![v] = s]
    BY <1>8 DEF DestroyIdentity, DestroyIdentityThrows
  <2>3. slots' = slots \/ slots' = slots \ {v}
    BY <1>8 DEF DestroyIdentity, DestroyIdentityThrows
  <2>4. v \in held /\ UNCHANGED <<made, queue, held, call, kdf>>
    BY <1>8 DEF DestroyIdentity, DestroyIdentityThrows
  <2>5. SdnTypeOK'
    BY <1>1, <2>2, <2>3, <2>4 DEF SdnTypeOK
  <2>6. ValuesInv'
    <3>1. \A w \in Values : w # v => record'[w] = record[w]
      BY <1>1, <2>2 DEF SdnTypeOK
    <3>2. v \in 1..made /\ made' = made /\ made \in Nat
      BY <1>1, <2>4 DEF Kept, ValuesInv, SdnTypeOK
    <3>3. slots' \subseteq 1..made' /\ held' \subseteq 1..made'
      BY <1>1, <2>3, <2>4 DEF Kept, ValuesInv
    <3>4. \A w \in Values : w > made' => record'[w] = "none"
      BY <1>1, <3>1, <3>2 DEF Kept, ValuesInv
    <3>5. queue' \subseteq slots' /\ \A w \in queue' : record'[w] = "none"
      BY <1>1, <2>1, <2>3, <2>4, <3>1 DEF Kept, ValuesInv, SdnTypeOK
    <3>6. queue' = {} \/ \E w \in Values : queue' = {w}
      BY <1>1, <2>4 DEF Kept, ValuesInv
    <3> QED BY <3>3, <3>4, <3>5, <3>6 DEF ValuesInv
  <2>7. ActiveIsOpen'
    BY <1>1, <2>2, <2>3, <2>4 DEF Kept, SdnTypeOK, ActiveIsOpen
  <2> QED BY <1>1, <2>4, <2>5, <2>6, <2>7 DEF Kept, DerivationsInv
<1>9. CASE UNCHANGED sdnVars
  BY <1>1, <1>9 DEF sdnVars, Kept, SdnTypeOK, ValuesInv, ActiveIsOpen, DerivationsInv
<1> QED BY <1>2, <1>3, <1>4, <1>5, <1>6, <1>7, <1>8, <1>9 DEF SdnNext

LEMMA IdentityInvariance == SdnSpec => []SdnInv
<1> QED BY SdnInitInv, SdnStepInv, PTL DEF SdnSpec

(* No operation reaches a native identity that was destroyed, at most one  *)
(* rolled-back identity waits for the drain, and an ended derivation       *)
(* leaves no secret in its short-lived instance (recordFor, invokeDerive   *)
(* and deriveInKdfInstance), however many derivations interleave and       *)
(* whichever native call fails.                                            *)
THEOREM AuthoritySafe == SdnSpec => []AuthorityIsLive
<1>1. SdnInv => AuthorityIsLive
  <2> SUFFICES ASSUME SdnInv PROVE AuthorityIsLive
    OBVIOUS
  <2>1. Cardinality(queue) <= 1
    BY EmptyOrOne DEF SdnInv, ValuesInv
  <2>2. Usable \subseteq slots
    BY DEF SdnInv, SdnTypeOK, ActiveIsOpen, Usable
  <2> QED BY <2>1, <2>2 DEF SdnInv, ValuesInv, DerivationsInv, AuthorityIsLive
<1> QED BY <1>1, IdentityInvariance, PTL

(* A call opens an identity only after every queued one was destroyed, and *)
(* no step revives a handle whose identity was destroyed or may have been: *)
(* a new identity never has the number of an earlier one.                  *)
THEOREM DrainedFirst == SdnSpec => [][DrainsFirst]_sdnVars
<1>1. ASSUME SdnInv, SdnNext PROVE DrainsFirst
  <2>1. /\ made \in Nat /\ queue \subseteq 1..made /\ held \subseteq 1..made
        /\ record \in [Values -> {"none", "active", "destroy-pending", "destroyed"}]
        /\ held \subseteq Values
    <3>1. made \in Nat /\ record \in [Values -> {"none", "active", "destroy-pending", "destroyed"}]
          /\ held \subseteq Values
      BY <1>1 DEF SdnInv, SdnTypeOK
    <3>2. queue \subseteq 1..made /\ held \subseteq 1..made
      BY <1>1 DEF SdnInv, ValuesInv
    <3> QED BY <3>1, <3>2
  <2>2. made' # made => made' = made + 1 /\ slots' \subseteq Drained \union {made'}
    BY <1>1 DEF SdnNext, Derive, DeriveFails, DrainFails, Refused, RolledBack, RollbackFails, Issued,
                Password, PasswordFails, InstanceLoads, TransferFails, OpenFails, Transferred,
                TransferDiffers, TransferDiffersDestroyThrows, CleanupFails, DestroyIdentity,
                DestroyIdentityThrows
  <2>3. made' # made => slots' \intersect queue = {}
    BY <2>1, <2>2 DEF Drained
  <2>4. \/ UNCHANGED record
        \/ made' = made + 1 /\ \E s : record' = [record EXCEPT ![made'] = s]
        \/ \E v \in Values, s \in {"destroyed", "destroy-pending"} :
             record' = [record EXCEPT ![v] = s]
    BY <1>1 DEF SdnNext, Derive, DeriveFails, DrainFails, Refused, RolledBack, RollbackFails, Issued,
                Password, PasswordFails, InstanceLoads, TransferFails, OpenFails, Transferred,
                TransferDiffers, TransferDiffersDestroyThrows, CleanupFails, DestroyIdentity,
                DestroyIdentityThrows
  <2>5. made + 1 \notin held
    BY <2>1
  <2>6. \A v \in held : record[v] # "active" => record'[v] # "active"
    BY <2>1, <2>4, <2>5
  <2> QED BY <2>3, <2>6 DEF DrainsFirst
<1>2. SdnInv /\ [SdnNext]_sdnVars => [DrainsFirst]_sdnVars
  BY <1>1
<1> QED BY <1>2, IdentityInvariance, PTL DEF SdnSpec

(***************************************************************************)
(* The instances of a realm and the keys in them.                          *)
(***************************************************************************)
LoadStates == {"pending", "ok", "failed"}

(* Loads are numbered in order, and the only one that has not failed is    *)
(* the one the realm publishes: an init() starts a load only when nothing  *)
(* is published, and the realm only forgets a load that failed.            *)
LoadsInv ==
  /\ \E n \in 0..MaxLoads : loads \in [1..n -> LoadStates]
  /\ shared # NoLoad => shared \in Started
  /\ \A l \in Started : loads[l] # "failed" => l = shared

CopiesInv ==
  \A c \in Copies :
    /\ module[c] # NoLoad => module[c] \in Started
    /\ \A l \in answers[c] : l \in Started /\ loads[l] = "ok"

(* A key that is live or collected was never destroyed, and only a live or *)
(* a collected one can still be.                                           *)
KeysInv ==
  /\ key \in [Keys -> {"unmade", "live", "wiped", "collected", "finalized"}]
  /\ native \in [Keys -> [open : BOOLEAN, destroys : 0..2]]
  /\ \A k \in Keys :
       /\ key[k] \in {"unmade", "live", "collected"} => native[k].destroys = 0
       /\ key[k] = "live" => native[k].open
       /\ native[k].destroys <= 1

CopiesTypeOK ==
  /\ shared \in LoadIds \union {NoLoad}
  /\ module \in [Copies -> LoadIds \union {NoLoad}]
  /\ answers \in [Copies -> SUBSET LoadIds]

InstInv == CopiesTypeOK /\ LoadsInv /\ CopiesInv /\ KeysInv

LEMMA InstInitInv == InstInit => InstInv
<1> SUFFICES ASSUME InstInit PROVE InstInv
  OBVIOUS
<1>1. loads \in [1..0 -> LoadStates] /\ Started = {}
  BY DEF InstInit, Started
<1>2. LoadsInv
  <2>1. 0 \in 0..MaxLoads
    BY LoadsAssumption
  <2> QED BY <1>1, <2>1 DEF InstInit, LoadsInv
<1>3. CopiesTypeOK /\ CopiesInv
  BY DEF InstInit, CopiesTypeOK, CopiesInv
<1>4. KeysInv
  BY DEF InstInit, KeysInv
<1> QED BY <1>2, <1>3, <1>4 DEF InstInv

LEMMA AnswersInv ==
  ASSUME InstInv, NEW c \in Copies,
         \/ InitJoins(c) \/ InitAnswers(c) \/ WrapperFails(c) \/ CopyForgets(c)
  PROVE  InstInv'
<1> USE DEF InitJoins, InitAnswers, WrapperFails, CopyForgets, keyVars
<1>1. UNCHANGED <<loads, shared, keyVars>>
  OBVIOUS
<1>2. LoadsInv' /\ KeysInv'
  BY <1>1 DEF InstInv, LoadsInv, KeysInv, Started
<1>3. CopiesTypeOK'
  BY DEF InstInv, CopiesTypeOK, CopiesInv
<1>4. CopiesInv'
  BY DEF InstInv, CopiesTypeOK, CopiesInv, LoadsInv, Started
<1> QED BY <1>2, <1>3, <1>4 DEF InstInv

LEMMA InitLoadsInv ==
  ASSUME InstInv, NEW c \in Copies, InitLoads(c)
  PROVE  InstInv'
<1>1. PICK n \in 0..MaxLoads : loads \in [1..n -> LoadStates]
  BY DEF InstInv, LoadsInv
<1>2. Cardinality(Started) = n
  BY <1>1, FS_Interval, LoadsAssumption DEF Started
<1>3. n + 1 \in 0..MaxLoads /\ Started \union {n + 1} = 1..(n + 1) /\ n + 1 \in LoadIds /\ n + 1 \notin Started
  BY <1>1, <1>2, LoadsAssumption DEF InitLoads, Started, LoadIds
<1>4. /\ loads' = [i \in 1..(n + 1) |-> IF i = n + 1 THEN "pending" ELSE loads[i]]
      /\ shared' = n + 1
      /\ module' = [module EXCEPT ![c] = n + 1]
      /\ module[c] = NoLoad /\ shared = NoLoad
      /\ UNCHANGED <<answers, key, native>>
  BY <1>2, <1>3 DEF InitLoads, keyVars
<1>5. /\ loads' \in [1..(n + 1) -> LoadStates] /\ Started' = Started \union {n + 1}
      /\ \A l \in Started : loads'[l] = loads[l]
  BY <1>1, <1>3, <1>4 DEF Started, LoadStates
<1>6. \A l \in Started : loads[l] = "failed"
  BY <1>1, <1>4, LoadsAssumption DEF InstInv, LoadsInv, Started
<1>7. LoadsInv'
  BY <1>3, <1>4, <1>5, <1>6 DEF LoadsInv
<1>8. CopiesTypeOK' /\ CopiesInv'
  BY <1>3, <1>4, <1>5 DEF InstInv, CopiesTypeOK, CopiesInv
<1>9. KeysInv'
  BY <1>4 DEF InstInv, KeysInv
<1> QED BY <1>7, <1>8, <1>9 DEF InstInv

LEMMA SettlesInv ==
  ASSUME InstInv, NEW l \in LoadIds, LoadOk(l) \/ LoadFails(l) \/ RealmForgets(l)
  PROVE  InstInv'
<1> USE DEF LoadOk, LoadFails, RealmForgets, keyVars
<1>1. PICK n \in 0..MaxLoads : loads \in [1..n -> LoadStates]
  BY DEF InstInv, LoadsInv
<1>2. Started' = Started /\ loads' \in [1..n -> LoadStates]
  BY <1>1 DEF Started, LoadStates
<1>3. \A m \in Started : /\ loads'[m] # "failed" => loads[m] # "failed"
                         /\ loads[m] = "ok" => loads'[m] = "ok"
  BY <1>1 DEF Started
<1>4. LoadsInv'
  <2>1. shared' # NoLoad => shared' \in Started'
    BY <1>2 DEF InstInv, LoadsInv
  <2>2. \A m \in Started' : loads'[m] # "failed" => m = shared'
    BY <1>2, <1>3 DEF InstInv, LoadsInv
  <2> QED BY <1>2, <2>1, <2>2 DEF LoadsInv
<1>5. CopiesTypeOK' /\ CopiesInv'
  BY <1>2, <1>3 DEF InstInv, CopiesTypeOK, CopiesInv
<1>6. KeysInv'
  BY DEF InstInv, KeysInv
<1> QED BY <1>4, <1>5, <1>6 DEF InstInv

LEMMA KeyInv ==
  ASSUME InstInv, NEW k \in Keys,
         MakeKey(k) \/ WipeKey(k) \/ CollectKey(k) \/ FinalizeKey(k)
  PROVE  InstInv'
<1>1. UNCHANGED loadVars
  BY DEF MakeKey, WipeKey, CollectKey, FinalizeKey
<1>2. CopiesTypeOK' /\ LoadsInv' /\ CopiesInv'
  BY <1>1 DEF InstInv, CopiesTypeOK, LoadsInv, CopiesInv, loadVars, Started
<1>3. KeysInv'
  <2>1. KeysInv
    BY DEF InstInv
  <2>2. CASE MakeKey(k)
    BY <2>1, <2>2 DEF KeysInv, MakeKey
  <2>3. CASE CollectKey(k)
    BY <2>1, <2>3 DEF KeysInv, CollectKey
  <2>4. CASE WipeKey(k) \/ FinalizeKey(k)
    <3> DEFINE n == [open |-> FALSE, destroys |-> native[k].destroys + 1]
    <3>1. native[k].destroys = 0 /\ native' = [native EXCEPT ![k] = n]
      BY <2>1, <2>4 DEF KeysInv, WipeKey, FinalizeKey, DestroyNative
    <3>2. n \in [open : BOOLEAN, destroys : 0..2] /\ n.destroys = 1
      BY <3>1
    <3> HIDE DEF n
    <3>3. PICK s \in {"wiped", "finalized"} : key' = [key EXCEPT ![k] = s]
      BY <2>4 DEF WipeKey, FinalizeKey
    <3> QED BY <2>1, <3>1, <3>2, <3>3 DEF KeysInv
  <2> QED BY <2>2, <2>3, <2>4
<1> QED BY <1>2, <1>3 DEF InstInv

LEMMA InstStepInv == InstInv /\ [InstNext]_instVars => InstInv'
<1> SUFFICES ASSUME InstInv, [InstNext]_instVars PROVE InstInv'
  OBVIOUS
<1>1. CASE UNCHANGED instVars
  BY <1>1 DEF instVars, InstInv, CopiesTypeOK, LoadsInv, CopiesInv, KeysInv, Started
<1> QED BY <1>1, AnswersInv, InitLoadsInv, SettlesInv, KeyInv DEF InstNext

(* However many copies of the package a realm holds and whichever loads    *)
(* fail, no two copies are given different instances and no two loads are  *)
(* under way at once (init and loadWasmModule of index.mjs), and a native  *)
(* key is destroyed at most once, by wipe() or by the registry.            *)
THEOREM InstanceSafe == InstSpec => []OneInstance
<1>1. InstInv => OneInstance
  <2> SUFFICES ASSUME InstInv PROVE OneInstance
    OBVIOUS
  <2>1. InstTypeOK
    <3>1. DOMAIN loads \subseteq LoadIds /\ \A l \in Started : loads[l] \in {"pending", "ok", "failed"}
      BY LoadsAssumption DEF InstInv, LoadsInv, LoadStates, LoadIds, Started
    <3> QED BY <3>1 DEF InstInv, CopiesTypeOK, KeysInv, InstTypeOK
  <2>2. Cardinality({l \in Started : loads[l] # "failed"}) <= 1
    <3>1. {l \in Started : loads[l] # "failed"} \subseteq {shared}
      BY DEF InstInv, LoadsInv
    <3> QED BY <3>1, AtMostOne
  <2>3. Cardinality(UNION {answers[c] : c \in Copies}) <= 1
    <3>1. UNION {answers[c] : c \in Copies} \subseteq {shared}
      BY DEF InstInv, LoadsInv, CopiesInv
    <3> QED BY <3>1, AtMostOne
  <2> QED BY <2>1, <2>2, <2>3 DEF InstInv, KeysInv, OneInstance
<1>2. InstSpec => []InstInv
  BY InstInitInv, InstStepInv, PTL DEF InstSpec
<1> QED BY <1>1, <1>2, PTL

-----------------------------------------------------------------------------
(***************************************************************************)
(* The calls of the wrappers, for any programs that keep the discipline    *)
(* all wrappers of the package keep.                                       *)
(***************************************************************************)
Frees == {"free", "destroy"}

(* The steps that name a buffer or a handle, but for the one that opens a  *)
(* handle and those that give something back.                              *)
Accesses == {"copy", "new", "raw", "opt", "use", "take", "wipe"}

Releases(step, b) == step.op \in Frees /\ step.buf = b

(* The finally block gives b back; the catch block does.                   *)
Owed(p, b) == \E j \in 1..Len(p.fin) : Releases(p.fin[j], b)
Reverted(p, b) == \E j \in 1..Len(p.caught) : Releases(p.caught[j], b)

(* Nothing is given back before the catch and the finally, and these give  *)
(* nothing back twice and touch nothing they have given back.              *)
OpensOrUses(p, block) ==
  \A i \in 1..Len(p[block]) :
    LET step == p[block][i]
    IN  /\ step.op \notin Frees
        /\ step.op \in Accesses => Owed(p, step.buf)
        /\ step.op = "make" =>
             Owed(p, step.buf) \/ Reverted(p, step.buf) \/ (block = "body" /\ i = Len(p.body))

RevertsOnce(p) ==
  \A j \in 1..Len(p.caught) :
    /\ p.caught[j].op \in Frees
    /\ ~Owed(p, p.caught[j].buf)
    /\ \A i \in 1..(j - 1) : p.caught[i].buf # p.caught[j].buf

FreesOnce(p) ==
  \A j \in 1..Len(p.fin) :
    /\ p.fin[j].op \in Frees \cup {"wipe"}
    /\ Owed(p, p.fin[j].buf)
    /\ \A i \in 1..(j - 1) : p.fin[i].op \in Frees => p.fin[i].buf # p.fin[j].buf

(* The finally wipes a secret before it gives it back, unless it is one of *)
(* those the code leaves as they are, and the catch gives none back.       *)
WipesSecrets(p) ==
  /\ \A j \in 1..Len(p.fin) :
       p.fin[j].op \in Frees /\ p.fin[j].buf \in Secrets
       /\ <<p, p.fin[j].buf>> \notin LeftUnwiped =>
         \E i \in 1..(j - 1) : p.fin[i].op = "wipe" /\ p.fin[i].buf = p.fin[j].buf
  /\ \A j \in 1..Len(p.caught) : p.caught[j].buf \notin Secrets

(* Every buffer that is allocated or used is given back in the finally,    *)
(* and a handle there or in the catch, unless opening it is the last thing *)
(* the body does.                                                          *)
Disciplined(p) ==
  /\ \A block \in {"pre", "body", "caught", "fin"} : Len(p[block]) \in Nat
  /\ OpensOrUses(p, "pre") /\ OpensOrUses(p, "body")
  /\ RevertsOnce(p) /\ FreesOnce(p) /\ WipesSecrets(p)

-----------------------------------------------------------------------------
NoCorruption == \A b \in DOMAIN heap : heap[b] \in {"null", "raw", "dirty", "wiped", "gone", "held"}

(* What is in the heap will be given back by what has not run yet.         *)
BeforeCatch ==
  /\ ~threw
  /\ \A b \in DOMAIN heap :
       /\ heap[b] # "gone"
       /\ Owed(prog, b) \/ Reverted(prog, b) \/ (part = "body" /\ at > Len(prog.body))

InCatch ==
  /\ threw
  /\ \A b \in DOMAIN heap :
       /\ Owed(prog, b) \/ Reverted(prog, b)
       /\ heap[b] = "gone" => \E j \in 1..Len(prog.caught) : j < at /\ Releases(prog.caught[j], b)
       /\ \A j \in 1..Len(prog.caught) :
            j < at /\ Releases(prog.caught[j], b) => heap[b] \in {"gone", "null"}

InFinally ==
  \A b \in DOMAIN heap :
    /\ heap[b] = "gone" /\ Owed(prog, b) =>
         \E j \in 1..Len(prog.fin) : j < at /\ Releases(prog.fin[j], b)
    /\ \A j \in 1..Len(prog.fin) :
         j < at /\ Releases(prog.fin[j], b) => heap[b] \in {"gone", "null"}
    /\ threw /\ ~Owed(prog, b) => heap[b] \in {"gone", "null"}
    /\ \A j \in 1..Len(prog.fin) :
         j < at /\ prog.fin[j].op = "wipe" /\ prog.fin[j].buf = b => heap[b] # "dirty"

AllGivenBack ==
  \A b \in DOMAIN heap : heap[b] \in {"gone", "null"} \/ (heap[b] = "held" /\ ~threw)

CallInv ==
  /\ Disciplined(prog)
  /\ part \in {"pre", "body", "caught", "fin", "done", "left"}
  /\ at \in Nat \ {0} /\ threw \in BOOLEAN
  /\ NoCorruption
  /\ \A b \in DOMAIN heap : Owed(prog, b) \/ heap[b] \in {"held", "gone"}
  /\ part \in {"pre", "body"} => BeforeCatch
  /\ part = "caught" => InCatch
  /\ part = "fin" => InFinally
  /\ part = "done" => AllGivenBack

LEMMA IdleDisciplined == Disciplined(Idle)
BY DEF Idle, Disciplined, OpensOrUses, RevertsOnce, FreesOnce, WipesSecrets

LEMMA CallStarts == CallInit => CallInv
<1> SUFFICES ASSUME CallInit PROVE CallInv
  OBVIOUS
<1>1. DOMAIN heap = {}
  BY DEF CallInit
<1>2. part = "done" /\ at = 1 /\ prog = Idle
  BY DEF CallInit
<1>4. threw \in BOOLEAN
  BY DEF CallInit
<1>5. AllGivenBack /\ NoCorruption
  BY <1>1 DEF AllGivenBack, NoCorruption
<1>3. Disciplined(prog)
  BY <1>2, IdleDisciplined
<1> QED
  BY <1>1, <1>2, <1>3, <1>4, <1>5 DEF CallInv

(* An allocation, in the part before the try or in its body.               *)
LEMMA AllocatedInv ==
  ASSUME CallInv, part \in {"pre", "body"}, Running, NEW b, NEW s,
         This.buf = b, Allocated(b, s), Advance,
         \/ This.op \in Accesses /\ s \in {"raw", "dirty", "null"}
         \/ This.op = "make" /\ s = "held"
  PROVE  CallInv'
<1>1. /\ DOMAIN heap' = DOMAIN heap \cup {b}
      /\ heap'[b] = s /\ \A c \in DOMAIN heap \ {b} : heap'[c] = heap[c]
  BY DEF Allocated
<1>2. /\ prog' = prog /\ part' = part /\ threw' = threw /\ at' = at + 1
      /\ at \in 1..Len(prog[part]) /\ part \in {"pre", "body"}
  BY DEF Advance, Running, CallInv, Disciplined
<1>3. /\ This.op \in Accesses => Owed(prog, b)
      /\ This.op = "make" =>
           Owed(prog, b) \/ Reverted(prog, b) \/ (part = "body" /\ at = Len(prog.body))
  BY <1>2 DEF CallInv, Disciplined, OpensOrUses, This
<1>4. at' > Len(prog.body) \/ part = "pre" \/ at' <= Len(prog.body)
  BY <1>2 DEF CallInv, Disciplined
<1>5. BeforeCatch'
  BY <1>1, <1>2, <1>3 DEF CallInv, BeforeCatch, Disciplined, Running
<1> QED
  BY <1>1, <1>2, <1>3, <1>5 DEF CallInv, NoCorruption

(* What kind of step runs in which part.                                   *)
LEMMA RunningSteps ==
  ASSUME CallInv, Running
  PROVE  /\ part \in {"pre", "body", "caught", "fin"}
         /\ Len(prog[part]) \in Nat /\ at \in 1..Len(prog[part])
         /\ part \in {"pre", "body"} =>
              This.op \notin Frees /\ (This.op \in Accesses => Owed(prog, This.buf))
         /\ part = "caught" =>
              /\ This.op \in Frees /\ Releases(This, This.buf) /\ ~Owed(prog, This.buf)
              /\ \A i \in 1..(at - 1) : prog.caught[i].buf # This.buf
         /\ part = "fin" =>
              /\ This.op \in Frees \cup {"wipe"} /\ Owed(prog, This.buf)
              /\ \A i \in 1..(at - 1) : prog.fin[i].op \in Frees => prog.fin[i].buf # This.buf
<1>1. /\ part \in {"pre", "body", "caught", "fin"}
      /\ Len(prog[part]) \in Nat /\ at \in 1..Len(prog[part])
  BY DEF CallInv, Running, Ended, Disciplined
<1>2. part \in {"pre", "body"} =>
        This.op \notin Frees /\ (This.op \in Accesses => Owed(prog, This.buf))
  BY <1>1 DEF CallInv, Disciplined, OpensOrUses, This
<1>3. ASSUME part = "caught"
      PROVE  /\ This.op \in Frees /\ Releases(This, This.buf) /\ ~Owed(prog, This.buf)
             /\ \A i \in 1..(at - 1) : prog.caught[i].buf # This.buf
  BY <1>1, <1>3 DEF CallInv, Disciplined, RevertsOnce, This, Releases
<1>4. ASSUME part = "fin"
      PROVE  /\ This.op \in Frees \cup {"wipe"} /\ Owed(prog, This.buf)
             /\ \A i \in 1..(at - 1) : prog.fin[i].op \in Frees => prog.fin[i].buf # This.buf
  BY <1>1, <1>4 DEF CallInv, Disciplined, FreesOnce, This
<1> QED
  BY <1>1, <1>2, <1>3, <1>4

(* A step of the part before the try or of the body that allocates nothing *)
(* and gives nothing back: the heap keeps its buffers, none is given back. *)
HeapKept ==
  /\ DOMAIN heap' = DOMAIN heap
  /\ \A b \in DOMAIN heap :
       /\ heap'[b] \in {"null", "raw", "dirty", "wiped", "gone", "held"}
       /\ heap[b] # "gone" => heap'[b] # "gone"
       /\ heap'[b] = heap[b] \/ Owed(prog, b)

LEMMA WrittenKeeps ==
  ASSUME CallInv, part \in {"pre", "body"}, heap' \in {heap, Written}
  PROVE  HeapKept
<1>1. \A b \in DOMAIN heap : heap[b] = "raw" => Owed(prog, b)
  BY DEF CallInv
<1>2. CASE heap' = heap
  BY <1>2 DEF CallInv, NoCorruption, HeapKept
<1>3. CASE heap' = Written
  BY <1>1, <1>3 DEF CallInv, NoCorruption, HeapKept, Written
<1> QED
  BY <1>2, <1>3

LEMMA KeptAdvances ==
  ASSUME CallInv, part \in {"pre", "body"}, Running, HeapKept, Advance
  PROVE  CallInv'
<1>1. /\ prog' = prog /\ part' = part /\ threw' = threw /\ at' = at + 1
      /\ at \in Nat \ {0} /\ at \in 1..Len(prog[part]) /\ Len(prog[part]) \in Nat
  BY RunningSteps DEF Advance
<1>2. BeforeCatch'
  BY <1>1 DEF CallInv, BeforeCatch, HeapKept
<1>3. NoCorruption' /\ \A b \in DOMAIN heap' : Owed(prog, b)' \/ heap'[b] \in {"held", "gone"}
  BY <1>1 DEF CallInv, NoCorruption, HeapKept
<1> QED
  BY <1>1, <1>2, <1>3 DEF CallInv

LEMMA KeptThrows ==
  ASSUME CallInv, part \in {"pre", "body"}, Running, HeapKept,
         threw' = TRUE, part' = IF part = "pre" THEN "left" ELSE "caught",
         at' = 1, prog' = prog
  PROVE  CallInv'
<1>1. at \in 1..Len(prog[part]) /\ Len(prog[part]) \in Nat
  BY RunningSteps
<1>2. part = "body" => InCatch'
  BY <1>1 DEF CallInv, BeforeCatch, HeapKept, InCatch, Releases
<1>3. NoCorruption' /\ \A b \in DOMAIN heap' : Owed(prog, b)' \/ heap'[b] \in {"held", "gone"}
  BY <1>1 DEF CallInv, NoCorruption, HeapKept
<1> QED
  BY <1>1, <1>2, <1>3 DEF CallInv

LEMMA TouchKeeps ==
  ASSUME CallInv, part \in {"pre", "body"}, Running, This.op \in Accesses,
         NEW s, Touch(This.buf, s), s \in {"dirty", "wiped"} \/ s = heap[This.buf]
  PROVE  HeapKept
<1>1. Owed(prog, This.buf) /\ This.buf \in DOMAIN heap
  BY RunningSteps DEF Touch
<1>2. heap[This.buf] # "gone" /\ NoCorruption
  BY <1>1 DEF CallInv, BeforeCatch
<1>3. /\ DOMAIN heap' = DOMAIN heap
      /\ heap'[This.buf] = IF heap[This.buf] = "null" THEN "null" ELSE s
      /\ \A b \in DOMAIN heap : b # This.buf => heap'[b] = heap[b]
  BY <1>1, <1>2 DEF Touch
<1> QED
  BY <1>1, <1>2, <1>3 DEF HeapKept, NoCorruption

(* What the catch gives back, and what the finally does.                   *)
LEMMA CatchReleases ==
  ASSUME CallInv, part = "caught", Running, Release
  PROVE  CallInv'
<1> DEFINE b == This.buf
<1>1. /\ at \in 1..Len(prog.caught) /\ Len(prog.caught) \in Nat
      /\ This.op \in Frees /\ ~Owed(prog, b) /\ This = prog.caught[at]
      /\ \A i \in 1..(at - 1) : prog.caught[i].buf # b
  BY RunningSteps DEF This
<1>2. prog' = prog /\ part' = part /\ threw' = threw /\ at' = at + 1
  BY DEF Release, Advance
<1>3. InCatch /\ NoCorruption /\ b \in DOMAIN heap
  BY DEF CallInv, Release, Touch
<1>4. heap[b] # "gone"
  BY <1>1, <1>3 DEF InCatch, Releases
<1>5. /\ DOMAIN heap' = DOMAIN heap
      /\ heap'[b] = IF heap[b] = "null" THEN "null" ELSE "gone"
      /\ \A c \in DOMAIN heap : c # b => heap'[c] = heap[c]
  BY <1>3, <1>4 DEF Release, Touch
<1>6. Releases(prog.caught[at], b)
  BY <1>1 DEF Releases
<1> HIDE DEF b
<1>7. \A j \in 1..Len(prog.caught) : j < at + 1 <=> j < at \/ j = at
  BY <1>1
<1>8. \A c : Releases(prog.caught[at], c) => c = b
  BY <1>6 DEF Releases
<1>9. InCatch'
  <2> SUFFICES ASSUME NEW c \in DOMAIN heap
               PROVE  /\ Owed(prog, c) \/ Reverted(prog, c)
                      /\ heap'[c] = "gone" =>
                           \E j \in 1..Len(prog.caught) : j < at + 1 /\ Releases(prog.caught[j], c)
                      /\ \A j \in 1..Len(prog.caught) :
                           j < at + 1 /\ Releases(prog.caught[j], c) => heap'[c] \in {"gone", "null"}
    BY <1>2, <1>3, <1>5 DEF InCatch, Owed, Reverted
  <2> QED
    BY <1>1, <1>3, <1>5, <1>6, <1>7, <1>8 DEF InCatch
<1>10. NoCorruption' /\ \A c \in DOMAIN heap' : Owed(prog, c)' \/ heap'[c] \in {"held", "gone"}
  BY <1>1, <1>2, <1>3, <1>5 DEF CallInv, NoCorruption
<1> QED
  BY <1>1, <1>2, <1>9, <1>10 DEF CallInv

LEMMA FinallyTouches ==
  ASSUME CallInv, part = "fin", Running, Release \/ WipeBuffer
  PROVE  CallInv'
<1> DEFINE b == This.buf
<1>1. /\ at \in 1..Len(prog.fin) /\ Len(prog.fin) \in Nat
      /\ This.op \in Frees \cup {"wipe"} /\ Owed(prog, b) /\ This = prog.fin[at]
      /\ \A i \in 1..(at - 1) : prog.fin[i].op \in Frees => prog.fin[i].buf # b
  BY RunningSteps DEF This
<1>2. prog' = prog /\ part' = part /\ threw' = threw /\ at' = at + 1
  BY DEF Release, WipeBuffer, Advance
<1>3. InFinally /\ NoCorruption /\ b \in DOMAIN heap
  BY DEF CallInv, Release, WipeBuffer, Touch
<1>4. heap[b] # "gone"
  BY <1>1, <1>3 DEF InFinally, Releases
<1>5. /\ DOMAIN heap' = DOMAIN heap
      /\ heap'[b] = IF heap[b] = "null" THEN "null"
                    ELSE IF This.op \in Frees THEN "gone" ELSE "wiped"
      /\ \A c \in DOMAIN heap : c # b => heap'[c] = heap[c]
  <2>1. CASE Release
    BY <1>3, <1>4, <2>1 DEF Release, Touch, Frees
  <2>2. CASE WipeBuffer
    BY <1>3, <1>4, <2>2 DEF WipeBuffer, Touch, Frees
  <2> QED
    BY <2>1, <2>2
<1>6. Releases(prog.fin[at], b) <=> This.op \in Frees
  BY <1>1 DEF Releases
<1> HIDE DEF b
<1>7. \A j \in 1..Len(prog.fin) : j < at + 1 <=> j < at \/ j = at
  BY <1>1
<1>8. \A c : Releases(prog.fin[at], c) => c = b /\ This.op \in Frees
  BY <1>1 DEF Releases, b
<1>11. \A j \in 1..Len(prog.fin) : j < at => ~Releases(prog.fin[j], b)
  BY <1>1 DEF Releases
<1>9. InFinally'
  <2> SUFFICES ASSUME NEW c \in DOMAIN heap
               PROVE  /\ heap'[c] = "gone" /\ Owed(prog, c) =>
                           \E j \in 1..Len(prog.fin) : j < at + 1 /\ Releases(prog.fin[j], c)
                      /\ \A j \in 1..Len(prog.fin) :
                           j < at + 1 /\ Releases(prog.fin[j], c) => heap'[c] \in {"gone", "null"}
                      /\ threw /\ ~Owed(prog, c) => heap'[c] \in {"gone", "null"}
                      /\ \A j \in 1..Len(prog.fin) :
                           j < at + 1 /\ prog.fin[j].op = "wipe" /\ prog.fin[j].buf = c =>
                             heap'[c] # "dirty"
    BY <1>2, <1>3, <1>5 DEF InFinally, Owed
  <2>1. CASE c = b
    <3>1. heap'[c] # "dirty"
      BY <1>5, <2>1
    <3> QED
      BY <1>1, <1>5, <1>6, <1>7, <1>11, <2>1, <3>1
  <2>2. CASE c # b
    <3>1. prog.fin[at].buf # c
      BY <1>1, <2>2 DEF b
    <3> QED
      BY <1>3, <1>5, <1>7, <1>8, <2>2, <3>1 DEF InFinally
  <2> QED
    BY <2>1, <2>2
<1>10. NoCorruption' /\ \A c \in DOMAIN heap' : Owed(prog, c)' \/ heap'[c] \in {"held", "gone"}
  BY <1>1, <1>2, <1>3, <1>5 DEF CallInv, NoCorruption
<1> QED
  BY <1>1, <1>2, <1>9, <1>10 DEF CallInv

(* Giving back what was never allocated.                                   *)
LEMMA OmittedReleases ==
  ASSUME CallInv, ReleaseOmitted
  PROVE  CallInv'
<1>1. /\ Running /\ prog' = prog /\ part' = part /\ threw' = threw /\ at' = at + 1 /\ heap' = heap
      /\ This.buf \notin DOMAIN heap
  BY DEF ReleaseOmitted, Advance
<1>2. /\ part \in {"pre", "body", "caught", "fin"} /\ Len(prog[part]) \in Nat
      /\ at \in 1..Len(prog[part])
  BY <1>1, RunningSteps
<1>3. \A j \in 1..Len(prog[part]) : j < at + 1 <=> j < at \/ j = at
  BY <1>2
<1>4. \A c \in DOMAIN heap : ~Releases(This, c)
  BY <1>1 DEF Releases
<1>5. CASE part \in {"pre", "body"}
  <2>1. HeapKept
    BY <1>1, <1>5, WrittenKeeps
  <2> QED
    BY <1>1, <1>5, <2>1, KeptAdvances DEF ReleaseOmitted
<1>6. CASE part = "caught"
  <2>1. InCatch'
    BY <1>1, <1>2, <1>3, <1>4, <1>6 DEF CallInv, InCatch, This, Owed, Reverted
  <2> QED
    BY <1>1, <1>2, <1>6, <2>1 DEF CallInv, NoCorruption
<1>7. CASE part = "fin"
  <2>1. InFinally'
    BY <1>1, <1>2, <1>3, <1>4, <1>7 DEF CallInv, InFinally, This, Owed
  <2> QED
    BY <1>1, <1>2, <1>7, <2>1 DEF CallInv, NoCorruption
<1> QED
  BY <1>2, <1>5, <1>6, <1>7

LEMMA PartEnds ==
  ASSUME CallInv, NextPart
  PROVE  CallInv'
<1>1. /\ prog' = prog /\ threw' = threw /\ heap' = heap /\ at' = 1
      /\ part \in {"pre", "body", "caught", "fin"} /\ at > Len(prog[part])
      /\ Len(prog[part]) \in Nat /\ at \in Nat
  BY DEF NextPart, CallInv, Ended, Disciplined
<1>2. part' = IF part = "pre" THEN "body" ELSE IF part = "fin" THEN "done" ELSE "fin"
  BY <1>1 DEF NextPart
<1>3. NoCorruption' /\ \A c \in DOMAIN heap' : Owed(prog, c)' \/ heap'[c] \in {"held", "gone"}
  BY <1>1 DEF CallInv, NoCorruption
<1>4. Disciplined(prog') /\ threw' \in BOOLEAN
  BY <1>1 DEF CallInv
<1>5. CASE part = "pre"
  <2>1. BeforeCatch'
    BY <1>1, <1>2, <1>5 DEF CallInv, BeforeCatch, Owed, Reverted
  <2> QED
    BY <1>1, <1>2, <1>3, <1>4, <1>5, <2>1 DEF CallInv
<1>6. CASE part = "body"
  <2>1. InFinally'
    BY <1>1, <1>2, <1>6 DEF CallInv, BeforeCatch, InFinally, Owed
  <2> QED
    BY <1>1, <1>2, <1>3, <1>4, <1>6, <2>1 DEF CallInv
<1>7. CASE part = "caught"
  <2>1. \A c \in DOMAIN heap : Reverted(prog, c) => heap[c] \in {"gone", "null"} /\ ~Owed(prog, c)
    BY <1>1, <1>7 DEF CallInv, InCatch, Reverted, Releases, Disciplined, RevertsOnce
  <2>2. \A c \in DOMAIN heap : heap[c] = "gone" => ~Owed(prog, c)
    BY <1>1, <1>7, <2>1 DEF CallInv, InCatch, Reverted
  <2>3. InFinally'
    BY <1>1, <1>2, <1>7, <2>1, <2>2 DEF CallInv, InCatch, InFinally, Owed
  <2> QED
    BY <1>1, <1>2, <1>3, <1>4, <1>7, <2>3 DEF CallInv
<1>8. CASE part = "fin"
  <2>1. AllGivenBack'
    BY <1>1, <1>2, <1>8 DEF CallInv, InFinally, AllGivenBack, Owed
  <2> QED
    BY <1>1, <1>2, <1>3, <1>4, <1>8, <2>1 DEF CallInv
<1> QED
  BY <1>1, <1>5, <1>6, <1>7, <1>8

LEMMA CallStep ==
  ASSUME \A p \in Programs : Disciplined(p), CallInv, CallNext
  PROVE  CallInv'
<1> USE DEF Accesses, Frees
<1>1. ASSUME NEW p \in Programs, Begin(p) PROVE CallInv'
  <2>1. Disciplined(prog') /\ part' = "pre" /\ at' = 1 /\ DOMAIN heap' = {}
    BY <1>1 DEF Begin
  <2>2. threw' \in BOOLEAN /\ ~threw'
    BY <1>1 DEF Begin
  <2>3. NoCorruption' /\ BeforeCatch'
    BY <2>1, <2>2 DEF NoCorruption, BeforeCatch
  <2> QED
    BY <2>1, <2>2, <2>3 DEF CallInv
<1>2. ASSUME Running, Advance, heap' \in {heap, Written}, This.op \notin Frees, This.op # "wipe"
      PROVE  CallInv'
  <2>1. part \in {"pre", "body"}
    BY <1>2, RunningSteps
  <2>2. HeapKept
    BY <1>2, <2>1, WrittenKeeps
  <2> QED
    BY <1>2, <2>1, <2>2, KeptAdvances
<1>3. ASSUME Running, heap' \in {heap, Written}, This.op \notin Frees, This.op # "wipe",
             threw' = TRUE, part' = IF part = "pre" THEN "left" ELSE "caught",
             at' = 1, prog' = prog
      PROVE  CallInv'
  <2>1. part \in {"pre", "body"}
    BY <1>3, RunningSteps
  <2>2. HeapKept
    BY <1>3, <2>1, WrittenKeeps
  <2> QED
    BY <1>3, <2>1, <2>2, KeptThrows
<1>4. ASSUME NEW s, Running, Allocated(This.buf, s), Advance,
             \/ This.op \in {"copy", "new", "raw", "opt"} /\ s \in {"raw", "dirty", "null"}
             \/ This.op = "make" /\ s = "held"
      PROVE  CallInv'
  <2>1. part \in {"pre", "body"}
    BY <1>4, RunningSteps
  <2> QED
    BY <1>4, <2>1, AllocatedInv
<1>5. CASE CheckPasses
  BY <1>2, <1>5 DEF CheckPasses
<1>6. CASE CheckThrows
  BY <1>3, <1>6 DEF CheckThrows, Throw
<1>7. CASE CopyIn
  BY <1>4, <1>7 DEF CopyIn
<1>8. CASE CopyOmitted
  BY <1>2, <1>8 DEF CopyOmitted
<1>9. CASE AllocThrows
  BY <1>3, <1>9 DEF AllocThrows, Throw
<1>10. CASE AllocOut
  BY <1>4, <1>10 DEF AllocOut
<1>11. CASE AllocNull
  BY <1>4, <1>11 DEF AllocNull
<1>12. CASE NativeOk
  BY <1>2, <1>12 DEF NativeOk
<1>13. CASE NativeFails
  BY <1>3, <1>13 DEF NativeFails
<1>14. CASE HandleMade
  BY <1>4, <1>14 DEF HandleMade
<1>15. CASE HandleRefused
  BY <1>3, <1>15 DEF HandleRefused, Throw
<1>16. CASE Access
  <2>1. part \in {"pre", "body"}
    BY <1>16, RunningSteps DEF Access
  <2>2. HeapKept
    BY <1>16, <2>1, TouchKeeps DEF Access
  <2> QED
    BY <1>16, <2>1, <2>2, KeptAdvances DEF Access
<1>17. CASE WipeBuffer
  <2>1. Running /\ This.op = "wipe" /\ part \in {"pre", "body", "fin"}
    BY <1>17, RunningSteps DEF WipeBuffer
  <2>2. CASE part \in {"pre", "body"}
    <3>1. HeapKept
      BY <1>17, <2>1, <2>2, TouchKeeps DEF WipeBuffer
    <3> QED
      BY <1>17, <2>2, <3>1, KeptAdvances DEF WipeBuffer
  <2> QED
    BY <1>17, <2>1, <2>2, FinallyTouches
<1>18. CASE Release
  <2>1. Running /\ This.op \in Frees /\ part \in {"caught", "fin"}
    BY <1>18, RunningSteps DEF Release
  <2> QED
    BY <1>18, <2>1, CatchReleases, FinallyTouches
<1>19. CASE ReleaseOmitted
  BY <1>19, OmittedReleases
<1>20. CASE NextPart
  BY <1>20, PartEnds
<1> QED
  BY <1>1, <1>5, <1>6, <1>7, <1>8, <1>9, <1>10, <1>11, <1>12, <1>13, <1>14, <1>15, <1>16,
     <1>17, <1>18, <1>19, <1>20 DEF CallNext

(* Only a release gives a buffer back.                                     *)
LEMMA OnlyReleases ==
  ASSUME CallInv, CallNext, NEW b \in DOMAIN heap, b \in DOMAIN heap',
         heap[b] # "gone", heap'[b] = "gone"
  PROVE  Running /\ Release /\ This.buf = b
<1>1. CASE \E p \in Programs : Begin(p)
  BY <1>1 DEF Begin
<1>2. heap' # heap /\ heap' # Written
  BY DEF Written
<1>3. ASSUME NEW s, s # "gone", Allocated(This.buf, s) PROVE FALSE
  BY <1>3 DEF Allocated
<1>4. ASSUME NEW s, s # "gone" \/ s = heap[This.buf], Touch(This.buf, s)
      PROVE  FALSE
  BY <1>4 DEF Touch
<1>5. ~Access
  BY <1>4 DEF Access
<1>6. ~WipeBuffer
  BY <1>4 DEF WipeBuffer
<1>7. ASSUME Release PROVE This.buf = b
  BY <1>7 DEF Release, Touch
<1> QED
  BY <1>1, <1>2, <1>3, <1>5, <1>6, <1>7
     DEF CallNext, CheckPasses, CheckThrows, CopyIn, CopyOmitted, AllocThrows, AllocOut, AllocNull,
         NativeOk, NativeFails, HandleMade, HandleRefused, Release, ReleaseOmitted, NextPart, Throw

LEMMA SecretsAreWiped ==
  ASSUME CallInv, CallNext
  PROVE  WipesBeforeFree
<1> SUFFICES ASSUME NEW b \in Secrets, b \in DOMAIN heap, b \in DOMAIN heap',
                    heap[b] = "dirty", heap'[b] = "gone", <<prog, b>> \notin LeftUnwiped
             PROVE  FALSE
  BY DEF WipesBeforeFree
<1>1. Running /\ Release /\ This.buf = b
  BY OnlyReleases
<1>2. /\ part \in {"caught", "fin"} /\ Len(prog[part]) \in Nat /\ at \in 1..Len(prog[part])
      /\ This.op \in Frees
  BY <1>1, RunningSteps DEF Release, Frees
<1>3. part # "caught"
  BY <1>1, <1>2 DEF CallInv, Disciplined, WipesSecrets, This
<1>4. \E i \in 1..(at - 1) : prog.fin[i].op = "wipe" /\ prog.fin[i].buf = b
  BY <1>1, <1>2, <1>3 DEF CallInv, Disciplined, WipesSecrets, This
<1> QED
  BY <1>2, <1>3, <1>4 DEF CallInv, InFinally

LEMMA CallStutters == CallInv /\ UNCHANGED callVars => CallInv'
BY DEF callVars, CallInv, NoCorruption, BeforeCatch, InCatch, InFinally, AllGivenBack,
       Owed, Reverted

-----------------------------------------------------------------------------
(***************************************************************************)
(* The wrappers keep the discipline.                                       *)
(***************************************************************************)

(* The steps over the buffers of a set.                                    *)
StepsOver(B) ==
  [op : {"copy", "raw", "opt", "take", "use", "wipe", "free"}, buf : B]
    \cup [op : {"check", "native", "ask"}]

LEMMA EachIsSeq ==
  ASSUME NEW B, NEW s \in Seq(B)
  PROVE  /\ Each(Copy, s) \in Seq(StepsOver(B)) /\ Each(Raw, s) \in Seq(StepsOver(B))
         /\ Each(Take, s) \in Seq(StepsOver(B)) /\ Each(Wipe, s) \in Seq(StepsOver(B))
         /\ Each(Free, s) \in Seq(StepsOver(B))
<1> USE DEF Each, StepsOver
<1>1. Each(Copy, s) \in Seq(StepsOver(B))
  BY DEF Copy
<1>2. Each(Raw, s) \in Seq(StepsOver(B))
  BY DEF Raw
<1>3. Each(Take, s) \in Seq(StepsOver(B))
  BY DEF Take
<1>4. Each(Wipe, s) \in Seq(StepsOver(B))
  BY DEF Wipe
<1>5. Each(Free, s) \in Seq(StepsOver(B))
  BY DEF Free
<1> QED
  BY <1>1, <1>2, <1>3, <1>4, <1>5

LEMMA EachElement ==
  ASSUME NEW B, NEW s \in Seq(B)
  PROVE  /\ Len(Each(Copy, s)) = Len(s) /\ Len(Each(Raw, s)) = Len(s)
         /\ Len(Each(Take, s)) = Len(s) /\ Len(Each(Wipe, s)) = Len(s)
         /\ Len(Each(Free, s)) = Len(s)
         /\ \A i \in 1..Len(s) :
              /\ Each(Copy, s)[i].op = "copy" /\ Each(Copy, s)[i].buf = s[i]
              /\ Each(Raw, s)[i].op = "raw" /\ Each(Raw, s)[i].buf = s[i]
              /\ Each(Take, s)[i].op = "take" /\ Each(Take, s)[i].buf = s[i]
              /\ Each(Wipe, s)[i].op = "wipe" /\ Each(Wipe, s)[i].buf = s[i]
              /\ Each(Free, s)[i].op = "free" /\ Each(Free, s)[i].buf = s[i]
BY DEF Each, Copy, Raw, Take, Wipe, Free

Among(b, s) == \E i \in 1..Len(s) : s[i] = b

(* Every step of a block opens or uses only what the finally gives back.   *)
Covered(s, released) ==
  \A i \in 1..Len(s) :
    /\ s[i].op \notin Frees \cup {"make"}
    /\ s[i].op \in Accesses => Among(s[i].buf, released)

LEMMA CoveredConcat ==
  ASSUME NEW T, NEW s \in Seq(T), NEW t \in Seq(T), NEW released,
         Covered(s, released), Covered(t, released)
  PROVE  s \o t \in Seq(T) /\ Covered(s \o t, released)
<1>1. /\ s \o t \in Seq(T) /\ Len(s \o t) = Len(s) + Len(t)
      /\ \A i \in 1..(Len(s) + Len(t)) : (s \o t)[i] = IF i <= Len(s) THEN s[i] ELSE t[i - Len(s)]
  BY ConcatProperties
<1>2. Len(s) \in Nat /\ Len(t) \in Nat
  OBVIOUS
<1> SUFFICES ASSUME NEW i \in 1..(Len(s) + Len(t))
             PROVE  /\ (s \o t)[i].op \notin Frees \cup {"make"}
                    /\ (s \o t)[i].op \in Accesses => Among((s \o t)[i].buf, released)
  BY <1>1 DEF Covered
<1>3. CASE i <= Len(s)
  BY <1>1, <1>2, <1>3 DEF Covered
<1>4. CASE i > Len(s)
  <2>1. i - Len(s) \in 1..Len(t)
    BY <1>2, <1>4
  <2> QED
    BY <1>1, <1>2, <1>4, <2>1 DEF Covered
<1> QED
  BY <1>2, <1>3, <1>4

LEMMA OneKindCovered ==
  ASSUME NEW E, NEW s, NEW op, NEW released, Len(s) \in Nat,
         Len(E) = Len(s) /\ \A i \in 1..Len(s) : E[i].op = op /\ E[i].buf = s[i],
         \A i \in 1..Len(s) : Among(s[i], released), op \notin Frees \cup {"make"}
  PROVE  Covered(E, released)
BY DEF Covered

LEMMA EachCovered ==
  ASSUME NEW B, NEW s \in Seq(B), NEW released, \A i \in 1..Len(s) : Among(s[i], released)
  PROVE  /\ Covered(Each(Copy, s), released) /\ Covered(Each(Raw, s), released)
         /\ Covered(Each(Take, s), released)
<1>1. Len(s) \in Nat
  OBVIOUS
<1>2. Covered(Each(Copy, s), released)
  <2> DEFINE E == Each(Copy, s)
  <2>1. Len(E) = Len(s) /\ \A i \in 1..Len(s) : E[i].op = "copy" /\ E[i].buf = s[i]
    BY EachElement
  <2>2. "copy" \notin Frees \cup {"make"}
    BY DEF Frees
  <2> HIDE DEF E
  <2>3. Covered(E, released)
    BY <1>1, <2>1, <2>2, OneKindCovered
  <2> QED
    BY <2>3 DEF E
<1>3. Covered(Each(Raw, s), released)
  <2> DEFINE E == Each(Raw, s)
  <2>1. Len(E) = Len(s) /\ \A i \in 1..Len(s) : E[i].op = "raw" /\ E[i].buf = s[i]
    BY EachElement
  <2>2. "raw" \notin Frees \cup {"make"}
    BY DEF Frees
  <2> HIDE DEF E
  <2>3. Covered(E, released)
    BY <1>1, <2>1, <2>2, OneKindCovered
  <2> QED
    BY <2>3 DEF E
<1>4. Covered(Each(Take, s), released)
  <2> DEFINE E == Each(Take, s)
  <2>1. Len(E) = Len(s) /\ \A i \in 1..Len(s) : E[i].op = "take" /\ E[i].buf = s[i]
    BY EachElement
  <2>2. "take" \notin Frees \cup {"make"}
    BY DEF Frees
  <2> HIDE DEF E
  <2>3. Covered(E, released)
    BY <1>1, <2>1, <2>2, OneKindCovered
  <2> QED
    BY <2>3 DEF E
<1> QED
  BY <1>2, <1>3, <1>4

(* A program without a catch whose finally wipes some of its buffers and   *)
(* then gives each of them back once.                                      *)
LEMMA ProgramDisciplined ==
  ASSUME NEW B, NEW pre \in Seq(StepsOver(B)), NEW body \in Seq(StepsOver(B)),
         NEW released \in Seq(B), NEW wiped \in Seq(B),
         Covered(pre, released), Covered(body, released),
         \A i, j \in 1..Len(released) : released[i] = released[j] => i = j,
         \A i \in 1..Len(wiped) : Among(wiped[i], released),
         \A b \in Secrets : Among(b, released) =>
             \/ Among(b, wiped)
             \/ <<Program(pre, body, Each(Wipe, wiped) \o Each(Free, released)), b>> \in LeftUnwiped
  PROVE  Disciplined(Program(pre, body, Each(Wipe, wiped) \o Each(Free, released)))
<1> DEFINE W == Each(Wipe, wiped)
           F == Each(Free, released)
           fin == W \o F
           p == Program(pre, body, fin)
<1>1. /\ p.pre = pre /\ p.body = body /\ p.caught = <<>> /\ p.fin = fin
      /\ p["pre"] = pre /\ p["body"] = body /\ p["caught"] = <<>> /\ p["fin"] = fin
  BY DEF Program
<1>2. /\ Len(W) = Len(wiped) /\ Len(F) = Len(released) /\ Len(W) \in Nat /\ Len(F) \in Nat
      /\ \A i \in 1..Len(W) : W[i].op = "wipe" /\ W[i].buf = wiped[i]
      /\ \A i \in 1..Len(F) : F[i].op = "free" /\ F[i].buf = released[i]
  <2>1. Len(wiped) \in Nat /\ Len(released) \in Nat
    OBVIOUS
  <2>2. Len(W) = Len(wiped) /\ \A i \in 1..Len(wiped) : W[i].op = "wipe" /\ W[i].buf = wiped[i]
    BY EachElement
  <2>3. Len(F) = Len(released) /\ \A i \in 1..Len(released) : F[i].op = "free" /\ F[i].buf = released[i]
    BY EachElement
  <2> HIDE DEF W, F
  <2> QED
    BY <2>1, <2>2, <2>3
<1>3. /\ fin \in Seq(StepsOver(B)) /\ Len(fin) = Len(W) + Len(F)
      /\ \A i \in 1..(Len(W) + Len(F)) : fin[i] = IF i <= Len(W) THEN W[i] ELSE F[i - Len(W)]
  <2>1. W \in Seq(StepsOver(B)) /\ F \in Seq(StepsOver(B))
    BY EachIsSeq
  <2> HIDE DEF W, F
  <2> QED
    BY <2>1, ConcatProperties
<1> HIDE DEF W, F, fin, p
<1>4. \A b : Among(b, released) => Owed(p, b)
  <2> SUFFICES ASSUME NEW k \in 1..Len(released) PROVE Owed(p, released[k])
    BY DEF Among
  <2>1. k \in 1..Len(F)
    BY <1>2
  <2>3. Len(W) + k \in 1..Len(fin) /\ ~(Len(W) + k <= Len(W)) /\ (Len(W) + k) - Len(W) = k
    BY <1>2, <1>3, <2>1
  <2>2. fin[Len(W) + k] = F[k]
    BY <1>3, <2>3
  <2> QED
    BY <1>1, <1>2, <2>1, <2>2, <2>3 DEF Owed, Releases, Frees
<1>5. OpensOrUses(p, "pre") /\ OpensOrUses(p, "body")
  BY <1>1, <1>4 DEF OpensOrUses, Covered
<1>6. RevertsOnce(p)
  BY <1>1 DEF RevertsOnce
<1>7. FreesOnce(p)
  <2> SUFFICES ASSUME NEW j \in 1..Len(fin)
               PROVE  /\ fin[j].op \in Frees \cup {"wipe"} /\ Owed(p, fin[j].buf)
                      /\ \A i \in 1..(j - 1) : fin[i].op \in Frees => fin[i].buf # fin[j].buf
    BY <1>1 DEF FreesOnce
  <2>1. CASE j <= Len(W)
    <3>2. \A i \in 1..j : i \in 1..Len(W) /\ i \in 1..Len(fin) /\ i <= Len(W)
      BY <1>2, <1>3, <2>1
    <3>1. fin[j] = W[j] /\ j \in 1..Len(W) /\ \A i \in 1..(j - 1) : fin[i] = W[i] /\ i \in 1..Len(W)
      BY <1>3, <3>2
    <3> QED
      BY <1>2, <1>4, <3>1 DEF Frees
  <2>2. CASE j > Len(W)
    <3>1. fin[j] = F[j - Len(W)] /\ j - Len(W) \in 1..Len(F)
      BY <1>2, <1>3, <2>2
    <3>2. ASSUME NEW i \in 1..(j - 1), fin[i].op \in Frees
          PROVE  fin[i].buf # fin[j].buf
      <4>1. i > Len(W)
        <5>1. i \in 1..Len(fin)
          BY <1>2, <1>3
        <5>2. i <= Len(W) => fin[i] = W[i] /\ i \in 1..Len(W)
          BY <1>2, <1>3, <5>1
        <5> QED
          BY <1>2, <3>2, <5>1, <5>2 DEF Frees
      <4>2. fin[i] = F[i - Len(W)] /\ i - Len(W) \in 1..Len(F) /\ i - Len(W) # j - Len(W)
        BY <1>2, <1>3, <4>1
      <4>3. released[i - Len(W)] # released[j - Len(W)]
        BY <1>2, <3>1, <4>2
      <4> QED
        BY <1>2, <3>1, <4>2, <4>3
    <3>3. fin[j].op = "free" /\ Owed(p, fin[j].buf)
      BY <1>2, <1>4, <3>1 DEF Among
    <3> QED
      BY <3>2, <3>3 DEF Frees
  <2> QED
    BY <1>2, <1>3, <2>1, <2>2
<1>10. WipesSecrets(p)
  <2> SUFFICES ASSUME NEW j \in 1..Len(fin), fin[j].op \in Frees, fin[j].buf \in Secrets,
                      <<p, fin[j].buf>> \notin LeftUnwiped
               PROVE  \E i \in 1..(j - 1) : fin[i].op = "wipe" /\ fin[i].buf = fin[j].buf
    BY <1>1 DEF WipesSecrets
  <2>1. j > Len(W)
    <3>1. j <= Len(W) => fin[j] = W[j] /\ j \in 1..Len(W)
      BY <1>2, <1>3
    <3> QED
      BY <1>2, <1>3, <3>1 DEF Frees
  <2>2. fin[j] = F[j - Len(W)] /\ j - Len(W) \in 1..Len(F)
    BY <1>2, <1>3, <2>1
  <2>3. Among(fin[j].buf, released)
    BY <1>2, <2>2 DEF Among
  <2>4. Among(fin[j].buf, wiped)
    BY <2>3 DEF p, fin, W, F
  <2>5. PICK i \in 1..Len(wiped) : wiped[i] = fin[j].buf
    BY <2>4 DEF Among
  <2>6. i \in 1..Len(W) /\ i \in 1..Len(fin) /\ i <= Len(W) /\ i \in 1..(j - 1)
    BY <1>2, <1>3, <2>1
  <2>7. fin[i] = W[i]
    BY <1>3, <2>6
  <2> QED
    BY <1>2, <2>5, <2>6, <2>7
<1>8. Len(pre) \in Nat /\ Len(body) \in Nat /\ Len(fin) \in Nat
  BY <1>2, <1>3
<1>9. Disciplined(p)
  BY <1>1, <1>5, <1>6, <1>7, <1>8, <1>10 DEF Disciplined
<1> QED
  BY <1>9 DEF p, fin, W, F

(* The same without a wipe.                                                *)
LEMMA FreesDisciplined ==
  ASSUME NEW B, NEW pre \in Seq(StepsOver(B)), NEW body \in Seq(StepsOver(B)),
         NEW released \in Seq(B), Covered(pre, released), Covered(body, released),
         \A i, j \in 1..Len(released) : released[i] = released[j] => i = j,
         \A b \in Secrets : Among(b, released) =>
             <<Program(pre, body, Each(Free, released)), b>> \in LeftUnwiped
  PROVE  Disciplined(Program(pre, body, Each(Free, released)))
<1>1. <<>> \in Seq(B) /\ \A i \in 1..Len(<<>>) : Among(<<>>[i], released)
  OBVIOUS
<1>2. Each(Wipe, <<>>) = <<>>
  BY DEF Each
<1>3. <<>> \o Each(Free, released) = Each(Free, released)
  BY EachIsSeq, ConcatEmptySeq
<1>4. Disciplined(Program(pre, body, Each(Wipe, <<>>) \o Each(Free, released)))
  BY <1>1, <1>2, <1>3, ProgramDisciplined
<1> QED
  BY <1>2, <1>3, <1>4

(* The names of the buffers of the wrappers that are made by Exchange,     *)
(* SizedExchange and Question.                                             *)
Buffers ==
  {"addr", "chainCode", "change", "cid", "coinType", "account", "compressed", "data", "derived",
   "doc",
   "hash", "hrp", "id", "ikm", "in", "index", "info", "iv", "key", "mint", "mnemonic", "msg",
   "out", "password", "path", "plaintext", "prefix", "priv", "pub", "purpose", "salt",
   "secret", "seed", "sig", "size", "str", "tx", "wallet", "wif"}

(* The inputs and outputs of a call are different buffers.                 *)
Apart(copies, outs) ==
  /\ \A i, j \in 1..Len(copies) : copies[i] = copies[j] => i = j
  /\ \A i, j \in 1..Len(outs) : outs[i] = outs[j] => i = j
  /\ \A i \in 1..Len(copies), j \in 1..Len(outs) : copies[i] # outs[j]

LEMMA JoinedBuffers ==
  ASSUME NEW B, NEW copies \in Seq(B), NEW outs \in Seq(B)
  PROVE  /\ copies \o outs \in Seq(B)
         /\ \A b : Among(b, copies \o outs) <=> Among(b, copies) \/ Among(b, outs)
         /\ Apart(copies, outs) =>
              \A i, j \in 1..Len(copies \o outs) : (copies \o outs)[i] = (copies \o outs)[j] => i = j
<1> DEFINE both == copies \o outs
<1>1. /\ both \in Seq(B) /\ Len(both) = Len(copies) + Len(outs)
      /\ \A i \in 1..(Len(copies) + Len(outs)) :
           both[i] = IF i <= Len(copies) THEN copies[i] ELSE outs[i - Len(copies)]
  BY ConcatProperties
<1>2. Len(copies) \in Nat /\ Len(outs) \in Nat
  OBVIOUS
<1> HIDE DEF both
<1>3. \A i \in 1..Len(copies) : i \in 1..Len(both) /\ both[i] = copies[i]
  BY <1>1, <1>2
<1>4. \A j \in 1..Len(outs) : Len(copies) + j \in 1..Len(both) /\ both[Len(copies) + j] = outs[j]
  <2> TAKE j \in 1..Len(outs)
  <2>1. /\ Len(copies) + j \in 1..Len(both) /\ ~(Len(copies) + j <= Len(copies))
        /\ (Len(copies) + j) - Len(copies) = j
    BY <1>1, <1>2
  <2> QED
    BY <1>1, <2>1
<1>5. \A i \in 1..Len(both) :
        \/ i \in 1..Len(copies) /\ both[i] = copies[i]
        \/ i > Len(copies) /\ i - Len(copies) \in 1..Len(outs) /\ both[i] = outs[i - Len(copies)]
  BY <1>1, <1>2
<1>6. \A b : Among(b, both) <=> Among(b, copies) \/ Among(b, outs)
  BY <1>3, <1>4, <1>5 DEF Among
<1>7. ASSUME Apart(copies, outs), NEW i \in 1..Len(both), NEW j \in 1..Len(both), both[i] = both[j]
      PROVE  i = j
  <2>1. CASE i \in 1..Len(copies) /\ both[i] = copies[i]
    BY <1>5, <1>7, <2>1 DEF Apart
  <2>2. CASE i > Len(copies) /\ i - Len(copies) \in 1..Len(outs) /\ both[i] = outs[i - Len(copies)]
    <3>1. j > Len(copies) /\ j - Len(copies) \in 1..Len(outs) /\ both[j] = outs[j - Len(copies)]
      BY <1>5, <1>7, <2>2 DEF Apart
    <3>2. i - Len(copies) = j - Len(copies)
      BY <1>7, <2>2, <3>1 DEF Apart
    <3> QED
      BY <1>1, <1>2, <3>2
  <2> QED
    BY <1>5, <2>1, <2>2
<1> QED
  BY <1>1, <1>6, <1>7 DEF both

ExchangeShape(copies, outs, wiped) ==
  /\ copies \in Seq(Buffers) /\ outs \in Seq(Buffers) /\ wiped \in Seq(Buffers)
  /\ Apart(copies, outs)
  /\ \A i \in 1..Len(wiped) : Among(wiped[i], copies) \/ Among(wiped[i], outs)
  /\ \A b \in Secrets : Among(b, copies) \/ Among(b, outs) =>
       Among(b, wiped) \/ <<Exchange(copies, outs, wiped), b>> \in LeftUnwiped

LEMMA ExchangeDisciplined ==
  ASSUME NEW copies, NEW outs, NEW wiped, ExchangeShape(copies, outs, wiped)
  PROVE  Disciplined(Exchange(copies, outs, wiped))
<1> USE DEF ExchangeShape
<1> DEFINE both == copies \o outs
           pre == <<Check>> \o Each(Copy, copies) \o Each(Raw, outs)
           body == <<Native>> \o Each(Take, outs)
<1>1. /\ both \in Seq(Buffers)
      /\ \A b : Among(b, both) <=> Among(b, copies) \/ Among(b, outs)
      /\ \A i, j \in 1..Len(both) : both[i] = both[j] => i = j
  BY JoinedBuffers
<1> HIDE DEF both
<1>2. /\ \A i \in 1..Len(copies) : Among(copies[i], both)
      /\ \A i \in 1..Len(outs) : Among(outs[i], both)
      /\ \A i \in 1..Len(wiped) : Among(wiped[i], both)
  BY <1>1 DEF Among
<1>3. /\ <<Check>> \in Seq(StepsOver(Buffers)) /\ Covered(<<Check>>, both)
      /\ <<Native>> \in Seq(StepsOver(Buffers)) /\ Covered(<<Native>>, both)
  BY DEF Check, Native, StepsOver, Covered, Accesses, Frees
<1>4. pre \in Seq(StepsOver(Buffers)) /\ Covered(pre, both)
  <2>1. /\ <<Check>> \o Each(Copy, copies) \in Seq(StepsOver(Buffers))
        /\ Covered(<<Check>> \o Each(Copy, copies), both)
    BY <1>2, <1>3, EachIsSeq, EachCovered, CoveredConcat
  <2> QED
    BY <1>2, <2>1, EachIsSeq, EachCovered, CoveredConcat
<1>5. body \in Seq(StepsOver(Buffers)) /\ Covered(body, both)
  BY <1>2, <1>3, EachIsSeq, EachCovered, CoveredConcat
<1> HIDE DEF pre, body
<1>6. Exchange(copies, outs, wiped) =
        Program(pre, body, Each(Wipe, wiped) \o Each(Free, both))
  BY DEF Exchange, both, pre, body
<1>7. Disciplined(Program(pre, body, Each(Wipe, wiped) \o Each(Free, both)))
  BY <1>1, <1>2, <1>4, <1>5, <1>6, ProgramDisciplined
<1> QED
  BY <1>6, <1>7

QuestionShape(copies) ==
  /\ copies \in Seq(Buffers) /\ \A i, j \in 1..Len(copies) : copies[i] = copies[j] => i = j
  /\ \A b \in Secrets : Among(b, copies) => <<Question(copies), b>> \in LeftUnwiped

LEMMA QuestionDisciplined ==
  ASSUME NEW copies, QuestionShape(copies)
  PROVE  Disciplined(Question(copies))
<1> USE DEF QuestionShape
<1> DEFINE pre == <<Check>> \o Each(Copy, copies)
<1>1. /\ <<Check>> \in Seq(StepsOver(Buffers)) /\ Covered(<<Check>>, copies)
      /\ <<Ask>> \in Seq(StepsOver(Buffers)) /\ Covered(<<Ask>>, copies)
  BY DEF Check, Ask, StepsOver, Covered, Accesses, Frees
<1>2. \A i \in 1..Len(copies) : Among(copies[i], copies)
  BY DEF Among
<1>3. pre \in Seq(StepsOver(Buffers)) /\ Covered(pre, copies)
  BY <1>1, <1>2, EachIsSeq, EachCovered, CoveredConcat
<1> HIDE DEF pre
<1>4. Question(copies) = Program(pre, <<Ask>>, Each(Free, copies))
  BY DEF Question, pre
<1>5. Disciplined(Program(pre, <<Ask>>, Each(Free, copies)))
  BY <1>1, <1>3, <1>4, FreesDisciplined
<1> QED
  BY <1>4, <1>5

SizedShape(copies, outs, size, wiped) ==
  /\ ExchangeShape(copies, outs, wiped)
  /\ \A b \in Secrets : Among(b, copies) \/ Among(b, outs) => Among(b, wiped)
  /\ size \in Buffers \ Secrets /\ Apart(copies, <<size>>) /\ Apart(outs, <<size>>)

LEMMA SizedExchangeDisciplined ==
  ASSUME NEW copies, NEW outs, NEW size, NEW wiped, SizedShape(copies, outs, size, wiped)
  PROVE  Disciplined(SizedExchange(copies, outs, size, wiped))
<1> USE DEF SizedShape, ExchangeShape
<1> DEFINE both == copies \o outs
           all == both \o <<size>>
           first == <<Check>> \o Each(Copy, copies)
           pre == first \o Each(Raw, outs) \o <<Raw(size)>>
           body == <<Put(size), Native, Take(size)>> \o Each(Take, outs)
<1>1. /\ both \in Seq(Buffers)
      /\ \A b : Among(b, both) <=> Among(b, copies) \/ Among(b, outs)
      /\ \A i, j \in 1..Len(both) : both[i] = both[j] => i = j
  BY JoinedBuffers
<1>2. <<size>> \in Seq(Buffers) /\ Among(size, <<size>>)
  BY DEF Among
<1> HIDE DEF both
<1>3. Apart(both, <<size>>)
  <2>1. ~Among(size, copies) /\ ~Among(size, outs)
    BY DEF Apart, Among
  <2>2. \A i \in 1..Len(both) : both[i] # size
    BY <1>1, <2>1 DEF Among
  <2> QED
    BY <1>1, <2>2 DEF Apart
<1>4. /\ all \in Seq(Buffers)
      /\ \A b : Among(b, all) <=> Among(b, both) \/ Among(b, <<size>>)
      /\ \A i, j \in 1..Len(all) : all[i] = all[j] => i = j
  BY <1>1, <1>2, <1>3, JoinedBuffers
<1> HIDE DEF all
<1>5. /\ \A i \in 1..Len(copies) : Among(copies[i], all)
      /\ \A i \in 1..Len(outs) : Among(outs[i], all)
      /\ \A i \in 1..Len(wiped) : Among(wiped[i], all)
      /\ Among(size, all)
  BY <1>1, <1>2, <1>4 DEF Among
<1>6. <<Check>> \in Seq(StepsOver(Buffers)) /\ Covered(<<Check>>, all)
  BY DEF Check, StepsOver, Covered, Accesses, Frees
<1>7. <<Raw(size)>> \in Seq(StepsOver(Buffers)) /\ Covered(<<Raw(size)>>, all)
  BY <1>5 DEF Raw, StepsOver, Covered, Accesses, Frees
<1>8. /\ <<Put(size), Native, Take(size)>> \in Seq(StepsOver(Buffers))
      /\ Covered(<<Put(size), Native, Take(size)>>, all)
  BY <1>5 DEF Put, Native, Take, StepsOver, Covered, Accesses, Frees
<1>9. first \in Seq(StepsOver(Buffers)) /\ Covered(first, all)
  BY <1>5, <1>6, EachIsSeq, EachCovered, CoveredConcat
<1> HIDE DEF first
<1>10. /\ first \o Each(Raw, outs) \in Seq(StepsOver(Buffers))
       /\ Covered(first \o Each(Raw, outs), all)
  BY <1>5, <1>9, EachIsSeq, EachCovered, CoveredConcat
<1>11. pre \in Seq(StepsOver(Buffers)) /\ Covered(pre, all)
  BY <1>7, <1>10, CoveredConcat
<1>12. body \in Seq(StepsOver(Buffers)) /\ Covered(body, all)
  BY <1>5, <1>8, EachIsSeq, EachCovered, CoveredConcat
<1> HIDE DEF pre, body
<1>13. \A b \in Secrets : Among(b, all) => Among(b, wiped)
  <2>1. \A b \in Secrets : ~Among(b, <<size>>)
    BY DEF Among
  <2> QED
    BY <1>1, <1>4, <2>1
<1>14. Disciplined(Program(pre, body, Each(Wipe, wiped) \o Each(Free, all)))
  BY <1>4, <1>5, <1>11, <1>12, <1>13, ProgramDisciplined
<1> QED
  BY <1>14 DEF SizedExchange, both, all, pre, body, first

LEMMA KeyExchanges ==
  Disciplined(HDKey_publicKey) /\ Disciplined(HDKey_chainCode) /\
     Disciplined(HDKey_toXpub) /\ Disciplined(mnemonic_generate) /\
     Disciplined(mnemonic_validate) /\ Disciplined(mnemonic_suggestWords) /\
     Disciplined(hdkey_buildPath) /\ Disciplined(hdkey_parsePath) /\
     Disciplined(slip10_deriveEd25519Path)
<1>1. ExchangeShape(<<>>, <<"out">>, <<>>)
  BY DEF ExchangeShape, Buffers, Secrets, Apart, Among
<1>2. Disciplined(HDKey_publicKey) /\ Disciplined(HDKey_toXpub) /\ Disciplined(hdkey_buildPath)
  BY <1>1, ExchangeDisciplined DEF HDKey_publicKey, HDKey_toXpub, hdkey_buildPath
<1>3. ExchangeShape(<<>>, <<"mnemonic">>, <<>>)
  <2>1. <<Exchange(<<>>, <<"mnemonic">>, <<>>), "mnemonic">> \in LeftUnwiped
    BY DEF LeftUnwiped, mnemonic_generate
  <2> QED
    BY <2>1 DEF ExchangeShape, Buffers, Secrets, Apart, Among
<1>4. Disciplined(mnemonic_generate)
  BY <1>3, ExchangeDisciplined DEF mnemonic_generate
<1>5. QuestionShape(<<"mnemonic">>)
  <2>1. <<Question(<<"mnemonic">>), "mnemonic">> \in LeftUnwiped
    BY DEF LeftUnwiped, mnemonic_validate
  <2> QED
    BY <2>1 DEF QuestionShape, Buffers, Secrets, Among
<1>6. Disciplined(mnemonic_validate)
  BY <1>5, QuestionDisciplined DEF mnemonic_validate
<1>7. ExchangeShape(<<"prefix">>, <<"out">>, <<>>)
  BY DEF ExchangeShape, Buffers, Secrets, Apart, Among
<1>8. Disciplined(mnemonic_suggestWords)
  BY <1>7, ExchangeDisciplined DEF mnemonic_suggestWords
<1>9. ExchangeShape(<<"path">>, <<"purpose", "coinType", "account", "change", "index">>, <<>>)
  BY DEF ExchangeShape, Buffers, Secrets, Apart, Among
<1>10. Disciplined(hdkey_parsePath)
  BY <1>9, ExchangeDisciplined DEF hdkey_parsePath
<1>11. ExchangeShape(<<"seed", "path">>, <<"key", "chainCode">>, <<"seed", "key">>)
  <2>1. <<Exchange(<<"seed", "path">>, <<"key", "chainCode">>, <<"seed", "key">>), "chainCode">> \in LeftUnwiped
    BY DEF LeftUnwiped, slip10_deriveEd25519Path
  <2> QED
    BY <2>1 DEF ExchangeShape, Buffers, Secrets, Apart, Among
<1>12. Disciplined(slip10_deriveEd25519Path)
  BY <1>11, ExchangeDisciplined DEF slip10_deriveEd25519Path
<1>13. ExchangeShape(<<>>, <<"chainCode">>, <<>>)
  <2>1. <<Exchange(<<>>, <<"chainCode">>, <<>>), "chainCode">> \in LeftUnwiped
    BY DEF LeftUnwiped, HDKey_chainCode
  <2> QED
    BY <2>1 DEF ExchangeShape, Buffers, Secrets, Apart, Among
<1>14. Disciplined(HDKey_chainCode)
  BY <1>13, ExchangeDisciplined DEF HDKey_chainCode
<1> QED
  BY <1>2, <1>4, <1>6, <1>8, <1>10, <1>12, <1>14

LEMMA KeySequences ==
  Disciplined(HDKey_get) /\ Disciplined(HDKey_privateKey) /\
     Disciplined(HDKey_publicKeyUncompressed) /\ Disciplined(HDKey_deriveChild) /\
     Disciplined(HDKey_derivePath) /\ Disciplined(HDKey_toXprv) /\
     Disciplined(mnemonic_toSeed) /\ Disciplined(mnemonic_toEntropy) /\
     Disciplined(mnemonic_fromEntropy) /\ Disciplined(mnemonic_getWordlist) /\
     Disciplined(mnemonic_checkWord) /\ Disciplined(hdkey_fromSeed) /\
     Disciplined(hdkey_fromXprv) /\ Disciplined(hdkey_fromXpub) /\
     Disciplined(getSigningKey) /\ Disciplined(injectEntropy)
<1> USE DEF Program, Disciplined, OpensOrUses, RevertsOnce, FreesOnce, WipesSecrets, Secrets,
     Owed, Reverted, Releases, Accesses, Frees, Check, Sub, Native, Ask, Copy, New, Raw, Opt,
     Put, Take, Wipe, Free, Make, Destroy
<1>1. Disciplined(HDKey_get)
  BY DEF HDKey_get, Plain
<1>2. Disciplined(HDKey_privateKey)
  BY DEF HDKey_privateKey
<1>3. Disciplined(HDKey_publicKeyUncompressed)
  BY DEF HDKey_publicKeyUncompressed
<1>4. Disciplined(HDKey_deriveChild)
  BY DEF HDKey_deriveChild, Plain
<1>5. Disciplined(HDKey_derivePath)
  BY DEF HDKey_derivePath
<1>6. Disciplined(HDKey_toXprv)
  BY DEF HDKey_toXprv
<1>7. Disciplined(mnemonic_toSeed)
  BY DEF mnemonic_toSeed
<1>8. Disciplined(mnemonic_toEntropy)
  BY DEF mnemonic_toEntropy
<1>9. Disciplined(mnemonic_fromEntropy)
  BY DEF mnemonic_fromEntropy
<1>10. Disciplined(mnemonic_getWordlist)
  BY DEF mnemonic_getWordlist, Plain
<1>11. Disciplined(mnemonic_checkWord)
  BY DEF mnemonic_checkWord
<1>12. Disciplined(hdkey_fromSeed)
  BY DEF hdkey_fromSeed
<1>13. Disciplined(hdkey_fromXprv)
  <2>1. <<hdkey_fromXprv, "xprv">> \in LeftUnwiped
    BY ONLY DEF LeftUnwiped
  <2> QED
    BY <2>1 DEF hdkey_fromXprv
<1>14. Disciplined(hdkey_fromXpub)
  BY DEF hdkey_fromXpub
<1>15. Disciplined(getSigningKey)
  BY DEF getSigningKey
<1>16. Disciplined(injectEntropy)
  BY DEF injectEntropy
<1> QED
  BY ONLY <1>1, <1>2, <1>3, <1>4, <1>5, <1>6, <1>7, <1>8, <1>9, <1>10, <1>11, <1>12, <1>13,
     <1>14, <1>15, <1>16

LEMMA CurveExchanges ==
  Disciplined(curves_publicKeyFromPrivate) /\
     Disciplined(curves_decompressPublicKey) /\ Disciplined(curves_ecdh) /\
     Disciplined(secp256k1_sign) /\ Disciplined(secp256k1_verify) /\
     Disciplined(secp256k1_recover) /\ Disciplined(secp256k1_ecdh) /\
     Disciplined(ed25519_publicKeyFromSeed) /\ Disciplined(ed25519_sign) /\
     Disciplined(ed25519_verify) /\ Disciplined(p256_sign) /\ Disciplined(p256_verify) /\
     Disciplined(p256_ecdh) /\ Disciplined(p384_sign) /\ Disciplined(p384_verify) /\
     Disciplined(p384_ecdh) /\ Disciplined(x25519_publicKey) /\ Disciplined(x25519_ecdh)
<1>1. ExchangeShape(<<"priv">>, <<"pub">>, <<"priv">>)
  BY DEF ExchangeShape, Buffers, Secrets, Apart, Among
<1>2. Disciplined(curves_publicKeyFromPrivate) /\ Disciplined(x25519_publicKey)
  BY <1>1, ExchangeDisciplined DEF curves_publicKeyFromPrivate, x25519_publicKey
<1>3. ExchangeShape(<<"in">>, <<"out">>, <<>>)
  BY DEF ExchangeShape, Buffers, Secrets, Apart, Among
<1>4. Disciplined(curves_decompressPublicKey)
  BY <1>3, ExchangeDisciplined DEF curves_decompressPublicKey
<1>5. ExchangeShape(<<"priv", "pub">>, <<"secret">>, <<"priv", "secret">>)
  BY DEF ExchangeShape, Buffers, Secrets, Apart, Among
<1>6. Disciplined(curves_ecdh) /\ Disciplined(secp256k1_ecdh) /\ Disciplined(p256_ecdh) /\
     Disciplined(p384_ecdh) /\ Disciplined(x25519_ecdh)
  BY <1>5, ExchangeDisciplined DEF curves_ecdh, secp256k1_ecdh, p256_ecdh, p384_ecdh,
     x25519_ecdh
<1>7. ExchangeShape(<<"msg", "key">>, <<"sig">>, <<"key">>)
  BY DEF ExchangeShape, Buffers, Secrets, Apart, Among
<1>8. Disciplined(secp256k1_sign) /\ Disciplined(ed25519_sign) /\ Disciplined(p256_sign) /\
     Disciplined(p384_sign)
  BY <1>7, ExchangeDisciplined DEF secp256k1_sign, ed25519_sign, p256_sign, p384_sign
<1>9. QuestionShape(<<"msg", "sig", "pub">>)
  BY DEF QuestionShape, Buffers, Secrets, Among
<1>10. Disciplined(secp256k1_verify) /\ Disciplined(ed25519_verify) /\
     Disciplined(p256_verify) /\ Disciplined(p384_verify)
  BY <1>9, QuestionDisciplined DEF secp256k1_verify, ed25519_verify, p256_verify, p384_verify
<1>11. ExchangeShape(<<"msg", "sig">>, <<"pub">>, <<>>)
  BY DEF ExchangeShape, Buffers, Secrets, Apart, Among
<1>12. Disciplined(secp256k1_recover)
  BY <1>11, ExchangeDisciplined DEF secp256k1_recover
<1>13. ExchangeShape(<<"seed">>, <<"pub">>, <<"seed">>)
  BY DEF ExchangeShape, Buffers, Secrets, Apart, Among
<1>14. Disciplined(ed25519_publicKeyFromSeed)
  BY <1>13, ExchangeDisciplined DEF ed25519_publicKeyFromSeed
<1> QED
  BY <1>2, <1>4, <1>6, <1>8, <1>10, <1>12, <1>14

LEMMA EciesReleases == Disciplined(ecies_decrypt)
<1> USE DEF ecies_decrypt, Program, Check, Native, Copy, Opt, Raw, Take, Wipe, Free
<1>1. \A b \in {"priv", "ct", "aad", "plaintext"} : Owed(ecies_decrypt, b)
  BY DEF Owed, Releases, Frees
<1>2. OpensOrUses(ecies_decrypt, "pre") /\ OpensOrUses(ecies_decrypt, "body")
  BY <1>1 DEF OpensOrUses, Accesses, Frees
<1>3. RevertsOnce(ecies_decrypt)
  BY DEF RevertsOnce
<1>4. FreesOnce(ecies_decrypt)
  BY <1>1 DEF FreesOnce, Frees
<1>5. WipesSecrets(ecies_decrypt)
  BY DEF WipesSecrets, Secrets, Frees
<1> QED
  BY <1>2, <1>3, <1>4, <1>5 DEF Disciplined

LEMMA CurveSequences ==
  Disciplined(curves_compressPublicKey) /\
     Disciplined(secp256k1_signRecoverable) /\ Disciplined(ecies_encrypt) /\
     Disciplined(ecies_decrypt)
<1> USE DEF Program, Disciplined, OpensOrUses, RevertsOnce, FreesOnce, WipesSecrets, Secrets,
     Owed, Reverted, Releases, Accesses, Frees, Check, Sub, Native, Ask, Copy, New, Raw, Opt,
     Put, Take, Wipe, Free, Make, Destroy
<1>1. Disciplined(curves_compressPublicKey)
  BY DEF curves_compressPublicKey, Plain
<1>2. Disciplined(secp256k1_signRecoverable)
  BY DEF secp256k1_signRecoverable
<1>3. Disciplined(ecies_encrypt)
  BY DEF ecies_encrypt
<1>4. Disciplined(ecies_decrypt)
  BY ONLY EciesReleases
<1> QED
  BY ONLY <1>1, <1>2, <1>3, <1>4

LEMMA CoinExchanges ==
  Disciplined(coin_addressFromPubkey) /\
     Disciplined(coin_validateAddress) /\ Disciplined(coin_verifyMessage) /\
     Disciplined(bitcoin_validateAddress) /\ Disciplined(bitcoin_detectAddressType) /\
     Disciplined(bitcoin_toWIF) /\ Disciplined(bitcoin_fromWIF) /\
     Disciplined(bitcoin_signMessage) /\ Disciplined(bitcoin_verifyMessage) /\
     Disciplined(btcTx_serialize) /\ Disciplined(btcTx_getTxid) /\
     Disciplined(ethereum_getAddress) /\ Disciplined(ethereum_getChecksumAddress) /\
     Disciplined(ethereum_validateAddress) /\ Disciplined(ethereum_signMessage) /\
     Disciplined(ethereum_k256) /\ Disciplined(ethereum_verifyMessage) /\
     Disciplined(ethereum_verifyChecksum) /\ Disciplined(ethereum_hashMessage) /\
     Disciplined(ethTx_serialize) /\ Disciplined(ethTx_getHash) /\
     Disciplined(cosmos_getAddress) /\ Disciplined(cosmos_convertPrefix) /\
     Disciplined(cosmos_signAmino) /\ Disciplined(cosmos_signDirect) /\
     Disciplined(cosmos_verifySignature) /\ Disciplined(solana_getAddress) /\
     Disciplined(solana_validateAddress) /\ Disciplined(solana_signMessage) /\
     Disciplined(solana_verifyMessage) /\ Disciplined(solana_addressToPubkey) /\
     Disciplined(solana_derivePubkey) /\ Disciplined(solana_getAssociatedTokenAddress) /\
     Disciplined(polkadot_getAddress) /\ Disciplined(polkadot_validateAddress) /\
     Disciplined(polkadot_decodeAddress) /\ Disciplined(polkadot_convertPrefix) /\
     Disciplined(polkadot_derivePubkey) /\ Disciplined(polkadot_signMessage) /\
     Disciplined(polkadot_verifyMessage)
<1>1. ExchangeShape(<<"pub">>, <<"out">>, <<>>)
  BY DEF ExchangeShape, Buffers, Secrets, Apart, Among
<1>2. Disciplined(coin_addressFromPubkey) /\ Disciplined(ethereum_getAddress) /\
     Disciplined(solana_getAddress) /\ Disciplined(polkadot_getAddress)
  BY <1>1, ExchangeDisciplined DEF coin_addressFromPubkey, ethereum_getAddress,
     solana_getAddress, polkadot_getAddress
<1>3. QuestionShape(<<"addr">>)
  BY DEF QuestionShape, Buffers, Secrets, Among
<1>4. Disciplined(coin_validateAddress) /\ Disciplined(bitcoin_validateAddress) /\
     Disciplined(bitcoin_detectAddressType) /\ Disciplined(ethereum_validateAddress) /\
     Disciplined(ethereum_verifyChecksum) /\ Disciplined(solana_validateAddress) /\
     Disciplined(polkadot_validateAddress)
  BY <1>3, QuestionDisciplined DEF coin_validateAddress, bitcoin_validateAddress,
     bitcoin_detectAddressType, ethereum_validateAddress, ethereum_verifyChecksum,
     solana_validateAddress, polkadot_validateAddress
<1>5. QuestionShape(<<"msg", "sig", "pub">>)
  BY DEF QuestionShape, Buffers, Secrets, Among
<1>6. Disciplined(coin_verifyMessage) /\ Disciplined(cosmos_verifySignature) /\
     Disciplined(solana_verifyMessage) /\ Disciplined(polkadot_verifyMessage)
  BY <1>5, QuestionDisciplined DEF coin_verifyMessage, cosmos_verifySignature,
     solana_verifyMessage, polkadot_verifyMessage
<1>7. ExchangeShape(<<"key">>, <<"wif">>, <<"key">>)
  <2>1. <<Exchange(<<"key">>, <<"wif">>, <<"key">>), "wif">> \in LeftUnwiped
    BY DEF LeftUnwiped, bitcoin_toWIF
  <2> QED
    BY <2>1 DEF ExchangeShape, Buffers, Secrets, Apart, Among
<1>8. Disciplined(bitcoin_toWIF)
  BY <1>7, ExchangeDisciplined DEF bitcoin_toWIF
<1>9. ExchangeShape(<<"wif">>, <<"key", "compressed">>, <<"key">>)
  <2>1. <<Exchange(<<"wif">>, <<"key", "compressed">>, <<"key">>), "wif">> \in LeftUnwiped
    BY DEF LeftUnwiped, bitcoin_fromWIF
  <2> QED
    BY <2>1 DEF ExchangeShape, Buffers, Secrets, Apart, Among
<1>10. Disciplined(bitcoin_fromWIF)
  BY <1>9, ExchangeDisciplined DEF bitcoin_fromWIF
<1>11. ExchangeShape(<<"msg", "key">>, <<"sig">>, <<"key">>)
  BY DEF ExchangeShape, Buffers, Secrets, Apart, Among
<1>12. Disciplined(bitcoin_signMessage) /\ Disciplined(ethereum_signMessage) /\
     Disciplined(solana_signMessage) /\ Disciplined(polkadot_signMessage)
  BY <1>11, ExchangeDisciplined DEF bitcoin_signMessage, ethereum_signMessage,
     solana_signMessage, polkadot_signMessage
<1>13. QuestionShape(<<"msg", "sig", "addr">>)
  BY DEF QuestionShape, Buffers, Secrets, Among
<1>14. Disciplined(bitcoin_verifyMessage)
  BY <1>13, QuestionDisciplined DEF bitcoin_verifyMessage
<1>15. SizedShape(<<>>, <<"out">>, "size", <<>>)
  BY DEF SizedShape, ExchangeShape, Buffers, Secrets, Apart, Among
<1>16. Disciplined(btcTx_serialize) /\ Disciplined(ethTx_serialize)
  BY <1>15, SizedExchangeDisciplined DEF btcTx_serialize, ethTx_serialize
<1>17. ExchangeShape(<<>>, <<"out">>, <<>>)
  BY DEF ExchangeShape, Buffers, Secrets, Apart, Among
<1>18. Disciplined(btcTx_getTxid) /\ Disciplined(ethTx_getHash)
  BY <1>17, ExchangeDisciplined DEF btcTx_getTxid, ethTx_getHash
<1>19. ExchangeShape(<<"addr">>, <<"out">>, <<>>)
  BY DEF ExchangeShape, Buffers, Secrets, Apart, Among
<1>20. Disciplined(ethereum_getChecksumAddress) /\ Disciplined(solana_addressToPubkey) /\
     Disciplined(polkadot_convertPrefix)
  BY <1>19, ExchangeDisciplined DEF ethereum_getChecksumAddress, solana_addressToPubkey,
     polkadot_convertPrefix
<1>21. ExchangeShape(<<"data">>, <<"hash">>, <<>>)
  BY DEF ExchangeShape, Buffers, Secrets, Apart, Among
<1>22. Disciplined(ethereum_k256)
  BY <1>21, ExchangeDisciplined DEF ethereum_k256
<1>23. ExchangeShape(<<"msg", "sig">>, <<"addr">>, <<>>)
  BY DEF ExchangeShape, Buffers, Secrets, Apart, Among
<1>24. Disciplined(ethereum_verifyMessage)
  BY <1>23, ExchangeDisciplined DEF ethereum_verifyMessage
<1>25. ExchangeShape(<<"msg">>, <<"hash">>, <<>>)
  BY DEF ExchangeShape, Buffers, Secrets, Apart, Among
<1>26. Disciplined(ethereum_hashMessage)
  BY <1>25, ExchangeDisciplined DEF ethereum_hashMessage
<1>27. ExchangeShape(<<"pub", "prefix">>, <<"out">>, <<>>)
  BY DEF ExchangeShape, Buffers, Secrets, Apart, Among
<1>28. Disciplined(cosmos_getAddress)
  BY <1>27, ExchangeDisciplined DEF cosmos_getAddress
<1>29. ExchangeShape(<<"addr", "prefix">>, <<"out">>, <<>>)
  BY DEF ExchangeShape, Buffers, Secrets, Apart, Among
<1>30. Disciplined(cosmos_convertPrefix)
  BY <1>29, ExchangeDisciplined DEF cosmos_convertPrefix
<1>31. ExchangeShape(<<"doc", "key">>, <<"sig">>, <<"key">>)
  BY DEF ExchangeShape, Buffers, Secrets, Apart, Among
<1>32. Disciplined(cosmos_signAmino) /\ Disciplined(cosmos_signDirect)
  BY <1>31, ExchangeDisciplined DEF cosmos_signAmino, cosmos_signDirect
<1>33. ExchangeShape(<<"key">>, <<"out">>, <<"key">>)
  BY DEF ExchangeShape, Buffers, Secrets, Apart, Among
<1>34. Disciplined(solana_derivePubkey) /\ Disciplined(polkadot_derivePubkey)
  BY <1>33, ExchangeDisciplined DEF solana_derivePubkey, polkadot_derivePubkey
<1>35. ExchangeShape(<<"wallet", "mint">>, <<"out">>, <<>>)
  BY DEF ExchangeShape, Buffers, Secrets, Apart, Among
<1>36. Disciplined(solana_getAssociatedTokenAddress)
  BY <1>35, ExchangeDisciplined DEF solana_getAssociatedTokenAddress
<1>37. ExchangeShape(<<"addr">>, <<"prefix", "pub">>, <<>>)
  BY DEF ExchangeShape, Buffers, Secrets, Apart, Among
<1>38. Disciplined(polkadot_decodeAddress)
  BY <1>37, ExchangeDisciplined DEF polkadot_decodeAddress
<1> QED
  BY <1>2, <1>4, <1>6, <1>8, <1>10, <1>12, <1>14, <1>16, <1>18, <1>20, <1>22, <1>24, <1>26,
     <1>28, <1>30, <1>32, <1>34, <1>36, <1>38

LEMMA CoinSequences ==
  Disciplined(coin_signMessage) /\ Disciplined(bitcoin_getAddress) /\
     Disciplined(btcTx_scriptOutput) /\ Disciplined(btcTx_sign) /\ Disciplined(btcTx_get) /\
     Disciplined(btcTx_create) /\ Disciplined(btcTx_parse) /\ Disciplined(ethTx_sign) /\
     Disciplined(ethTx_setTo) /\ Disciplined(ethTx_setValue) /\ Disciplined(ethTx_setData) /\
     Disciplined(ethTx_createEIP1559) /\ Disciplined(ethTx_create) /\ Disciplined(ethTx_parse)
<1> USE DEF Program, Disciplined, OpensOrUses, RevertsOnce, FreesOnce, WipesSecrets, Secrets,
     Owed, Reverted, Releases, Accesses, Frees, Check, Sub, Native, Ask, Copy, New, Raw, Opt,
     Put, Take, Wipe, Free, Make, Destroy
<1>1. Disciplined(coin_signMessage)
  BY DEF coin_signMessage
<1>2. Disciplined(bitcoin_getAddress)
  BY DEF bitcoin_getAddress
<1>3. Disciplined(btcTx_scriptOutput)
  BY DEF btcTx_scriptOutput
<1>4. Disciplined(btcTx_sign)
  BY DEF btcTx_sign
<1>5. Disciplined(btcTx_get)
  BY DEF btcTx_get, Plain
<1>6. Disciplined(btcTx_create)
  BY DEF btcTx_create, Plain
<1>7. Disciplined(btcTx_parse) /\ Disciplined(ethTx_parse)
  BY DEF btcTx_parse, ethTx_parse
<1>8. Disciplined(ethTx_sign)
  BY DEF ethTx_sign
<1>9. Disciplined(ethTx_setTo)
  BY DEF ethTx_setTo
<1>10. Disciplined(ethTx_setValue)
  BY DEF ethTx_setValue
<1>11. Disciplined(ethTx_setData)
  BY DEF ethTx_setData
<1>12. Disciplined(ethTx_createEIP1559)
  BY DEF ethTx_createEIP1559, CreatedTx
<1>13. Disciplined(ethTx_create)
  BY DEF ethTx_create, CreatedTx
<1> QED
  BY ONLY <1>1, <1>2, <1>3, <1>4, <1>5, <1>6, <1>7, <1>8, <1>9, <1>10, <1>11, <1>12, <1>13

LEMMA DeviceExchanges ==
  Disciplined(hardware_getPublicKey) /\
     Disciplined(hardware_signTransaction) /\ Disciplined(hardware_signMessage) /\
     Disciplined(keyring_signTransaction) /\ Disciplined(keyring_signMessage)
<1>1. ExchangeShape(<<"path">>, <<"out">>, <<>>)
  BY DEF ExchangeShape, Buffers, Secrets, Apart, Among
<1>2. Disciplined(hardware_getPublicKey)
  BY <1>1, ExchangeDisciplined DEF hardware_getPublicKey
<1>3. ExchangeShape(<<"path", "tx">>, <<"sig">>, <<>>)
  BY DEF ExchangeShape, Buffers, Secrets, Apart, Among
<1>4. Disciplined(hardware_signTransaction)
  BY <1>3, ExchangeDisciplined DEF hardware_signTransaction
<1>5. ExchangeShape(<<"path", "msg">>, <<"sig">>, <<>>)
  BY DEF ExchangeShape, Buffers, Secrets, Apart, Among
<1>6. Disciplined(hardware_signMessage)
  BY <1>5, ExchangeDisciplined DEF hardware_signMessage
<1>7. ExchangeShape(<<"id", "path", "tx">>, <<"sig">>, <<>>)
  BY DEF ExchangeShape, Buffers, Secrets, Apart, Among
<1>8. Disciplined(keyring_signTransaction)
  BY <1>7, ExchangeDisciplined DEF keyring_signTransaction
<1>9. ExchangeShape(<<"id", "path", "msg">>, <<"sig">>, <<>>)
  BY DEF ExchangeShape, Buffers, Secrets, Apart, Among
<1>10. Disciplined(keyring_signMessage)
  BY <1>9, ExchangeDisciplined DEF keyring_signMessage
<1> QED
  BY <1>2, <1>4, <1>6, <1>8, <1>10

LEMMA DeviceSequences ==
  Disciplined(hardware_enumerate) /\ Disciplined(hardware_connect) /\
     Disciplined(keyring_addWallet) /\ Disciplined(keyring_removeWallet) /\
     Disciplined(keyring_getAccounts)
<1> USE DEF Program, Disciplined, OpensOrUses, RevertsOnce, FreesOnce, WipesSecrets, Secrets,
     Owed, Reverted, Releases, Accesses, Frees, Check, Sub, Native, Ask, Copy, New, Raw, Opt,
     Put, Take, Wipe, Free, Make, Destroy
<1>1. Disciplined(hardware_enumerate)
  BY DEF hardware_enumerate, Plain
<1>2. Disciplined(hardware_connect)
  BY DEF hardware_connect
<1>3. Disciplined(keyring_addWallet)
  BY DEF keyring_addWallet
<1>4. Disciplined(keyring_removeWallet)
  BY DEF keyring_removeWallet
<1>5. Disciplined(keyring_getAccounts)
  BY DEF keyring_getAccounts
<1> QED
  BY ONLY <1>1, <1>2, <1>3, <1>4, <1>5

LEMMA UtilExchanges ==
  Disciplined(utils_hash) /\ Disciplined(utils_hkdf) /\
     Disciplined(utils_pbkdf2) /\ Disciplined(utils_scrypt) /\
     Disciplined(utils_decodeBase58) /\ Disciplined(utils_decodeBase58Check) /\
     Disciplined(utils_decodeBech32) /\ Disciplined(aesCtr_encrypt) /\
     Disciplined(libp2p_peerIdFromPublicKey) /\ Disciplined(libp2p_ipnsHashBase32)
<1>1. ExchangeShape(<<"data">>, <<"hash">>, <<>>)
  BY DEF ExchangeShape, Buffers, Secrets, Apart, Among
<1>2. Disciplined(utils_hash)
  BY <1>1, ExchangeDisciplined DEF utils_hash
<1>3. ExchangeShape(<<"ikm", "salt", "info">>, <<"derived">>, <<"ikm">>)
  <2>1. <<Exchange(<<"ikm", "salt", "info">>, <<"derived">>, <<"ikm">>), "derived">> \in LeftUnwiped
    BY DEF LeftUnwiped, utils_hkdf
  <2> QED
    BY <2>1 DEF ExchangeShape, Buffers, Secrets, Apart, Among
<1>4. Disciplined(utils_hkdf)
  BY <1>3, ExchangeDisciplined DEF utils_hkdf
<1>5. ExchangeShape(<<"password", "salt">>, <<"derived">>, <<"password">>)
  <2>1. <<Exchange(<<"password", "salt">>, <<"derived">>, <<"password">>), "derived">> \in LeftUnwiped
    BY DEF LeftUnwiped, utils_pbkdf2
  <2> QED
    BY <2>1 DEF ExchangeShape, Buffers, Secrets, Apart, Among
<1>6. Disciplined(utils_pbkdf2) /\ Disciplined(utils_scrypt)
  BY <1>5, ExchangeDisciplined DEF utils_pbkdf2, utils_scrypt
<1>7. SizedShape(<<"str">>, <<"out">>, "size", <<>>)
  BY DEF SizedShape, ExchangeShape, Buffers, Secrets, Apart, Among
<1>8. Disciplined(utils_decodeBase58) /\ Disciplined(utils_decodeBase58Check)
  BY <1>7, SizedExchangeDisciplined DEF utils_decodeBase58, utils_decodeBase58Check
<1>9. SizedShape(<<"str">>, <<"hrp", "data">>, "size", <<>>)
  BY DEF SizedShape, ExchangeShape, Buffers, Secrets, Apart, Among
<1>10. Disciplined(utils_decodeBech32)
  BY <1>9, SizedExchangeDisciplined DEF utils_decodeBech32
<1>11. ExchangeShape(<<"key", "plaintext", "iv">>, <<"out">>, <<"key", "plaintext">>)
  BY DEF ExchangeShape, Buffers, Secrets, Apart, Among
<1>12. Disciplined(aesCtr_encrypt)
  BY <1>11, ExchangeDisciplined DEF aesCtr_encrypt
<1>13. ExchangeShape(<<"pub">>, <<"out">>, <<>>)
  BY DEF ExchangeShape, Buffers, Secrets, Apart, Among
<1>14. Disciplined(libp2p_peerIdFromPublicKey)
  BY <1>13, ExchangeDisciplined DEF libp2p_peerIdFromPublicKey
<1>15. ExchangeShape(<<"cid">>, <<"out">>, <<>>)
  BY DEF ExchangeShape, Buffers, Secrets, Apart, Among
<1>16. Disciplined(libp2p_ipnsHashBase32)
  BY <1>15, ExchangeDisciplined DEF libp2p_ipnsHashBase32
<1> QED
  BY <1>2, <1>4, <1>6, <1>8, <1>10, <1>12, <1>14, <1>16

LEMMA UtilSequences ==
  Disciplined(utils_encodeBase58) /\
     Disciplined(utils_encodeBase58Check) /\ Disciplined(DynamicResult) /\
     Disciplined(DynamicAttempt) /\ Disciplined(DynamicSecretAttempt) /\
     Disciplined(x509_generatePrivateKey) /\ Disciplined(x509_exportPrivateKeyPem) /\
     Disciplined(x509_importPrivateKeyPem) /\ Disciplined(x509_createSelfSignedCertificate) /\
     Disciplined(x509_convertCertificate) /\ Disciplined(x509_verifyWalletAttestation) /\
     Disciplined(x509_importPkcs12) /\ Disciplined(aesCtr_decrypt) /\
     Disciplined(libp2p_ofXpub)
<1> USE DEF Program, Disciplined, OpensOrUses, RevertsOnce, FreesOnce, WipesSecrets, Secrets,
     Owed, Reverted, Releases, Accesses, Frees, Check, Sub, Native, Ask, Copy, New, Raw, Opt,
     Put, Take, Wipe, Free, Make, Destroy
<1>1. Disciplined(utils_encodeBase58) /\ Disciplined(utils_encodeBase58Check)
  BY DEF utils_encodeBase58, utils_encodeBase58Check
<1>2. Disciplined(DynamicResult)
  BY DEF DynamicResult
<1>3. Disciplined(DynamicAttempt)
  BY DEF DynamicAttempt
<1>4. Disciplined(DynamicSecretAttempt)
  BY DEF DynamicSecretAttempt
<1>5. Disciplined(x509_generatePrivateKey)
  BY DEF x509_generatePrivateKey, Plain
<1>6. Disciplined(x509_exportPrivateKeyPem)
  BY DEF x509_exportPrivateKeyPem
<1>7. Disciplined(x509_importPrivateKeyPem)
  BY DEF x509_importPrivateKeyPem
<1>8. Disciplined(x509_createSelfSignedCertificate)
  BY DEF x509_createSelfSignedCertificate
<1>9. Disciplined(x509_convertCertificate)
  BY DEF x509_convertCertificate
<1>10. Disciplined(x509_verifyWalletAttestation)
  BY DEF x509_verifyWalletAttestation
<1>11. Disciplined(x509_importPkcs12)
  BY DEF x509_importPkcs12
<1>12. Disciplined(aesCtr_decrypt)
  BY DEF aesCtr_decrypt
<1>13. Disciplined(libp2p_ofXpub)
  BY DEF libp2p_ofXpub
<1> QED
  BY ONLY <1>1, <1>2, <1>3, <1>4, <1>5, <1>6, <1>7, <1>8, <1>9, <1>10, <1>11, <1>12, <1>13

LEMMA DeriveReleases == Disciplined(sdn_invokeDerive)
<1> USE DEF sdn_invokeDerive, Program, Check, Sub, Native, Copy, New, Take, Wipe, Free
<1>1. \A b \in {"input", "prf", "outHandle", "required", "json"} : Owed(sdn_invokeDerive, b)
  BY DEF Owed, Releases, Frees
<1>2. OpensOrUses(sdn_invokeDerive, "pre") /\ OpensOrUses(sdn_invokeDerive, "body")
  BY <1>1 DEF OpensOrUses, Accesses, Frees
<1>3. RevertsOnce(sdn_invokeDerive)
  BY DEF RevertsOnce
<1>4. FreesOnce(sdn_invokeDerive)
  BY <1>1 DEF FreesOnce, Frees
<1>5. WipesSecrets(sdn_invokeDerive)
  BY DEF WipesSecrets, Secrets, Frees
<1> QED
  BY <1>2, <1>3, <1>4, <1>5 DEF Disciplined

LEMMA CapabilitySequences ==
  Disciplined(validate_privateKey) /\
     Disciplined(validate_publicKey) /\ Disciplined(AlignedKeyDeriver_deriveBatch) /\
     Disciplined(deriveBatch_results) /\ Disciplined(AlignedKeyDeriver_streamKeys) /\
     Disciplined(streamKeys_batches) /\ Disciplined(fillBaseKey) /\
     Disciplined(AlignedSigner_signBatch) /\ Disciplined(signBatch_hashes) /\
     Disciplined(signBatch_results) /\ Disciplined(AlignedSigner_verifyBatch) /\
     Disciplined(verifyBatch_entries) /\ Disciplined(verifyBatch_results) /\
     Disciplined(AlignedAPI_keyToBytes) /\ Disciplined(sdn_invokeDerive) /\
     Disciplined(sdn_invokeSign) /\ Disciplined(sdn_signRequest) /\
     Disciplined(sdn_beginTransfer) /\ Disciplined(sdn_sealTransfer) /\
     Disciplined(sdn_sealRememberedIdentity) /\ Disciplined(sdn_openSealedFields)
<1> USE DEF Program, Disciplined, OpensOrUses, RevertsOnce, FreesOnce, WipesSecrets, Secrets,
     Owed, Reverted, Releases, Accesses, Frees, Check, Sub, Native, Ask, Copy, New, Raw, Opt,
     Put, Take, Wipe, Free, Make, Destroy
<1>1. Disciplined(validate_privateKey)
  BY DEF validate_privateKey
<1>2. Disciplined(validate_publicKey)
  BY DEF validate_publicKey
<1>3. Disciplined(AlignedKeyDeriver_deriveBatch)
  BY DEF AlignedKeyDeriver_deriveBatch
<1>4. Disciplined(deriveBatch_results)
  BY DEF deriveBatch_results
<1>5. Disciplined(AlignedKeyDeriver_streamKeys)
  BY DEF AlignedKeyDeriver_streamKeys
<1>6. Disciplined(streamKeys_batches)
  BY DEF streamKeys_batches
<1>7. Disciplined(fillBaseKey) /\ Disciplined(AlignedAPI_keyToBytes)
  BY DEF fillBaseKey, AlignedAPI_keyToBytes
<1>8. Disciplined(AlignedSigner_signBatch)
  BY DEF AlignedSigner_signBatch
<1>9. Disciplined(signBatch_hashes)
  BY DEF signBatch_hashes
<1>10. Disciplined(signBatch_results)
  BY DEF signBatch_results
<1>11. Disciplined(AlignedSigner_verifyBatch)
  BY DEF AlignedSigner_verifyBatch
<1>12. Disciplined(verifyBatch_entries)
  BY DEF verifyBatch_entries
<1>13. Disciplined(verifyBatch_results)
  BY DEF verifyBatch_results
<1>14. Disciplined(sdn_invokeDerive)
  BY ONLY DeriveReleases
<1>15. Disciplined(sdn_invokeSign)
  BY DEF sdn_invokeSign
<1>16. Disciplined(sdn_signRequest)
  BY DEF sdn_signRequest, Plain
<1>17. Disciplined(sdn_beginTransfer)
  BY DEF sdn_beginTransfer
<1>18. Disciplined(sdn_sealTransfer)
  BY DEF sdn_sealTransfer
<1>19. Disciplined(sdn_sealRememberedIdentity)
  BY DEF sdn_sealRememberedIdentity
<1>20. Disciplined(sdn_openSealedFields)
  BY DEF sdn_openSealedFields
<1> QED
  BY ONLY <1>1, <1>2, <1>3, <1>4, <1>5, <1>6, <1>7, <1>8, <1>9, <1>10, <1>11, <1>12, <1>13,
     <1>14, <1>15, <1>16, <1>17, <1>18, <1>19, <1>20

(* The buffers of the wrappers whose finally gives back a list of them.    *)
Listed == {"aad", "addr", "bump", "cert", "chain", "cid", "contract", "ct", "data",
           "friendlyName", "hash", "hashLen", "hrp", "issuerCert", "iv", "key", "name",
           "network", "options", "out", "password", "plaintext", "prefix", "priv", "prog",
           "pub", "seedLens", "seeds", "sig", "structHash", "tag", "txid", "type", "version"}

LEMMA ListReleases ==
  Disciplined(btcTx_addInput) /\ Disciplined(ethereum_signTypedData) /\
     Disciplined(cosmos_validateAddress) /\ Disciplined(solana_findPDA) /\
     Disciplined(aesGcm_encrypt) /\ Disciplined(utils_encodeBech32) /\
     Disciplined(x509_issueCertificate) /\ Disciplined(x509_exportPkcs12) /\
     Disciplined(libp2p_ipnsHash)
<1> USE DEF Check, Sub, Native, Ask, Copy, Raw, Opt, Put, Take
<1>1. Disciplined(btcTx_addInput)
  <2> DEFINE pre == <<Check, Copy("txid"), Copy("pub")>>
             body == <<Native>>
             released == <<"txid", "pub">>
  <2>1. /\ pre \in Seq(StepsOver(Listed)) /\ body \in Seq(StepsOver(Listed))
        /\ released \in Seq(Listed)
    BY DEF StepsOver, Listed
  <2>2. Covered(pre, released) /\ Covered(body, released)
    BY DEF Covered, Among, Accesses, Frees
  <2>3. \A i, j \in 1..Len(released) : released[i] = released[j] => i = j
    OBVIOUS
  <2>4. \A b \in Secrets : ~Among(b, released)
    BY DEF Secrets, Among
  <2>5. Disciplined(Program(pre, body, Each(Free, released)))
    <3> HIDE DEF pre, body, released
    <3> QED
      BY ONLY <2>1, <2>2, <2>3, <2>4, FreesDisciplined
  <2> QED
    BY <2>5 DEF btcTx_addInput
<1>2. Disciplined(ethereum_signTypedData)
  <2> DEFINE pre == <<Check, Sub, Copy("name"), Copy("version"), Copy("contract"),
                      Copy("structHash"), Copy("key"), Raw("sig")>>
             body == <<Native, Take("sig")>>
             released == <<"name", "version", "contract", "structHash", "key", "sig">>
             wiped == <<"key">>
  <2>1. /\ pre \in Seq(StepsOver(Listed)) /\ body \in Seq(StepsOver(Listed))
        /\ released \in Seq(Listed)
    BY DEF StepsOver, Listed
  <2>2. Covered(pre, released) /\ Covered(body, released)
    BY DEF Covered, Among, Accesses, Frees
  <2>3. \A i, j \in 1..Len(released) : released[i] = released[j] => i = j
    OBVIOUS
  <2>4. wiped \in Seq(Listed) /\ \A i \in 1..Len(wiped) : Among(wiped[i], released)
    BY DEF Listed, Among
  <2>5. \A b \in Secrets : Among(b, released) => Among(b, wiped)
    BY DEF Secrets, Among
  <2>6. Each(Wipe, wiped) = <<Wipe("key")>>
    BY DEF Each
  <2>7. Disciplined(Program(pre, body, Each(Wipe, wiped) \o Each(Free, released)))
    <3> HIDE DEF pre, body, released, wiped
    <3> QED
      BY ONLY <2>1, <2>2, <2>3, <2>4, <2>5, ProgramDisciplined
  <2> QED
    BY <2>6, <2>7 DEF ethereum_signTypedData
<1>3. Disciplined(cosmos_validateAddress)
  <2> DEFINE pre == <<Check, Copy("addr"), Opt("prefix")>>
             body == <<Ask>>
             released == <<"addr", "prefix">>
  <2>1. /\ pre \in Seq(StepsOver(Listed)) /\ body \in Seq(StepsOver(Listed))
        /\ released \in Seq(Listed)
    BY DEF StepsOver, Listed
  <2>2. Covered(pre, released) /\ Covered(body, released)
    BY DEF Covered, Among, Accesses, Frees
  <2>3. \A i, j \in 1..Len(released) : released[i] = released[j] => i = j
    OBVIOUS
  <2>4. \A b \in Secrets : ~Among(b, released)
    BY DEF Secrets, Among
  <2>5. Disciplined(Program(pre, body, Each(Free, released)))
    <3> HIDE DEF pre, body, released
    <3> QED
      BY ONLY <2>1, <2>2, <2>3, <2>4, FreesDisciplined
  <2> QED
    BY <2>5 DEF cosmos_validateAddress
<1>4. Disciplined(solana_findPDA)
  <2> DEFINE pre == <<Check, Copy("prog"), Opt("seeds"), Raw("seedLens"), Put("seedLens"),
                      Raw("addr"), Raw("bump")>>
             body == <<Native, Take("addr"), Take("bump")>>
             released == <<"prog", "seeds", "seedLens", "addr", "bump">>
  <2>1. /\ pre \in Seq(StepsOver(Listed)) /\ body \in Seq(StepsOver(Listed))
        /\ released \in Seq(Listed)
    BY DEF StepsOver, Listed
  <2>2. Covered(pre, released) /\ Covered(body, released)
    BY DEF Covered, Among, Accesses, Frees
  <2>3. \A i, j \in 1..Len(released) : released[i] = released[j] => i = j
    OBVIOUS
  <2>4. \A b \in Secrets : ~Among(b, released)
    BY DEF Secrets, Among
  <2>5. Disciplined(Program(pre, body, Each(Free, released)))
    <3> HIDE DEF pre, body, released
    <3> QED
      BY ONLY <2>1, <2>2, <2>3, <2>4, FreesDisciplined
  <2> QED
    BY <2>5 DEF solana_findPDA
<1>5. Disciplined(aesGcm_encrypt)
  <2> DEFINE pre == <<Check, Copy("key"), Copy("plaintext"), Copy("iv"), Opt("aad"), Raw("ct"),
                      Raw("tag")>>
             body == <<Native, Take("ct"), Take("tag")>>
             released == <<"key", "plaintext", "iv", "aad", "ct", "tag">>
             wiped == <<"key", "plaintext">>
  <2>1. /\ pre \in Seq(StepsOver(Listed)) /\ body \in Seq(StepsOver(Listed))
        /\ released \in Seq(Listed)
    BY DEF StepsOver, Listed
  <2>2. Covered(pre, released) /\ Covered(body, released)
    BY DEF Covered, Among, Accesses, Frees
  <2>3. \A i, j \in 1..Len(released) : released[i] = released[j] => i = j
    OBVIOUS
  <2>4. wiped \in Seq(Listed) /\ \A i \in 1..Len(wiped) : Among(wiped[i], released)
    BY DEF Listed, Among
  <2>5. \A b \in Secrets : Among(b, released) => Among(b, wiped)
    BY DEF Secrets, Among
  <2>6. Each(Wipe, wiped) = <<Wipe("key"), Wipe("plaintext")>>
    BY DEF Each
  <2>7. Disciplined(Program(pre, body, Each(Wipe, wiped) \o Each(Free, released)))
    <3> HIDE DEF pre, body, released, wiped
    <3> QED
      BY ONLY <2>1, <2>2, <2>3, <2>4, <2>5, ProgramDisciplined
  <2> QED
    BY <2>6, <2>7 DEF aesGcm_encrypt
<1>6. Disciplined(utils_encodeBech32)
  <2> DEFINE pre == <<Check, Copy("hrp"), Copy("data")>>
             body == <<Ask>>
             released == <<"hrp", "data">>
  <2>1. /\ pre \in Seq(StepsOver(Listed)) /\ body \in Seq(StepsOver(Listed))
        /\ released \in Seq(Listed)
    BY DEF StepsOver, Listed
  <2>2. Covered(pre, released) /\ Covered(body, released)
    BY DEF Covered, Among, Accesses, Frees
  <2>3. \A i, j \in 1..Len(released) : released[i] = released[j] => i = j
    OBVIOUS
  <2>4. \A b \in Secrets : ~Among(b, released)
    BY DEF Secrets, Among
  <2>5. Disciplined(Program(pre, body, Each(Free, released)))
    <3> HIDE DEF pre, body, released
    <3> QED
      BY ONLY <2>1, <2>2, <2>3, <2>4, FreesDisciplined
  <2> QED
    BY <2>5 DEF utils_encodeBech32
<1>7. Disciplined(x509_issueCertificate)
  <2> DEFINE pre == <<Check, Copy("options"), Check, Copy("key"), Check, Copy("issuerCert"),
                      Check, Copy("priv")>>
             body == <<Sub>>
             released == <<"options", "key", "issuerCert", "priv">>
             wiped == <<"options", "key", "priv">>
  <2>1. /\ pre \in Seq(StepsOver(Listed)) /\ body \in Seq(StepsOver(Listed))
        /\ released \in Seq(Listed)
    BY DEF StepsOver, Listed
  <2>2. Covered(pre, released) /\ Covered(body, released)
    BY DEF Covered, Among, Accesses, Frees
  <2>3. \A i, j \in 1..Len(released) : released[i] = released[j] => i = j
    OBVIOUS
  <2>4. wiped \in Seq(Listed) /\ \A i \in 1..Len(wiped) : Among(wiped[i], released)
    BY DEF Listed, Among
  <2>5. \A b \in Secrets : Among(b, released) => Among(b, wiped)
    BY DEF Secrets, Among
  <2>6. Each(Wipe, wiped) = <<Wipe("options"), Wipe("key"), Wipe("priv")>>
    BY DEF Each
  <2>7. Disciplined(Program(pre, body, Each(Wipe, wiped) \o Each(Free, released)))
    <3> HIDE DEF pre, body, released, wiped
    <3> QED
      BY ONLY <2>1, <2>2, <2>3, <2>4, <2>5, ProgramDisciplined
  <2> QED
    BY <2>6, <2>7 DEF x509_issueCertificate
<1>8. Disciplined(x509_exportPkcs12)
  <2> DEFINE pre == <<Check, Copy("cert"), Check, Copy("key"), Copy("password"),
                      Copy("friendlyName"), Check, Opt("chain")>>
             body == <<Sub>>
             released == <<"cert", "key", "password", "friendlyName", "chain">>
             wiped == <<"key", "password">>
  <2>1. /\ pre \in Seq(StepsOver(Listed)) /\ body \in Seq(StepsOver(Listed))
        /\ released \in Seq(Listed)
    BY DEF StepsOver, Listed
  <2>2. Covered(pre, released) /\ Covered(body, released)
    BY DEF Covered, Among, Accesses, Frees
  <2>3. \A i, j \in 1..Len(released) : released[i] = released[j] => i = j
    OBVIOUS
  <2>4. wiped \in Seq(Listed) /\ \A i \in 1..Len(wiped) : Among(wiped[i], released)
    BY DEF Listed, Among
  <2>5. \A b \in Secrets : Among(b, released) => Among(b, wiped)
    BY DEF Secrets, Among
  <2>6. Each(Wipe, wiped) = <<Wipe("key"), Wipe("password")>>
    BY DEF Each
  <2>7. Disciplined(Program(pre, body, Each(Wipe, wiped) \o Each(Free, released)))
    <3> HIDE DEF pre, body, released, wiped
    <3> QED
      BY ONLY <2>1, <2>2, <2>3, <2>4, <2>5, ProgramDisciplined
  <2> QED
    BY <2>6, <2>7 DEF x509_exportPkcs12
<1>9. Disciplined(libp2p_ipnsHash)
  <2> DEFINE pre == <<Check, Raw("out"), Copy("cid")>>
             body == <<Native, Take("out")>>
             released == <<"cid", "out">>
  <2>1. /\ pre \in Seq(StepsOver(Listed)) /\ body \in Seq(StepsOver(Listed))
        /\ released \in Seq(Listed)
    BY DEF StepsOver, Listed
  <2>2. Covered(pre, released) /\ Covered(body, released)
    BY DEF Covered, Among, Accesses, Frees
  <2>3. \A i, j \in 1..Len(released) : released[i] = released[j] => i = j
    OBVIOUS
  <2>4. \A b \in Secrets : ~Among(b, released)
    BY DEF Secrets, Among
  <2>5. Disciplined(Program(pre, body, Each(Free, released)))
    <3> HIDE DEF pre, body, released
    <3> QED
      BY ONLY <2>1, <2>2, <2>3, <2>4, FreesDisciplined
  <2> QED
    BY <2>5 DEF libp2p_ipnsHash
<1> QED
  BY ONLY <1>1, <1>2, <1>3, <1>4, <1>5, <1>6, <1>7, <1>8, <1>9

LEMMA DecodedAddressReleases ==
  ASSUME NEW use, use \in Seq(StepsOver(Listed)),
         Covered(use, <<"addr", "type", "hash", "hashLen", "network">>)
  PROVE  Disciplined(DecodedAddress(use))
<1> DEFINE pre == <<Check, Copy("addr"), Raw("type"), Raw("hash"), Raw("hashLen"), Raw("network")>>
           first == <<Put("hashLen"), Native, Take("hashLen"), Check>>
           released == <<"addr", "type", "hash", "hashLen", "network">>
<1>1. /\ pre \in Seq(StepsOver(Listed)) /\ first \in Seq(StepsOver(Listed))
      /\ released \in Seq(Listed)
  BY DEF StepsOver, Listed, Check, Copy, Raw, Put, Native, Take
<1>2. Covered(pre, released) /\ Covered(first, released)
  BY DEF Covered, Among, Accesses, Frees, Check, Copy, Raw, Put, Native, Take
<1>3. \A i, j \in 1..Len(released) : released[i] = released[j] => i = j
  OBVIOUS
<1>4. \A b \in Secrets : ~Among(b, released)
  BY DEF Secrets, Among
<1>5. Covered(use, released)
  OBVIOUS
<1> HIDE DEF pre, first, released
<1>6. first \o use \in Seq(StepsOver(Listed)) /\ Covered(first \o use, released)
  BY ONLY use \in Seq(StepsOver(Listed)), <1>1, <1>2, <1>5, CoveredConcat
<1>7. Disciplined(Program(pre, first \o use, Each(Free, released)))
  BY ONLY <1>1, <1>2, <1>3, <1>4, <1>6, FreesDisciplined
<1> QED
  BY <1>7 DEF DecodedAddress, pre, first, released

LEMMA DecodedAddresses ==
  Disciplined(bitcoin_decodeAddress) /\ Disciplined(btcTx_addOutput) /\
     Disciplined(btcTx_addOutputScript)
<1> USE DEF Check, Sub, Native, Take
<1>1. Disciplined(bitcoin_decodeAddress)
  <2> DEFINE use == <<Take("type"), Take("hash"), Take("network")>>
  <2>1. use \in Seq(StepsOver(Listed))
    BY DEF StepsOver, Listed
  <2>2. Covered(use, <<"addr", "type", "hash", "hashLen", "network">>)
    BY DEF Covered, Among, Accesses, Frees
  <2>3. Disciplined(DecodedAddress(use))
    <3> HIDE DEF use
    <3> QED
      BY ONLY <2>1, <2>2, DecodedAddressReleases
  <2> QED
    BY <2>3 DEF bitcoin_decodeAddress
<1>2. Disciplined(btcTx_addOutput)
  <2> DEFINE use == <<Take("type"), Take("network"), Check, Native>>
  <2>1. use \in Seq(StepsOver(Listed))
    BY DEF StepsOver, Listed
  <2>2. Covered(use, <<"addr", "type", "hash", "hashLen", "network">>)
    BY DEF Covered, Among, Accesses, Frees
  <2>3. Disciplined(DecodedAddress(use))
    <3> HIDE DEF use
    <3> QED
      BY ONLY <2>1, <2>2, DecodedAddressReleases
  <2> QED
    BY <2>3 DEF btcTx_addOutput
<1>3. Disciplined(btcTx_addOutputScript)
  <2> DEFINE use == <<Take("type"), Take("network"), Check, Take("hash"), Check, Sub>>
  <2>1. use \in Seq(StepsOver(Listed))
    BY DEF StepsOver, Listed
  <2>2. Covered(use, <<"addr", "type", "hash", "hashLen", "network">>)
    BY DEF Covered, Among, Accesses, Frees
  <2>3. Disciplined(DecodedAddress(use))
    <3> HIDE DEF use
    <3> QED
      BY ONLY <2>1, <2>2, DecodedAddressReleases
  <2> QED
    BY <2>3 DEF btcTx_addOutputScript
<1> QED
  BY ONLY <1>1, <1>2, <1>3

(* aesGcm_decrypt gives the plaintext back last, after its own wipe.       *)
LEMMA DecryptReleases == Disciplined(aesGcm_decrypt)
<1> DEFINE S == [op : {"wipe", "free"}, buf : Listed]
           wiped == <<Wipe("key")>>
           freed == <<Free("key"), Free("ct"), Free("iv"), Free("tag"), Free("aad")>>
           last == <<Wipe("plaintext"), Free("plaintext")>>
           fin == <<Wipe("key"), Free("key"), Free("ct"), Free("iv"), Free("tag"), Free("aad"),
                    Wipe("plaintext"), Free("plaintext")>>
           pre == <<Check, Copy("key"), Copy("ct"), Copy("iv"), Copy("tag"), Opt("aad"),
                    Raw("plaintext")>>
           body == <<Native, Take("plaintext")>>
<1>1. wiped \in Seq(S) /\ freed \in Seq(S) /\ last \in Seq(S) /\ fin \in Seq(S)
  BY DEF Listed, Wipe, Free
<1>2. Len(wiped) = 1 /\ Len(freed) = 5 /\ Len(last) = 2 /\ Len(fin) = 8
  OBVIOUS
<1>3. /\ \A i \in 1..6 : fin[i] = IF i <= 1 THEN wiped[i] ELSE freed[i - 1]
      /\ \A i \in 7..8 : fin[i] = last[i - 6]
  <2>1. \A i \in 1..6 : i = 1 \/ i = 2 \/ i = 3 \/ i = 4 \/ i = 5 \/ i = 6
    OBVIOUS
  <2>2. \A i \in 7..8 : i = 7 \/ i = 8
    OBVIOUS
  <2> QED
    BY <2>1, <2>2
<1>4. Each(Free, <<"key", "ct", "iv", "tag", "aad">>) = freed
  BY DEF Each
<1>5. wiped \o freed \o last = fin
  <2> HIDE DEF wiped, freed, last, fin, S
  <2>1. /\ wiped \o freed \in Seq(S) /\ Len(wiped \o freed) = Len(wiped) + Len(freed)
        /\ \A i \in 1..(Len(wiped) + Len(freed)) :
             (wiped \o freed)[i] = IF i <= Len(wiped) THEN wiped[i] ELSE freed[i - Len(wiped)]
    BY ONLY <1>1, ConcatProperties
  <2>2. /\ (wiped \o freed) \o last \in Seq(S)
        /\ Len((wiped \o freed) \o last) = Len(wiped \o freed) + Len(last)
        /\ \A i \in 1..(Len(wiped \o freed) + Len(last)) :
             ((wiped \o freed) \o last)[i] =
               IF i <= Len(wiped \o freed) THEN (wiped \o freed)[i] ELSE last[i - Len(wiped \o freed)]
    BY ONLY <1>1, <2>1, ConcatProperties
  <2>4. Len(wiped) + Len(freed) = 6 /\ Len(wiped \o freed) = 6 /\ Len(wiped \o freed) + Len(last) = 8
    BY ONLY <1>2, <2>1
  <2>5. ASSUME NEW i \in 1..6 PROVE ((wiped \o freed) \o last)[i] = fin[i]
    <3>1. i \in 1..8 /\ i <= 6
      OBVIOUS
    <3>2. ((wiped \o freed) \o last)[i] = (wiped \o freed)[i]
      BY ONLY <2>2, <2>4, <3>1
    <3>3. (wiped \o freed)[i] = IF i <= 1 THEN wiped[i] ELSE freed[i - 1]
      BY ONLY <1>2, <2>1, <2>4, i \in 1..6
    <3> QED
      BY ONLY <1>3, <3>2, <3>3, i \in 1..6
  <2>6. ASSUME NEW i \in 7..8 PROVE ((wiped \o freed) \o last)[i] = fin[i]
    <3>1. i \in 1..8 /\ ~(i <= 6)
      OBVIOUS
    <3>2. ((wiped \o freed) \o last)[i] = last[i - 6]
      BY ONLY <2>2, <2>4, <3>1
    <3> QED
      BY ONLY <1>3, <3>2, i \in 7..8
  <2>7. Len((wiped \o freed) \o last) = Len(fin)
    BY ONLY <1>2, <2>2, <2>4
  <2>3. \A i \in 1..Len(fin) : ((wiped \o freed) \o last)[i] = fin[i]
    <3> SUFFICES ASSUME NEW i \in 1..8 PROVE ((wiped \o freed) \o last)[i] = fin[i]
      BY <1>2
    <3>1. i \in 1..6 \/ i \in 7..8
      OBVIOUS
    <3> QED
      BY ONLY <2>5, <2>6, <3>1
  <2> QED
    BY ONLY <1>1, <2>2, <2>3, <2>7, SeqEqual
<1>6. aesGcm_decrypt = Program(pre, body, fin)
  <2> HIDE DEF fin
  <2> QED
    BY <1>4, <1>5 DEF aesGcm_decrypt
<1>7. Disciplined(Program(pre, body, fin))
  BY DEF Program, Disciplined, OpensOrUses, RevertsOnce, FreesOnce, WipesSecrets, Secrets, Owed,
     Reverted, Releases, Accesses, Frees, Check, Native, Copy, Raw, Opt, Take, Wipe, Free
<1> QED
  BY <1>6, <1>7

LEMMA WrappersDisciplined == \A p \in AllPrograms : Disciplined(p)
<1>1. \A p \in KeyPrograms : Disciplined(p)
  BY KeyExchanges, KeySequences DEF KeyPrograms, HDKey_peerId
<1>2. \A p \in CurvePrograms : Disciplined(p)
  BY CurveExchanges, CurveSequences DEF CurvePrograms
<1>3. \A p \in CoinPrograms : Disciplined(p)
  BY CoinExchanges, CoinSequences, ListReleases, DecodedAddresses DEF CoinPrograms
<1>4. \A p \in DevicePrograms : Disciplined(p)
  BY DeviceExchanges, DeviceSequences DEF DevicePrograms
<1>5. \A p \in UtilPrograms : Disciplined(p)
  BY UtilExchanges, UtilSequences, ListReleases, DecryptReleases DEF UtilPrograms
<1>6. \A p \in CapabilityPrograms : Disciplined(p)
  BY CapabilitySequences DEF CapabilityPrograms
<1> QED
  BY <1>1, <1>2, <1>3, <1>4, <1>5, <1>6 DEF AllPrograms, BindingPrograms

-----------------------------------------------------------------------------
(* The invariant holds for any of the wrappers of the package.             *)
LEMMA CallInvariant ==
  ASSUME Programs \subseteq AllPrograms
  PROVE  CallSpec => []CallInv
<1>1. \A p \in Programs : Disciplined(p)
  BY WrappersDisciplined
<1>2. CallInv /\ [CallNext]_callVars => CallInv'
  BY <1>1, CallStep, CallStutters
<1> QED
  BY <1>2, CallStarts, PTL DEF CallSpec

(* For any of the wrappers of the package: a call that reached its try     *)
(* leaves no buffer behind, uses none after giving it back, and leaves no  *)
(* handle open when it throws, whatever fails on the way (the finally      *)
(* blocks of index.mjs, aligned.mjs and sdn-typed.mjs).                    *)
THEOREM CallsSafe ==
  ASSUME Programs \subseteq AllPrograms
  PROVE  CallSpec => []CallsReleaseAll
<1>1. CallInv => CallsReleaseAll
  BY DEF CallInv, NoCorruption, AllGivenBack, CallsReleaseAll
<1> QED
  BY <1>1, CallInvariant, PTL

(* And no step of theirs gives a secret back before it is wiped, but for   *)
(* those that LeftUnwiped names.                                           *)
THEOREM SecretsWiped ==
  ASSUME Programs \subseteq AllPrograms
  PROVE  CallSpec => [][WipesBeforeFree]_callVars
<1>1. CallInv /\ [CallNext]_callVars => [WipesBeforeFree]_callVars
  BY SecretsAreWiped
<1> QED
  BY <1>1, CallInvariant, PTL DEF CallSpec
=============================================================================
