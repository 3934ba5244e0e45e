--------------------------- MODULE WasmInstances ---------------------------
(***************************************************************************)
(* Who owns a WASM instance and the native keys in it (wasm/src/index.mjs).*)
(* A page can hold several copies of the package; the first init() of a    *)
(* version loads the instance and publishes the promise on the realm, and  *)
(* every copy of that version builds its own wrapper over it.  A failed    *)
(* load is forgotten, by reactions to the promise that run one after the   *)
(* other, so that a later init() tries again.                              *)
(*                                                                         *)
(* An HDKey owns one native key: wipe() destroys it, and for an object     *)
(* that is collected without a wipe() the FinalizationRegistry does.       *)
(***************************************************************************)
EXTENDS Naturals, FiniteSets

CONSTANTS Copies,    \* the copies of the package in the realm, of one version
          Keys,      \* the HDKey objects
          MaxLoads,  \* bound: loads of the instance
          NoLoad

ASSUME LoadsAssumption == MaxLoads \in Nat /\ NoLoad \notin 1..MaxLoads

VARIABLES loads,     \* loadWasmModule calls: "pending", "ok" or "failed"
          shared,    \* instances[PACKAGE_VERSION]
          module,    \* realmModule of each copy: the load it waits for
          answers,   \* the loads whose instance an init() was given
          key,       \* what each HDKey object is
          native     \* its native key, and how often it was destroyed

instVars == <<loads, shared, module, answers, key, native>>

LoadIds == 1..MaxLoads
Started == DOMAIN loads

InstTypeOK ==
    /\ DOMAIN loads \subseteq LoadIds
    /\ \A l \in Started : loads[l] \in {"pending", "ok", "failed"}
    /\ shared \in LoadIds \union {NoLoad}
    /\ module \in [Copies -> LoadIds \union {NoLoad}]
    /\ answers \in [Copies -> SUBSET LoadIds]
    /\ key \in [Keys -> {"unmade", "live", "wiped", "collected", "finalized"}]
    /\ native \in [Keys -> [open : BOOLEAN, destroys : 0..2]]

InstInit ==
    /\ loads = <<>>
    /\ shared = NoLoad
    /\ module = [c \in Copies |-> NoLoad]
    /\ answers = [c \in Copies |-> {}]
    /\ key = [k \in Keys |-> "unmade"]
    /\ native = [k \in Keys |-> [open |-> FALSE, destroys |-> 0]]

keyVars == <<key, native>>
loadVars == <<loads, shared, module, answers>>

-----------------------------------------------------------------------------
(* init() of a copy that waits for nothing: the realm's instance, or a new *)
(* load that every later init() of the realm joins.                        *)
InitJoins(c) ==
    /\ module[c] = NoLoad /\ shared # NoLoad
    /\ module' = [module EXCEPT ![c] = shared]
    /\ UNCHANGED <<loads, shared, answers, keyVars>>

InitLoads(c) ==
    /\ module[c] = NoLoad /\ shared = NoLoad
    /\ Cardinality(Started) < MaxLoads
    /\ LET l == Cardinality(Started) + 1 IN
         /\ loads' = [i \in Started \union {l} |-> IF i = l THEN "pending" ELSE loads[i]]
         /\ shared' = l
         /\ module' = [module EXCEPT ![c] = l]
    /\ UNCHANGED <<answers, keyVars>>

LoadOk(l) ==
    /\ l \in Started /\ loads[l] = "pending"
    /\ loads' = [loads EXCEPT ![l] = "ok"]
    /\ UNCHANGED <<shared, module, answers, keyVars>>

LoadFails(l) ==
    /\ l \in Started /\ loads[l] = "pending"
    /\ loads' = [loads EXCEPT ![l] = "failed"]
    /\ UNCHANGED <<shared, module, answers, keyVars>>

(* The reactions to a failed load: the realm forgets it, if it still is    *)
(* the one published, and so does every copy that waits for it.            *)
RealmForgets(l) ==
    /\ l \in Started /\ loads[l] = "failed" /\ shared = l
    /\ shared' = NoLoad
    /\ UNCHANGED <<loads, module, answers, keyVars>>

(* A slip: the copy keeps the promise of the failed load.                  *)
CopyKeeps(c) ==
    /\ module[c] # NoLoad /\ loads[module[c]] = "failed"
    /\ UNCHANGED instVars

CopyForgets(c) ==
    /\ module[c] # NoLoad /\ loads[module[c]] = "failed"
    /\ module' = [module EXCEPT ![c] = NoLoad]
    /\ UNCHANGED <<loads, shared, answers, keyVars>>

InitAnswers(c) ==
    /\ module[c] # NoLoad /\ loads[module[c]] = "ok"
    /\ module[c] \notin answers[c]
    /\ answers' = [answers EXCEPT ![c] = @ \union {module[c]}]
    /\ UNCHANGED <<loads, shared, module, keyVars>>

(* createModule throws over an instance that did load: the copy forgets    *)
(* its promise and the realm keeps the instance.                           *)
WrapperFails(c) ==
    /\ module[c] # NoLoad /\ loads[module[c]] = "ok"
    /\ module[c] \notin answers[c]
    /\ module' = [module EXCEPT ![c] = NoLoad]
    /\ UNCHANGED <<loads, shared, answers, keyVars>>

-----------------------------------------------------------------------------
(* fromSeed, derivePath, clone...: an object registered for collection.    *)
MakeKey(k) ==
    /\ key[k] = "unmade" /\ \E c \in Copies : answers[c] # {}
    /\ key' = [key EXCEPT ![k] = "live"]
    /\ native' = [native EXCEPT ![k].open = TRUE]
    /\ UNCHANGED loadVars

DestroyNative(k) ==
    native' = [native EXCEPT ![k] = [open |-> FALSE, destroys |-> @.destroys + 1]]

(* A slip: the wiped object stays registered.                              *)
WipeKeyRegistered(k) ==
    /\ key[k] = "live"
    /\ key' = [key EXCEPT ![k] = "collected"]
    /\ DestroyNative(k)
    /\ UNCHANGED loadVars

(* wipe() of a destroyed key does nothing; the object leaves the registry. *)
WipeKey(k) ==
    /\ key[k] = "live"
    /\ key' = [key EXCEPT ![k] = "wiped"]
    /\ DestroyNative(k)
    /\ UNCHANGED loadVars

CollectKey(k) ==
    /\ key[k] = "live"
    /\ key' = [key EXCEPT ![k] = "collected"]
    /\ UNCHANGED <<native, loadVars>>

FinalizeKey(k) ==
    /\ key[k] = "collected"
    /\ key' = [key EXCEPT ![k] = "finalized"]
    /\ DestroyNative(k)
    /\ UNCHANGED loadVars

InstNext ==
    \/ \E c \in Copies : InitJoins(c)
    \/ \E c \in Copies : InitLoads(c)
    \/ \E c \in Copies : InitAnswers(c)
    \/ \E c \in Copies : WrapperFails(c)
    \/ \E c \in Copies : CopyForgets(c)
    \/ \E l \in LoadIds : LoadOk(l)
    \/ \E l \in LoadIds : LoadFails(l)
    \/ \E l \in LoadIds : RealmForgets(l)
    \/ \E k \in Keys : MakeKey(k)
    \/ \E k \in Keys : WipeKey(k)
    \/ \E k \in Keys : CollectKey(k)
    \/ \E k \in Keys : FinalizeKey(k)

(* The reactions to a settled promise run: that is the job queue.          *)
InstFairness ==
    /\ \A l \in LoadIds : WF_instVars(RealmForgets(l))
    /\ \A c \in Copies : WF_instVars(CopyForgets(c))

InstSpec == InstInit /\ [][InstNext]_instVars /\ InstFairness

-----------------------------------------------------------------------------
(* One instance per realm and version: whatever loads failed before, no    *)
(* two copies are ever given different instances and two loads are never   *)
(* under way at once; and a native key is destroyed at most once, by its   *)
(* owner or by the registry.                                               *)
OneInstance ==
    /\ InstTypeOK
    /\ Cardinality({l \in Started : loads[l] # "failed"}) <= 1
    /\ Cardinality(UNION {answers[c] : c \in Copies}) <= 1
    /\ \A k \in Keys : native[k].destroys <= 1 /\ (key[k] = "live" => native[k].open)

(* A failed load is not cached: no copy keeps waiting for it.              *)
FailedLoadIsForgotten ==
    LET failed == {l \in Started : loads[l] = "failed"} IN
    failed # {} ~> shared \notin failed /\ \A c \in Copies : module[c] \notin failed
=============================================================================
