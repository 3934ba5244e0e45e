-------------------------- MODULE RememberedStorage --------------------------
(***************************************************************************)
(* The remembered wallet in localStorage: wallet-ui/src/wallet-storage.js  *)
(* and its caller, wallet-ui/origin-app/remember-wallet.mjs.               *)
(*                                                                         *)
(* A record is written to the pending slot, read back, opened by native    *)
(* code as a check, and only then made active: the pending slot is emptied *)
(* and the active one written last.  Each access of the storage is a step; *)
(* between two of them another tab may act, the write may throw, or the    *)
(* tab may crash.  A slot holds nothing, a record, or something that is no *)
(* record of this version (Garbage).                                       *)
(***************************************************************************)
EXTENDS Naturals

CONSTANTS
  Tabs,           \* the browser tabs that show the wallet
  MaxRecords,     \* bound: records, numbered in the order of their setup
  InitialActive,  \* what the active slot may hold at the start
  InitialPending, \* what the pending slot may hold at the start
  Empty,          \* no item
  Garbage         \* an item that parseRememberedWalletRecord refuses

ASSUME StorageAssumption ==
  /\ MaxRecords \in Nat \ {0}
  /\ InitialActive \subseteq {Empty, Garbage, 1}
  /\ InitialPending \subseteq {Empty, Garbage}
  /\ Empty # Garbage /\ Empty \notin Nat /\ Garbage \notin Nat

VARIABLES
  active,      \* ACTIVE_REMEMBERED_WALLET_KEY
  pending,     \* PENDING_REMEMBERED_WALLET_KEY
  tab,         \* tab -> where its call stands, and what it has read
  sealed,      \* how many records were sealed; record 1 is an earlier one
  verified,    \* history: records that native code has opened
  remembered   \* history: the record of the latest setup that succeeded, if not
               \* forgotten since

storageVars == <<active, pending, tab, sealed, verified, remembered>>

Records == 1..MaxRecords
Idle == [stage |-> "idle", record |-> Empty, previous |-> Empty]
Stages == {"idle", "authenticating", "beginning", "writing", "readingBack", "verifying",
           "committing", "comparing", "removing", "removed", "setting",
           "inspecting", "restoring", "forgetting", "deletingActive", "deletingPending"}

StorageInit ==
  /\ active \in InitialActive
  /\ pending \in InitialPending
  /\ tab = [t \in Tabs |-> Idle]
  /\ sealed = 1
  /\ verified = {1}
  /\ remembered = IF active = 1 THEN 1 ELSE Empty

-----------------------------------------------------------------------------
At(t, stage) == tab[t].stage = stage

(* The call of t goes on to a stage if a check succeeds, and fails if not. *)
Checked(t, check, stage) ==
  tab' = [tab EXCEPT ![t] = IF check THEN [@ EXCEPT !.stage = stage] ELSE Idle]

(* inspectRememberedWalletStorage: canSetup.                               *)
Replaceable(a) == a = Empty \/ a \in Records
CanSetup == pending = Empty /\ Replaceable(active)

(* setup: the check it repeats later, then the authenticator and the hash  *)
(* are awaited and a new record is sealed.                                 *)
Setup(t) ==
  /\ At(t, "idle") /\ CanSetup
  /\ sealed < MaxRecords
  /\ sealed' = sealed + 1
  /\ tab' = [tab EXCEPT ![t] = [stage |-> "authenticating", record |-> sealed', previous |-> Empty]]
  /\ UNCHANGED <<active, pending, verified, remembered>>

(* beginRememberedWalletWrite.                                             *)
BeginReadsPending(t) ==
  /\ At(t, "authenticating") /\ Checked(t, pending = Empty, "beginning")
  /\ UNCHANGED <<active, pending, sealed, verified, remembered>>

BeginReadsActive(t) ==
  /\ At(t, "beginning")
  /\ tab' = [tab EXCEPT ![t] = IF Replaceable(active)
                               THEN [@ EXCEPT !.stage = "writing", !.previous = active] ELSE Idle]
  /\ UNCHANGED <<active, pending, sealed, verified, remembered>>

BeginWrites(t) ==
  /\ At(t, "writing") /\ Checked(t, TRUE, "readingBack")
  /\ pending' = tab[t].record
  /\ UNCHANGED <<active, sealed, verified, remembered>>

(* Fault: what was read back is not opened before it is committed. *)
BeginReadsBackAndCommits(t) ==
  /\ At(t, "readingBack") /\ Checked(t, pending = tab[t].record, "committing")
  /\ UNCHANGED <<active, pending, sealed, verified, remembered>>

BeginReadsBack(t) ==
  /\ At(t, "readingBack") /\ Checked(t, pending = tab[t].record, "verifying")
  /\ UNCHANGED <<active, pending, sealed, verified, remembered>>

(* importRememberedIdentity opens the candidate and its identity is the    *)
(* one that was sealed.                                                    *)
Verifies(t) ==
  /\ At(t, "verifying") /\ Checked(t, TRUE, "committing")
  /\ verified' = verified \cup {tab[t].record}
  /\ UNCHANGED <<active, pending, sealed, remembered>>

(* commitRememberedWalletWrite.                                            *)
CommitReadsPending(t) ==
  /\ At(t, "committing") /\ Checked(t, pending = tab[t].record, "comparing")
  /\ UNCHANGED <<active, pending, sealed, verified, remembered>>

CommitReadsActive(t) ==
  /\ At(t, "comparing") /\ Checked(t, active = tab[t].previous, "removing")
  /\ UNCHANGED <<active, pending, sealed, verified, remembered>>

(* Fault: both slots are emptied before the active one is written. *)
CommitRemovesBoth(t) ==
  /\ At(t, "removing") /\ Checked(t, TRUE, "removed")
  /\ pending' = Empty
  /\ active' = Empty
  /\ UNCHANGED <<sealed, verified, remembered>>

CommitRemoves(t) ==
  /\ At(t, "removing") /\ Checked(t, TRUE, "removed")
  /\ pending' = Empty
  /\ UNCHANGED <<active, sealed, verified, remembered>>

CommitReadsBack(t) ==
  /\ At(t, "removed") /\ Checked(t, pending = Empty, "setting")
  /\ UNCHANGED <<active, pending, sealed, verified, remembered>>

CommitSets(t) ==
  /\ At(t, "setting") /\ Checked(t, FALSE, "idle")
  /\ active' = tab[t].record
  /\ remembered' = tab[t].record
  /\ UNCHANGED <<pending, sealed, verified>>

-----------------------------------------------------------------------------
(* restore: canRestore, then the authenticator and native code.            *)
RestoreReadsPending(t) ==
  /\ At(t, "idle") /\ pending = Empty
  /\ tab' = [tab EXCEPT ![t] = [@ EXCEPT !.stage = "inspecting"]]
  /\ UNCHANGED <<active, pending, sealed, verified, remembered>>

RestoreReadsActive(t) ==
  /\ At(t, "inspecting")
  /\ tab' = [tab EXCEPT ![t] = IF active \in Records
                               THEN [@ EXCEPT !.stage = "restoring", !.record = active] ELSE Idle]
  /\ UNCHANGED <<active, pending, sealed, verified, remembered>>

(* forgetRememberedWallet: the person confirmed it.                        *)
ForgetReads(t) ==
  /\ At(t, "idle") /\ active \in Records
  /\ tab' = [tab EXCEPT ![t] = [@ EXCEPT !.stage = "forgetting"]]
  /\ UNCHANGED <<active, pending, sealed, verified, remembered>>

ForgetRemoves(t) ==
  /\ At(t, "forgetting") /\ Checked(t, FALSE, "idle")
  /\ active' = Empty
  /\ remembered' = Empty
  /\ UNCHANGED <<pending, sealed, verified>>

(* deleteQuarantinedWalletRecord: any pending item, or an active one that  *)
(* is no record.                                                           *)
DeleteReads(t) ==
  /\ At(t, "idle")
  /\ \/ pending # Empty /\ tab' = [tab EXCEPT ![t] = [@ EXCEPT !.stage = "deletingPending"]]
     \/ /\ active = Garbage
        /\ tab' = [tab EXCEPT ![t] = [stage |-> "deletingActive", record |-> Garbage, previous |-> Empty]]
  /\ UNCHANGED <<active, pending, sealed, verified, remembered>>

DeletePending(t) ==
  /\ At(t, "deletingPending") /\ Checked(t, FALSE, "idle")
  /\ pending' = Empty
  /\ UNCHANGED <<active, sealed, verified, remembered>>

(* The slot is emptied whatever it holds by now.  A record that another    *)
(* tab stored since the reading goes with it, and counts as forgotten.     *)
DeleteActive(t) ==
  /\ At(t, "deletingActive") /\ Checked(t, FALSE, "idle")
  /\ active' = Empty
  /\ remembered' = IF active = tab[t].record THEN remembered ELSE Empty
  /\ UNCHANGED <<pending, sealed, verified>>

(* The storage or native code throws, the controller is stale, a restore   *)
(* is done, or the tab crashes: nothing more of the call is done, and      *)
(* nothing of what it did is undone.                                       *)
Stops(t) ==
  /\ ~At(t, "idle") /\ Checked(t, FALSE, "idle")
  /\ UNCHANGED <<active, pending, sealed, verified, remembered>>

StorageNext ==
  \E t \in Tabs :
    \/ Setup(t) \/ BeginReadsPending(t) \/ BeginReadsActive(t) \/ BeginWrites(t)
    \/ BeginReadsBack(t) \/ Verifies(t)
    \/ CommitReadsPending(t) \/ CommitReadsActive(t) \/ CommitRemoves(t)
    \/ CommitReadsBack(t) \/ CommitSets(t)
    \/ RestoreReadsPending(t) \/ RestoreReadsActive(t)
    \/ ForgetReads(t) \/ ForgetRemoves(t)
    \/ DeleteReads(t) \/ DeletePending(t) \/ DeleteActive(t)
    \/ Stops(t)

StorageSpec == StorageInit /\ [][StorageNext]_storageVars

-----------------------------------------------------------------------------
(* Every variable has its type: the slots never hold an item that was not  *)
(* there at the start and is no record.                                    *)
StorageTypeOK ==
  /\ active \in Records \cup {Empty} \cup InitialActive
  /\ pending \in Records \cup {Empty} \cup InitialPending
  /\ tab \in [Tabs -> [stage : Stages, record : Records \cup {Empty, Garbage},
                       previous : Records \cup {Empty}]]
  /\ sealed \in Records
  /\ verified \subseteq Records
  /\ remembered \in Records \cup {Empty}

(* The active record, and any record a tab is restoring, was opened by     *)
(* native code before it became active: an item that a crash left pending  *)
(* is never promoted, whatever other tabs do to the slots.                 *)
ActiveWasVerified ==
  /\ active \in Records => active \in verified
  /\ \A t \in Tabs : At(t, "restoring") => tab[t].record \in verified

(* A wallet that was reported as remembered stays in the active slot until *)
(* a later setup succeeds or the person forgets it: no failed, crashed or  *)
(* colliding setup takes it away, and no deletion of quarantined items that *)
(* found the slot as it had read it.                                       *)
RememberedIsKept == remembered # Empty => active = remembered
=============================================================================
