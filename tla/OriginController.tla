--------------------------- MODULE OriginController ---------------------------
(***************************************************************************)
(* The wallet page's owner of secrets: WalletOriginController of           *)
(* wallet-ui/origin-app/controller.mjs.  It unlocks identities (native     *)
(* handles in WASM memory), lets one transaction use one, and publishes    *)
(* the result only after every handle is destroyed.                        *)
(*                                                                         *)
(* Unlocks and transactions are coroutines: between two awaits they run    *)
(* alone; at an await a newer unlock, a lifecycle event (pagehide, freeze, *)
(* beforeunload, a restored bfcache page), a logout or destroy may run.    *)
(* Native destruction may throw; the handle then stays owned and is tried  *)
(* again.  Context checks (assertWalletContext) that fail are failures of  *)
(* the step they guard.                                                    *)
(***************************************************************************)
EXTENDS Integers, FiniteSets

CONSTANTS
  MaxHandles,      \* bound: native handles, numbered in the order of creation
  MaxGeneration,   \* bound: no unlock begins at this generation or later
  Unlocks,         \* bound: unlock calls suspended at the same time
  Transactions,    \* the prepare/executePrepared calls of the page
  MaxRevocations,  \* bound: calls of revokeNow
  NativeMayFail,   \* may destroySdnIdentity throw?
  None

ASSUME OriginAssumption ==
  /\ MaxRevocations \in Nat
  /\ NativeMayFail \in BOOLEAN
  /\ MaxHandles \in Nat
  /\ MaxGeneration \in Nat
  /\ None \notin Transactions

VARIABLES
  generation,  \* #generation
  epoch,       \* #revocationEpoch
  revoked,     \* #revoked
  destroyed,   \* #destroyed
  handle,      \* #handle, or 0
  owned,       \* #ownedHandles
  live,        \* handles that exist in native memory
  secrets,     \* #secretBuffers: the unlocks whose bytes are in it
  retained,    \* #retainedIdentity is set
  typed,       \* #credentialControls: a form the person may have filled in
  activeTransaction, \* #activeTransaction
  permit,      \* #publicationPermit: the transaction it was made for, or None
  unlock,      \* unlock call -> where it is suspended
  tx,          \* transaction -> where it is suspended
  account,     \* #pendingAccountPublication and #accountPublicationPromise
  made,        \* history: how many handles native code has made
  misused      \* history: handles used after their destruction

authority == <<generation, epoch, revoked, destroyed, activeTransaction, permit>>
holdings == <<handle, owned, live, secrets, retained, typed>>
history == <<made, misused>>
controllerVars == <<authority, holdings, unlock, tx, account, history>>

Handles == 1..MaxHandles

(* "restoring": restore awaits the authenticator; "restored": it has       *)
(* returned a handle it owns; "remembering": the identity is installed and *)
(* setup awaits the authenticator.                                         *)
IdleUnlock == [stage |-> "idle", generation |-> 0, handle |-> 0, remember |-> FALSE]
UnlockStages == {"idle", "deriving", "derived", "restoring", "restored", "remembering"}
UnlockCalls == [stage : UnlockStages, generation : Nat, handle : Handles \cup {0}, remember : BOOLEAN]

(* "prepared": returned by prepare; "contacting": a publication waits for  *)
(* the provider's challenge; "ended": settled either way.                  *)
TxStages == {"idle", "preparing", "prepared", "validating", "confirming", "revalidating",
             "contacting", "operating", "publishing", "navigated", "ended"}
TxCalls == [stage : TxStages, generation : Nat, handle : Handles \cup {0}, epoch : Nat, account : BOOLEAN]
NewTx == [stage |-> "idle", generation |-> 0, handle |-> 0, epoch |-> 0, account |-> FALSE]

NoAccount == [stage |-> "none", epoch |-> 0, permit |-> None]
AccountStages == {"none", "ready", "publishing", "navigated", "ended"}
AccountStates == [stage : AccountStages, epoch : Nat, permit : Transactions \cup {None}]

ControllerInit ==
  /\ generation = 0 /\ epoch = 0 /\ revoked = FALSE /\ destroyed = FALSE
  /\ activeTransaction = FALSE /\ permit = None
  /\ handle = 0 /\ owned = {} /\ live = {} /\ secrets = {} /\ retained = FALSE
  /\ typed = FALSE
  /\ unlock = [u \in Unlocks |-> IdleUnlock]
  /\ tx = [x \in Transactions |-> NewTx]
  /\ account = NoAccount
  /\ made = 0 /\ misused = {}

-----------------------------------------------------------------------------
(* The sets of handles whose destruction may succeed when it is tried for  *)
(* all of H: each of them, unless the native side throws.                  *)
Destroyable(H) == IF NativeMayFail THEN SUBSET H ELSE {H}

(* Fault: a handle that could not be destroyed is forgotten. *)
DestroyedForgetsFailures(gone, H) ==
  /\ owned' = {}
  /\ live' = live \ gone

(* #destroyHandle for the handles in `gone', which the native side         *)
(* destroyed.                                                              *)
Destroyed(gone, H) ==
  /\ owned' = H \ gone
  /\ live' = live \ gone

(* What revokeNow does, at generation g, to the authority of the page: no  *)
(* permit, no pending account result.  An account publication under way    *)
(* goes on and meets #assertPublicationCurrent.                            *)
Revocation(g) ==
  /\ epoch < MaxRevocations
  /\ epoch' = epoch + 1
  /\ permit' = None
  /\ account' = IF account.stage = "ready" THEN NoAccount ELSE account
  /\ generation' = IF destroyed \/ revoked THEN g ELSE g + 1
  /\ revoked' = TRUE
  /\ activeTransaction' = (destroyed /\ activeTransaction)

(* Fault: the password bytes of an unlock under way are not wiped. *)
RevocationKeepsSecrets(H) ==
  /\ \E gone \in Destroyable(H) : Destroyed(gone, H)
  /\ handle' = 0
  /\ retained' = FALSE /\ typed' = FALSE
  /\ UNCHANGED secrets

(* Fault: the handle is left undefined, which no check for null finds. *)
RevocationUndefinesHandle(H) ==
  /\ \E gone \in Destroyable(H) : Destroyed(gone, H)
  /\ handle' = None
  /\ retained' = FALSE /\ typed' = FALSE
  /\ secrets' = {}

(* ... and to what it holds: H is everything it owns by then.              *)
RevocationHoldings(H) ==
  /\ \E gone \in Destroyable(H) : Destroyed(gone, H)
  /\ handle' = 0
  /\ retained' = FALSE /\ typed' = FALSE
  /\ secrets' = {}

(* Fault: the handle made for a check is dropped when its destruction      *)
(* fails.                                                                  *)
RevocationOfNewLeaks(h) ==
  /\ \E gone \in Destroyable(owned) : owned' = owned \ gone /\ live' = (live \cup {h}) \ gone
  /\ handle' = 0
  /\ retained' = FALSE /\ typed' = FALSE
  /\ secrets' = {}

(* The same with a handle h that native code has made in this step.        *)
RevocationOfNew(h) ==
  /\ \E gone \in Destroyable(owned \cup {h}) :
       /\ owned' = (owned \cup {h}) \ gone
       /\ live' = (live \cup {h}) \ gone
  /\ handle' = 0
  /\ retained' = FALSE /\ typed' = FALSE
  /\ secrets' = {}

(* The page renders the form: registerCredentialControls.                  *)
RegisterCredentialControls ==
  /\ ~destroyed /\ ~revoked /\ ~typed
  /\ typed' = TRUE
  /\ UNCHANGED <<authority, handle, owned, live, secrets, retained, unlock, tx, account, history>>

RevokeNow ==
  /\ Revocation(generation)
  /\ RevocationHoldings(owned)
  /\ UNCHANGED <<destroyed, unlock, tx, history>>

(* pagehide, freeze, beforeunload, or a page that comes back from the      *)
(* bfcache.  The listeners are detached by destroy.                        *)
Lifecycle == ~destroyed /\ RevokeNow

(* logout away from the account page.                                      *)
Logout ==
  /\ account.stage = "none"
  /\ RevokeNow

Destroy ==
  /\ ~destroyed
  /\ Revocation(generation)
  /\ RevocationHoldings(owned)
  /\ destroyed' = TRUE
  /\ UNCHANGED <<unlock, tx, history>>

(* destroy() again: only #retryOwnedHandles.                               *)
DestroyAgain ==
  /\ destroyed /\ owned # {}
  /\ \E gone \in Destroyable(owned) : Destroyed(gone, owned)
  /\ UNCHANGED <<authority, handle, secrets, retained, typed, unlock, tx, account, history>>

-----------------------------------------------------------------------------
(* Every unlock starts with #beginUnlockReplacement: whatever was there is *)
(* cleared, aborted, wiped or destroyed.                                   *)
Usable == ~destroyed /\ ~revoked

(* Fault: the identity of the previous unlock stays installed. *)
UnlockBeginsKeepsHandle(u) ==
  /\ Usable /\ unlock[u].stage = "idle"
  /\ generation < MaxGeneration
  /\ generation' = generation + 1
  /\ retained' = FALSE /\ typed' = FALSE
  /\ UNCHANGED <<handle, owned, live, epoch, revoked, destroyed, activeTransaction, permit, tx,
                 account, history>>

UnlockBegins(u) ==
  /\ Usable /\ unlock[u].stage = "idle"
  /\ generation < MaxGeneration
  /\ generation' = generation + 1
  /\ handle' = 0
  /\ Destroyed(owned, owned)
  /\ retained' = FALSE /\ typed' = FALSE
  /\ UNCHANGED <<epoch, revoked, destroyed, activeTransaction, permit, tx, account, history>>

Suspended(u, stage, remember) ==
  unlock' = [unlock EXCEPT ![u] = [stage |-> stage, generation |-> generation + 1,
                                   handle |-> 0, remember |-> remember]]

(* The credentials are read into buffers, the form is retired, and the     *)
(* derivation awaited.  The wallet may be remembered afterwards.           *)
UnlockPassword(u) ==
  /\ UnlockBegins(u)
  /\ secrets' = {u}
  /\ \E remember \in BOOLEAN : Suspended(u, "deriving", remember)

UnlockLegacy(u) ==
  /\ UnlockBegins(u)
  /\ secrets' = {u}
  /\ Suspended(u, "deriving", FALSE)

(* ... or they are malformed.  The previous identity is gone already.      *)
CredentialsRefused(u) ==
  /\ UnlockBegins(u)
  /\ secrets' = {}
  /\ UNCHANGED unlock

(* A record is in the storage, and restore awaits the authenticator.       *)
UnlockRemembered(u) ==
  /\ UnlockBegins(u)
  /\ secrets' = {}
  /\ Suspended(u, "restoring", FALSE)

(* A previous handle cannot be destroyed: the page is revoked.             *)
UnlockRefused(u) ==
  /\ Usable /\ unlock[u].stage = "idle" /\ owned # {}
  /\ generation < MaxGeneration
  /\ NativeMayFail
  /\ Revocation(generation + 1)
  /\ RevocationHoldings(owned)
  /\ UNCHANGED <<destroyed, unlock, tx, history>>

(* Native code has made the handle; the await has not resumed yet.         *)
NativeDerives(u) ==
  /\ unlock[u].stage = "deriving"
  /\ made < MaxHandles
  /\ made' = made + 1
  /\ live' = live \cup {made'}
  /\ unlock' = [unlock EXCEPT ![u] = [@ EXCEPT !.stage = "derived", !.handle = made']]
  /\ UNCHANGED <<authority, handle, owned, secrets, retained, typed, tx, account, misused>>

(* The buffers are wiped and dropped on every way out.                     *)
UnlockReturns(u) ==
  /\ secrets' = secrets \ {u}
  /\ unlock' = [unlock EXCEPT ![u] = IdleUnlock]

UnlockFails(u) ==
  /\ unlock[u].stage \in {"deriving", "restoring"}
  /\ UnlockReturns(u)
  /\ UNCHANGED <<authority, handle, owned, live, retained, typed, tx, account, history>>

UnlockIsCurrent(u) == Usable /\ generation = unlock[u].generation

(* The handle is installed, and the unlock returns or goes on to setup,    *)
(* with the credential bytes.                                              *)
UnlockInstalls(u) ==
  /\ unlock[u].stage = "derived" /\ UnlockIsCurrent(u)
  /\ handle' = unlock[u].handle
  /\ owned' = owned \cup {unlock[u].handle}
  /\ IF unlock[u].remember
     THEN unlock' = [unlock EXCEPT ![u].stage = "remembering"] /\ UNCHANGED secrets
     ELSE UnlockReturns(u)
  /\ UNCHANGED <<authority, live, retained, typed, tx, account, history>>

(* Fault: the handle of a replaced or revoked unlock is dropped. *)
UnlockDiscardsLeaks(u) ==
  /\ unlock[u].stage = "derived" /\ ~UnlockIsCurrent(u)
  /\ UnlockReturns(u)
  /\ UNCHANGED <<authority, handle, owned, live, retained, typed, tx, account, history>>

(* Replaced, revoked, or with a malformed identity: the handle is          *)
(* destroyed; if that fails it stays owned and the page is revoked.        *)
UnlockDiscards(u) ==
  /\ unlock[u].stage = "derived"
  /\ unlock' = [unlock EXCEPT ![u] = IdleUnlock]
  /\ LET h == unlock[u].handle IN
     \/ /\ Destroyed({h}, owned \cup {h})
        /\ secrets' = secrets \ {u}
        /\ UNCHANGED <<authority, handle, retained, typed, account>>
     \/ /\ NativeMayFail
        /\ Revocation(generation)
        /\ RevocationHoldings(owned \cup {h})
        /\ UNCHANGED destroyed
  /\ UNCHANGED <<tx, history>>

(* restore: the authenticator has answered and the page is still the one   *)
(* that asked, so native code opens the record.  The handle is owned at    *)
(* once and installed when the await of unlockRemembered resumes.          *)
RestoreOpens(u) ==
  /\ unlock[u].stage = "restoring" /\ UnlockIsCurrent(u)
  /\ made < MaxHandles
  /\ made' = made + 1
  /\ live' = live \cup {made'}
  /\ owned' = owned \cup {made'}
  /\ unlock' = [unlock EXCEPT ![u] = [@ EXCEPT !.stage = "restored", !.handle = made']]
  /\ UNCHANGED <<authority, handle, secrets, retained, typed, tx, account, misused>>

(* ... or the identity it opens is malformed.  restore destroys the        *)
(* handle, unlockRemembered tries again, and revokes the page if the       *)
(* native side throws both times.                                          *)
RestoreMalformed(u) ==
  /\ unlock[u].stage = "restoring" /\ UnlockIsCurrent(u)
  /\ made < MaxHandles
  /\ made' = made + 1
  /\ unlock' = [unlock EXCEPT ![u] = IdleUnlock]
  /\ \/ UNCHANGED <<authority, holdings, account>>
     \/ /\ NativeMayFail
        /\ Revocation(generation)
        /\ RevocationOfNew(made')
        /\ UNCHANGED destroyed
  /\ UNCHANGED <<tx, misused>>

(* unlockRemembered resumes and installs the handle.                       *)
RestoreInstalls(u) ==
  /\ unlock[u].stage = "restored" /\ UnlockIsCurrent(u)
  /\ unlock[u].handle \in owned
  /\ handle' = unlock[u].handle
  /\ unlock' = [unlock EXCEPT ![u] = IdleUnlock]
  /\ UNCHANGED <<authority, owned, live, secrets, retained, typed, tx, account, history>>

(* ... or the page was replaced or revoked since.  It has destroyed the    *)
(* handle by then, or tries again now.                                     *)
RestoreStale(u) ==
  /\ unlock[u].stage = "restored" /\ ~UnlockIsCurrent(u)
  /\ unlock' = [unlock EXCEPT ![u] = IdleUnlock]
  /\ LET mine == {unlock[u].handle} \cap owned IN
     \/ /\ Destroyed(mine, owned)
        /\ UNCHANGED <<authority, handle, secrets, retained, typed, account>>
     \/ /\ NativeMayFail /\ mine # {}
        /\ Revocation(generation)
        /\ RevocationHoldings(owned)
        /\ UNCHANGED destroyed
  /\ UNCHANGED <<tx, history>>

(* Fault: setup asserts nothing after its last await. *)
SetupIsCurrentAnyway(u) == Usable

(* #assertCurrent, as setup calls it after each of its awaits.             *)
SetupIsCurrent(u) == UnlockIsCurrent(u) /\ handle = unlock[u].handle

(* setup seals the installed identity, opens the sealed record as a check, *)
(* and destroys the handle that the check made.  If the native side throws *)
(* both times that is tried, the page is revoked.                          *)
SetupSeals(u) ==
  /\ unlock[u].stage = "remembering" /\ SetupIsCurrent(u)
  /\ made < MaxHandles
  /\ made' = made + 1
  /\ misused' = misused \cup ({unlock[u].handle} \ live)
  /\ \/ UnlockReturns(u) /\ UNCHANGED <<authority, handle, owned, live, retained, typed, account>>
     \/ /\ NativeMayFail
        /\ Revocation(generation)
        /\ RevocationOfNew(made')
        /\ unlock' = [unlock EXCEPT ![u] = IdleUnlock]
        /\ UNCHANGED destroyed
  /\ UNCHANGED tx

(* setup is stale, or the authenticator, the storage or native code        *)
(* refuses: the wallet is not remembered, and the identity stays if it is  *)
(* still the installed one.                                                *)
SetupStops(u) ==
  /\ unlock[u].stage = "remembering"
  /\ UnlockReturns(u)
  /\ UNCHANGED <<authority, handle, owned, live, retained, typed, tx, account, history>>

-----------------------------------------------------------------------------
(* prepare, called by the page or by execute, which keeps the handle it    *)
(* starts with.                                                            *)
Prepare(x) ==
  /\ Usable /\ ~activeTransaction
  /\ tx[x].stage = "idle"
  /\ activeTransaction' = TRUE
  /\ \E h \in {0, handle} : tx' = [tx EXCEPT ![x] =
       [@ EXCEPT !.stage = "preparing", !.generation = generation, !.handle = h]]
  /\ UNCHANGED <<generation, epoch, revoked, destroyed, permit, holdings, unlock, account, history>>

PrepareReturns(x) ==
  /\ tx[x].stage = "preparing"
  /\ IF Usable /\ generation = tx[x].generation
     THEN tx' = [tx EXCEPT ![x].stage = "prepared"] /\ UNCHANGED activeTransaction
     ELSE tx' = [tx EXCEPT ![x].stage = "ended"] /\ activeTransaction' = FALSE
  /\ UNCHANGED <<generation, epoch, revoked, destroyed, permit, holdings, unlock, account, history>>

(* executePrepared up to its first await.                                  *)
ExecutePrepared(x) ==
  /\ tx[x].stage = "prepared"
  /\ IF Usable /\ handle # 0
     THEN /\ \E a \in BOOLEAN : tx' = [tx EXCEPT ![x] =
               [@ EXCEPT !.stage = "validating", !.generation = generation,
                         !.handle = handle, !.account = a]]
          /\ UNCHANGED activeTransaction
     ELSE tx' = [tx EXCEPT ![x].stage = "ended"] /\ activeTransaction' = FALSE
  /\ UNCHANGED <<generation, epoch, revoked, destroyed, permit, holdings, unlock, account, history>>

(* Fault: neither the generation nor the handle is compared. *)
IsCurrentAnyHandle(x) == Usable

(* #assertCurrent.                                                         *)
IsCurrent(x) ==
  Usable /\ generation = tx[x].generation /\ handle = tx[x].handle

(* The stages between the awaits of executePrepared; a remembered consent  *)
(* skips the confirmation.                                                 *)
NextStages(x) ==
  CASE tx[x].stage = "validating" -> {"confirming", "revalidating"}
    [] tx[x].stage = "confirming" -> {"revalidating"}
    [] tx[x].stage = "revalidating" -> IF tx[x].account THEN {"operating"}
                                       ELSE {"contacting", "operating"}
    [] tx[x].stage = "contacting" -> {"operating"}
    [] OTHER -> {}

(* Entering "operating" hands the captured handle to native code, unless   *)
(* the operation is connect or account, which use the identity only.       *)
Advance(x) ==
  /\ IsCurrent(x)
  /\ \E s \in NextStages(x) :
       /\ tx' = [tx EXCEPT ![x].stage = s]
       /\ misused' = IF s = "operating" /\ ~tx[x].account /\ tx[x].handle \notin live
                     THEN misused \cup {tx[x].handle} ELSE misused
  /\ UNCHANGED <<authority, holdings, unlock, account, made>>

(* Fault: the page that has answered a transaction may be unlocked again. *)
FinishOneShotKeepsPage(x, keep) ==
  /\ generation' = generation + 1
  /\ activeTransaction' = FALSE
  /\ handle' = 0
  /\ secrets' = {}
  /\ retained' = keep /\ typed' = FALSE
  /\ UNCHANGED <<epoch, revoked, destroyed, unlock, history>>

(* #finishOneShot of the current transaction: the page is spent, and its   *)
(* handles are destroyed; the permit stands if all of them were.           *)
FinishOneShot(x, keep) ==
  /\ generation' = generation + 1
  /\ revoked' = TRUE
  /\ activeTransaction' = FALSE
  /\ handle' = 0
  /\ secrets' = {}
  /\ retained' = keep /\ typed' = FALSE
  /\ UNCHANGED <<epoch, destroyed, unlock, history>>

(* Fault: the permit does not wait for the handles to be destroyed. *)
OperationDoneAnyway(x) ==
  /\ tx[x].stage = "operating" /\ IsCurrent(x)
  /\ \E gone \in Destroyable(owned) : Destroyed(gone, owned)
  /\ FinishOneShot(x, tx[x].account)
  /\ permit' = x
  /\ IF tx[x].account
     THEN /\ account' = [stage |-> "ready", epoch |-> epoch, permit |-> x]
          /\ tx' = [tx EXCEPT ![x].stage = "ended"]
     ELSE /\ tx' = [tx EXCEPT ![x] = [@ EXCEPT !.stage = "publishing", !.epoch = epoch]]
          /\ UNCHANGED account

(* The operation has its result: every handle is destroyed and the result  *)
(* is published at once, or, for the account, when the user leaves.        *)
OperationDone(x) ==
  /\ tx[x].stage = "operating" /\ IsCurrent(x)
  /\ Destroyed(owned, owned)
  /\ FinishOneShot(x, tx[x].account)
  /\ permit' = x
  /\ IF tx[x].account
     THEN /\ account' = [stage |-> "ready", epoch |-> epoch, permit |-> x]
          /\ tx' = [tx EXCEPT ![x].stage = "ended"]
     ELSE /\ tx' = [tx EXCEPT ![x] = [@ EXCEPT !.stage = "publishing", !.epoch = epoch]]
          /\ UNCHANGED account

(* The same when a destruction fails, or when a step of the transaction    *)
(* fails: no permit.                                                       *)
Executing(x) ==
  tx[x].stage \in {"validating", "confirming", "revalidating", "contacting", "operating"}

TransactionFails(x) ==
  /\ Executing(x) /\ IsCurrent(x)
  /\ \E gone \in Destroyable(owned) : Destroyed(gone, owned)
  /\ FinishOneShot(x, FALSE)
  /\ permit' = None
  /\ tx' = [tx EXCEPT ![x].stage = "ended"]
  /\ UNCHANGED account

(* The relay or the validation refuses the transaction.  execute, but not  *)
(* the page's prepare, then spends the identity it started with.           *)
PrepareFails(x) ==
  /\ tx[x].stage = "preparing"
  /\ tx' = [tx EXCEPT ![x].stage = "ended"]
  /\ IF tx[x].handle # 0 /\ IsCurrent(x)
     THEN /\ \E gone \in Destroyable(owned) : Destroyed(gone, owned)
          /\ FinishOneShot(x, FALSE)
          /\ permit' = None
     ELSE /\ activeTransaction' = FALSE
          /\ UNCHANGED <<generation, epoch, revoked, destroyed, permit, holdings, unlock, history>>
  /\ UNCHANGED account

(* A stale transaction ends, and destroys its handle if it is still owned. *)
TransactionStale(x) ==
  /\ Executing(x) /\ ~IsCurrent(x)
  /\ tx' = [tx EXCEPT ![x].stage = "ended"]
  /\ LET mine == {tx[x].handle} \cap owned IN
     \/ /\ Destroyed(mine, owned)
        /\ handle' = IF handle \in mine THEN 0 ELSE handle
        /\ UNCHANGED <<authority, secrets, retained, typed, account>>
     \/ /\ NativeMayFail /\ mine # {}
        /\ Revocation(generation)
        /\ RevocationHoldings(owned)
        /\ UNCHANGED destroyed
  /\ UNCHANGED <<unlock, history>>

-----------------------------------------------------------------------------
(* #assertPublicationCurrent.                                              *)
PublicationCurrent(e, x) ==
  ~destroyed /\ epoch = e /\ owned = {} /\ permit = x

(* The relay has answered; the browser is sent back to the site.           *)
Navigate(x) ==
  /\ tx[x].stage = "publishing"
  /\ PublicationCurrent(tx[x].epoch, x)
  /\ permit' = None
  /\ tx' = [tx EXCEPT ![x].stage = "navigated"]
  /\ UNCHANGED <<generation, epoch, revoked, destroyed, activeTransaction, holdings, unlock, account, history>>

(* ... or it has not, or the page was revoked meanwhile.                   *)
PublicationFails(x) ==
  /\ tx[x].stage = "publishing"
  /\ permit' = IF permit = x THEN None ELSE permit
  /\ tx' = [tx EXCEPT ![x].stage = "ended"]
  /\ UNCHANGED <<generation, epoch, revoked, destroyed, activeTransaction, holdings, unlock, account, history>>

(* returnToSite, or logout on the account page: #completePendingAccount.   *)
LeaveAccount ==
  /\ account.stage = "ready"
  /\ retained' = FALSE
  /\ account' = [account EXCEPT !.stage =
                   IF PublicationCurrent(account.epoch, account.permit) THEN "publishing" ELSE "ended"]
  /\ permit' = IF PublicationCurrent(account.epoch, account.permit) \/ permit # account.permit
               THEN permit ELSE None
  /\ UNCHANGED <<generation, epoch, revoked, destroyed, activeTransaction, handle, owned, live, secrets,
                 typed, unlock, tx, history>>

NavigateAccount ==
  /\ account.stage = "publishing"
  /\ PublicationCurrent(account.epoch, account.permit)
  /\ permit' = None
  /\ account' = [account EXCEPT !.stage = "navigated"]
  /\ UNCHANGED <<generation, epoch, revoked, destroyed, activeTransaction, holdings, unlock, tx, history>>

AccountFails ==
  /\ account.stage = "publishing"
  /\ permit' = IF permit = account.permit THEN None ELSE permit
  /\ account' = [account EXCEPT !.stage = "ended"]
  /\ UNCHANGED <<generation, epoch, revoked, destroyed, activeTransaction, holdings, unlock, tx, history>>

ControllerNext ==
  \/ RegisterCredentialControls \/ Lifecycle \/ Logout \/ Destroy \/ DestroyAgain
  \/ \E u \in Unlocks :
       \/ UnlockPassword(u) \/ UnlockLegacy(u) \/ UnlockRemembered(u)
       \/ CredentialsRefused(u) \/ UnlockRefused(u)
       \/ NativeDerives(u) \/ UnlockFails(u) \/ UnlockInstalls(u) \/ UnlockDiscards(u)
       \/ RestoreOpens(u) \/ RestoreMalformed(u) \/ RestoreInstalls(u) \/ RestoreStale(u)
       \/ SetupSeals(u) \/ SetupStops(u)
  \/ \E x \in Transactions :
       \/ Prepare(x) \/ PrepareReturns(x) \/ PrepareFails(x) \/ ExecutePrepared(x)
       \/ Advance(x) \/ OperationDone(x) \/ TransactionFails(x) \/ TransactionStale(x)
       \/ Navigate(x) \/ PublicationFails(x)
  \/ LeaveAccount \/ NavigateAccount \/ AccountFails

ControllerSpec == ControllerInit /\ [][ControllerNext]_controllerVars

-----------------------------------------------------------------------------
(* Every variable has its type.                                            *)
ControllerTypeOK ==
  /\ generation \in Nat /\ epoch \in 0..MaxRevocations
  /\ revoked \in BOOLEAN /\ destroyed \in BOOLEAN /\ activeTransaction \in BOOLEAN
  /\ retained \in BOOLEAN /\ typed \in BOOLEAN
  /\ permit \in Transactions \cup {None}
  /\ handle \in Handles \cup {0}
  /\ made \in 0..MaxHandles
  /\ owned \subseteq Handles /\ live \subseteq Handles /\ misused \subseteq Handles
  /\ secrets \subseteq Unlocks
  /\ unlock \in [Unlocks -> UnlockCalls]
  /\ tx \in [Transactions -> TxCalls]
  /\ account \in AccountStates

InFlight == {unlock[u].handle : u \in {v \in Unlocks : unlock[v].stage = "derived"}}

(* Every handle in native memory is owned, so that a later revocation      *)
(* tries it again, or is about to be handed to the unlock that asked for   *)
(* it; every owned handle exists, and the installed one is owned.          *)
NoHandleEscapes ==
  /\ owned \subseteq live /\ live \subseteq owned \cup InFlight
  /\ handle # 0 => handle \in owned

(* A revoked page holds no identity, no credential bytes and no form with  *)
(* credentials, and a handle only if the native side refused to destroy    *)
(* it.                                                                     *)
RevokedHoldsNothing ==
  revoked => handle = 0 /\ secrets = {} /\ ~typed /\ (NativeMayFail \/ owned = {})

Restored == {unlock[u].handle : u \in {v \in Unlocks : unlock[v].stage = "restored"
                                                        /\ UnlockIsCurrent(v)}}

(* Until it is revoked the page owns the installed identity, or the one    *)
(* that the latest unlock is about to install, and no other: a replaced    *)
(* unlock, early or late, and the check of a setup leave nothing behind.   *)
OwnsOnlyInstalled ==
  ~revoked => owned = ({handle} \cup Restored) \ {0} /\ Cardinality(owned) <= 1

(* Native code is never given a handle that was destroyed under the        *)
(* transaction by a newer unlock or a revocation.                          *)
NoUseAfterDestroy == misused = {}

(* Together, in states of the right type: a handle is neither lost nor     *)
(* used once it is gone.                                                   *)
HandlesAreAccountedFor == ControllerTypeOK /\ NoHandleEscapes /\ NoUseAfterDestroy

(* The two together: what the page holds before and after it is revoked.   *)
HoldsOnlyItsIdentity == RevokedHoldsNothing /\ OwnsOnlyInstalled

(* While a result may still be sent back to the site, no secret is left:   *)
(* no handle is owned, none is installed, no credentials are held.         *)
PermitMeansClean == permit # None => owned = {} /\ handle = 0 /\ secrets = {} /\ ~typed

(* A result leaves the page.                                               *)
ResultLeaves ==
  \/ \E x \in Transactions : tx[x].stage = "publishing" /\ tx'[x].stage = "navigated"
  \/ account.stage = "publishing" /\ account'.stage = "navigated"

(* A result has left it.                                                   *)
ResultLeft == account.stage = "navigated" \/ \E x \in Transactions : tx[x].stage = "navigated"

(* A page sends at most one result back to a site, its own or that of an   *)
(* account it shows, whatever it has unlocked and begun since; and none    *)
(* once it was ever hidden, logged out, destroyed or revoked for a handle  *)
(* it could not destroy, at any time of its life.                          *)
OneResultPerPage ==
  [][ResultLeaves => ~ResultLeft /\ epoch = 0 /\ ~destroyed]_controllerVars
=============================================================================
