------------------------------ MODULE OriginPage ------------------------------
(***************************************************************************)
(* The page of the wallet origin: createWalletOriginApp of                 *)
(* wallet-ui/origin-app/app.mjs, its prompts and its account surface, with *)
(* the approval configuration of account.mjs.  The controller that owns    *)
(* the sign-in's own handle is module OriginController; here its calls are *)
(* answers that arrive, well or badly, some time later.                    *)
(*                                                                         *)
(* start(), a copy of the approval configuration and a comparison with a   *)
(* legacy account are coroutines.  Between two of their awaits the user    *)
(* may press any button, the browser may hide, freeze or restore the page, *)
(* and the embedder may call logout() or stop().  The account surface      *)
(* derives identities of its own, hence native handles that it, and no     *)
(* controller, has to destroy; native destruction may throw.               *)
(*                                                                         *)
(* lifecycleClosed and the surface's destroyed flag are never reset, so    *)
(* the generation that is compared beside each of them says nothing more   *)
(* and is left out.                                                        *)
(***************************************************************************)
EXTENDS Integers, FiniteSets

CONSTANTS
  Identities,      \* the identities credentials may derive
  SignedIn,        \* the one the page is signed in with
  NoIdentity,
  MaxPageHandles   \* bound: native handles the surface derives

ASSUME OriginPageAssumption ==
  /\ SignedIn \in Identities
  /\ NoIdentity \notin Identities
  /\ MaxPageHandles \in Nat

VARIABLES
  lifecycleClosed,
  listening,         \* the lifecycle listeners are attached
  stopPromise,       \* stop() has been called
  run,               \* where start() is suspended, and the answer to its prompt
  activePrompt,      \* the app holds a prompt
  retainedIdentity,  \* ... a public identity
  accountSurface,    \* ... the account surface
  controller,         \* the controller: open, revoked or destroyed
  surface,           \* the account surface itself
  mount,             \* the sections in the mount node
  liveHandles,       \* the surface's handles that exist in native memory
  derived,           \* history: how many it has derived
  copied,            \* history: identities whose configuration was copied or shown
  storage,           \* the two slots of localStorage
  quarantine         \* the rows of the quarantine manager on the page

appVars == <<lifecycleClosed, listening, stopPromise, activePrompt, retainedIdentity,
             accountSurface, controller>>
nativeVars == <<liveHandles, derived, copied>>
storageVars == <<storage, quarantine>>
originPageVars == <<appVars, run, surface, mount, nativeVars, storageVars>>

RunStages == {"idle", "preparing", "profile", "credential", "unlocking", "restoring",
              "executing", "ended"}
Answers == {"none", "given", "remembered", "rejected"}
Operations == {"account", "raw", "other"}

(* How far a copy or a comparison is.  "rejected": its prompt was          *)
(* cancelled and the coroutine has not noticed yet; "writing": the         *)
(* clipboard has not answered yet.                                         *)
WorkStages == {"idle", "prompting", "answered", "rejected", "deriving", "writing"}

NoSurface ==
  [stage |-> "none", finishing |-> "no", copy |-> "idle", first |-> NoIdentity,
   confirmed |-> NoIdentity, copyOwned |-> {}, copySecrets |-> FALSE,
   legacy |-> "idle", legacyOwned |-> {}, legacySecrets |-> FALSE,
   mayForget |-> FALSE, asking |-> FALSE, forgotten |-> FALSE]

(* The active slot and the pending one.  "bad": a record this version does *)
(* not accept; "left": what an interrupted setup wrote.                    *)
StorageSlots == [active : {"empty", "valid", "bad"}, pending : {"empty", "left"}]

(* The rows an open manager rendered, those whose confirmation is open,    *)
(* and whether the prompt offers to restore the remembered wallet.         *)
NoRows == [rows |-> {}, asking |-> {}, offered |-> FALSE]

OriginPageInit ==
  /\ lifecycleClosed = FALSE /\ listening = TRUE /\ stopPromise = FALSE
  /\ run = [stage |-> "idle", operation |-> "other", answer |-> "none", restoreFailed |-> FALSE]
  /\ activePrompt = FALSE /\ retainedIdentity = FALSE /\ accountSurface = FALSE
  /\ controller = "open"
  /\ surface = NoSurface
  /\ mount = {}
  /\ liveHandles = {} /\ derived = 0 /\ copied = {}
  /\ storage \in StorageSlots /\ quarantine = NoRows

-----------------------------------------------------------------------------
(* The quarantine manager, which a prompt and the account surface install. *)
Quarantined(slots) ==
  {key \in {"active", "pending"} : slots[key] \in {"bad", "left"}}

CanRestore(slots) == slots.pending = "empty" /\ slots.active = "valid"

(* refresh(): rows for what is quarantined now, no confirmation open.      *)
RenderRows(slots, offer) ==
  quarantine' = [rows |-> Quarantined(slots), asking |-> {},
                 offered |-> offer /\ CanRestore(slots)]

(* The manager and the prompt that offered a restore are gone.             *)
ClearRows == quarantine' = NoRows /\ UNCHANGED storage

QuarantineDelete(key) ==
  /\ key \in quarantine.rows \ quarantine.asking
  /\ quarantine' = [quarantine EXCEPT !.asking = @ \cup {key}]
  /\ UNCHANGED <<appVars, run, surface, mount, nativeVars, storage>>

QuarantineCancel(key) ==
  /\ key \in quarantine.asking
  /\ quarantine' = [quarantine EXCEPT !.asking = @ \ {key}]
  /\ UNCHANGED <<appVars, run, surface, mount, nativeVars, storage>>

(* readQuarantineCandidate reads the slot again.                           *)
StillQuarantined(key) == key \in Quarantined(storage)

(* What other tabs may make of the slots between two accesses of this page.*)
ByOtherTabs == StorageSlots

(* The exact key was typed.  The slot is looked at, and a record that is   *)
(* gone or valid by then fails the deletion and leaves the rows (that is   *)
(* OtherTab).  Its removal is another access of the storage: what a tab    *)
(* stored in between, a valid wallet too, goes with it.  A deletion renders*)
(* the rows again and lets the prompt offer a restore.                     *)
QuarantineConfirm(key) ==
  /\ key \in quarantine.asking /\ StillQuarantined(key)
  /\ \E between \in ByOtherTabs :
       LET slots == [between EXCEPT ![key] = "empty"]
       IN  /\ storage' = slots
           /\ RenderRows(slots, run.stage = "credential" /\ ~run.restoreFailed)
  /\ UNCHANGED <<appVars, run, surface, mount, nativeVars>>

(* Another tab, or the sign-in of this one, sets up a record, and another  *)
(* tab forgets or clears one.                                              *)
OtherTab ==
  /\ storage' \in StorageSlots \ {storage}
  /\ UNCHANGED <<appVars, run, surface, mount, nativeVars, quarantine>>

-----------------------------------------------------------------------------
(* The account surface.                                                    *)

(* Native destruction of the handles H: any of them may throw and stay.    *)
MayGo(H) == SUBSET H

Owned(s) == s.copyOwned \cup s.legacyOwned
Disowned(s, gone) ==
  [s EXCEPT !.copyOwned = @ \ gone, !.legacyOwned = @ \ gone]

IsShown(s) == s.stage = "shown"

(* pendingPrompts: the prompts that are open, or settled and not yet read. *)
PendingPrompts(s) ==
  {p \in {"copyPrompt", "legacyPrompt"} :
     (IF p = "copyPrompt" THEN s.copy ELSE s.legacy) \in {"prompting", "answered"}}

(* Fault: the prompts that wait for credentials are left open. *)
TerminalizedKeepsPrompts(s) ==
  [s EXCEPT !.stage = IF @ = "shown" THEN "exiting" ELSE @,
            !.legacySecrets = FALSE,
            !.asking = FALSE]

(* terminalizeSurface: nothing new can begin, the bytes are wiped and an   *)
(* open prompt is cancelled, which its coroutine meets as a rejection.     *)
Terminalized(s) ==
  LET Cancelled(stage) == IF stage = "prompting" THEN "rejected" ELSE stage
  IN  [s EXCEPT !.stage = IF @ = "shown" THEN "exiting" ELSE @,
                !.copy = Cancelled(@),
                !.legacy = Cancelled(@),
                !.legacySecrets = FALSE,
                !.asking = FALSE]

(* cleanupAuxiliaryOwners, when native code destroys `gone': what it       *)
(* leaves of the surface ...                                               *)
CleanedUp(s, gone) ==
  [Disowned(s, gone) EXCEPT !.confirmed = NoIdentity, !.copySecrets = FALSE]

(* Fault: only the handles count, not the derivations that may still bring *)
(* one.                                                                    *)
IsCleanOfHandles(s) == Owned(s) = {}

(* ... and what it reports.                                                *)
IsClean(s) == Owned(s) = {} /\ s.copy = "idle" /\ s.legacy = "idle"

Removed(s) == [Terminalized(s) EXCEPT !.stage = "removed"]

(* Fault: the app forgets a surface that is not clean. *)
ClearPublicAccountForgets ==
  \E gone \in MayGo(Owned(surface)) :
    /\ surface' = IF accountSurface THEN CleanedUp(Removed(surface), gone) ELSE surface
    /\ liveHandles' = liveHandles \ gone
    /\ accountSurface' = FALSE
    /\ retainedIdentity' = FALSE

(* clearPublicAccount: the app lets go of the surface only when it is      *)
(* clean.                                                                  *)
ClearPublicAccount ==
  IF accountSurface
  THEN \E gone \in MayGo(Owned(surface)) :
         LET s == CleanedUp(Removed(surface), gone)
         IN  /\ surface' = s
             /\ liveHandles' = liveHandles \ gone
             /\ accountSurface' = ~IsClean(s)
             /\ retainedIdentity' = FALSE
  ELSE /\ retainedIdentity' = FALSE
       /\ UNCHANGED <<surface, liveHandles, accountSurface>>

-----------------------------------------------------------------------------
(* The prompts of start().  A prompt the app made with the controller      *)
(* revokes it when it is turned down; those of a legacy sign-in have none. *)
Asking == run.stage \in {"profile", "credential"} /\ run.answer = "none"
WithController == run.stage = "credential" /\ run.operation # "raw"
Revoked(a) == IF a = "destroyed" THEN a ELSE "revoked"

(* activePrompt?.cancel?.(): an open prompt rejects, a settled one only    *)
(* leaves the page.                                                        *)
RunAfterCancel ==
  IF activePrompt /\ Asking THEN [run EXCEPT !.answer = "rejected"] ELSE run

MountAfterCancel(m) == IF activePrompt THEN m \ {"prompt"} ELSE m

ControllerAfterCancel ==
  IF activePrompt /\ Asking /\ WithController THEN Revoked(controller) ELSE controller

Submit ==
  /\ Asking /\ activePrompt
  /\ run' = [run EXCEPT !.answer = "given"]
  /\ mount' = IF run.stage = "profile" THEN mount \ {"prompt"} ELSE mount
  /\ UNCHANGED <<appVars, surface, nativeVars>>
  /\ ClearRows

(* The button is there if the slots allowed it when they were last read,   *)
(* and not after a restore failed.                                         *)
SubmitRemembered ==
  /\ Asking /\ activePrompt /\ WithController
  /\ quarantine.offered
  /\ run' = [run EXCEPT !.answer = "remembered"]
  /\ UNCHANGED <<appVars, surface, mount, nativeVars>>
  /\ ClearRows

TurnDown ==
  /\ Asking /\ activePrompt
  /\ run' = [run EXCEPT !.answer = "rejected"]
  /\ mount' = mount \ {"prompt"}
  /\ controller' = ControllerAfterCancel
  /\ UNCHANGED <<lifecycleClosed, listening, stopPromise, activePrompt, retainedIdentity,
                 accountSurface, surface, nativeVars>>
  /\ ClearRows

-----------------------------------------------------------------------------
(* start().                                                                *)

(* The catch block: everything goes, and a page that is still current says *)
(* that it failed.                                                         *)
StartFails ==
  /\ run' = [run EXCEPT !.stage = "ended", !.answer = "none"]
  /\ activePrompt' = FALSE
  /\ ClearPublicAccount
  /\ listening' = FALSE
  /\ mount' = IF lifecycleClosed THEN MountAfterCancel(mount) ELSE {"failure"}
  /\ controller' = "destroyed"
  /\ UNCHANGED <<lifecycleClosed, stopPromise, derived, copied>>
  /\ ClearRows

StartGoesOn(stage) ==
  /\ ~lifecycleClosed
  /\ run' = [run EXCEPT !.stage = stage, !.answer = "none"]

StartPage ==
  /\ run.stage = "idle" /\ ~lifecycleClosed
  /\ run' = [run EXCEPT !.stage = "preparing"]
  /\ UNCHANGED <<appVars, surface, mount, nativeVars, storageVars>>

StartTooLate ==
  /\ run.stage = "idle" /\ lifecycleClosed
  /\ run' = [run EXCEPT !.stage = "ended"]
  /\ UNCHANGED <<appVars, surface, mount, nativeVars, storageVars>>

(* A prompt made with the controller has a quarantine manager and may      *)
(* offer the restore.                                                      *)
OpenPrompt(withController, offer) ==
  /\ activePrompt' = TRUE
  /\ mount' = mount \cup {"prompt"}
  /\ IF withController THEN RenderRows(storage, offer) /\ UNCHANGED storage
                       ELSE UNCHANGED storageVars
  /\ UNCHANGED <<lifecycleClosed, listening, stopPromise, retainedIdentity, accountSurface,
                 controller, surface, nativeVars>>

(* Fault: the answer of prepare is used on a page that has been closed. *)
PreparedUnchecked ==
  /\ run.stage = "preparing"
  /\ \E operation \in Operations :
       run' = [run EXCEPT !.operation = operation, !.answer = "none",
                          !.stage = IF operation = "raw" THEN "profile" ELSE "credential"]
  /\ OpenPrompt(run'.operation # "raw", TRUE)

Prepared ==
  /\ run.stage = "preparing" /\ ~lifecycleClosed
  /\ \E operation \in Operations :
       run' = [run EXCEPT !.operation = operation,
                          !.stage = IF operation = "raw" THEN "profile" ELSE "credential"]
  /\ OpenPrompt(run'.operation # "raw", TRUE)

ProfileChosen ==
  /\ run.stage = "profile" /\ run.answer = "given"
  /\ StartGoesOn("credential")
  /\ OpenPrompt(FALSE, FALSE)

CredentialGiven ==
  /\ run.stage = "credential" /\ run.answer = "given"
  /\ StartGoesOn("unlocking")
  /\ UNCHANGED <<appVars, surface, mount, nativeVars, storageVars>>

RememberedChosen ==
  /\ run.stage = "credential" /\ run.answer = "remembered"
  /\ StartGoesOn("restoring")
  /\ UNCHANGED <<appVars, surface, mount, nativeVars, storageVars>>

(* unlockRemembered failed on a current page: ask again, without it.       *)
RestoreFails ==
  /\ run.stage = "restoring" /\ ~lifecycleClosed
  /\ run' = [run EXCEPT !.stage = "credential", !.answer = "none", !.restoreFailed = TRUE]
  /\ OpenPrompt(TRUE, FALSE)

Unlocked ==
  /\ run.stage \in {"unlocking", "restoring"}
  /\ StartGoesOn("executing")
  /\ retainedIdentity' = TRUE
  /\ UNCHANGED <<lifecycleClosed, listening, stopPromise, activePrompt, accountSurface,
                 controller, surface, mount, nativeVars, storageVars>>

(* executePrepared answered: the account page, or the completion.          *)
Executed ==
  /\ run.stage = "executing"
  /\ StartGoesOn("ended")
  /\ activePrompt' = FALSE
  /\ IF run.operation = "account"
     THEN /\ accountSurface' = TRUE /\ retainedIdentity' = TRUE
          /\ surface' = [surface EXCEPT !.stage = "shown", !.mayForget = storage.active = "valid"]
          /\ mount' = {"account"}
          /\ RenderRows(storage, FALSE)
     ELSE /\ retainedIdentity' = FALSE
          /\ mount' = {"complete"}
          /\ UNCHANGED <<accountSurface, surface, quarantine>>
  /\ UNCHANGED <<lifecycleClosed, listening, stopPromise, controller, nativeVars, storage>>

(* What start() awaits rejects, or the page has been closed meanwhile.     *)
StartRejected ==
  /\ \/ run.stage \in {"preparing", "unlocking", "executing"}
     \/ run.stage \in {"profile", "credential"} /\ run.answer = "rejected"
     \/ run.stage \in {"profile", "credential"} /\ run.answer # "none" /\ lifecycleClosed
     \/ run.stage = "restoring" /\ lifecycleClosed
  /\ StartFails

-----------------------------------------------------------------------------
(* Copying the approval configuration: ApprovalConfigurationController     *)
(* asks for the credentials twice and compares what they derive.           *)
SetCopy(stage) == surface' = [surface EXCEPT !.copy = stage]

(* The end of confirm() and of onCopy when anything failed: `gone' of what *)
(* it owns is destroyed.                                                   *)
CopyFails(s) ==
  \E gone \in MayGo(s.copyOwned) :
    /\ surface' = [Disowned(s, gone) EXCEPT !.copy = "idle", !.first = NoIdentity,
                                            !.confirmed = NoIdentity, !.copySecrets = FALSE]
    /\ liveHandles' = (liveHandles \cup s.copyOwned) \ gone

CopyPrompt(s, first) ==
  /\ surface' = [s EXCEPT !.copy = "prompting", !.first = first]
  /\ mount' = mount \cup {"copyPrompt"}

(* A confirmed configuration is copied again without asking.               *)
CopyAgain ==
  /\ IsShown(surface) /\ surface.copy = "idle" /\ surface.legacy = "idle"
  /\ surface.confirmed # NoIdentity
  /\ surface' = [surface EXCEPT !.copy = "writing", !.first = surface.confirmed]
  /\ UNCHANGED <<appVars, run, mount, nativeVars, storageVars>>

CopyApproval ==
  /\ IsShown(surface) /\ surface.copy = "idle" /\ surface.legacy = "idle"
  /\ surface.confirmed = NoIdentity
  /\ \E gone \in MayGo(surface.copyOwned) :
       /\ liveHandles' = liveHandles \ gone
       /\ IF surface.copyOwned \subseteq gone
          THEN CopyPrompt(Disowned(surface, gone), NoIdentity)
          ELSE surface' = Disowned(surface, gone) /\ UNCHANGED mount
  /\ UNCHANGED <<appVars, run, derived, copied, storageVars>>

CopySubmit ==
  /\ surface.copy = "prompting"
  /\ SetCopy("answered")
  /\ UNCHANGED <<appVars, run, mount, nativeVars, storageVars>>

CopyTurnDown ==
  /\ surface.copy = "prompting"
  /\ SetCopy("rejected")
  /\ mount' = mount \ {"copyPrompt"}
  /\ UNCHANGED <<appVars, run, nativeVars, storageVars>>

(* deriveRound reads the controls, clears them and calls native code.      *)
CopyDerives ==
  /\ surface.copy = "answered" /\ IsShown(surface)
  /\ surface' = [surface EXCEPT !.copy = "deriving", !.copySecrets = TRUE]
  /\ mount' = mount \ {"copyPrompt"}
  /\ UNCHANGED <<appVars, run, nativeVars, storageVars>>

(* The prompt was cancelled, what was typed is unusable, or the surface    *)
(* closed before it was read.                                              *)
CopyRejected ==
  /\ surface.copy \in {"answered", "rejected"}
  /\ CopyFails(surface)
  /\ mount' = mount \ {"copyPrompt"}
  /\ UNCHANGED <<appVars, run, derived, copied, storageVars>>

DerivationFails ==
  /\ surface.copy = "deriving"
  /\ CopyFails(surface)
  /\ UNCHANGED <<appVars, run, mount, derived, copied, storageVars>>

(* Fault: the two rounds are compared with each other only. *)
AgreesWithFirstRound(first, identity) == first = identity

(* Both rounds derived the identity that is signed in.                     *)
Agrees(first, identity) == first = identity /\ identity = SignedIn

(* A derivation answers: its handle is owned before the surface is checked *)
(* and destroyed before anything else happens.                             *)
CopyDerived ==
  /\ surface.copy = "deriving" /\ derived < MaxPageHandles
  /\ derived' = derived + 1
  /\ LET h == derived + 1
         s == [surface EXCEPT !.copySecrets = FALSE]
     IN  \/ CopyFails([s EXCEPT !.copyOwned = @ \cup {h}]) /\ UNCHANGED mount
         \/ /\ IsShown(s) /\ s.first = NoIdentity
            /\ \E identity \in Identities : CopyPrompt(s, identity)
            /\ UNCHANGED liveHandles
         \/ /\ IsShown(s) /\ s.first # NoIdentity
            /\ \E identity \in Identities :
                 /\ Agrees(s.first, identity)
                 /\ surface' = [s EXCEPT !.copy = "writing", !.confirmed = identity]
            /\ UNCHANGED <<mount, liveHandles>>
  /\ UNCHANGED <<appVars, run, copied, storageVars>>

(* writeText answered.  Where it failed, a surface that is still current   *)
(* shows the configuration instead.                                        *)
ClipboardAnswers ==
  /\ surface.copy = "writing"
  /\ \/ copied' = copied \cup {surface.first}
     \/ ~IsShown(surface) /\ UNCHANGED copied
  /\ surface' = [surface EXCEPT !.copy = "idle", !.first = NoIdentity]
  /\ UNCHANGED <<appVars, run, mount, liveHandles, derived, storageVars>>

-----------------------------------------------------------------------------
(* Comparing with a legacy account.                                        *)
LegacyLaunch ==
  /\ IsShown(surface) /\ surface.copy = "idle" /\ surface.legacy = "idle"
  /\ surface' = [surface EXCEPT !.legacy = "prompting"]
  /\ mount' = mount \cup {"legacyPrompt"}
  /\ UNCHANGED <<appVars, run, nativeVars, storageVars>>

LegacySubmit ==
  /\ surface.legacy = "prompting"
  /\ surface' = [surface EXCEPT !.legacy = "answered"]
  /\ UNCHANGED <<appVars, run, mount, nativeVars, storageVars>>

LegacyTurnDown ==
  /\ surface.legacy = "prompting"
  /\ surface' = [surface EXCEPT !.legacy = "rejected"]
  /\ mount' = mount \ {"legacyPrompt"}
  /\ UNCHANGED <<appVars, run, nativeVars, storageVars>>

LegacyDerives ==
  /\ surface.legacy = "answered" /\ IsShown(surface)
  /\ surface' = [surface EXCEPT !.legacy = "deriving", !.legacySecrets = TRUE]
  /\ mount' = mount \ {"legacyPrompt"}
  /\ UNCHANGED <<appVars, run, nativeVars, storageVars>>

(* The finally block of onLegacyLaunch: every legacy handle is tried again *)
(* and the bytes are wiped.                                                *)
LegacyEnds(s) ==
  \E gone \in MayGo(s.legacyOwned) :
    /\ surface' = [Disowned(s, gone) EXCEPT !.legacy = "idle", !.legacySecrets = FALSE]
    /\ liveHandles' = (liveHandles \cup s.legacyOwned) \ gone

(* Unlike a copy, a comparison that cannot use what was typed leaves the   *)
(* prompt it came from on the page.                                        *)
LegacyRejected ==
  /\ surface.legacy \in {"answered", "rejected", "deriving"}
  /\ LegacyEnds(surface)
  /\ UNCHANGED <<appVars, run, mount, derived, copied, storageVars>>

(* The handle is owned before the surface is checked; whatever the         *)
(* identity turns out to be, it is destroyed before the comparison shows.  *)
LegacyDerived ==
  /\ surface.legacy = "deriving" /\ derived < MaxPageHandles
  /\ derived' = derived + 1
  /\ LegacyEnds([surface EXCEPT !.legacyOwned = @ \cup {derived + 1}])
  /\ UNCHANGED <<appVars, run, mount, copied, storageVars>>

-----------------------------------------------------------------------------
(* Forgetting the stored wallet: launch, then the exact key; each of them  *)
(* runs to its end in one step of this page.  The slot is looked at and    *)
(* then emptied whatever it holds by then; a failed removal, as of a wallet*)
(* that is gone by then, may be tried again.                               *)
ForgetLaunch ==
  /\ IsShown(surface) /\ surface.copy = "idle" /\ surface.legacy = "idle"
  /\ surface.mayForget /\ ~surface.forgotten /\ ~surface.asking
  /\ surface' = [surface EXCEPT !.asking = TRUE]
  /\ UNCHANGED <<appVars, run, mount, nativeVars, storageVars>>

ForgetCancel ==
  /\ IsShown(surface) /\ surface.asking
  /\ surface' = [surface EXCEPT !.asking = FALSE]
  /\ UNCHANGED <<appVars, run, mount, nativeVars, storageVars>>

ForgetConfirm ==
  /\ IsShown(surface) /\ surface.copy = "idle" /\ surface.legacy = "idle"
  /\ surface.asking /\ storage.active = "valid"
  /\ surface' = [surface EXCEPT !.asking = FALSE, !.forgotten = TRUE]
  /\ \E between \in ByOtherTabs : storage' = [between EXCEPT !.active = "empty"]
  /\ UNCHANGED <<appVars, run, mount, nativeVars, quarantine>>

-----------------------------------------------------------------------------
(* Leaving the account page, by one of its buttons or by logout().         *)
FinishAccount ==
  /\ surface.stage \in {"shown", "exiting"} /\ surface.finishing = "no"
  /\ \E gone \in MayGo(Owned(surface)) :
       LET s == CleanedUp(Terminalized(surface), gone)
       IN  /\ liveHandles' = liveHandles \ gone
           /\ IF IsClean(s)
              THEN /\ surface' = [s EXCEPT !.stage = "removed", !.finishing = "acting"]
                   /\ accountSurface' = FALSE /\ retainedIdentity' = FALSE
                   /\ mount' = {"complete"}
              ELSE /\ surface' = s
                   /\ mount' = (mount \ (PendingPrompts(surface) \cup {"account"})) \cup {"exit"}
                   /\ UNCHANGED <<accountSurface, retainedIdentity>>
  /\ UNCHANGED <<lifecycleClosed, listening, stopPromise, activePrompt, controller, run,
                 derived, copied>>
  /\ ClearRows

(* controller.returnToSite() or controller.logout() answered.              *)
ExitAnswers ==
  /\ surface.finishing = "acting"
  /\ surface' = [surface EXCEPT !.finishing = "ended"]
  /\ \/ UNCHANGED mount
     \/ ~lifecycleClosed /\ mount' = {"failure"}
  /\ UNCHANGED <<appVars, run, nativeVars, storageVars>>

-----------------------------------------------------------------------------
(* Closing the page.                                                       *)
Invalidated ==
  /\ lifecycleClosed' = TRUE
  /\ activePrompt' = FALSE
  /\ run' = RunAfterCancel

(* pagehide, freeze, beforeunload and a restored page.  The controller     *)
(* listens to the same events and revokes itself.                          *)
ClearOnLifecycle ==
  /\ listening
  /\ Invalidated
  /\ ClearPublicAccount
  /\ mount' = {}
  /\ controller' = Revoked(controller)
  /\ UNCHANGED <<listening, stopPromise, derived, copied>>
  /\ ClearRows

(* logout() without an account surface; with one it is FinishAccount.      *)
LogoutPage ==
  /\ ~accountSurface
  /\ Invalidated
  /\ retainedIdentity' = FALSE
  /\ mount' = MountAfterCancel(mount)
  /\ controller' = Revoked(controller)
  /\ UNCHANGED <<listening, stopPromise, accountSurface, surface, nativeVars>>
  /\ ClearRows

Stop ==
  /\ Invalidated
  /\ ClearPublicAccount
  /\ mount' = {}
  /\ controller' = "destroyed"
  /\ stopPromise' = TRUE
  /\ listening' = (stopPromise /\ listening)
  /\ UNCHANGED <<derived, copied>>
  /\ ClearRows

-----------------------------------------------------------------------------
StartNext ==
  \/ Prepared \/ ProfileChosen \/ CredentialGiven
  \/ RememberedChosen \/ RestoreFails \/ Unlocked \/ Executed \/ StartRejected

CopyNext ==
  \/ CopyDerives \/ CopyRejected \/ DerivationFails \/ CopyDerived \/ ClipboardAnswers

LegacyNext ==
  LegacyDerives \/ LegacyRejected \/ LegacyDerived

UserNext ==
  \/ StartPage \/ StartTooLate
  \/ Submit \/ SubmitRemembered \/ TurnDown
  \/ CopyAgain \/ CopyApproval \/ CopySubmit \/ CopyTurnDown
  \/ LegacyLaunch \/ LegacySubmit \/ LegacyTurnDown
  \/ ForgetLaunch \/ ForgetCancel \/ ForgetConfirm
  \/ FinishAccount

StorageNext ==
  \/ OtherTab
  \/ \E key \in {"active", "pending"} :
       QuarantineDelete(key) \/ QuarantineCancel(key) \/ QuarantineConfirm(key)

CloseNext == ClearOnLifecycle \/ LogoutPage \/ Stop

OriginPageNext ==
  \/ StartNext \/ CopyNext \/ LegacyNext \/ ExitAnswers
  \/ UserNext \/ StorageNext \/ CloseNext

(* Promises of the controller, of native code and of the clipboard settle. *)
OriginPageFairness ==
  WF_originPageVars(StartNext) /\ WF_originPageVars(CopyNext) /\ WF_originPageVars(LegacyNext)

OriginPageSpec == OriginPageInit /\ [][OriginPageNext]_originPageVars /\ OriginPageFairness

-----------------------------------------------------------------------------
OriginPageTypeOK ==
  /\ lifecycleClosed \in BOOLEAN /\ listening \in BOOLEAN /\ stopPromise \in BOOLEAN
  /\ run \in [stage : RunStages, operation : Operations, answer : Answers,
              restoreFailed : BOOLEAN]
  /\ activePrompt \in BOOLEAN /\ retainedIdentity \in BOOLEAN /\ accountSurface \in BOOLEAN
  /\ controller \in {"open", "revoked", "destroyed"}
  /\ surface.stage \in {"none", "shown", "exiting", "removed"}
  /\ surface.finishing \in {"no", "acting", "ended"}
  /\ surface.copy \in WorkStages /\ surface.legacy \in WorkStages
  /\ Owned(surface) \subseteq 1..derived
  /\ liveHandles \subseteq 1..derived
  /\ copied \subseteq Identities
  /\ storage \in StorageSlots
  /\ quarantine.asking \subseteq quarantine.rows

(* No native handle the account page derived is out of reach: each one     *)
(* that exists is in a set the surface destroys again, and the app keeps   *)
(* the surface for as long as it owns one or a derivation may still bring  *)
(* one, however the page was closed in between (clearPublicAccount,        *)
(* deriveRound and onLegacyLaunch of app.mjs and account.mjs).             *)
HandlesStayReachable ==
  /\ liveHandles = Owned(surface)
  /\ ~IsClean(surface) => accountSurface

(* The page returns to the site, or logs out, only when no secret byte,    *)
(* handle, prompt or derivation of the account page is left, and none      *)
(* appears while the controller acts (finishAccount).                      *)
LeavesOnlyWhenClean ==
  surface.finishing # "no" =>
    /\ liveHandles = {}
    /\ surface.copy = "idle" /\ surface.legacy = "idle"
    /\ ~surface.copySecrets /\ ~surface.legacySecrets

(* Once the page is closed it shows no prompt, no account and no row to    *)
(* delete by, keeps no identity, holds no secret bytes and opens no prompt *)
(* again, whatever was suspended when it closed (clearOnLifecycle, stop,   *)
(* terminalizeSurface).                                                    *)
ClosedHoldsNothing ==
  lifecycleClosed =>
    /\ ~retainedIdentity /\ ~activePrompt
    /\ mount \subseteq {"complete", "failure"}
    /\ ~surface.copySecrets /\ ~surface.legacySecrets
    /\ surface.stage \in {"none", "removed"} /\ quarantine = NoRows

(* A configuration reaches the clipboard or the page only if both rounds   *)
(* of credentials gave the identity that is signed in (confirm).           *)
CopiedIsSignedIn == copied \subseteq {SignedIn}

(* Together, in states of the right type: what the account page holds is   *)
(* given back, whether the user leaves it or the browser closes it, and    *)
(* what it has given out is of the account that is signed in.              *)
AccountPageGivesBack ==
  /\ OriginPageTypeOK
  /\ HandlesStayReachable /\ LeavesOnlyWhenClean /\ ClosedHoldsNothing
  /\ CopiedIsSignedIn

(* A closed page comes to rest: a start() under way settles, with the      *)
(* controller revoked or destroyed, and neither a copy nor a comparison    *)
(* waits for ever on a prompt nobody can answer any more.                  *)
ClosedComesToRest ==
  lifecycleClosed ~> /\ run.stage \in {"idle", "ended"} /\ controller # "open"
                     /\ surface.copy = "idle" /\ surface.legacy = "idle"
=============================================================================
