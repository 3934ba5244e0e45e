------------------------------ MODULE PageProofs ------------------------------
(***************************************************************************)
(* Theorems about the two pages.                                           *)
(*                                                                         *)
(* OriginPage, for any identities and any number of native handles: what   *)
(* the account page holds is given back however the page is left or        *)
(* closed, and its rows never delete a valid wallet.                       *)
(*                                                                         *)
(* LegacyPage with the handlers of app.js, for any number of calls, of     *)
(* logins and of handlers that run beside one another: nothing of a login  *)
(* that is over is written, and no login leaves a trace in the next (the   *)
(* second half of this module).                                            *)
(*                                                                         *)
(* Neither property of OriginPage is inductive.  What has to be added is   *)
(* who is responsible at every moment: the app keeps the surface while it  *)
(* shows or owns something, there is no surface before start() has ended,  *)
(* and a prompt on the page is one the app holds.                          *)
(***************************************************************************)
EXTENDS OriginPage, MCLegacyPage, SequenceTheorems, TLAPS

Surfaces ==
  [stage : {"none", "shown", "exiting", "removed"}, finishing : {"no", "acting", "ended"},
   copy : WorkStages, first : Identities \cup {NoIdentity},
   confirmed : {NoIdentity, SignedIn}, copyOwned : SUBSET Nat, copySecrets : BOOLEAN,
   legacy : WorkStages, legacyOwned : SUBSET Nat, legacySecrets : BOOLEAN,
   mayForget : BOOLEAN, asking : BOOLEAN, forgotten : BOOLEAN]

(* A surface on its own: bytes are held only while a derivation runs, only *)
(* the identity that is signed in is written, and the page is left by a    *)
(* surface that is removed and clean.                                      *)
Sound(s) ==
  /\ s \in Surfaces
  /\ s.copySecrets => s.copy = "deriving"
  /\ s.legacySecrets => s.legacy = "deriving"
  /\ s.copy = "writing" => s.first = SignedIn
  /\ s.finishing # "no" => s.stage = "removed" /\ IsClean(s)

HandleInv ==
  /\ derived \in Nat
  /\ liveHandles = Owned(surface)
  /\ Owned(surface) \subseteq 1..derived

(* The app keeps a surface that shows or owns anything.                    *)
KeptInv == surface.stage \in {"shown", "exiting"} \/ ~IsClean(surface) => accountSurface

(* Before start() has ended there is no surface.                           *)
StartInv == run.stage # "ended" => surface = NoSurface /\ ~accountSurface

(* What stands on the page beside an account surface is no prompt of the   *)
(* app that it has let go of.                                              *)
MountInv ==
  /\ ~accountSurface => mount \subseteq {"prompt", "complete", "failure"}
  /\ "prompt" \in mount => activePrompt

AppInv ==
  /\ lifecycleClosed \in BOOLEAN /\ listening \in BOOLEAN /\ stopPromise \in BOOLEAN
  /\ run \in [stage : RunStages, operation : Operations, answer : Answers,
              restoreFailed : BOOLEAN]
  /\ activePrompt \in BOOLEAN /\ retainedIdentity \in BOOLEAN /\ accountSurface \in BOOLEAN
  /\ controller \in {"open", "revoked", "destroyed"}

Rows == [rows : SUBSET {"active", "pending"}, asking : SUBSET {"active", "pending"},
         offered : BOOLEAN]

StorageInv ==
  /\ storage \in StorageSlots
  /\ quarantine \in Rows /\ quarantine.asking \subseteq quarantine.rows

PageInv ==
  /\ AppInv /\ Sound(surface) /\ HandleInv
  /\ KeptInv /\ StartInv /\ MountInv
  /\ ClosedHoldsNothing /\ CopiedIsSignedIn /\ StorageInv

-----------------------------------------------------------------------------
(* What the operators of the surface do to its fields.                     *)
LEMMA DisownedFields ==
  ASSUME NEW s \in Surfaces, NEW gone
  PROVE  /\ Disowned(s, gone) \in Surfaces
         /\ Disowned(s, gone).copyOwned = s.copyOwned \ gone
         /\ Disowned(s, gone).legacyOwned = s.legacyOwned \ gone
         /\ \A f \in DOMAIN s \ {"copyOwned", "legacyOwned"} : Disowned(s, gone)[f] = s[f]
BY DEF Disowned, Surfaces

LEMMA TerminalizedFields ==
  ASSUME NEW s \in Surfaces
  PROVE  /\ Terminalized(s) \in Surfaces
         /\ Terminalized(s).stage = IF s.stage = "shown" THEN "exiting" ELSE s.stage
         /\ Terminalized(s).copy = IF s.copy = "prompting" THEN "rejected" ELSE s.copy
         /\ Terminalized(s).legacy = IF s.legacy = "prompting" THEN "rejected" ELSE s.legacy
         /\ Terminalized(s).legacySecrets = FALSE
         /\ \A f \in {"finishing", "first", "confirmed", "copyOwned", "copySecrets",
                      "legacyOwned"} : Terminalized(s)[f] = s[f]
<1> DEFINE Cancelled(stage) == IF stage = "prompting" THEN "rejected" ELSE stage
           c == [s EXCEPT !.stage = IF @ = "shown" THEN "exiting" ELSE @,
                          !.copy = Cancelled(@)]
           l == [c EXCEPT !.legacy = Cancelled(@)]
           b == [l EXCEPT !.legacySecrets = FALSE, !.asking = FALSE]
<1>1. c \in Surfaces
  <2>1. /\ s.stage = "shown" => [s EXCEPT !.stage = "exiting"] \in Surfaces
        /\ \A x \in Surfaces : [x EXCEPT !.copy = Cancelled(@)] \in Surfaces
    BY DEF Surfaces, WorkStages
  <2>2. c = [(IF s.stage = "shown" THEN [s EXCEPT !.stage = "exiting"] ELSE s)
               EXCEPT !.copy = Cancelled(@)]
    BY DEF Surfaces
  <2> HIDE DEF c, Cancelled
  <2> QED
    BY <2>1, <2>2
<1>2. l \in Surfaces
  <2> HIDE DEF c
  <2> QED
    BY <1>1 DEF Surfaces, WorkStages
<1>3. b \in Surfaces
  <2> HIDE DEF l
  <2> QED
    BY <1>2 DEF Surfaces
<1>4. Terminalized(s) = b
  BY DEF Terminalized, Surfaces
<1> QED
  BY <1>3, <1>4 DEF Surfaces

Cleans(s, gone, t) ==
  /\ t \in Surfaces
  /\ t.copyOwned = s.copyOwned \ gone /\ t.legacyOwned = s.legacyOwned \ gone
  /\ t.copySecrets = FALSE /\ t.legacySecrets = s.legacySecrets
  /\ t.stage = s.stage /\ t.finishing = s.finishing
  /\ t.copy = s.copy /\ t.legacy = s.legacy /\ t.first = s.first

LEMMA CleanedUpFields ==
  ASSUME NEW s \in Surfaces, NEW gone
  PROVE  Cleans(s, gone, CleanedUp(s, gone))
<1> DEFINE d == Disowned(s, gone)
<1>1. /\ d \in Surfaces
      /\ d.copyOwned = s.copyOwned \ gone /\ d.legacyOwned = s.legacyOwned \ gone
      /\ \A f \in {"stage", "finishing", "copy", "first", "legacy", "legacySecrets"} :
           d[f] = s[f]
  BY DisownedFields DEF Surfaces
<1>2. CleanedUp(s, gone) = [d EXCEPT !.confirmed = NoIdentity, !.copySecrets = FALSE]
  BY DEF CleanedUp
<1> HIDE DEF d
<1>3. CleanedUp(s, gone) \in Surfaces
  BY <1>1, <1>2 DEF Surfaces
<1> QED
  BY <1>1, <1>2, <1>3 DEF Cleans, Surfaces

(* clearPublicAccount on the surface the app holds: it is removed, holds   *)
(* no bytes, and owns what native code did not destroy.                    *)
LEMMA ClearedSurface ==
  ASSUME NEW s, Sound(s), NEW gone \in MayGo(Owned(s)),
         NEW t, t = CleanedUp(Removed(s), gone)
  PROVE  /\ Sound(t)
         /\ t.stage = "removed" /\ ~t.copySecrets /\ ~t.legacySecrets
         /\ Owned(t) = Owned(s) \ gone
<1> DEFINE r == Removed(s)
<1>1. /\ r \in Surfaces /\ r.stage = "removed" /\ ~r.legacySecrets
      /\ r.copyOwned = s.copyOwned /\ r.legacyOwned = s.legacyOwned
      /\ r.finishing = s.finishing /\ r.first = s.first
      /\ r.copy = IF s.copy = "prompting" THEN "rejected" ELSE s.copy
      /\ r.legacy = IF s.legacy = "prompting" THEN "rejected" ELSE s.legacy
  <2> DEFINE u == Terminalized(s)
  <2>1. s \in Surfaces
    BY DEF Sound
  <2>2. /\ u \in Surfaces /\ ~u.legacySecrets
        /\ u.copyOwned = s.copyOwned /\ u.legacyOwned = s.legacyOwned
        /\ u.finishing = s.finishing /\ u.first = s.first
        /\ u.copy = IF s.copy = "prompting" THEN "rejected" ELSE s.copy
        /\ u.legacy = IF s.legacy = "prompting" THEN "rejected" ELSE s.legacy
    BY <2>1, TerminalizedFields
  <2>3. r = [u EXCEPT !.stage = "removed"]
    BY DEF Removed
  <2> HIDE DEF u, r
  <2> QED
    BY <2>2, <2>3 DEF Surfaces
<1>2. t = CleanedUp(r, gone)
  OBVIOUS
<1> HIDE DEF r
<1>3. Cleans(r, gone, t)
  BY <1>1, <1>2, CleanedUpFields
<1> QED
  BY <1>1, <1>3 DEF Cleans, Sound, Owned, IsClean, MayGo

-----------------------------------------------------------------------------
(* A step of a copy, a comparison or a deletion: it begins on a surface    *)
(* that shows or owns something, and only one that is shown takes in new   *)
(* bytes or opens a prompt.                                                *)
LEMMA WorkStep ==
  ASSUME PageInv,
         IsShown(surface) \/ ~IsClean(surface),
         UNCHANGED <<appVars, run, quarantine>>,
         Sound(surface'), surface'.stage = surface.stage, HandleInv',
         mount' \subseteq mount \cup {"copyPrompt", "legacyPrompt"},
         IsShown(surface) \/ (/\ surface'.copySecrets => surface.copySecrets
                              /\ surface'.legacySecrets => surface.legacySecrets
                              /\ mount' \subseteq mount),
         copied' \subseteq {SignedIn}, StorageInv'
  PROVE  PageInv'
<1>1. accountSurface = TRUE /\ run.stage = "ended"
  BY DEF PageInv, AppInv, KeptInv, StartInv, IsShown
<1>2. AppInv' /\ accountSurface' = TRUE /\ run'.stage = "ended"
  BY <1>1 DEF PageInv, AppInv, appVars
<1>3. KeptInv' /\ StartInv'
  BY <1>2 DEF KeptInv, StartInv
<1>4. MountInv'
  BY <1>2 DEF PageInv, MountInv, appVars
<1>5. ClosedHoldsNothing'
  BY DEF PageInv, ClosedHoldsNothing, appVars, IsShown
<1> QED
  BY <1>2, <1>3, <1>4, <1>5 DEF PageInv, CopiedIsSignedIn

(* A step that leaves the surface, its handles and what the app keeps of   *)
(* them alone.                                                             *)
LEMMA StepBeside ==
  ASSUME PageInv,
         UNCHANGED <<surface, nativeVars, accountSurface>>,
         AppInv', MountInv', ClosedHoldsNothing', StorageInv',
         run'.stage # "ended" => run.stage # "ended"
  PROVE  PageInv'
BY DEF PageInv, Sound, HandleInv, KeptInv, StartInv, CopiedIsSignedIn, nativeVars, IsClean, Owned

LEMMA Slots ==
  ASSUME StorageInv
  PROVE  /\ Quarantined(storage) \subseteq {"active", "pending"}
         /\ CanRestore(storage) \in BOOLEAN
         /\ \A offer \in BOOLEAN : RenderRows(storage, offer) /\ UNCHANGED storage
                                     => StorageInv'
         /\ ClearRows => StorageInv' /\ quarantine' = NoRows
<1>1. Quarantined(storage) \subseteq {"active", "pending"} /\ CanRestore(storage) \in BOOLEAN
  BY DEF Quarantined, CanRestore
<1>2. ASSUME NEW offer \in BOOLEAN, RenderRows(storage, offer), UNCHANGED storage
      PROVE  StorageInv'
  BY <1>1, <1>2 DEF StorageInv, RenderRows, Rows
<1>3. ASSUME ClearRows
      PROVE  StorageInv' /\ quarantine' = NoRows
  BY <1>3 DEF StorageInv, ClearRows, NoRows, Rows
<1> QED
  BY <1>1, <1>2, <1>3

(* clearPublicAccount and what the page makes of it when it is closed or   *)
(* fails: nothing of a surface is left that the app does not keep.         *)
LEMMA AccountCleared ==
  ASSUME PageInv, ClearPublicAccount, derived' = derived, copied' = copied
  PROVE  /\ Sound(surface') /\ HandleInv' /\ KeptInv' /\ CopiedIsSignedIn'
         /\ retainedIdentity' = FALSE /\ accountSurface' \in BOOLEAN
         /\ ~accountSurface => surface' = surface /\ ~accountSurface'
         /\ surface'.stage \in {"none", "removed"}
         /\ ~surface'.copySecrets /\ ~surface'.legacySecrets
<1>1. CASE accountSurface
  <2>1. PICK gone \in MayGo(Owned(surface)) :
          LET s == CleanedUp(Removed(surface), gone)
          IN  /\ surface' = s
              /\ liveHandles' = liveHandles \ gone
              /\ accountSurface' = ~IsClean(s)
              /\ retainedIdentity' = FALSE
    BY <1>1 DEF ClearPublicAccount
  <2>2. /\ Sound(surface')
        /\ surface'.stage = "removed" /\ ~surface'.copySecrets /\ ~surface'.legacySecrets
        /\ Owned(surface') = Owned(surface) \ gone
    BY <2>1, ClearedSurface DEF PageInv
  <2>3. HandleInv'
    BY <2>1, <2>2 DEF PageInv, HandleInv
  <2>4. KeptInv' /\ accountSurface' \in BOOLEAN
    BY <2>1, <2>2 DEF KeptInv, IsClean
  <2> QED
    BY <1>1, <2>1, <2>2, <2>3, <2>4 DEF PageInv, CopiedIsSignedIn
<1>2. CASE ~accountSurface
  <2>1. surface' = surface /\ liveHandles' = liveHandles /\ accountSurface' = accountSurface
        /\ retainedIdentity' = FALSE
    BY <1>2 DEF ClearPublicAccount
  <2>2. surface.stage \in {"none", "removed"} /\ IsClean(surface)
    BY <1>2 DEF PageInv, KeptInv, Sound, Surfaces
  <2> QED
    BY <1>2, <2>1, <2>2
       DEF PageInv, Sound, Surfaces, HandleInv, KeptInv, CopiedIsSignedIn, AppInv, IsClean, Owned
<1> QED
  BY <1>1, <1>2

-----------------------------------------------------------------------------
LEMMA StorageStands ==
  ASSUME StorageInv, UNCHANGED storageVars
  PROVE  StorageInv' /\ quarantine' = quarantine
BY DEF StorageInv, storageVars

(* start() and its prompts.                                                *)
LEMMA StartSteps ==
  ASSUME PageInv
  PROVE  /\ StartPage => PageInv'
         /\ StartTooLate => PageInv'
         /\ Submit => PageInv'
         /\ SubmitRemembered => PageInv'
         /\ TurnDown => PageInv'
         /\ Prepared => PageInv'
         /\ ProfileChosen => PageInv'
         /\ CredentialGiven => PageInv'
         /\ RememberedChosen => PageInv'
         /\ RestoreFails => PageInv'
         /\ Unlocked => PageInv'
<1> USE DEF appVars, nativeVars
<1>1. UNCHANGED storageVars => StorageInv' /\ quarantine' = quarantine
  BY StorageStands DEF PageInv
<1>2. ASSUME NEW stage \in RunStages \ {"ended"}, StartGoesOn(stage)
      PROVE  /\ run' \in [stage : RunStages, operation : Operations, answer : Answers,
                          restoreFailed : BOOLEAN]
             /\ run'.stage # "ended" /\ ~lifecycleClosed
  BY <1>2 DEF PageInv, AppInv, StartGoesOn, RunStages, Answers
<1>3. StartPage => PageInv'
  BY <1>1, StepBeside DEF PageInv, AppInv, MountInv, ClosedHoldsNothing, StartPage, RunStages
<1>4. StartTooLate => PageInv'
  BY <1>1, StepBeside DEF PageInv, AppInv, MountInv, ClosedHoldsNothing, StartTooLate, RunStages
<1>5. Submit => PageInv'
  BY StepBeside, Slots DEF PageInv, AppInv, MountInv, ClosedHoldsNothing, Submit, Answers
<1>6. SubmitRemembered => PageInv'
  BY StepBeside, Slots DEF PageInv, AppInv, MountInv, ClosedHoldsNothing, SubmitRemembered, Answers
<1>7. TurnDown => PageInv'
  BY StepBeside, Slots
     DEF PageInv, AppInv, MountInv, ClosedHoldsNothing, TurnDown, Answers, ControllerAfterCancel,
         Revoked
<1>8. ASSUME NEW withController, NEW offer \in BOOLEAN, OpenPrompt(withController, offer)
       PROVE  /\ StorageInv'
              /\ activePrompt' = TRUE /\ mount' = mount \cup {"prompt"}
              /\ UNCHANGED <<lifecycleClosed, listening, stopPromise, retainedIdentity,
                             accountSurface, controller, surface, nativeVars>>
  BY <1>8, <1>1, Slots DEF OpenPrompt, PageInv
<1>9. ASSUME NEW withController, NEW offer \in BOOLEAN, OpenPrompt(withController, offer),
              ~lifecycleClosed, run.stage # "ended", run'.stage # "ended",
              run' \in [stage : RunStages, operation : Operations, answer : Answers,
                        restoreFailed : BOOLEAN]
       PROVE  PageInv'
  <2>1. AppInv' /\ ClosedHoldsNothing'
    BY <1>9, <1>8 DEF PageInv, AppInv, ClosedHoldsNothing
  <2>2. MountInv'
    BY <1>9, <1>8 DEF PageInv, MountInv
  <2> QED
    BY ONLY PageInv, <1>8, <1>9, <2>1, <2>2, StepBeside
<1>10. ASSUME NEW stage \in RunStages \ {"ended"}, StartGoesOn(stage), run.stage # "ended",
              UNCHANGED <<lifecycleClosed, listening, stopPromise, activePrompt,
                          accountSurface, controller, surface, mount, nativeVars, storageVars>>,
              retainedIdentity' \in BOOLEAN
       PROVE  PageInv'
  <2>1. AppInv' /\ ClosedHoldsNothing'
    BY <1>10, <1>2 DEF PageInv, AppInv, ClosedHoldsNothing
  <2>2. MountInv'
    BY <1>10 DEF PageInv, MountInv
  <2> QED
    BY <1>10, <1>2, <1>1, <2>1, <2>2, StepBeside
<1>11. Prepared => PageInv'
  <2> SUFFICES ASSUME Prepared PROVE PageInv'
    OBVIOUS
  <2>1. PICK operation \in Operations :
          run' = [run EXCEPT !.operation = operation,
                             !.stage = IF operation = "raw" THEN "profile" ELSE "credential"]
    BY DEF Prepared
  <2>2. /\ run' \in [stage : RunStages, operation : Operations, answer : Answers,
                      restoreFailed : BOOLEAN]
        /\ run'.stage # "ended"
    BY <2>1 DEF PageInv, AppInv, RunStages
  <2> QED
    BY <1>9, <2>2 DEF Prepared
<1>12. ProfileChosen => PageInv'
  BY <1>2, <1>9 DEF ProfileChosen, RunStages
<1>13. CredentialGiven => PageInv'
  BY <1>10 DEF CredentialGiven, RunStages, PageInv, AppInv
<1>14. RememberedChosen => PageInv'
  BY <1>10 DEF RememberedChosen, RunStages, PageInv, AppInv
<1>15. RestoreFails => PageInv'
  <2> SUFFICES ASSUME RestoreFails PROVE PageInv'
    OBVIOUS
  <2>1. /\ run' \in [stage : RunStages, operation : Operations, answer : Answers,
                      restoreFailed : BOOLEAN]
        /\ run'.stage # "ended"
    BY DEF RestoreFails, PageInv, AppInv, RunStages, Answers
  <2> QED
    BY <1>9, <2>1 DEF RestoreFails
<1>16. Unlocked => PageInv'
  BY <1>10 DEF Unlocked, RunStages
<1> QED
  BY <1>3, <1>4, <1>5, <1>6, <1>7, <1>11, <1>12, <1>13, <1>14, <1>15, <1>16

(* start() answers, or fails.                                              *)
LEMMA StartEnds ==
  ASSUME PageInv
  PROVE  /\ Executed => PageInv'
         /\ StartRejected => PageInv'
<1>1. ASSUME Executed
      PROVE  PageInv'
  <2>1. /\ ~lifecycleClosed /\ surface = NoSurface /\ ~accountSurface
        /\ run' \in [stage : RunStages, operation : Operations, answer : Answers,
                     restoreFailed : BOOLEAN]
        /\ run'.stage = "ended"
    BY <1>1 DEF Executed, StartGoesOn, PageInv, AppInv, StartInv, RunStages, Answers
  <2>2. CASE run.operation = "account"
    <3>1. /\ surface' \in Surfaces /\ surface'.stage = "shown" /\ surface'.finishing = "no"
          /\ surface'.copy = "idle" /\ surface'.legacy = "idle"
          /\ ~surface'.copySecrets /\ ~surface'.legacySecrets
          /\ surface'.copyOwned = {} /\ surface'.legacyOwned = {}
      <4>1. surface' = [surface EXCEPT !.stage = "shown", !.mayForget = storage.active = "valid"]
        BY <1>1, <2>2 DEF Executed
      <4>2. surface' = [NoSurface EXCEPT !.stage = "shown", !.mayForget = storage.active = "valid"]
        BY <2>1, <4>1
      <4> QED
        BY <4>2 DEF NoSurface, Surfaces, WorkStages
    <3>2. Sound(surface')
      BY <3>1 DEF Sound
    <3>3. HandleInv' /\ CopiedIsSignedIn'
      BY <1>1, <2>1, <3>1
         DEF Executed, PageInv, HandleInv, CopiedIsSignedIn, nativeVars, Owned, NoSurface
    <3>4. AppInv' /\ KeptInv' /\ StartInv' /\ MountInv' /\ ClosedHoldsNothing'
      <4>1. /\ UNCHANGED <<lifecycleClosed, listening, stopPromise, controller>>
            /\ activePrompt' = FALSE /\ accountSurface' = TRUE /\ retainedIdentity' = TRUE
            /\ mount' = {"account"}
        BY <1>1, <2>2 DEF Executed
      <4>2. AppInv'
        BY <2>1, <4>1 DEF PageInv, AppInv
      <4> QED
        BY <2>1, <4>1, <4>2 DEF KeptInv, StartInv, MountInv, ClosedHoldsNothing
    <3>5. StorageInv'
      BY <1>1, <2>2, Slots DEF Executed, PageInv
    <3> QED
      BY <3>2, <3>3, <3>4, <3>5 DEF PageInv
  <2>3. CASE run.operation # "account"
    <3>1. UNCHANGED <<surface, nativeVars, accountSurface>>
      BY <1>1, <2>3 DEF Executed
    <3>2. AppInv'
      BY <1>1, <2>1, <2>3 DEF Executed, PageInv, AppInv
    <3>3. MountInv' /\ ClosedHoldsNothing'
      BY <1>1, <2>1, <2>3 DEF Executed, MountInv, ClosedHoldsNothing
    <3>4. StorageInv'
      BY <1>1, <2>3 DEF Executed, PageInv, StorageInv
    <3> QED
      BY <2>1, <3>1, <3>2, <3>3, <3>4, StepBeside
  <2> QED
    BY <2>2, <2>3
<1>2. ASSUME StartRejected
      PROVE  PageInv'
  <2>1. run.stage # "ended" /\ StartFails
    BY <1>2 DEF StartRejected
  <2>2. /\ Sound(surface') /\ HandleInv' /\ KeptInv' /\ CopiedIsSignedIn'
        /\ retainedIdentity' = FALSE /\ accountSurface' = FALSE /\ surface' = surface
    BY <2>1, AccountCleared DEF StartFails, PageInv, StartInv
  <2>3. StorageInv' /\ quarantine' = NoRows
    BY <2>1, Slots DEF StartFails, PageInv
  <2>4. AppInv' /\ run'.stage = "ended"
    <3>1. /\ run' \in [stage : RunStages, operation : Operations, answer : Answers,
                        restoreFailed : BOOLEAN]
          /\ run'.stage = "ended"
      BY <2>1 DEF StartFails, PageInv, AppInv, RunStages, Answers
    <3> QED
      BY <2>1, <2>2, <3>1 DEF StartFails, PageInv, AppInv
  <2>5. MountInv' /\ ClosedHoldsNothing'
    BY <2>1, <2>2, <2>3
       DEF StartFails, PageInv, MountInv, StartInv, ClosedHoldsNothing, MountAfterCancel
  <2> QED
    BY <2>2, <2>3, <2>4, <2>5 DEF PageInv, StartInv
<1> QED
  BY <1>1, <1>2

-----------------------------------------------------------------------------
(* The page is closed, by the browser, by logout() or by stop().           *)
LEMMA CloseSteps ==
  ASSUME PageInv, CloseNext
  PROVE  PageInv'
<1>1. ASSUME Invalidated, controller' \in {Revoked(controller), "destroyed"},
             listening' \in BOOLEAN, stopPromise' \in BOOLEAN,
             retainedIdentity' = FALSE, accountSurface' \in BOOLEAN
      PROVE  AppInv' /\ lifecycleClosed' = TRUE /\ activePrompt' = FALSE
             /\ run'.stage = run.stage
  BY <1>1 DEF Invalidated, PageInv, AppInv, Revoked, RunAfterCancel, Asking, Answers
<1>2. ASSUME Invalidated, ClearPublicAccount, ClearRows, UNCHANGED <<derived, copied>>,
             mount' = {}, controller' \in {Revoked(controller), "destroyed"},
             listening' \in BOOLEAN, stopPromise' \in BOOLEAN
      PROVE  PageInv'
  <2>1. /\ Sound(surface') /\ HandleInv' /\ KeptInv' /\ CopiedIsSignedIn'
        /\ retainedIdentity' = FALSE /\ accountSurface' \in BOOLEAN
        /\ ~accountSurface => surface' = surface /\ ~accountSurface'
        /\ surface'.stage \in {"none", "removed"}
        /\ ~surface'.copySecrets /\ ~surface'.legacySecrets
    BY <1>2, AccountCleared
  <2>2. AppInv' /\ lifecycleClosed' = TRUE /\ activePrompt' = FALSE /\ run'.stage = run.stage
    BY <1>1, <1>2, <2>1
  <2>3. StorageInv' /\ quarantine' = NoRows
    BY <1>2, Slots DEF PageInv
  <2>4. StartInv' /\ MountInv' /\ ClosedHoldsNothing'
    BY <1>2, <2>1, <2>2, <2>3 DEF PageInv, StartInv, MountInv, ClosedHoldsNothing
  <2> QED
    BY <2>1, <2>2, <2>3, <2>4 DEF PageInv
<1>3. CASE ClearOnLifecycle
  BY <1>2, <1>3 DEF ClearOnLifecycle, PageInv, AppInv
<1>4. CASE Stop
  BY <1>2, <1>4 DEF Stop, PageInv, AppInv
<1>5. CASE LogoutPage
  <2>1. AppInv' /\ lifecycleClosed' = TRUE /\ activePrompt' = FALSE /\ run'.stage = run.stage
    BY <1>1, <1>5 DEF LogoutPage, PageInv, AppInv
  <2>2. StorageInv' /\ quarantine' = NoRows
    BY <1>5, Slots DEF LogoutPage, PageInv
  <2>3. MountInv'
    BY <1>5 DEF LogoutPage, PageInv, MountInv, MountAfterCancel
  <2>4. ClosedHoldsNothing'
    <3>1. /\ surface.stage \in {"none", "removed"} /\ surface.copy = "idle"
          /\ surface.legacy = "idle" /\ ~surface.copySecrets /\ ~surface.legacySecrets
      BY <1>5 DEF LogoutPage, PageInv, KeptInv, Sound, Surfaces, IsClean
    <3> QED
      BY <1>5, <2>1, <2>2, <3>1
         DEF LogoutPage, PageInv, MountInv, MountAfterCancel, ClosedHoldsNothing
  <2> QED
    BY <1>5, <2>1, <2>2, <2>3, <2>4, StepBeside DEF LogoutPage
<1> QED
  BY <1>3, <1>4, <1>5 DEF CloseNext

(* Storage, and the rows of the quarantine manager.                        *)
LEMMA StorageSteps ==
  ASSUME PageInv, StorageNext
  PROVE  PageInv'
<1> USE DEF appVars, nativeVars
<1>1. ASSUME UNCHANGED <<appVars, run, surface, mount, nativeVars>>, StorageInv',
             quarantine' = quarantine \/ quarantine # NoRows
      PROVE  PageInv'
  <2>1. AppInv' /\ MountInv' /\ ClosedHoldsNothing'
    BY <1>1 DEF PageInv, AppInv, MountInv, ClosedHoldsNothing
  <2> QED
    BY <1>1, <2>1, StepBeside
<1>2. CASE OtherTab
  BY <1>1, <1>2 DEF OtherTab, PageInv, StorageInv
<1>3. ASSUME NEW key \in {"active", "pending"}, QuarantineDelete(key)
      PROVE  PageInv'
  <2>1. StorageInv'
    BY <1>3 DEF QuarantineDelete, PageInv, StorageInv, Rows
  <2>2. quarantine # NoRows
    BY <1>3 DEF QuarantineDelete, PageInv, StorageInv, NoRows
  <2> QED
    BY <1>1, <1>3, <2>1, <2>2 DEF QuarantineDelete
<1>4. ASSUME NEW key \in {"active", "pending"}, QuarantineCancel(key)
      PROVE  PageInv'
  <2>1. StorageInv'
    BY <1>4 DEF QuarantineCancel, PageInv, StorageInv, Rows
  <2>2. quarantine # NoRows
    BY <1>4 DEF QuarantineCancel, PageInv, StorageInv, NoRows
  <2> QED
    BY <1>1, <1>4, <2>1, <2>2 DEF QuarantineCancel
<1>5. ASSUME NEW key \in {"active", "pending"}, QuarantineConfirm(key)
      PROVE  PageInv'
  <2>1. storage' \in StorageSlots
    BY <1>5 DEF QuarantineConfirm, ByOtherTabs, StorageSlots
  <2>3. quarantine # NoRows
    BY <1>5 DEF QuarantineConfirm, NoRows
  <2>4. StorageInv'
    BY <1>5, <2>1
       DEF QuarantineConfirm, StorageInv, RenderRows, Rows, Quarantined, CanRestore
  <2> QED
    BY <1>1, <1>5, <2>3, <2>4 DEF QuarantineConfirm
<1> QED
  BY <1>2, <1>3, <1>4, <1>5 DEF StorageNext

-----------------------------------------------------------------------------
(* A handle that is derived is owned at once, so whatever native code then *)
(* destroys, the surface still owns what exists.                           *)
LEMMA CopyFailsKeeps ==
  ASSUME NEW s, Sound(s), CopyFails(s), s.legacyOwned \subseteq liveHandles,
         liveHandles \subseteq Owned(s)
  PROVE  /\ Sound(surface') /\ surface'.stage = s.stage /\ surface'.copySecrets = FALSE
         /\ surface'.legacySecrets = s.legacySecrets
         /\ liveHandles' = Owned(surface') /\ Owned(surface') \subseteq Owned(s)
<1>1. PICK gone \in MayGo(s.copyOwned) :
        /\ surface' = [Disowned(s, gone) EXCEPT !.copy = "idle", !.first = NoIdentity,
                                                !.confirmed = NoIdentity, !.copySecrets = FALSE]
        /\ liveHandles' = (liveHandles \cup s.copyOwned) \ gone
  BY DEF CopyFails
<1> DEFINE d == Disowned(s, gone)
           e == [d EXCEPT !.copy = "idle", !.first = NoIdentity]
<1>2. /\ d \in Surfaces
      /\ d.copyOwned = s.copyOwned \ gone /\ d.legacyOwned = s.legacyOwned \ gone
      /\ \A f \in {"stage", "finishing", "legacy", "legacySecrets"} : d[f] = s[f]
  BY DisownedFields DEF Sound, Surfaces
<1> HIDE DEF d
<1>3. /\ e \in Surfaces /\ e.copy = "idle"
      /\ \A f \in {"stage", "finishing", "legacy", "legacySecrets", "copyOwned", "legacyOwned"} :
           e[f] = d[f]
  BY <1>2 DEF Surfaces, WorkStages
<1>4. surface' = [e EXCEPT !.confirmed = NoIdentity, !.copySecrets = FALSE]
  BY <1>1, <1>2 DEF d, Surfaces
<1> HIDE DEF e
<1>5. /\ surface' \in Surfaces /\ surface'.copy = "idle" /\ surface'.copySecrets = FALSE
      /\ \A f \in {"stage", "finishing", "legacy", "legacySecrets", "copyOwned", "legacyOwned"} :
           surface'[f] = e[f]
  BY <1>3, <1>4 DEF Surfaces
<1>6. Owned(surface') = Owned(s) \ gone
  BY <1>2, <1>3, <1>5 DEF Owned
<1> QED
  BY <1>1, <1>2, <1>3, <1>5, <1>6 DEF Sound, Owned, IsClean, MayGo

LEMMA LegacyEndsKeeps ==
  ASSUME NEW s, Sound(s), LegacyEnds(s), s.copyOwned \subseteq liveHandles,
         liveHandles \subseteq Owned(s)
  PROVE  /\ Sound(surface') /\ surface'.stage = s.stage /\ surface'.legacySecrets = FALSE
         /\ surface'.copySecrets = s.copySecrets
         /\ liveHandles' = Owned(surface') /\ Owned(surface') \subseteq Owned(s)
<1>1. PICK gone \in MayGo(s.legacyOwned) :
        /\ surface' = [Disowned(s, gone) EXCEPT !.legacy = "idle", !.legacySecrets = FALSE]
        /\ liveHandles' = (liveHandles \cup s.legacyOwned) \ gone
  BY DEF LegacyEnds
<1> DEFINE d == Disowned(s, gone)
<1>2. /\ d \in Surfaces
      /\ d.copyOwned = s.copyOwned \ gone /\ d.legacyOwned = s.legacyOwned \ gone
      /\ \A f \in {"stage", "finishing", "copy", "copySecrets", "first"} : d[f] = s[f]
  BY DisownedFields DEF Sound, Surfaces
<1>3. surface' = [d EXCEPT !.legacy = "idle", !.legacySecrets = FALSE]
  BY <1>1
<1> HIDE DEF d
<1>4. /\ surface' \in Surfaces /\ surface'.legacy = "idle" /\ surface'.legacySecrets = FALSE
      /\ \A f \in {"stage", "finishing", "copy", "copySecrets", "first", "copyOwned",
                   "legacyOwned"} : surface'[f] = d[f]
  BY <1>2, <1>3 DEF Surfaces, WorkStages
<1>5. Owned(surface') = Owned(s) \ gone
  BY <1>2, <1>4 DEF Owned
<1> QED
  BY <1>1, <1>2, <1>4, <1>5 DEF Sound, Owned, IsClean, MayGo

(* The steps of a copy and of a comparison that derive nothing.            *)
LEMMA PromptSteps ==
  ASSUME PageInv
  PROVE  /\ CopyAgain => PageInv'
         /\ CopySubmit => PageInv'
         /\ CopyTurnDown => PageInv'
         /\ CopyDerives => PageInv'
         /\ LegacyLaunch => PageInv'
         /\ LegacySubmit => PageInv'
         /\ LegacyTurnDown => PageInv'
         /\ LegacyDerives => PageInv'
         /\ ClipboardAnswers => PageInv'
         /\ ForgetLaunch => PageInv'
         /\ ForgetCancel => PageInv'
         /\ ForgetConfirm => PageInv'
<1> USE DEF appVars, nativeVars
<1>1. ASSUME IsShown(surface) \/ ~IsClean(surface),
             UNCHANGED <<appVars, run, quarantine, liveHandles, derived>>,
             surface' \in Surfaces,
             \A f \in {"stage", "finishing", "copyOwned", "legacyOwned"} :
               surface'[f] = surface[f],
             surface'.copySecrets => surface'.copy = "deriving",
             surface'.legacySecrets => surface'.legacy = "deriving",
             surface'.copy = "writing" => surface'.first = SignedIn,
             mount' \subseteq mount \cup {"copyPrompt", "legacyPrompt"},
             IsShown(surface) \/ (/\ surface'.copySecrets => surface.copySecrets
                                  /\ surface'.legacySecrets => surface.legacySecrets
                                  /\ mount' \subseteq mount),
             copied' \subseteq {SignedIn}, StorageInv'
      PROVE  PageInv'
  <2>1. surface.finishing = "no"
    BY <1>1 DEF PageInv, Sound, IsShown
  <2>2. Sound(surface')
    BY <1>1, <2>1 DEF Sound
  <2>3. HandleInv'
    BY <1>1 DEF PageInv, HandleInv, Owned
  <2> QED
    BY <1>1, <2>2, <2>3, WorkStep
<1>2. StorageInv /\ (UNCHANGED storageVars => StorageInv' /\ quarantine' = quarantine)
  BY StorageStands DEF PageInv
<1>3. /\ surface \in Surfaces /\ copied \subseteq {SignedIn}
      /\ surface.copySecrets => surface.copy = "deriving"
      /\ surface.legacySecrets => surface.legacy = "deriving"
      /\ surface.copy = "writing" => surface.first = SignedIn
  BY DEF PageInv, Sound, CopiedIsSignedIn
<1>4. CopyAgain => PageInv'
  <2> SUFFICES ASSUME CopyAgain PROVE PageInv'
    OBVIOUS
  <2>1. /\ surface' \in Surfaces /\ surface'.copy = "writing" /\ surface'.first = SignedIn
        /\ \A f \in {"stage", "finishing", "copyOwned", "legacyOwned", "legacy", "copySecrets",
                     "legacySecrets"} : surface'[f] = surface[f]
    BY <1>3, OriginPageAssumption DEF CopyAgain, Surfaces, WorkStages
  <2> QED
    BY <1>1, <1>2, <1>3, <2>1 DEF CopyAgain
<1>5. CopySubmit => PageInv'
  BY <1>1, <1>2, <1>3 DEF CopySubmit, SetCopy, Surfaces, WorkStages, IsClean
<1>6. CopyTurnDown => PageInv'
  <2> SUFFICES ASSUME CopyTurnDown PROVE PageInv'
    OBVIOUS
  <2>1. /\ surface' \in Surfaces /\ surface'.copy = "rejected"
        /\ \A f \in {"stage", "finishing", "copyOwned", "legacyOwned", "legacy", "copySecrets",
                     "legacySecrets"} : surface'[f] = surface[f]
    BY <1>3 DEF CopyTurnDown, SetCopy, Surfaces, WorkStages
  <2> QED
    BY <1>1, <1>2, <1>3, <2>1 DEF CopyTurnDown, IsClean
<1>7. CopyDerives => PageInv'
  BY <1>1, <1>2, <1>3 DEF CopyDerives, Surfaces, WorkStages
<1>8. LegacyLaunch => PageInv'
  BY <1>1, <1>2, <1>3 DEF LegacyLaunch, Surfaces, WorkStages
<1>9. LegacySubmit => PageInv'
  BY <1>1, <1>2, <1>3 DEF LegacySubmit, Surfaces, WorkStages, IsClean
<1>10. LegacyTurnDown => PageInv'
  BY <1>1, <1>2, <1>3 DEF LegacyTurnDown, Surfaces, WorkStages, IsClean
<1>11. LegacyDerives => PageInv'
  <2> SUFFICES ASSUME LegacyDerives PROVE PageInv'
    OBVIOUS
  <2>1. /\ surface' \in Surfaces /\ surface'.legacy = "deriving"
        /\ \A f \in {"stage", "finishing", "copyOwned", "legacyOwned", "copy", "first",
                     "copySecrets"} : surface'[f] = surface[f]
    BY <1>3 DEF LegacyDerives, Surfaces, WorkStages
  <2> QED
    BY <1>1, <1>2, <1>3, <2>1 DEF LegacyDerives
<1>12. ClipboardAnswers => PageInv'
  BY <1>1, <1>2, <1>3 DEF ClipboardAnswers, Surfaces, WorkStages, IsClean
<1>13. ForgetLaunch => PageInv'
  BY <1>1, <1>2, <1>3 DEF ForgetLaunch, Surfaces
<1>14. ForgetCancel => PageInv'
  BY <1>1, <1>2, <1>3 DEF ForgetCancel, Surfaces
<1>15. ForgetConfirm => PageInv'
  <2> SUFFICES ASSUME ForgetConfirm PROVE PageInv'
    OBVIOUS
  <2>1. /\ surface' \in Surfaces
        /\ \A f \in {"stage", "finishing", "copy", "first", "copyOwned", "legacyOwned", "legacy",
                     "copySecrets", "legacySecrets"} : surface'[f] = surface[f]
    BY <1>3 DEF ForgetConfirm, Surfaces
  <2>2. StorageInv'
    BY <1>2 DEF ForgetConfirm, ByOtherTabs, StorageInv, StorageSlots
  <2> QED
    BY <1>1, <1>3, <2>1, <2>2 DEF ForgetConfirm
<1> QED
  BY <1>4, <1>5, <1>6, <1>7, <1>8, <1>9, <1>10, <1>11, <1>12, <1>13, <1>14, <1>15

(* The steps of a copy that may destroy a handle or bring one.             *)
LEMMA CopySteps ==
  ASSUME PageInv
  PROVE  /\ CopyApproval => PageInv'
         /\ CopyRejected => PageInv'
         /\ DerivationFails => PageInv'
         /\ CopyDerived => PageInv'
<1> USE DEF appVars, nativeVars
<1>1. /\ Sound(surface) /\ surface \in Surfaces /\ copied \subseteq {SignedIn}
      /\ derived \in Nat /\ liveHandles = Owned(surface) /\ Owned(surface) \subseteq 1..derived
  BY DEF PageInv, Sound, HandleInv, CopiedIsSignedIn
<1>2. UNCHANGED storageVars => StorageInv' /\ quarantine' = quarantine
  BY StorageStands DEF PageInv
<1>3. CopyApproval => PageInv'
  <2> SUFFICES ASSUME CopyApproval PROVE PageInv'
    OBVIOUS
  <2>1. PICK gone \in MayGo(surface.copyOwned) :
          /\ liveHandles' = liveHandles \ gone
          /\ IF surface.copyOwned \subseteq gone
             THEN CopyPrompt(Disowned(surface, gone), NoIdentity)
             ELSE surface' = Disowned(surface, gone) /\ UNCHANGED mount
    BY DEF CopyApproval
  <2> DEFINE d == Disowned(surface, gone)
  <2>2. /\ d \in Surfaces
        /\ d.copyOwned = surface.copyOwned \ gone
        /\ d.legacyOwned = surface.legacyOwned \ gone
        /\ \A f \in {"stage", "finishing", "copy", "first", "legacy", "copySecrets",
                     "legacySecrets"} : d[f] = surface[f]
    BY <1>1, DisownedFields DEF Surfaces
  <2>3. surface' = d \/ surface' = [d EXCEPT !.copy = "prompting", !.first = NoIdentity]
    BY <2>1 DEF CopyPrompt
  <2>4. mount' \subseteq mount \cup {"copyPrompt", "legacyPrompt"}
    BY <2>1 DEF CopyPrompt
  <2> HIDE DEF d
  <2>5. /\ surface' \in Surfaces
        /\ surface'.copy \in {"idle", "prompting"}
        /\ \A f \in {"stage", "finishing", "copyOwned", "legacyOwned", "legacy", "copySecrets",
                     "legacySecrets"} : surface'[f] = d[f]
    <3>1. d.copy = "idle"
      BY <2>2 DEF CopyApproval
    <3> QED
      BY <2>2, <2>3, <3>1 DEF Surfaces, WorkStages
  <2>6. surface.stage = "shown" /\ surface.copy = "idle" /\ surface.finishing = "no"
    BY <1>1 DEF CopyApproval, Sound, IsShown
  <2>7. Sound(surface')
    BY <1>1, <2>2, <2>5, <2>6 DEF Sound
  <2>8. HandleInv'
    BY <1>1, <2>1, <2>2, <2>5 DEF HandleInv, Owned, CopyApproval
  <2> QED
    BY <1>1, <1>2, <2>2, <2>4, <2>5, <2>6, <2>7, <2>8, WorkStep DEF CopyApproval
<1>4. ASSUME surface.copy # "idle", CopyFails(surface),
             UNCHANGED <<appVars, run, derived, copied, storageVars>>, mount' \subseteq mount
      PROVE  PageInv'
  <2>1. /\ Sound(surface') /\ surface'.stage = surface.stage /\ surface'.copySecrets = FALSE
        /\ surface'.legacySecrets = surface.legacySecrets
        /\ liveHandles' = Owned(surface') /\ Owned(surface') \subseteq Owned(surface)
    BY <1>1, <1>4, CopyFailsKeeps DEF Owned
  <2>2. HandleInv'
    BY <1>1, <1>4, <2>1 DEF HandleInv
  <2> QED
    BY <1>1, <1>2, <1>4, <2>1, <2>2, WorkStep DEF IsClean
<1>5. CopyRejected => PageInv'
  BY <1>4 DEF CopyRejected
<1>6. DerivationFails => PageInv'
  BY <1>4 DEF DerivationFails
<1>7. CopyDerived => PageInv'
  <2> SUFFICES ASSUME CopyDerived PROVE PageInv'
    OBVIOUS
  <2> DEFINE h == derived + 1
             s == [surface EXCEPT !.copySecrets = FALSE]
             t == [s EXCEPT !.copyOwned = @ \cup {h}]
  <2>1. /\ surface.copy = "deriving" /\ surface.finishing = "no" /\ ~IsClean(surface)
        /\ derived' = h /\ h \in Nat
        /\ UNCHANGED <<appVars, run, copied, storageVars>>
    <3>1. /\ surface.copy = "deriving" /\ derived' = h
          /\ UNCHANGED <<appVars, run, copied, storageVars>>
      BY DEF CopyDerived
    <3> QED
      BY <1>1, <3>1 DEF Sound, IsClean
  <2>2. \/ CopyFails(t) /\ UNCHANGED mount
        \/ /\ IsShown(s) /\ s.first = NoIdentity
           /\ \E identity \in Identities : CopyPrompt(s, identity)
           /\ UNCHANGED liveHandles
        \/ /\ IsShown(s) /\ s.first # NoIdentity
           /\ \E identity \in Identities :
                /\ Agrees(s.first, identity)
                /\ surface' = [s EXCEPT !.copy = "writing", !.confirmed = identity]
           /\ UNCHANGED <<mount, liveHandles>>
    BY DEF CopyDerived
  <2>3. /\ s \in Surfaces /\ s.copySecrets = FALSE
        /\ \A f \in {"stage", "finishing", "copy", "first", "copyOwned", "legacyOwned", "legacy",
                     "legacySecrets"} : s[f] = surface[f]
    BY <1>1 DEF Surfaces
  <2> HIDE DEF s
  <2>4. /\ t \in Surfaces /\ t.copyOwned = s.copyOwned \cup {h}
        /\ \A f \in {"stage", "finishing", "copy", "first", "legacyOwned", "legacy",
                     "copySecrets", "legacySecrets"} : t[f] = s[f]
    BY <2>1, <2>3 DEF Surfaces
  <2> HIDE DEF t, h
  <2>5. CASE CopyFails(t) /\ UNCHANGED mount
    <3>1. Sound(t) /\ Owned(t) = Owned(surface) \cup {h}
      BY <1>1, <2>1, <2>3, <2>4 DEF Sound, Owned
    <3>2. t.legacyOwned \subseteq liveHandles /\ liveHandles \subseteq Owned(t)
      BY <1>1, <2>3, <2>4, <3>1 DEF Owned
    <3>3. /\ Sound(surface') /\ surface'.stage = t.stage /\ surface'.copySecrets = FALSE
          /\ surface'.legacySecrets = t.legacySecrets
          /\ liveHandles' = Owned(surface') /\ Owned(surface') \subseteq Owned(t)
      BY <2>5, <3>1, <3>2, CopyFailsKeeps
    <3>4. HandleInv'
      BY <1>1, <2>1, <3>1, <3>3 DEF HandleInv, h
    <3> QED
      BY <1>1, <1>2, <2>1, <2>3, <2>4, <2>5, <3>3, <3>4, WorkStep
  <2>6. ASSUME IsShown(s), UNCHANGED liveHandles,
               mount' \subseteq mount \cup {"copyPrompt", "legacyPrompt"},
               surface' \in Surfaces,
               surface'.copy = "writing" => surface'.first = SignedIn,
               \A f \in {"stage", "finishing", "copyOwned", "legacyOwned", "legacy",
                         "copySecrets", "legacySecrets"} : surface'[f] = s[f]
        PROVE  PageInv'
    <3>1. Sound(surface')
      BY <1>1, <2>1, <2>3, <2>6 DEF Sound
    <3>2. HandleInv'
      BY <1>1, <2>1, <2>3, <2>6 DEF HandleInv, Owned, h
    <3> QED
      BY <1>1, <1>2, <2>1, <2>3, <2>6, <3>1, <3>2, WorkStep DEF IsShown
  <2>7. CASE /\ IsShown(s) /\ s.first = NoIdentity
             /\ \E identity \in Identities : CopyPrompt(s, identity)
             /\ UNCHANGED liveHandles
    <3>1. PICK identity \in Identities : CopyPrompt(s, identity)
      BY <2>7
    <3>2. /\ surface' \in Surfaces /\ surface'.copy = "prompting"
          /\ \A f \in {"stage", "finishing", "copyOwned", "legacyOwned", "legacy",
                       "copySecrets", "legacySecrets"} : surface'[f] = s[f]
      BY <2>3, <3>1 DEF CopyPrompt, Surfaces, WorkStages
    <3>3. mount' \subseteq mount \cup {"copyPrompt", "legacyPrompt"}
      BY <3>1 DEF CopyPrompt
    <3> QED
      BY <2>6, <2>7, <3>2, <3>3
  <2>8. CASE /\ IsShown(s) /\ s.first # NoIdentity
             /\ \E identity \in Identities :
                  /\ Agrees(s.first, identity)
                  /\ surface' = [s EXCEPT !.copy = "writing", !.confirmed = identity]
             /\ UNCHANGED <<mount, liveHandles>>
    BY <2>3, <2>6, <2>8 DEF Agrees, Surfaces, WorkStages
  <2> QED
    BY <2>2, <2>5, <2>7, <2>8
<1> QED
  BY <1>3, <1>5, <1>6, <1>7

(* The same of a comparison, which ends whatever its derivation brings.    *)
LEMMA LegacySteps ==
  ASSUME PageInv
  PROVE  /\ LegacyRejected => PageInv'
         /\ LegacyDerived => PageInv'
<1> USE DEF appVars, nativeVars
<1>1. /\ Sound(surface) /\ surface \in Surfaces /\ copied \subseteq {SignedIn}
      /\ derived \in Nat /\ liveHandles = Owned(surface) /\ Owned(surface) \subseteq 1..derived
  BY DEF PageInv, Sound, HandleInv, CopiedIsSignedIn
<1>2. UNCHANGED storageVars => StorageInv' /\ quarantine' = quarantine
  BY StorageStands DEF PageInv
<1>3. ASSUME LegacyRejected
      PROVE  PageInv'
  <2>1. /\ surface.legacy # "idle" /\ LegacyEnds(surface)
        /\ UNCHANGED <<appVars, run, mount, derived, copied, storageVars>>
    BY <1>3 DEF LegacyRejected
  <2>2. /\ Sound(surface') /\ surface'.stage = surface.stage /\ surface'.legacySecrets = FALSE
        /\ surface'.copySecrets = surface.copySecrets
        /\ liveHandles' = Owned(surface') /\ Owned(surface') \subseteq Owned(surface)
    BY <1>1, <2>1, LegacyEndsKeeps DEF Owned
  <2>3. HandleInv'
    BY <1>1, <2>1, <2>2 DEF HandleInv
  <2> QED
    BY <1>1, <1>2, <2>1, <2>2, <2>3, WorkStep DEF IsClean
<1>4. ASSUME LegacyDerived
      PROVE  PageInv'
  <2> DEFINE h == derived + 1
             t == [surface EXCEPT !.legacyOwned = @ \cup {h}]
  <2>1. /\ surface.legacy = "deriving" /\ derived' = h /\ LegacyEnds(t)
        /\ UNCHANGED <<appVars, run, mount, copied, storageVars>>
    BY <1>4 DEF LegacyDerived
  <2>2. surface.finishing = "no" /\ ~IsClean(surface) /\ h \in Nat
    BY <1>1, <2>1 DEF Sound, IsClean
  <2>3. /\ t \in Surfaces /\ t.legacyOwned = surface.legacyOwned \cup {h}
        /\ \A f \in {"stage", "finishing", "copy", "first", "copyOwned", "legacy",
                     "copySecrets", "legacySecrets"} : t[f] = surface[f]
    BY <1>1, <2>2 DEF Surfaces
  <2> HIDE DEF t, h
  <2>4. Sound(t) /\ Owned(t) = Owned(surface) \cup {h}
    BY <1>1, <2>2, <2>3 DEF Sound, Owned
  <2>5. t.copyOwned \subseteq liveHandles /\ liveHandles \subseteq Owned(t)
    BY <1>1, <2>3, <2>4 DEF Owned
  <2>6. /\ Sound(surface') /\ surface'.stage = t.stage /\ surface'.legacySecrets = FALSE
        /\ surface'.copySecrets = t.copySecrets
        /\ liveHandles' = Owned(surface') /\ Owned(surface') \subseteq Owned(t)
    BY <2>1, <2>4, <2>5, LegacyEndsKeeps
  <2>7. HandleInv'
    BY <1>1, <2>1, <2>4, <2>6 DEF HandleInv, h
  <2> QED
    BY <1>1, <1>2, <2>1, <2>2, <2>3, <2>6, <2>7, WorkStep
<1> QED
  BY <1>3, <1>4

(* Leaving the account page, or failing to: what could not be destroyed    *)
(* stays with the app.                                                     *)
LEMMA ExitSteps ==
  ASSUME PageInv
  PROVE  /\ FinishAccount => PageInv'
         /\ ExitAnswers => PageInv'
<1>1. /\ Sound(surface) /\ surface \in Surfaces
      /\ derived \in Nat /\ liveHandles = Owned(surface) /\ Owned(surface) \subseteq 1..derived
  BY DEF PageInv, Sound, HandleInv
<1>2. ASSUME FinishAccount
      PROVE  PageInv'
  <2>1. PICK gone \in MayGo(Owned(surface)) :
          LET s == CleanedUp(Terminalized(surface), gone)
          IN  /\ liveHandles' = liveHandles \ gone
              /\ IF IsClean(s)
                 THEN /\ surface' = [s EXCEPT !.stage = "removed", !.finishing = "acting"]
                      /\ accountSurface' = FALSE /\ retainedIdentity' = FALSE
                      /\ mount' = {"complete"}
                 ELSE /\ surface' = s
                      /\ mount' = (mount \ (PendingPrompts(surface) \cup {"account"}))
                                    \cup {"exit"}
                      /\ UNCHANGED <<accountSurface, retainedIdentity>>
    BY <1>2 DEF FinishAccount
  <2>2. /\ surface.stage \in {"shown", "exiting"} /\ surface.finishing = "no"
        /\ UNCHANGED <<lifecycleClosed, listening, stopPromise, activePrompt, controller, run,
                       derived, copied>>
        /\ StorageInv' /\ quarantine' = NoRows
    BY <1>2, Slots DEF FinishAccount, PageInv
  <2>3. accountSurface = TRUE /\ run.stage = "ended" /\ ~lifecycleClosed
    BY <2>2 DEF PageInv, AppInv, KeptInv, StartInv, ClosedHoldsNothing
  <2> DEFINE u == Terminalized(surface)
             s == CleanedUp(u, gone)
  <2>4. /\ u \in Surfaces /\ ~u.legacySecrets /\ u.stage = "exiting"
        /\ u.copyOwned = surface.copyOwned /\ u.legacyOwned = surface.legacyOwned
        /\ u.finishing = surface.finishing /\ u.first = surface.first
        /\ u.copy = IF surface.copy = "prompting" THEN "rejected" ELSE surface.copy
        /\ u.legacy = IF surface.legacy = "prompting" THEN "rejected" ELSE surface.legacy
    BY <1>1, <2>2, TerminalizedFields
  <2> HIDE DEF u
  <2>5. /\ s \in Surfaces /\ s.copySecrets = FALSE /\ s.legacySecrets = FALSE
        /\ s.stage = "exiting" /\ s.finishing = "no"
        /\ s.copyOwned = u.copyOwned \ gone /\ s.legacyOwned = u.legacyOwned \ gone
        /\ s.copy = u.copy /\ s.legacy = u.legacy /\ s.first = u.first
    <3>1. Cleans(u, gone, s)
      BY <2>4, CleanedUpFields
    <3>2. u.legacySecrets = FALSE
      BY <2>4 DEF Surfaces
    <3> HIDE DEF s
    <3> QED
      BY <2>2, <2>4, <3>1, <3>2 DEF Cleans
  <2>6. /\ Owned(s) = Owned(surface) \ gone
        /\ s.copy = "writing" => s.first = SignedIn
    BY <1>1, <2>4, <2>5 DEF Owned, Sound
  <2> HIDE DEF s
  <2>7. CASE IsClean(s)
    <3>1. /\ surface' = [s EXCEPT !.stage = "removed", !.finishing = "acting"]
          /\ accountSurface' = FALSE /\ retainedIdentity' = FALSE /\ mount' = {"complete"}
          /\ liveHandles' = liveHandles \ gone
      BY <2>1, <2>7 DEF s, u
    <3>2. /\ surface' \in Surfaces /\ surface'.stage = "removed"
          /\ \A f \in {"copy", "first", "copyOwned", "legacyOwned", "legacy",
                       "copySecrets", "legacySecrets"} : surface'[f] = s[f]
      BY <2>5, <3>1 DEF Surfaces
    <3>3. Owned(surface') = Owned(s) /\ IsClean(surface')
      BY <2>7, <3>2 DEF Owned, IsClean
    <3>4. Sound(surface')
      BY <2>5, <2>6, <3>2, <3>3 DEF Sound
    <3>5. HandleInv'
      BY <1>1, <2>2, <2>6, <3>1, <3>3 DEF HandleInv
    <3>6. AppInv' /\ KeptInv' /\ StartInv' /\ MountInv' /\ ClosedHoldsNothing' /\ CopiedIsSignedIn'
      BY <2>2, <2>3, <3>1, <3>2, <3>3
         DEF PageInv, AppInv, KeptInv, StartInv, MountInv, ClosedHoldsNothing, CopiedIsSignedIn
    <3> QED
      BY <2>2, <3>4, <3>5, <3>6 DEF PageInv
  <2>8. CASE ~IsClean(s)
    <3>1. /\ surface' = s /\ UNCHANGED <<accountSurface, retainedIdentity>>
          /\ mount' \subseteq mount \cup {"exit"} /\ liveHandles' = liveHandles \ gone
      BY <2>1, <2>8 DEF s, u
    <3>2. Sound(surface')
      BY <2>5, <2>6, <3>1 DEF Sound
    <3>3. HandleInv'
      BY <1>1, <2>2, <2>6, <3>1 DEF HandleInv
    <3>4. AppInv' /\ KeptInv' /\ StartInv' /\ MountInv' /\ ClosedHoldsNothing' /\ CopiedIsSignedIn'
      BY <2>2, <2>3, <3>1
         DEF PageInv, AppInv, KeptInv, StartInv, MountInv, ClosedHoldsNothing, CopiedIsSignedIn
    <3> QED
      BY <2>2, <3>2, <3>3, <3>4 DEF PageInv
  <2> QED
    BY <2>7, <2>8
<1>3. ASSUME ExitAnswers
      PROVE  PageInv'
  <2>1. /\ surface' = [surface EXCEPT !.finishing = "ended"]
        /\ mount' = mount \/ (~lifecycleClosed /\ mount' = {"failure"})
        /\ UNCHANGED <<appVars, run, nativeVars, storageVars>>
        /\ surface.stage = "removed" /\ IsClean(surface)
    BY <1>1, <1>3 DEF ExitAnswers, Sound
  <2>2. /\ surface' \in Surfaces
        /\ \A f \in {"stage", "copy", "first", "copyOwned", "legacyOwned", "legacy",
                     "copySecrets", "legacySecrets"} : surface'[f] = surface[f]
    BY <1>1, <2>1 DEF Surfaces
  <2>3. Sound(surface') /\ HandleInv' /\ IsClean(surface')
    BY <1>1, <2>1, <2>2 DEF Sound, HandleInv, IsClean, Owned, nativeVars
  <2>4. StorageInv' /\ quarantine' = quarantine
    BY <2>1, StorageStands DEF PageInv
  <2>5. run.stage = "ended"
    BY <1>3 DEF ExitAnswers, PageInv, StartInv, NoSurface
  <2>6. AppInv' /\ StartInv' /\ CopiedIsSignedIn'
    BY <2>1, <2>5 DEF PageInv, AppInv, StartInv, CopiedIsSignedIn, appVars, nativeVars
  <2>7. KeptInv' /\ MountInv'
    BY <2>1, <2>2, <2>3 DEF PageInv, KeptInv, MountInv, appVars
  <2>8. ClosedHoldsNothing'
    BY <2>1, <2>2, <2>4 DEF PageInv, ClosedHoldsNothing, appVars
  <2> QED
    BY <2>3, <2>4, <2>6, <2>7, <2>8 DEF PageInv
<1> QED
  BY <1>2, <1>3

-----------------------------------------------------------------------------
LEMMA PageStep ==
  ASSUME PageInv, [OriginPageNext]_originPageVars
  PROVE  PageInv'
<1>1. CASE StartNext
  BY <1>1, StartSteps, StartEnds DEF StartNext
<1>2. CASE CopyNext
  BY <1>2, PromptSteps, CopySteps DEF CopyNext
<1>3. CASE LegacyNext
  BY <1>3, PromptSteps, LegacySteps DEF LegacyNext
<1>4. CASE ExitAnswers
  BY <1>4, ExitSteps
<1>5. CASE UserNext
  BY <1>5, StartSteps, PromptSteps, CopySteps, ExitSteps DEF UserNext
<1>6. CASE StorageNext
  BY <1>6, StorageSteps
<1>7. CASE CloseNext
  BY <1>7, CloseSteps
<1>8. CASE UNCHANGED originPageVars
  <2>1. UNCHANGED storageVars => StorageInv' /\ quarantine' = quarantine
    BY StorageStands DEF PageInv
  <2>2. UNCHANGED <<appVars, run, surface, mount, nativeVars, storageVars>>
    BY <1>8 DEF originPageVars
  <2>3. AppInv' /\ MountInv' /\ ClosedHoldsNothing'
    BY <2>1, <2>2 DEF PageInv, AppInv, MountInv, ClosedHoldsNothing, appVars
  <2> QED
    BY <2>1, <2>2, <2>3, StepBeside DEF appVars
<1> QED
  BY <1>1, <1>2, <1>3, <1>4, <1>5, <1>6, <1>7, <1>8 DEF OriginPageNext

LEMMA PageStarts == OriginPageInit => PageInv
<1> SUFFICES ASSUME OriginPageInit PROVE PageInv
  OBVIOUS
<1>1. Sound(surface) /\ Owned(surface) = {} /\ IsClean(surface)
  BY DEF OriginPageInit, NoSurface, Sound, Surfaces, WorkStages, Owned, IsClean
<1>2. AppInv
  BY DEF OriginPageInit, AppInv, RunStages, Operations, Answers
<1>3. HandleInv /\ KeptInv /\ StartInv /\ MountInv /\ ClosedHoldsNothing /\ CopiedIsSignedIn
  BY <1>1 DEF OriginPageInit, HandleInv, KeptInv, StartInv, MountInv, ClosedHoldsNothing,
              CopiedIsSignedIn, NoSurface
<1>4. StorageInv
  BY DEF OriginPageInit, StorageInv, Rows, NoRows
<1> QED
  BY <1>1, <1>2, <1>3, <1>4 DEF PageInv

(* What the page promises follows from who is responsible for what.        *)
LEMMA PageFollows == PageInv => AccountPageGivesBack
<1> SUFFICES ASSUME PageInv PROVE AccountPageGivesBack
  OBVIOUS
<1>1. /\ surface.stage \in {"none", "shown", "exiting", "removed"}
      /\ surface.finishing \in {"no", "acting", "ended"}
      /\ surface.copy \in WorkStages /\ surface.legacy \in WorkStages
  BY DEF PageInv, Sound, Surfaces
<1>2. OriginPageTypeOK
  BY <1>1, OriginPageAssumption
     DEF PageInv, OriginPageTypeOK, AppInv, HandleInv, CopiedIsSignedIn, StorageInv
<1>3. HandlesStayReachable
  BY DEF PageInv, HandlesStayReachable, HandleInv, KeptInv
<1>4. LeavesOnlyWhenClean
  BY DEF PageInv, LeavesOnlyWhenClean, HandleInv, Sound, IsClean
<1> QED
  BY <1>2, <1>3, <1>4 DEF PageInv, AccountPageGivesBack, StorageInv

THEOREM PageInvariant == OriginPageSpec => []PageInv
<1>1. PageInv /\ [OriginPageNext]_originPageVars => PageInv'
  BY PageStep
<1> QED
  BY <1>1, PageStarts, PTL DEF OriginPageSpec

(* The account page gives back every native handle and every byte it held, *)
(* is left only when clean, shows nothing once it is closed, and copies a  *)
(* configuration only of the identity that is signed in: clearPublicAccount*)
(* and finishAccount of app.mjs, confirm of account.mjs.                   *)
THEOREM PageGivesBack == OriginPageSpec => []AccountPageGivesBack
BY PageInvariant, PageFollows, PTL

-----------------------------------------------------------------------------
(***************************************************************************)
(* The legacy page, for any handlers that look before they show: at each   *)
(* place of a program either the session was looked at since the last wait *)
(* or it was not, and a call of an ended session never stands, running, at *)
(* a place of the first kind.  The invariant says that of every call, and  *)
(* that a scan in progress holds the lock of its generation; the condition *)
(* on the programs (Orderly) is proved of each handler at the end.         *)
(***************************************************************************)
LookOps == {"still", "undo"}
PauseOps == {"wait", "sleep"}

(* F are places of q, its end included, where the session was looked at    *)
(* since the last wait: only there is something of the call's login shown, *)
(* or a scan begun.                                                        *)
LookedAt(q, F) ==
  \A i \in 1..Len(q) :
    /\ (i + 1) \in F => q[i].op \in LookOps \/ (i \in F /\ q[i].op \notin PauseOps)
    /\ q[i].op = "show" /\ q[i].sink \in Watched => i \in F
    /\ q[i].op = "lock" => i \in F
    /\ q[i].op = "again" => i \in F /\ q[i].to \in 1..i

Marks == [Parts -> SUBSET Nat]

(* A call begins in the session it captured; no other part than the body   *)
(* begins where the one before it ended.                                   *)
Marked(p, F) ==
  /\ \A part \in Parts : LookedAt(p[part], F[part])
  /\ 1 \in F["body"] => (Len(p.pre) + 1) \in F["pre"]
  /\ \A part \in {"caught", "fin", "post"} : 1 \notin F[part]

Locks(p, s) == \E k \in 1..Len(p.pre) : p.pre[k].op = "lock" /\ p.pre[k].scan = s

(* A scan begins before the try and ends in its finally.                   *)
PairsLocks(p) ==
  \A part \in Parts : \A i \in 1..Len(p[part]) :
    LET step == p[part][i]
    IN  /\ step.op = "lock" => part = "pre" /\ step.scan \in Scans
        /\ step.op = "again" => part # "fin"
        /\ step.op = "unlock" =>
             /\ part = "fin" /\ Locks(p, step.scan)
             /\ \A j \in 1..(i - 1) : p.fin[j].op = "unlock" => p.fin[j].scan # step.scan

Orderly(p) ==
  /\ \A part \in Parts : Len(p[part]) \in Nat
  /\ \E F \in Marks : Marked(p, F)
  /\ PairsLocks(p)

MarksOf(p) == CHOOSE F \in Marks : Marked(p, F)

-----------------------------------------------------------------------------
Progs == HandlerPrograms \cup {Nothing}

CallRecord ==
  [prog : Progs, part : Parts \cup {"done"}, at : Nat \ {0}, gen : Nat, owner : Nat,
   leaving : BOOLEAN]

PageTypeOK ==
  /\ watch \in Watched
  /\ session \in Nat /\ generation \in Nat /\ logins \in Nat
  /\ scanning \in [Scans -> Int]
  /\ calls \in [HandlerCalls -> CallRecord]

Under(k) == k.part # "done" /\ k.at <= Len(k.prog[k.part])

InBounds(k) == k.part # "done" => k.at <= Len(k.prog[k.part]) + 1

Op(k) == k.prog[k.part][k.at].op

(* A call that runs, at a place where it has looked.                       *)
Fresh(k) ==
  /\ k.part # "done" /\ k.at \in MarksOf(k.prog)[k.part]
  /\ ~(Under(k) /\ Op(k) \in PauseOps)

(* It has begun a scan of kind s and not ended it.                         *)
Holds(k, s) ==
  /\ Locks(k.prog, s)
  /\ \/ k.part \in {"body", "caught"}
     \/ k.part = "pre" /\ \E j \in 1..Len(k.prog.pre) :
          j < k.at /\ k.prog.pre[j].op = "lock" /\ k.prog.pre[j].scan = s
     \/ k.part = "fin" /\ \A j \in 1..Len(k.prog.fin) :
          j < k.at /\ k.prog.fin[j].op = "unlock" => k.prog.fin[j].scan # s

(* Between logins of the same generation nobody was logged in.             *)
OfItsLogin(k) ==
  /\ InBounds(k)
  /\ k.gen <= generation
  /\ k.gen = generation => k.owner \in {Nobody, session}
  /\ Fresh(k) => k.gen = generation

KeepsLocks(k) == \A s \in Scans : Holds(k, s) /\ k.gen = generation => scanning[s] = generation

LocksApart ==
  \A c, d \in HandlerCalls, s \in Scans :
    c # d /\ Holds(calls[c], s) /\ Holds(calls[d], s) => calls[c].gen # calls[d].gen

LoggedOutIsClean == session = Nobody /\ watch \notin Outlives => holds = Nobody

LegacyInv ==
  /\ PageTypeOK
  /\ \A c \in HandlerCalls : OfItsLogin(calls[c]) /\ KeepsLocks(calls[c])
  /\ LocksApart /\ LoggedOutIsClean

(* What is asked of the handlers and of the sinks.                         *)
LooksFirst ==
  /\ \A p \in HandlerPrograms : Orderly(p)
  /\ "external" \notin OverLogins
  /\ Watched \subseteq LogoutClears \cup Outlives
-----------------------------------------------------------------------------
LEMMA NothingOrderly == Orderly(Nothing)
<1>1. Parts = {"pre", "body", "caught", "fin", "post"} /\ \A part \in Parts : Nothing[part] = <<>>
  BY DEF Parts, Nothing
<1>2. Nothing.pre = <<>> /\ Nothing.fin = <<>> /\ Len(<<>>) = 0
  BY DEF Nothing
<1> DEFINE F == [part \in Parts |-> {}]
<1>3. F \in Marks /\ \A part \in Parts : F[part] = {}
  BY DEF Marks
<1>4. Marked(Nothing, F)
  BY <1>1, <1>2, <1>3 DEF Marked, LookedAt
<1>5. PairsLocks(Nothing)
  BY <1>1, <1>2 DEF PairsLocks
<1> HIDE DEF F
<1> QED BY <1>1, <1>2, <1>3, <1>4, <1>5 DEF Orderly

LEMMA ProgramFacts ==
  ASSUME LooksFirst, NEW p \in Progs
  PROVE  /\ \A part \in Parts : Len(p[part]) \in Nat
         /\ MarksOf(p) \in Marks /\ Marked(p, MarksOf(p)) /\ PairsLocks(p)
<1>1. Orderly(p)
  BY NothingOrderly DEF Progs, LooksFirst
<1>2. PICK F \in Marks : Marked(p, F)
  BY <1>1 DEF Orderly
<1>3. MarksOf(p) \in Marks /\ Marked(p, MarksOf(p))
  BY <1>2 DEF MarksOf
<1> QED BY <1>1, <1>3 DEF Orderly

PartNames == {"pre", "body", "caught", "fin", "post"}

LEMMA PartsAre == Parts = PartNames
BY DEF Parts, Nothing, PartNames

(* The call at the beginning of another part.                              *)
LEMMA Entering ==
  ASSUME NEW k \in CallRecord, NEW part \in PartNames, NEW k2,
         \/ k2 = [k EXCEPT !.part = part, !.at = 1]
         \/ k2 = [k EXCEPT !.part = part, !.at = 1, !.leaving = TRUE]
  PROVE  /\ k2 \in CallRecord /\ k2.prog = k.prog /\ k2.part = part /\ k2.at = 1
         /\ k2.gen = k.gen /\ k2.owner = k.owner
<1>1. part \in Parts \cup {"done"} /\ 1 \in Nat \ {0} /\ TRUE \in BOOLEAN
  BY PartsAre
<1> QED BY <1>1 DEF CallRecord

(* The next step of a part.                                                *)
LEMMA Advancing ==
  ASSUME LooksFirst, NEW k \in CallRecord, k.part # "done", Under(k),
         NEW k2, k2 = [k EXCEPT !.at = k.at + 1]
  PROVE  /\ k2 \in CallRecord /\ k2.gen = k.gen /\ k2.owner = k.owner /\ InBounds(k2)
         /\ Fresh(k2) => Op(k) \in LookOps \/ Fresh(k)
         /\ Op(k) = "lock" => Fresh(k) /\ k.part = "pre" /\ k.prog[k.part][k.at].scan \in Scans
         /\ Op(k) = "show" /\ k.prog[k.part][k.at].sink \in Watched => Fresh(k)
         /\ \A s \in Scans : Holds(k2, s) =>
              Holds(k, s) \/ (Op(k) = "lock" /\ k.prog[k.part][k.at].scan = s)
         /\ Op(k) = "unlock" => LET s == k.prog[k.part][k.at].scan IN Holds(k, s) /\ ~Holds(k2, s)
<1> DEFINE p == k.prog
           q == k.prog[k.part]
           i == k.at
           F == MarksOf(p)[k.part]
<1>1. /\ p \in Progs /\ k.part \in Parts /\ i \in Nat \ {0} /\ i <= Len(q)
      /\ k2 \in CallRecord /\ k2.prog = p /\ k2.part = k.part /\ k2.at = i + 1
      /\ k2.gen = k.gen /\ k2.owner = k.owner
  BY DEF CallRecord, Under
<1>2. Len(q) \in Nat /\ i \in 1..Len(q) /\ Marked(p, MarksOf(p)) /\ PairsLocks(p)
  BY <1>1, ProgramFacts
<1>3. LookedAt(q, F)
  BY <1>1, <1>2 DEF Marked
<1>4. /\ (i + 1) \in F => q[i].op \in LookOps \/ (i \in F /\ q[i].op \notin PauseOps)
      /\ q[i].op = "show" /\ q[i].sink \in Watched => i \in F
      /\ q[i].op = "lock" => i \in F
  BY <1>2, <1>3 DEF LookedAt
<1>5. Op(k) = q[i].op /\ (Fresh(k) <=> i \in F /\ q[i].op \notin PauseOps)
  BY <1>1 DEF Op, Fresh, Under
<1>6. Fresh(k2) => (i + 1) \in F
  BY <1>1 DEF Fresh
<1>7. /\ q[i].op = "lock" => k.part = "pre" /\ q[i].scan \in Scans
      /\ q[i].op = "unlock" =>
             /\ k.part = "fin" /\ Locks(p, q[i].scan)
             /\ \A j \in 1..(i - 1) : p.fin[j].op = "unlock" => p.fin[j].scan # q[i].scan
  BY <1>1, <1>2 DEF PairsLocks
<1>8. ASSUME NEW s \in Scans, Holds(k2, s), ~Holds(k, s)
      PROVE  q[i].op = "lock" /\ q[i].scan = s
  <2>1. Locks(p, s)
    BY <1>1, <1>8 DEF Holds
  <2>2. CASE k.part = "pre"
    <3>1. PICK j \in 1..Len(p.pre) : j < i + 1 /\ p.pre[j].op = "lock" /\ p.pre[j].scan = s
      BY <1>1, <1>8, <2>2 DEF Holds
    <3>2. ~(j < i)
      BY <1>8, <2>1, <2>2, <3>1 DEF Holds
    <3>3. j = i /\ q = p.pre
      BY <1>1, <1>2, <2>2, <3>1, <3>2
    <3> QED BY <3>1, <3>3
  <2>3. CASE k.part = "fin"
    <3>1. \A j \in 1..Len(p.fin) : j < i + 1 /\ p.fin[j].op = "unlock" => p.fin[j].scan # s
      BY <1>1, <1>8, <2>3 DEF Holds
    <3>2. \A j \in 1..Len(p.fin) : j < i => j < i + 1
      BY <1>1, <1>2, <2>3
    <3>3. Holds(k, s)
      BY <2>1, <2>3, <3>1, <3>2 DEF Holds
    <3> QED BY <1>8, <3>3
  <2>4. CASE k.part \notin {"pre", "fin"}
    BY <1>1, <1>8, <2>1, <2>4 DEF Holds
  <2> QED BY <2>2, <2>3, <2>4
<1>9. ASSUME q[i].op = "unlock" PROVE Holds(k, q[i].scan) /\ ~Holds(k2, q[i].scan)
  <2>1. /\ k.part = "fin" /\ Locks(p, q[i].scan) /\ q = p.fin
        /\ \A j \in 1..(i - 1) : p.fin[j].op = "unlock" => p.fin[j].scan # q[i].scan
    BY <1>7, <1>9
  <2>2. \A j \in 1..Len(p.fin) : j < i => j \in 1..(i - 1)
    BY <1>1, <1>2, <2>1
  <2>3. i \in 1..Len(p.fin) /\ i < i + 1
    BY <1>1, <1>2, <2>1
  <2>4. Holds(k, q[i].scan)
    BY <2>1, <2>2 DEF Holds
  <2>5. ~Holds(k2, q[i].scan)
    BY <1>1, <1>9, <2>1, <2>3 DEF Holds
  <2> QED BY <2>4, <2>5
<1>11. InBounds(k2)
  BY <1>1, <1>2 DEF InBounds
<1>10. i \in F /\ q[i].op \in {"lock", "show"} => Fresh(k)
  BY <1>5 DEF PauseOps
<1> HIDE DEF F
<1> QED BY <1>1, <1>4, <1>5, <1>6, <1>7, <1>8, <1>9, <1>10, <1>11

(* A jump back, which no finally has.                                      *)
LEMMA Repeating ==
  ASSUME LooksFirst, NEW k \in CallRecord, k.part # "done", Under(k), Op(k) = "again",
         NEW k2, k2 = [k EXCEPT !.at = k.prog[k.part][k.at].to]
  PROVE  /\ k2 \in CallRecord /\ k2.gen = k.gen /\ k2.owner = k.owner /\ InBounds(k2)
         /\ Fresh(k2) => Fresh(k)
         /\ \A s \in Scans : Holds(k2, s) => Holds(k, s)
<1> DEFINE p == k.prog
           q == k.prog[k.part]
           i == k.at
           F == MarksOf(p)[k.part]
<1>1. /\ p \in Progs /\ k.part \in Parts /\ i \in Nat \ {0} /\ i <= Len(q) /\ q[i].op = "again"
  BY DEF CallRecord, Under, Op
<1>2. Len(q) \in Nat /\ i \in 1..Len(q) /\ Marked(p, MarksOf(p)) /\ PairsLocks(p)
  BY <1>1, ProgramFacts
<1>3. LookedAt(q, F)
  BY <1>1, <1>2 DEF Marked
<1>4. q[i].to \in 1..i /\ i \in F
  BY <1>1, <1>2, <1>3 DEF LookedAt
<1>5. k.part # "fin"
  BY <1>1, <1>2 DEF PairsLocks
<1>6. /\ k2 \in CallRecord /\ k2.prog = p /\ k2.part = k.part /\ k2.at = q[i].to
      /\ k2.gen = k.gen /\ k2.owner = k.owner
  <2>1. q[i].to \in Nat \ {0}
    BY <1>1, <1>4
  <2> QED BY <2>1 DEF CallRecord
<1>7. Fresh(k2) => k2.at \in F
  BY <1>6 DEF Fresh
<1>10. InBounds(k2)
  BY <1>1, <1>2, <1>4, <1>6 DEF InBounds
<1>8. i \in F => Fresh(k)
  BY <1>1 DEF Fresh, Under, Op, PauseOps
<1>9. ASSUME NEW s \in Scans, Holds(k2, s) PROVE Holds(k, s)
  <2>1. CASE k.part = "pre"
    <3>1. PICK j \in 1..Len(p.pre) : j < k2.at /\ p.pre[j].op = "lock" /\ p.pre[j].scan = s
      BY <1>6, <1>9, <2>1 DEF Holds
    <3>2. j < i
      BY <1>1, <1>2, <1>4, <1>6, <2>1, <3>1
    <3> QED BY <1>6, <1>9, <2>1, <3>1, <3>2 DEF Holds
  <2>2. CASE k.part # "pre"
    BY <1>5, <1>6, <1>9, <2>2 DEF Holds
  <2> QED BY <2>1, <2>2
<1> HIDE DEF F
<1> QED BY <1>4, <1>6, <1>7, <1>8, <1>9, <1>10

LEMMA IdleIs ==
  /\ IdleHandler \in CallRecord /\ IdleHandler.part = "done" /\ IdleHandler.gen = 0
  /\ InBounds(IdleHandler)
  /\ IdleHandler.owner = Nobody /\ ~Fresh(IdleHandler)
  /\ \A s \in Scans : ~Holds(IdleHandler, s)
<1>1. IdleHandler \in CallRecord
  BY DEF IdleHandler, CallRecord, Progs, Nobody
<1> QED BY <1>1 DEF IdleHandler, Fresh, Holds, InBounds

(* Where a call goes that runs no step: nowhere it has looked, and with no *)
(* more locks.                                                             *)
Stands(k, k2) ==
  /\ k2 \in CallRecord /\ InBounds(k2)
  /\ k2 = IdleHandler \/ (k2.gen = k.gen /\ k2.owner = k.owner)
  /\ \A s \in Scans : Holds(k2, s) => Holds(k, s)

LEMMA Leaving ==
  ASSUME LooksFirst, NEW k \in CallRecord, k.part # "done", NEW k2,
         k2 = IF k.part \in {"body", "caught"}
              THEN [k EXCEPT !.part = "fin", !.at = 1, !.leaving = TRUE]
              ELSE IdleHandler
  PROVE  Stands(k, k2) /\ ~Fresh(k2)
<1>1. CASE k.part \in {"body", "caught"}
  <2>1. /\ k2 \in CallRecord /\ k2.prog = k.prog /\ k2.part = "fin" /\ k2.at = 1
        /\ k2.gen = k.gen /\ k2.owner = k.owner /\ k.prog \in Progs
    BY <1>1, Entering DEF CallRecord, PartNames
  <2>2. ~Fresh(k2)
    BY <2>1, ProgramFacts DEF Fresh, Marked
  <2>3. \A s \in Scans : Holds(k2, s) => Holds(k, s)
    BY <1>1, <2>1 DEF Holds
  <2>4. InBounds(k2)
    BY <2>1, ProgramFacts, PartsAre DEF InBounds, PartNames
  <2> QED BY <2>1, <2>2, <2>3, <2>4 DEF Stands
<1>2. CASE k.part \notin {"body", "caught"}
  BY <1>2, IdleIs DEF Stands
<1> QED BY <1>1, <1>2

LEMMA Catching ==
  ASSUME LooksFirst, NEW k \in CallRecord, k.part = "body", NEW k2,
         k2 = [k EXCEPT !.part = "caught", !.at = 1]
  PROVE  Stands(k, k2) /\ ~Fresh(k2)
<1>1. /\ k2 \in CallRecord /\ k2.prog = k.prog /\ k2.part = "caught" /\ k2.at = 1
      /\ k2.gen = k.gen /\ k2.owner = k.owner /\ k.prog \in Progs
  BY Entering DEF CallRecord, PartNames
<1>2. ~Fresh(k2)
  BY <1>1, ProgramFacts DEF Fresh, Marked
<1>3. \A s \in Scans : Holds(k2, s) => Holds(k, s)
  BY <1>1 DEF Holds
<1>4. InBounds(k2)
  BY <1>1, ProgramFacts, PartsAre DEF InBounds, PartNames
<1> QED BY <1>1, <1>2, <1>3, <1>4 DEF Stands

LEMMA Passing ==
  ASSUME LooksFirst, NEW k \in CallRecord, k.part # "done", ~Under(k), InBounds(k), NEW k2,
         k2 = CASE k.part = "pre" -> [k EXCEPT !.part = "body", !.at = 1]
                [] k.part \in {"body", "caught"} -> [k EXCEPT !.part = "fin", !.at = 1]
                [] k.part = "fin" /\ ~k.leaving -> [k EXCEPT !.part = "post", !.at = 1]
                [] OTHER -> IdleHandler
  PROVE  Stands(k, k2) /\ (Fresh(k2) => Fresh(k))
<1> DEFINE F == MarksOf(k.prog)
<1>1. /\ k.prog \in Progs /\ k.at \in Nat \ {0} /\ k.part \in PartNames
      /\ Len(k.prog[k.part]) \in Nat /\ k.at = Len(k.prog[k.part]) + 1
      /\ F \in Marks /\ Marked(k.prog, F)
  BY ProgramFacts, PartsAre DEF CallRecord, PartNames, Under, InBounds
<1> HIDE DEF F
<1>2. CASE k.part = "pre"
  <2>5. k2 = [k EXCEPT !.part = "body", !.at = 1]
    BY <1>2
  <2>6. "body" \in Parts \cup {"done"} /\ 1 \in Nat \ {0}
    BY PartsAre DEF PartNames
  <2>1. /\ k2 \in CallRecord /\ k2.prog = k.prog /\ k2.part = "body" /\ k2.at = 1
        /\ k2.gen = k.gen /\ k2.owner = k.owner
    BY <2>5, <2>6 DEF CallRecord
  <2>2. Fresh(k2) => k.at \in F["pre"]
    BY <1>1, <1>2, <2>1 DEF Fresh, Marked, F
  <2>3. Fresh(k2) => Fresh(k)
    BY <1>2, <2>2 DEF Fresh, F
  <2>4. \A s \in Scans : Holds(k2, s) => Holds(k, s)
    <3> SUFFICES ASSUME NEW s \in Scans, Holds(k2, s) PROVE Holds(k, s)
      OBVIOUS
    <3>3. Locks(k.prog, s)
      BY <2>1 DEF Holds
    <3>1. PICK j \in 1..Len(k.prog.pre) : k.prog.pre[j].op = "lock" /\ k.prog.pre[j].scan = s
      BY <3>3 DEF Locks
    <3>2. j < k.at
      BY <1>1, <1>2, <3>1
    <3> QED BY <1>2, <3>1, <3>2, <3>3 DEF Holds
  <2> QED BY <1>1, <1>2, <2>1, <2>3, <2>4 DEF Stands, InBounds
<1>3. CASE k.part \in {"body", "caught"}
  <2>5. k2 = [k EXCEPT !.part = "fin", !.at = 1]
    BY <1>3
  <2>6. "fin" \in Parts \cup {"done"} /\ 1 \in Nat \ {0}
    BY PartsAre DEF PartNames
  <2>1. /\ k2 \in CallRecord /\ k2.prog = k.prog /\ k2.part = "fin" /\ k2.at = 1
        /\ k2.gen = k.gen /\ k2.owner = k.owner
    BY <2>5, <2>6 DEF CallRecord
  <2>2. ~Fresh(k2)
    BY <1>1, <2>1 DEF Fresh, Marked, F
  <2>3. \A s \in Scans : Holds(k2, s) => Holds(k, s)
    BY <1>3, <2>1 DEF Holds
  <2>4. InBounds(k2)
    BY <1>1, <2>1, ProgramFacts, PartsAre DEF InBounds, PartNames
  <2> QED BY <2>1, <2>2, <2>3, <2>4 DEF Stands
<1>4. CASE k.part = "fin" /\ ~k.leaving
  <2>5. k2 = [k EXCEPT !.part = "post", !.at = 1]
    BY <1>4
  <2>6. "post" \in Parts \cup {"done"} /\ 1 \in Nat \ {0}
    BY PartsAre DEF PartNames
  <2>1. /\ k2 \in CallRecord /\ k2.prog = k.prog /\ k2.part = "post" /\ k2.at = 1
        /\ k2.gen = k.gen /\ k2.owner = k.owner
    BY <2>5, <2>6 DEF CallRecord
  <2>2. ~Fresh(k2)
    BY <1>1, <2>1 DEF Fresh, Marked, F
  <2>3. \A s \in Scans : ~Holds(k2, s)
    BY <2>1 DEF Holds
  <2>4. InBounds(k2)
    BY <1>1, <2>1, ProgramFacts, PartsAre DEF InBounds, PartNames
  <2> QED BY <2>1, <2>2, <2>3, <2>4 DEF Stands
<1>5. CASE k.part = "post" \/ (k.part = "fin" /\ k.leaving)
  <2>1. k2 = IdleHandler
    BY <1>5 DEF CallRecord
  <2> QED BY <2>1, IdleIs DEF Stands
<1> QED BY <1>1, <1>2, <1>3, <1>4, <1>5 DEF PartNames, CallRecord

-----------------------------------------------------------------------------
(* A step of one call that begins and ends no scan.                        *)
LEMMA QuietMove ==
  ASSUME LegacyInv, NEW c \in HandlerCalls, NEW k2, Stands(calls[c], k2),
         Fresh(k2) => calls[c].gen = generation /\ k2 # IdleHandler,
         calls' = [calls EXCEPT ![c] = k2],
         UNCHANGED <<watch, scanning, sessionVars>>, LoggedOutIsClean'
  PROVE  LegacyInv'
<1> USE DEF sessionVars
<1>1. /\ calls \in [HandlerCalls -> CallRecord] /\ k2 \in CallRecord
      /\ calls'[c] = k2 /\ \A d \in HandlerCalls \ {c} : calls'[d] = calls[d]
      /\ calls' \in [HandlerCalls -> CallRecord]
  BY DEF LegacyInv, PageTypeOK, Stands
<1>2. PageTypeOK'
  BY <1>1 DEF LegacyInv, PageTypeOK
<1>3. /\ k2.gen = calls[c].gen /\ k2.owner = calls[c].owner
      \/ k2 = IdleHandler
  BY DEF Stands
<1>4. OfItsLogin(k2)' /\ KeepsLocks(k2)'
  <2>1. CASE k2 = IdleHandler
    <3>1. generation \in Nat
      BY DEF LegacyInv, PageTypeOK
    <3> QED BY <2>1, <3>1, IdleIs DEF OfItsLogin, KeepsLocks, Stands
  <2>2. CASE k2.gen = calls[c].gen /\ k2.owner = calls[c].owner
    <3>1. OfItsLogin(calls[c]) /\ KeepsLocks(calls[c])
      BY DEF LegacyInv
    <3>2. OfItsLogin(k2)'
      BY <2>2, <3>1 DEF OfItsLogin, Stands
    <3>3. KeepsLocks(k2)'
      BY <2>2, <3>1 DEF KeepsLocks, Stands
    <3> QED BY <3>2, <3>3
  <2> QED BY <1>3, <2>1, <2>2
<1>5. \A d \in HandlerCalls : (OfItsLogin(calls[d]) /\ KeepsLocks(calls[d]))'
  <2>1. \A d \in HandlerCalls : OfItsLogin(calls[d]) /\ KeepsLocks(calls[d])
    BY DEF LegacyInv
  <2>2. ASSUME NEW d \in HandlerCalls \ {c} PROVE (OfItsLogin(calls[d]) /\ KeepsLocks(calls[d]))'
    BY <1>1, <2>1 DEF OfItsLogin, KeepsLocks
  <2>3. (OfItsLogin(calls[c]) /\ KeepsLocks(calls[c]))'
    BY <1>1, <1>4 DEF OfItsLogin, KeepsLocks
  <2> QED BY <2>2, <2>3
<1>6. LocksApart'
  <2>1. \A d \in HandlerCalls, s \in Scans : Holds(calls'[d], s) =>
          Holds(calls[d], s) /\ calls'[d].gen = calls[d].gen
    BY <1>1, <1>3, IdleIs DEF Stands
  <2> QED BY <2>1 DEF LegacyInv, LocksApart
<1> QED BY <1>2, <1>5, <1>6 DEF LegacyInv

LEMMA Inner ==
  ASSUME LegacyInv, NEW c \in HandlerCalls
  PROVE  /\ calls[c] \in CallRecord /\ OfItsLogin(calls[c]) /\ KeepsLocks(calls[c])
         /\ InBounds(calls[c])
         /\ HandlerEnded(c) <=> calls[c].part = "done"
         /\ Inside(c) <=> calls[c].part # "done" /\ Under(calls[c])
         /\ ThisCall(c).op = Op(calls[c])
         /\ ThisCall(c) = calls[c].prog[calls[c].part][calls[c].at]
BY DEF LegacyInv, PageTypeOK, OfItsLogin, HandlerEnded, Inside, Under, ThisCall, Op

LEMMA AdvanceKeeps ==
  ASSUME LooksFirst, LegacyInv, NEW c \in HandlerCalls, Inside(c), HandlerAdvances(c),
         ThisCall(c).op \notin {"lock", "unlock"}, ThisCall(c).op \in LookOps => IsCurrent(c),
         UNCHANGED <<watch, scanning, sessionVars>>, LoggedOutIsClean'
  PROVE  LegacyInv'
<1> DEFINE k == calls[c]
           k2 == [k EXCEPT !.at = k.at + 1]
<1>1. k \in CallRecord /\ k.part # "done" /\ Under(k) /\ ThisCall(c).op = Op(k) /\ OfItsLogin(k)
  BY Inner
<1>2. /\ k2 \in CallRecord /\ k2.gen = k.gen /\ k2.owner = k.owner /\ InBounds(k2)
      /\ Fresh(k2) => Op(k) \in LookOps \/ Fresh(k)
      /\ \A s \in Scans : Holds(k2, s) => Holds(k, s)
  BY <1>1, Advancing
<1>3. k2 # IdleHandler
  BY <1>1 DEF CallRecord, IdleHandler
<1>4. calls' = [calls EXCEPT ![c] = k2]
  BY DEF HandlerAdvances, Step
<1>5. Fresh(k2) => k.gen = generation
  BY <1>1, <1>2 DEF OfItsLogin, IsCurrent
<1>6. Stands(k, k2)
  BY <1>2 DEF Stands
<1> HIDE DEF k2
<1> QED BY <1>3, <1>4, <1>5, <1>6, QuietMove

LEMMA StandKeeps ==
  ASSUME LooksFirst, LegacyInv, NEW c \in HandlerCalls, NEW k2,
         Stands(calls[c], k2), Fresh(k2) => Fresh(calls[c]),
         calls' = [calls EXCEPT ![c] = k2],
         UNCHANGED <<watch, scanning, sessionVars>>, LoggedOutIsClean'
  PROVE  LegacyInv'
<1>1. Fresh(k2) => calls[c].gen = generation /\ k2 # IdleHandler
  BY Inner, IdleIs DEF OfItsLogin
<1> QED BY <1>1, QuietMove

LEMMA LeaveKeeps ==
  ASSUME LooksFirst, LegacyInv, NEW c \in HandlerCalls, Inside(c), Leave(c),
         UNCHANGED <<watch, scanning, sessionVars>>, LoggedOutIsClean'
  PROVE  LegacyInv'
<1> DEFINE k == calls[c]
           k2 == IF k.part \in {"body", "caught"}
                 THEN [k EXCEPT !.part = "fin", !.at = 1, !.leaving = TRUE]
                 ELSE IdleHandler
<1>1. k \in CallRecord /\ k.part # "done"
  BY Inner
<1>2. Stands(k, k2) /\ ~Fresh(k2)
  BY <1>1, Leaving
<1>3. calls' = [calls EXCEPT ![c] = k2]
  BY DEF Leave
<1> HIDE DEF k2
<1> QED BY <1>2, <1>3, StandKeeps

LEMMA ThrowKeeps ==
  ASSUME LooksFirst, LegacyInv, NEW c \in HandlerCalls, Inside(c), HandlerThrows(c),
         UNCHANGED <<watch, scanning, sessionVars>>, LoggedOutIsClean'
  PROVE  LegacyInv'
<1>1. CASE calls[c].part = "body"
  <2> DEFINE k2 == [calls[c] EXCEPT !.part = "caught", !.at = 1]
  <2>1. Stands(calls[c], k2) /\ ~Fresh(k2)
    BY <1>1, Inner, Catching
  <2>2. calls' = [calls EXCEPT ![c] = k2]
    BY <1>1 DEF HandlerThrows
  <2> HIDE DEF k2
  <2> QED BY <2>1, <2>2, StandKeeps
<1>2. CASE calls[c].part # "body"
  BY <1>2, LeaveKeeps DEF HandlerThrows
<1> QED BY <1>1, <1>2

LEMMA PassKeeps ==
  ASSUME LooksFirst, LegacyInv, NEW c \in HandlerCalls, NextHandlerPart(c)
  PROVE  LegacyInv'
<1> DEFINE k == calls[c]
           k2 == CASE k.part = "pre" -> [k EXCEPT !.part = "body", !.at = 1]
                   [] k.part \in {"body", "caught"} -> [k EXCEPT !.part = "fin", !.at = 1]
                   [] k.part = "fin" /\ ~k.leaving -> [k EXCEPT !.part = "post", !.at = 1]
                   [] OTHER -> IdleHandler
<1>1. k \in CallRecord /\ k.part # "done" /\ ~Under(k) /\ InBounds(k)
  BY Inner DEF NextHandlerPart
<1>2. Stands(k, k2) /\ (Fresh(k2) => Fresh(k))
  BY <1>1, Passing
<1>3. calls' = [calls EXCEPT ![c] = k2] /\ UNCHANGED <<watch, scanning, sessionVars, holds>>
  BY DEF NextHandlerPart, Untouched
<1> HIDE DEF k2
<1>4. LoggedOutIsClean'
  BY <1>3 DEF LegacyInv, LoggedOutIsClean, sessionVars
<1> QED BY <1>2, <1>3, <1>4, StandKeeps

LEMMA UntouchedIs ==
  ASSUME LegacyInv, Untouched
  PROVE  UNCHANGED <<watch, scanning, sessionVars>> /\ LoggedOutIsClean'
BY DEF LegacyInv, LoggedOutIsClean, sessionVars, Untouched

LEMMA QuietSteps ==
  ASSUME LooksFirst, LegacyInv, NEW c \in HandlerCalls,
         Continues(c) \/ Returns(c) \/ Answered(c) \/ Fails(c) \/ ScanRefused(c)
  PROVE  LegacyInv'
<1>1. CASE Continues(c)
  <2>1. /\ Inside(c) /\ HandlerAdvances(c) /\ Untouched
        /\ ThisCall(c).op \in Looks \cup Demands \cup {"risky"}
    BY <1>1 DEF Continues, Runs
  <2>2. ThisCall(c).op \in LookOps => IsCurrent(c)
    BY <1>1 DEF Continues, Passes, LookOps
  <2>3. ThisCall(c).op \notin {"lock", "unlock"}
    BY <2>1 DEF Looks, Demands
  <2> QED BY <2>1, <2>2, <2>3, UntouchedIs, AdvanceKeeps
<1>2. CASE Returns(c) \/ ScanRefused(c)
  BY <1>2, UntouchedIs, LeaveKeeps DEF Returns, ScanRefused, Runs
<1>3. CASE Answered(c)
  <2>1. Inside(c) /\ HandlerAdvances(c) /\ Untouched /\ ThisCall(c).op \in {"wait", "sleep"}
    BY <1>3 DEF Answered, Runs
  <2>2. ThisCall(c).op \notin LookOps \cup {"lock", "unlock"}
    BY <2>1 DEF LookOps
  <2> QED BY <2>1, <2>2, UntouchedIs, AdvanceKeeps
<1>4. CASE Fails(c)
  BY <1>4, UntouchedIs, ThrowKeeps DEF Fails, Runs
<1> QED BY <1>1, <1>2, <1>3, <1>4

LEMMA UndoneKeeps ==
  ASSUME LooksFirst, LegacyInv, NEW c \in HandlerCalls, Undone(c)
  PROVE  LegacyInv'
<1>1. /\ Inside(c) /\ Leave(c) /\ UNCHANGED <<watch, scanning, sessionVars>>
      /\ holds' \in {Nobody, holds}
  BY DEF Undone, Runs
<1>2. LoggedOutIsClean'
  BY <1>1 DEF LegacyInv, LoggedOutIsClean, sessionVars
<1> QED BY <1>1, <1>2, LeaveKeeps

(* What is shown is of the login there is, or of nobody.                   *)
LEMMA WritesItsLogin ==
  ASSUME LooksFirst, LegacyInv, NEW c \in HandlerCalls, Writes(c)
  PROVE  holds' \in {holds, Nobody, session}
<1>1. /\ Inside(c) /\ ThisCall(c).op \in {"show", "now", "clear"}
      /\ holds' = IF ThisCall(c).sink # watch THEN holds
                  ELSE CASE ThisCall(c).op = "show" -> calls[c].owner
                         [] ThisCall(c).op = "now" -> session
                         [] OTHER -> Nobody
  BY DEF Writes, Runs
<1>2. CASE ThisCall(c).sink = watch /\ ThisCall(c).op = "show"
  <2> DEFINE k == calls[c]
             k2 == [k EXCEPT !.at = k.at + 1]
  <2>1. k \in CallRecord /\ k.part # "done" /\ Under(k) /\ OfItsLogin(k)
    BY <1>1, Inner
  <2>2. Op(k) = "show" /\ k.prog[k.part][k.at].sink \in Watched
    BY <1>2, Inner DEF LegacyInv, PageTypeOK
  <2>3. Fresh(k)
    BY <2>1, <2>2, Advancing
  <2>4. k.owner \in {Nobody, session}
    BY <2>1, <2>3 DEF OfItsLogin
  <2> QED BY <1>1, <1>2, <2>4
<1> QED BY <1>1, <1>2

LEMMA WritesKeeps ==
  ASSUME LooksFirst, LegacyInv, NEW c \in HandlerCalls, Writes(c)
  PROVE  LegacyInv'
<1>1. /\ Inside(c) /\ HandlerAdvances(c) /\ UNCHANGED <<watch, scanning, sessionVars>>
      /\ ThisCall(c).op \in {"show", "now", "clear"}
  BY DEF Writes, Runs
<1>2. LoggedOutIsClean'
  BY <1>1, WritesItsLogin DEF LegacyInv, LoggedOutIsClean, sessionVars
<1>3. ThisCall(c).op \notin LookOps \cup {"lock", "unlock"}
  BY <1>1 DEF LookOps
<1> QED BY <1>1, <1>2, <1>3, AdvanceKeeps

LEMMA RepeatsKeeps ==
  ASSUME LooksFirst, LegacyInv, NEW c \in HandlerCalls, Repeats(c)
  PROVE  LegacyInv'
<1>1. PICK next \in {ThisCall(c).to, calls[c].at + 1} : Step(c, next)
  BY DEF Repeats
<1>2. Inside(c) /\ ThisCall(c).op = "again" /\ Untouched
  BY DEF Repeats, Runs
<1>3. CASE next = calls[c].at + 1
  <2>1. HandlerAdvances(c)
    BY <1>1, <1>3 DEF HandlerAdvances
  <2>2. ThisCall(c).op \notin LookOps \cup {"lock", "unlock"}
    BY <1>2 DEF LookOps
  <2> QED BY <1>2, <2>1, <2>2, UntouchedIs, AdvanceKeeps
<1>4. CASE next = ThisCall(c).to
  <2> DEFINE k == calls[c]
             k2 == [k EXCEPT !.at = k.prog[k.part][k.at].to]
  <2>1. k \in CallRecord /\ k.part # "done" /\ Under(k) /\ Op(k) = "again"
    BY <1>2, Inner
  <2>2. /\ k2 \in CallRecord /\ k2.gen = k.gen /\ k2.owner = k.owner /\ InBounds(k2)
        /\ Fresh(k2) => Fresh(k)
        /\ \A s \in Scans : Holds(k2, s) => Holds(k, s)
    BY <2>1, Repeating
  <2>3. calls' = [calls EXCEPT ![c] = k2]
    BY <1>1, <1>4, Inner DEF Step
  <2>4. Stands(k, k2)
    BY <2>2 DEF Stands
  <2> HIDE DEF k2
  <2> QED BY <1>2, <2>2, <2>3, <2>4, UntouchedIs, StandKeeps
<1> QED BY <1>1, <1>3, <1>4

LEMMA LockKeeps ==
  ASSUME LooksFirst, LegacyInv, NEW c \in HandlerCalls, ScanStarts(c)
  PROVE  LegacyInv'
<1> DEFINE k == calls[c]
           k2 == [k EXCEPT !.at = k.at + 1]
           kind == ThisCall(c).scan
<1>1. /\ Inside(c) /\ ThisCall(c).op = "lock" /\ HandlerAdvances(c)
      /\ scanning[kind] # k.gen /\ scanning' = [scanning EXCEPT ![kind] = k.gen]
      /\ UNCHANGED <<watch, holds, stored, sessionVars>>
  BY DEF ScanStarts, Runs
<1>2. k \in CallRecord /\ k.part # "done" /\ Under(k) /\ Op(k) = "lock" /\ OfItsLogin(k)
  BY <1>1, Inner
<1>3. /\ k2 \in CallRecord /\ k2.gen = k.gen /\ k2.owner = k.owner /\ InBounds(k2)
      /\ Fresh(k) /\ kind \in Scans
      /\ \A s \in Scans : Holds(k2, s) => Holds(k, s) \/ kind = s
  BY <1>1, <1>2, Inner, Advancing
<1>4. k.gen = generation
  BY <1>2, <1>3 DEF OfItsLogin
<1>5. /\ calls' = [calls EXCEPT ![c] = k2]
  BY <1>1 DEF HandlerAdvances, Step
<1> HIDE DEF k2, kind
<1>6. /\ calls \in [HandlerCalls -> CallRecord] /\ scanning \in [Scans -> Int] /\ generation \in Nat
      /\ calls'[c] = k2 /\ \A d \in HandlerCalls \ {c} : calls'[d] = calls[d]
      /\ calls' \in [HandlerCalls -> CallRecord]
  BY <1>3, <1>5 DEF LegacyInv, PageTypeOK
<1>7. /\ scanning' \in [Scans -> Int] /\ scanning'[kind] = generation
      /\ \A s \in Scans \ {kind} : scanning'[s] = scanning[s]
  BY <1>1, <1>3, <1>4, <1>6
<1>8. PageTypeOK' /\ LoggedOutIsClean'
  BY <1>1, <1>6, <1>7 DEF LegacyInv, PageTypeOK, LoggedOutIsClean, sessionVars
<1>9. ASSUME NEW d \in HandlerCalls PROVE OfItsLogin(calls[d])' /\ KeepsLocks(calls[d])'
  <2>1. OfItsLogin(calls[d]) /\ KeepsLocks(calls[d])
    BY DEF LegacyInv
  <2>2. generation' = generation /\ session' = session
    BY <1>1 DEF sessionVars
  <2>3. CASE d # c
    BY <1>6, <1>7, <2>1, <2>2, <2>3 DEF OfItsLogin, KeepsLocks
  <2>4. CASE d = c
    <3>1. OfItsLogin(calls[d])'
      BY <1>2, <1>3, <1>4, <1>6, <2>2, <2>4 DEF OfItsLogin
    <3>2. KeepsLocks(calls[d])'
      BY <1>3, <1>6, <1>7, <2>1, <2>2, <2>4 DEF KeepsLocks
    <3> QED BY <3>1, <3>2
  <2> QED BY <2>3, <2>4
<1>10. ASSUME NEW d \in HandlerCalls \ {c}, NEW s \in Scans, Holds(k2, s), Holds(calls[d], s)
       PROVE  k2.gen # calls[d].gen
  <2>1. CASE Holds(k, s)
    BY <1>3, <1>10, <2>1 DEF LegacyInv, LocksApart
  <2>2. CASE s = kind
    BY <1>1, <1>3, <1>4, <1>10, <2>2 DEF LegacyInv, KeepsLocks
  <2> QED BY <1>3, <1>10, <2>1, <2>2
<1>11. LocksApart'
  <2> SUFFICES ASSUME NEW d \in HandlerCalls, NEW e \in HandlerCalls, NEW s \in Scans,
                      d # e, Holds(calls'[d], s), Holds(calls'[e], s)
               PROVE  calls'[d].gen # calls'[e].gen
    BY DEF LocksApart
  <2>1. CASE d = c \/ e = c
    BY <1>6, <1>10, <2>1
  <2>2. CASE d # c /\ e # c
    BY <1>6, <2>2 DEF LegacyInv, LocksApart
  <2> QED BY <2>1, <2>2
<1> QED BY <1>8, <1>9, <1>11 DEF LegacyInv

LEMMA UnlockKeeps ==
  ASSUME LooksFirst, LegacyInv, NEW c \in HandlerCalls, ScanEnds(c)
  PROVE  LegacyInv'
<1> DEFINE k == calls[c]
           k2 == [k EXCEPT !.at = k.at + 1]
           kind == ThisCall(c).scan
<1>1. /\ Inside(c) /\ ThisCall(c).op = "unlock" /\ HandlerAdvances(c)
      /\ scanning' = [scanning EXCEPT ![kind] = IF @ = k.gen THEN NoScan ELSE @]
      /\ UNCHANGED <<watch, holds, stored, sessionVars>>
  BY DEF ScanEnds, Runs
<1>2. k \in CallRecord /\ k.part # "done" /\ Under(k) /\ Op(k) = "unlock" /\ OfItsLogin(k)
  BY <1>1, Inner
<1>3. /\ k2 \in CallRecord /\ k2.gen = k.gen /\ k2.owner = k.owner /\ InBounds(k2)
      /\ Fresh(k2) => Fresh(k)
      /\ \A s \in Scans : Holds(k2, s) => Holds(k, s)
      /\ Holds(k, kind) /\ ~Holds(k2, kind)
  BY <1>1, <1>2, Inner, Advancing DEF LookOps
<1>5. /\ calls' = [calls EXCEPT ![c] = k2]
  BY <1>1 DEF HandlerAdvances, Step
<1> HIDE DEF k2, kind
<1>6. /\ calls \in [HandlerCalls -> CallRecord] /\ scanning \in [Scans -> Int]
      /\ calls'[c] = k2 /\ \A d \in HandlerCalls \ {c} : calls'[d] = calls[d]
      /\ calls' \in [HandlerCalls -> CallRecord]
  BY <1>3, <1>5 DEF LegacyInv, PageTypeOK
<1>7. /\ scanning' \in [Scans -> Int]
      /\ \A s \in Scans : scanning'[s] = scanning[s] \/ (s = kind /\ scanning[s] = k.gen)
  <2>1. NoScan \in Int
    BY DEF NoScan
  <2>2. CASE scanning[kind] = k.gen
    <3>1. scanning' = [scanning EXCEPT ![kind] = NoScan]
      BY <1>1, <2>2
    <3> QED BY <1>6, <2>1, <2>2, <3>1
  <2>3. CASE scanning[kind] # k.gen
    <3>1. scanning' = [scanning EXCEPT ![kind] = scanning[kind]]
      BY <1>1, <2>3
    <3>2. scanning' = scanning
      BY <1>6, <3>1
    <3> QED BY <1>6, <3>2
  <2> QED BY <2>2, <2>3
<1>8. PageTypeOK' /\ LoggedOutIsClean'
  BY <1>1, <1>6, <1>7 DEF LegacyInv, PageTypeOK, LoggedOutIsClean, sessionVars
<1>9. ASSUME NEW d \in HandlerCalls PROVE OfItsLogin(calls[d])' /\ KeepsLocks(calls[d])'
  <2>1. OfItsLogin(calls[d]) /\ KeepsLocks(calls[d])
    BY DEF LegacyInv
  <2>2. generation' = generation /\ session' = session
    BY <1>1 DEF sessionVars
  <2>3. CASE d # c
    <3>1. Holds(calls[d], kind) /\ kind \in Scans => calls[d].gen # k.gen
      BY <1>3, <2>3 DEF LegacyInv, LocksApart
    <3>2. KeepsLocks(calls[d])'
      BY <1>6, <1>7, <2>1, <2>2, <2>3, <3>1 DEF KeepsLocks
    <3>3. OfItsLogin(calls[d])'
      BY <1>6, <2>1, <2>2, <2>3 DEF OfItsLogin
    <3> QED BY <3>2, <3>3
  <2>4. CASE d = c
    <3>1. OfItsLogin(calls[d])'
      BY <1>2, <1>3, <1>6, <2>2, <2>4 DEF OfItsLogin
    <3>2. KeepsLocks(calls[d])'
      BY <1>3, <1>6, <1>7, <2>1, <2>2, <2>4 DEF KeepsLocks
    <3> QED BY <3>1, <3>2
  <2> QED BY <2>3, <2>4
<1>10. LocksApart'
  <2>1. \A d \in HandlerCalls, s \in Scans : Holds(calls'[d], s) =>
          Holds(calls[d], s) /\ calls'[d].gen = calls[d].gen
    BY <1>3, <1>6
  <2> QED BY <2>1 DEF LegacyInv, LocksApart
<1> QED BY <1>8, <1>9, <1>10 DEF LegacyInv

LEMMA StartKeeps ==
  ASSUME LooksFirst, LegacyInv, NEW c \in HandlerCalls, NEW p \in HandlerPrograms, Start(c, p)
  PROVE  LegacyInv'
<1> DEFINE k2 == [IdleHandler EXCEPT !.prog = p, !.part = "pre", !.gen = generation,
                                     !.owner = session]
<1>1. calls' = [calls EXCEPT ![c] = k2] /\ UNCHANGED <<watch, holds, stored, scanning, sessionVars>>
  BY DEF Start
<1>2. /\ k2 \in CallRecord /\ k2.prog = p /\ k2.part = "pre" /\ k2.at = 1
      /\ k2.gen = generation /\ k2.owner = session
  <2>1. p \in Progs /\ "pre" \in Parts /\ generation \in Nat /\ session \in Nat
    BY PartsAre DEF LegacyInv, PageTypeOK, Progs, PartNames
  <2>2. IdleHandler \in CallRecord /\ IdleHandler.at = 1
    BY IdleIs DEF IdleHandler
  <2> QED BY <2>1, <2>2 DEF CallRecord
<1> HIDE DEF k2
<1>3. InBounds(k2) /\ \A s \in Scans : ~Holds(k2, s)
  <2>1. Len(p["pre"]) \in Nat
    BY PartsAre, ProgramFacts DEF Progs, PartNames
  <2>2. InBounds(k2)
    BY <1>2, <2>1 DEF InBounds
  <2>3. \A j \in 1..Len(p.pre) : ~(j < 1)
    BY <2>1
  <2>4. \A s \in Scans : ~Holds(k2, s)
    BY <1>2, <2>3 DEF Holds
  <2> QED BY <2>2, <2>4
<1>4. /\ calls'[c] = k2 /\ \A d \in HandlerCalls \ {c} : calls'[d] = calls[d]
      /\ calls' \in [HandlerCalls -> CallRecord]
  BY <1>1, <1>2 DEF LegacyInv, PageTypeOK
<1>5. PageTypeOK' /\ LoggedOutIsClean'
  BY <1>1, <1>4 DEF LegacyInv, PageTypeOK, LoggedOutIsClean, sessionVars
<1>6. ASSUME NEW d \in HandlerCalls PROVE OfItsLogin(calls[d])' /\ KeepsLocks(calls[d])'
  <2>1. OfItsLogin(calls[d]) /\ KeepsLocks(calls[d])
    BY DEF LegacyInv
  <2>2. generation' = generation /\ session' = session /\ scanning' = scanning /\ generation \in Nat
    BY <1>1 DEF sessionVars, LegacyInv, PageTypeOK
  <2>3. CASE d # c
    BY <1>4, <2>1, <2>2, <2>3 DEF OfItsLogin, KeepsLocks
  <2>4. CASE d = c
    BY <1>2, <1>3, <1>4, <2>2, <2>4 DEF OfItsLogin, KeepsLocks
  <2> QED BY <2>3, <2>4
<1>7. LocksApart'
  BY <1>3, <1>4 DEF LegacyInv, LocksApart
<1> QED BY <1>5, <1>6, <1>7 DEF LegacyInv

(* A login or a logout finds every call waiting.                           *)
LEMMA SessionsKeep ==
  ASSUME LooksFirst, LegacyInv, Settled, calls' = calls, watch' = watch,
         session' \in Nat, logins' \in Nat, scanning' \in [Scans -> Int], LoggedOutIsClean',
         \/ generation' = generation + 1
         \/ generation' = generation /\ scanning' = scanning /\ session = Nobody
  PROVE  LegacyInv'
<1>1. PageTypeOK' /\ LocksApart'
  BY DEF LegacyInv, PageTypeOK, LocksApart
<1>2. ASSUME NEW c \in HandlerCalls PROVE OfItsLogin(calls[c])' /\ KeepsLocks(calls[c])'
  <2>1. /\ OfItsLogin(calls[c]) /\ KeepsLocks(calls[c]) /\ generation \in Nat
        /\ calls[c] \in CallRecord
    BY DEF LegacyInv, PageTypeOK
  <2>2. ~Fresh(calls[c])
    BY Inner DEF Settled, Parked, Waits, Fresh, PauseOps
  <2>3. calls[c].gen \in Nat
    BY <2>1 DEF CallRecord
  <2>4. CASE generation' = generation + 1
    BY <2>1, <2>2, <2>3, <2>4 DEF OfItsLogin, KeepsLocks
  <2>5. CASE generation' = generation /\ scanning' = scanning /\ session = Nobody
    BY <2>1, <2>2, <2>5 DEF OfItsLogin, KeepsLocks
  <2> QED BY <2>4, <2>5
<1> QED BY <1>1, <1>2 DEF LegacyInv

LEMMA LoginsKeep ==
  ASSUME LooksFirst, LegacyInv, Login \/ LoginExternal \/ Logout
  PROVE  LegacyInv'
<1>1. /\ logins \in Nat /\ session \in Nat /\ generation \in Nat /\ scanning \in [Scans -> Int]
      /\ watch \in Watched /\ LoggedOutIsClean
  BY DEF LegacyInv, PageTypeOK
<1>2. CASE Login
  <2>1. /\ session' \in Nat \ {0} /\ logins' \in Nat /\ scanning' \in [Scans -> Int]
        /\ generation' = generation + 1 /\ calls' = calls /\ watch' = watch /\ Settled
    <3>1. NoScan \in Int /\ scanning' = [scanning EXCEPT !["balances"] = NoScan]
      BY <1>2 DEF Login, NoScan
    <3>2. scanning' \in [Scans -> Int]
      BY <1>1, <3>1
    <3> QED BY <1>1, <1>2, <3>2 DEF Login
  <2>2. LoggedOutIsClean'
    BY <2>1 DEF LoggedOutIsClean, Nobody
  <2> QED BY <2>1, <2>2, SessionsKeep
<1>3. CASE LoginExternal
  <2>1. /\ session' \in Nat \ {0} /\ logins' \in Nat /\ scanning' = scanning
        /\ generation' = generation /\ calls' = calls /\ watch' = watch /\ Settled
        /\ session = Nobody
    BY <1>1, <1>3 DEF LoginExternal, LooksFirst
  <2>2. LoggedOutIsClean'
    BY <2>1 DEF LoggedOutIsClean, Nobody
  <2> QED BY <1>1, <2>1, <2>2, SessionsKeep
<1>4. CASE Logout
  <2>1. /\ session' \in Nat /\ logins' \in Nat /\ scanning' \in [Scans -> Int]
        /\ generation' = generation + 1 /\ calls' = calls /\ watch' = watch /\ Settled
        /\ holds' = IF watch \in LogoutClears THEN Nobody ELSE holds
    BY <1>1, <1>4 DEF Logout, NoScan, Nobody
  <2>2. watch \notin Outlives => watch \in LogoutClears
    BY <1>1 DEF LooksFirst
  <2>3. LoggedOutIsClean'
    BY <2>1, <2>2 DEF LoggedOutIsClean
  <2> QED BY <2>1, <2>3, SessionsKeep
<1> QED BY <1>2, <1>3, <1>4

LEMMA LegacyStep == LooksFirst /\ LegacyInv /\ [PageNext]_pageVars => LegacyInv'
<1> SUFFICES ASSUME LooksFirst, LegacyInv, [PageNext]_pageVars PROVE LegacyInv'
  OBVIOUS
<1>1. CASE Login \/ LoginExternal \/ Logout
  BY <1>1, LoginsKeep
<1>2. ASSUME NEW c \in HandlerCalls,
             \/ \E p \in HandlerPrograms : Start(c, p)
             \/ Continues(c) \/ Returns(c) \/ Undone(c)
             \/ Answered(c) \/ Fails(c)
             \/ Writes(c) \/ Repeats(c) \/ NextHandlerPart(c)
             \/ ScanStarts(c) \/ ScanRefused(c) \/ ScanEnds(c)
      PROVE  LegacyInv'
  BY <1>2, StartKeeps, QuietSteps, UndoneKeeps, WritesKeeps, RepeatsKeeps, PassKeeps, LockKeeps,
     UnlockKeeps
<1>3. CASE UNCHANGED pageVars
  BY <1>3 DEF pageVars, sessionVars, LegacyInv, PageTypeOK, OfItsLogin, KeepsLocks, LocksApart,
              LoggedOutIsClean
<1> QED BY <1>1, <1>2, <1>3 DEF PageNext

LEMMA LegacyInitially == ASSUME LooksFirst PROVE PageInit => LegacyInv
<1> SUFFICES ASSUME PageInit PROVE LegacyInv
  OBVIOUS
<1>1. /\ \A c \in HandlerCalls : calls[c] = IdleHandler
      /\ calls \in [HandlerCalls -> CallRecord]
  BY IdleIs DEF PageInit
<1>2. PageTypeOK /\ LoggedOutIsClean
  BY <1>1 DEF PageInit, PageTypeOK, NoScan, Nobody, LoggedOutIsClean
<1>3. \A c \in HandlerCalls : OfItsLogin(calls[c]) /\ KeepsLocks(calls[c])
  BY <1>1, IdleIs DEF PageInit, OfItsLogin, KeepsLocks
<1>4. LocksApart
  BY <1>1, IdleIs DEF LocksApart
<1> QED BY <1>2, <1>3, <1>4 DEF LegacyInv

LEMMA LegacyInvariant == ASSUME LooksFirst PROVE PageSpec => []LegacyInv
<1>1. PageInit => LegacyInv
  BY LegacyInitially
<1>2. LegacyInv /\ [PageNext]_pageVars => LegacyInv'
  BY LegacyStep
<1> QED BY <1>1, <1>2, PTL DEF PageSpec

LEMMA LoginsApart == LooksFirst /\ LegacyInv => LoginsAreSeparate
<1> SUFFICES ASSUME LooksFirst, LegacyInv PROVE LoginsAreSeparate
  OBVIOUS
<1>1. LogoutLeavesNothing
  BY DEF LegacyInv, LoggedOutIsClean, LogoutLeavesNothing
<1>2. ASSUME NEW c \in HandlerCalls, NEW s \in Scans, Scanning(c, s)
      PROVE  Holds(calls[c], s)
  <2>1. /\ calls[c] \in CallRecord /\ calls[c].part \in {"body", "caught"}
        /\ Lock(s) \in StepsOf(calls[c].prog)
    BY <1>2 DEF LegacyInv, PageTypeOK, Scanning
  <2>2. PICK part \in Parts :
          \E i \in 1..Len(calls[c].prog[part]) : calls[c].prog[part][i] = Lock(s)
    BY <2>1 DEF StepsOf
  <2>3. PICK i \in 1..Len(calls[c].prog[part]) : calls[c].prog[part][i] = Lock(s)
    BY <2>2
  <2>4. calls[c].prog[part][i].op = "lock" /\ calls[c].prog[part][i].scan = s
    BY <2>3 DEF Lock
  <2>5. calls[c].prog \in Progs
    BY <2>1 DEF CallRecord
  <2>6. PairsLocks(calls[c].prog)
    BY <2>5, ProgramFacts
  <2>7. part = "pre"
    BY <2>3, <2>4, <2>6 DEF PairsLocks
  <2>8. Locks(calls[c].prog, s)
    BY <2>3, <2>4, <2>7 DEF Locks
  <2> QED BY <2>1, <2>8 DEF Holds
<1>3. OneScanOfASession
  BY <1>2 DEF OneScanOfASession, LegacyInv, LocksApart
<1> QED BY <1>1, <1>3 DEF LoginsAreSeparate

LEMMA EndedWritesNothing ==
  ASSUME LooksFirst, LegacyInv, [PageNext]_pageVars, logins' = logins, holds' # holds
  PROVE  holds' \in {Nobody, session'}
<1>1. CASE Login \/ LoginExternal
  BY <1>1 DEF Login, LoginExternal, LegacyInv, PageTypeOK
<1>2. CASE Logout
  BY <1>2 DEF Logout
<1>3. ASSUME NEW c \in HandlerCalls, Writes(c) PROVE holds' \in {Nobody, session'}
  BY <1>3, WritesItsLogin DEF Writes, sessionVars
<1>4. ASSUME NEW c \in HandlerCalls, Undone(c) PROVE holds' \in {Nobody, session'}
  BY <1>4 DEF Undone
<1>5. ASSUME NEW c \in HandlerCalls,
             \/ \E p \in HandlerPrograms : Start(c, p)
             \/ Continues(c) \/ Returns(c) \/ Answered(c) \/ Fails(c)
             \/ Repeats(c) \/ NextHandlerPart(c)
             \/ ScanStarts(c) \/ ScanRefused(c) \/ ScanEnds(c)
      PROVE  holds' = holds
  BY <1>5 DEF Start, Continues, Returns, Answered, Fails, Repeats, NextHandlerPart, ScanStarts,
              ScanRefused, ScanEnds, Untouched
<1>6. CASE UNCHANGED pageVars
  BY <1>6 DEF pageVars
<1> QED BY <1>1, <1>2, <1>3, <1>4, <1>5, <1>6 DEF PageNext
-----------------------------------------------------------------------------
(***************************************************************************)
(* The handlers of the page look first.  A stretch of steps is gone        *)
(* through from a place where the session was looked at since the last     *)
(* wait, or was not, to another such place.                                *)
(***************************************************************************)
Linear(q) ==
  /\ q \in Seq({q[i] : i \in 1..Len(q)})
  /\ Len(q) \in Nat
  /\ \A i \in 1..Len(q) : q[i].op \notin {"lock", "unlock"}

Walks(q, a, b) ==
  /\ Linear(q)
  /\ \E F \in SUBSET Nat :
       /\ LookedAt(q, F)
       /\ 1 \in F => a = "looked"
       /\ b = "looked" => (Len(q) + 1) \in F

LEMMA OwnElements ==
  ASSUME NEW S, NEW q \in Seq(S)
  PROVE  q \in Seq({q[i] : i \in 1..Len(q)})
<1> DEFINE E == {q[i] : i \in 1..Len(q)}
<1>1. Len(q) \in Nat /\ q = [i \in 1..Len(q) |-> q[i]]
  OBVIOUS
<1>2. \A i \in 1..Len(q) : q[i] \in E
  OBVIOUS
<1> HIDE DEF E
<1>3. [i \in 1..Len(q) |-> q[i]] \in Seq(E)
  BY <1>1, <1>2, IsASeq
<1>4. q \in Seq(E)
  BY <1>1, <1>3
<1> QED BY <1>4 DEF E

LEMMA WalkOn ==
  ASSUME NEW q, NEW r, NEW a, NEW b, NEW c, Walks(q, a, b), Walks(r, b, c)
  PROVE  Walks(q \o r, a, c)
<1> DEFINE S == {q[i] : i \in 1..Len(q)}
           T == {r[i] : i \in 1..Len(r)}
           U == S \cup T
           n == Len(q)
           m == Len(r)
           t == q \o r
<1>3. q \in Seq(U) /\ r \in Seq(U)
  <2>1. q \in Seq(S) /\ r \in Seq(T)
    BY DEF Walks, Linear
  <2> HIDE DEF S, T
  <2> QED BY <2>1
<1>4. /\ t \in Seq(U) /\ Len(t) = n + m /\ n \in Nat /\ m \in Nat
      /\ \A i \in 1..(n + m) : t[i] = IF i <= n THEN q[i] ELSE r[i - n]
  BY <1>3, ConcatProperties
<1> HIDE DEF t, n, m, U
<1>5. \A i \in 1..Len(t) : \/ i \in 1..n /\ t[i] = q[i]
                           \/ i > n /\ (i - n) \in 1..m /\ t[i] = r[i - n]
  BY <1>4
<1>6. Linear(t)
  <2>1. t \in Seq({t[i] : i \in 1..Len(t)})
    BY <1>4, OwnElements
  <2>2. /\ \A i \in 1..n : q[i].op \notin {"lock", "unlock"}
        /\ \A i \in 1..m : r[i].op \notin {"lock", "unlock"}
    BY DEF Walks, Linear, n, m
  <2>3. \A i \in 1..Len(t) : t[i].op \notin {"lock", "unlock"}
    BY <1>5, <2>2
  <2>4. Len(t) \in Nat
    BY <1>4
  <2> QED BY <2>1, <2>3, <2>4 DEF Linear
<1>7. PICK F \in SUBSET Nat :
       /\ LookedAt(q, F)
       /\ 1 \in F => a = "looked"
       /\ b = "looked" => (n + 1) \in F
  BY DEF Walks, n
<1>8. PICK G \in SUBSET Nat :
       /\ LookedAt(r, G)
       /\ 1 \in G => b = "looked"
       /\ c = "looked" => (m + 1) \in G
  BY DEF Walks, m
<1> DEFINE H == {i \in Nat : (i \in F /\ i <= n) \/ (i > n /\ (i - n) \in G)}
<1>13. /\ H \in SUBSET Nat
       /\ \A x \in Nat : x \in H <=> (x \in F /\ x <= n) \/ (x > n /\ (x - n) \in G)
  OBVIOUS
<1> HIDE DEF H
<1>9. LookedAt(t, H)
  <2> SUFFICES ASSUME NEW i \in 1..Len(t)
               PROVE  /\ (i + 1) \in H =>
                           t[i].op \in LookOps \/ (i \in H /\ t[i].op \notin PauseOps)
                      /\ t[i].op = "show" /\ t[i].sink \in Watched => i \in H
                      /\ t[i].op = "lock" => i \in H
                      /\ t[i].op = "again" => i \in H /\ t[i].to \in 1..i
    BY DEF LookedAt
  <2>1. t[i].op # "lock"
    BY <1>6 DEF Linear
  <2>2. CASE i \in 1..n /\ t[i] = q[i]
    <3>1. /\ (i + 1) \in F => q[i].op \in LookOps \/ (i \in F /\ q[i].op \notin PauseOps)
          /\ q[i].op = "show" /\ q[i].sink \in Watched => i \in F
          /\ q[i].op = "again" => i \in F /\ q[i].to \in 1..i
      BY <1>7, <2>2 DEF LookedAt, n
    <3>2. i \in H <=> i \in F
      BY <1>4, <1>13, <2>2
    <3>3. (i + 1) \in H => (i + 1) \in F
      <4>1. CASE i < n
        BY <1>4, <1>13, <2>2, <4>1
      <4>2. CASE i = n
        <5>1. (i + 1) \in H => 1 \in G
          BY <1>4, <1>13, <4>2
        <5> QED BY <1>7, <1>8, <4>2, <5>1
      <4> QED BY <1>4, <2>2, <4>1, <4>2
    <3> QED BY <2>1, <2>2, <3>1, <3>2, <3>3
  <2>3. CASE i > n /\ (i - n) \in 1..m /\ t[i] = r[i - n]
    <3>1. /\ ((i - n) + 1) \in G =>
               r[i - n].op \in LookOps \/ ((i - n) \in G /\ r[i - n].op \notin PauseOps)
          /\ r[i - n].op = "show" /\ r[i - n].sink \in Watched => (i - n) \in G
          /\ r[i - n].op = "again" => (i - n) \in G /\ r[i - n].to \in 1..(i - n)
      BY <1>8, <2>3 DEF LookedAt, m
    <3>2. i \in H <=> (i - n) \in G
      BY <1>4, <1>13, <2>3
    <3>3. (i + 1) \in H => ((i - n) + 1) \in G
      <4>1. (i + 1) - n = (i - n) + 1 /\ i + 1 > n
        BY <1>4, <2>3
      <4>2. (i + 1) \in H => ((i + 1) - n) \in G
        BY <1>4, <1>13, <4>1
      <4> QED BY <4>1, <4>2
    <3>4. \A k \in 1..(i - n) : k \in 1..i
      BY <1>4, <2>3
    <3> QED BY <2>1, <2>3, <3>1, <3>2, <3>3, <3>4
  <2> QED BY <1>5, <2>2, <2>3
<1>10. 1 \in H => a = "looked"
  <2>1. CASE n = 0
    BY <1>7, <1>8, <1>13, <2>1
  <2>2. CASE n > 0
    BY <1>7, <1>4, <1>13, <2>2
  <2> QED BY <1>4, <2>1, <2>2
<1>11. c = "looked" => (Len(t) + 1) \in H
  <2>1. (Len(t) + 1) - n = m + 1 /\ Len(t) + 1 > n /\ Len(t) + 1 \in Nat
    BY <1>4
  <2> QED BY <1>4, <1>8, <1>13, <2>1
<1>12. Walks(t, a, c)
  BY <1>6, <1>9, <1>10, <1>11, <1>13 DEF Walks
<1> QED BY <1>12 DEF t

LEMMA OrderlyBy ==
  ASSUME NEW pre, NEW body, NEW caught, NEW fin, NEW post,
         NEW A \in SUBSET Nat, NEW B \in SUBSET Nat, NEW C \in SUBSET Nat, NEW D \in SUBSET Nat,
         NEW E \in SUBSET Nat,
         LookedAt(pre, A), LookedAt(body, B), LookedAt(caught, C), LookedAt(fin, D),
         LookedAt(post, E),
         1 \in B => (Len(pre) + 1) \in A, 1 \notin C, 1 \notin D, 1 \notin E,
         Len(pre) \in Nat, Len(body) \in Nat, Len(caught) \in Nat, Len(fin) \in Nat,
         Len(post) \in Nat,
         PairsLocks(Trying(pre, body, caught, fin, post))
  PROVE  Orderly(Trying(pre, body, caught, fin, post))
<1> DEFINE p == Trying(pre, body, caught, fin, post)
           F == [part \in Parts |->
                    CASE part = "pre" -> A [] part = "body" -> B [] part = "caught" -> C
                      [] part = "fin" -> D [] OTHER -> E]
<1>1. /\ p["pre"] = pre /\ p["body"] = body /\ p["caught"] = caught
      /\ p["fin"] = fin /\ p["post"] = post
      /\ p.pre = pre
  BY DEF Trying
<1>2. /\ F \in Marks /\ F["pre"] = A /\ F["body"] = B /\ F["caught"] = C
      /\ F["fin"] = D /\ F["post"] = E
  BY PartsAre DEF PartNames, Marks
<1> HIDE DEF p, F
<1>3. Marked(p, F)
  BY <1>1, <1>2, PartsAre DEF Marked, PartNames
<1>4. \A part \in Parts : Len(p[part]) \in Nat
  BY <1>1, PartsAre DEF PartNames
<1>5. PairsLocks(p)
  BY DEF p
<1>6. Orderly(p)
  BY <1>2, <1>3, <1>4, <1>5 DEF Orderly
<1> QED BY <1>6 DEF p

LEMMA TryingOrderly ==
  ASSUME NEW pre, NEW body, NEW caught, NEW fin, NEW post, NEW a, NEW b, NEW c, NEW d, NEW e,
         Walks(pre, "looked", a), Walks(body, a, b), Walks(caught, "stale", c),
         Walks(fin, "stale", d), Walks(post, "stale", e), \A i \in 1..Len(fin) : fin[i].op # "again"
  PROVE  Orderly(Trying(pre, body, caught, fin, post))
<1> DEFINE p == Trying(pre, body, caught, fin, post)
<1>1. /\ p["pre"] = pre /\ p["body"] = body /\ p["caught"] = caught
      /\ p["fin"] = fin /\ p["post"] = post
  BY DEF Trying
<1>2. Linear(pre) /\ Linear(body) /\ Linear(caught) /\ Linear(fin) /\ Linear(post)
  BY DEF Walks
<1> HIDE DEF p
<1>3. PairsLocks(p)
  BY <1>1, <1>2, PartsAre DEF PairsLocks, PartNames, Linear
<1>4. PICK A \in SUBSET Nat : LookedAt(pre, A) /\ (a = "looked" => (Len(pre) + 1) \in A)
  BY DEF Walks
<1>5. PICK B \in SUBSET Nat : LookedAt(body, B) /\ (1 \in B => a = "looked")
  BY DEF Walks
<1>6. PICK C \in SUBSET Nat : LookedAt(caught, C) /\ 1 \notin C
  BY DEF Walks
<1>7. PICK D \in SUBSET Nat : LookedAt(fin, D) /\ 1 \notin D
  BY DEF Walks
<1>8. PICK E \in SUBSET Nat : LookedAt(post, E) /\ 1 \notin E
  BY DEF Walks
<1>9. /\ Len(pre) \in Nat /\ Len(body) \in Nat /\ Len(caught) \in Nat
      /\ Len(fin) \in Nat /\ Len(post) \in Nat
  BY <1>2 DEF Linear
<1>10. PairsLocks(Trying(pre, body, caught, fin, post))
  BY <1>3 DEF p
<1>11. 1 \in B => (Len(pre) + 1) \in A
  BY <1>4, <1>5
<1> QED BY ONLY <1>4, <1>5, <1>6, <1>7, <1>8, <1>9, <1>10, <1>11, OrderlyBy

LEMMA NothingWalks == Walks(<<>>, "stale", "stale")
<1>1. LookedAt(<<>>, {}) /\ Linear(<<>>)
  BY DEF LookedAt, Linear
<1> QED BY <1>1 DEF Walks

LEMMA HandlerOrderly ==
  ASSUME NEW q, NEW b, Walks(q, "looked", b)
  PROVE  Orderly(Handler(q))
<1>1. Handler(q) = Trying(q, <<>>, <<>>, <<>>, <<>>)
  BY DEF Handler, Trying, Nothing
<1>2. Walks(<<>>, b, "stale") /\ \A i \in 1..Len(<<>>) : <<>>[i].op # "again"
  BY NothingWalks DEF Walks
<1>3. Orderly(Trying(q, <<>>, <<>>, <<>>, <<>>))
  BY ONLY <1>2, NothingWalks, TryingOrderly, Walks(q, "looked", b)
<1> QED BY <1>1, <1>3

(* A scan: its lock, taken where it has looked, is given back in the       *)
(* finally.                                                                *)
LEMMA ScanOrderly ==
  ASSUME NEW pre, NEW body, NEW caught, NEW s \in Scans, NEW A \in SUBSET Nat, NEW b, NEW c,
         LookedAt(pre, A), Len(pre) \in Nat, (Len(pre) + 1) \in A,
         \E k \in 1..Len(pre) : pre[k].op = "lock" /\ pre[k].scan = s,
         \A k \in 1..Len(pre) :
           pre[k].op # "unlock" /\ (pre[k].op = "lock" => pre[k].scan \in Scans),
         Walks(body, "looked", b), Walks(caught, "stale", c)
  PROVE  Orderly(Trying(pre, body, caught, <<Unlock(s)>>, <<>>))
<1> DEFINE fin == <<Unlock(s)>>
           p == Trying(pre, body, caught, fin, <<>>)
<1>1. /\ p["pre"] = pre /\ p["body"] = body /\ p["caught"] = caught
      /\ p["fin"] = fin /\ p["post"] = <<>>
      /\ p.pre = pre /\ p.fin = fin
  BY DEF Trying
<1>2. Len(fin) = 1 /\ fin[1].op = "unlock" /\ fin[1].scan = s
  BY DEF Unlock
<1>3. Linear(body) /\ Linear(caught)
  BY DEF Walks
<1> HIDE DEF fin, p
<1>4. Locks(p, s)
  BY <1>1 DEF Locks
<1>5. PairsLocks(p)
  <2> SUFFICES ASSUME NEW part \in Parts, NEW i \in 1..Len(p[part])
               PROVE  /\ p[part][i].op = "lock" => part = "pre" /\ p[part][i].scan \in Scans
                      /\ p[part][i].op = "again" => part # "fin"
                      /\ p[part][i].op = "unlock" =>
                           /\ part = "fin" /\ Locks(p, p[part][i].scan)
                           /\ \A j \in 1..(i - 1) :
                                p.fin[j].op = "unlock" => p.fin[j].scan # p[part][i].scan
    BY DEF PairsLocks
  <2>1. CASE part = "pre"
    BY <1>1, <2>1
  <2>2. CASE part = "fin"
    <3>2. p[part] = fin
      BY <1>1, <2>2
    <3>3. i \in 1..1
      BY <1>2, <3>2
    <3>1. i = 1 /\ p[part][i] = fin[1]
      BY <3>2, <3>3
    <3> QED BY <1>2, <1>4, <2>2, <3>1
  <2>3. CASE part \in {"body", "caught"}
    BY <1>1, <1>3, <2>3 DEF Linear
  <2>4. CASE part = "post"
    BY <1>1, <2>4
  <2> QED BY <2>1, <2>2, <2>3, <2>4, PartsAre DEF PartNames
<1>6. LookedAt(fin, {}) /\ LookedAt(<<>>, {})
  BY <1>2 DEF LookedAt
<1>7. PICK B \in SUBSET Nat : LookedAt(body, B)
  BY DEF Walks
<1>8. PICK C \in SUBSET Nat : LookedAt(caught, C) /\ 1 \notin C
  BY DEF Walks
<1>9. Len(body) \in Nat /\ Len(caught) \in Nat /\ Len(fin) \in Nat /\ Len(<<>>) \in Nat
  BY <1>2, <1>3 DEF Linear
<1>10. PairsLocks(Trying(pre, body, caught, fin, <<>>))
  BY <1>5 DEF p
<1>11. {} \in SUBSET Nat /\ 1 \notin {} /\ A \in SUBSET Nat /\ Len(pre) \in Nat /\ LookedAt(pre, A)
       /\ (1 \in B => (Len(pre) + 1) \in A)
  OBVIOUS
<1>12. Orderly(Trying(pre, body, caught, fin, <<>>))
  BY ONLY <1>6, <1>7, <1>8, <1>9, <1>10, <1>11, OrderlyBy
<1> QED BY <1>12 DEF fin

(* Balances, accounts and prices.                                          *)
LEMMA AccountHandlers ==
  ASSUME Watched \subseteq GuardedSinks
  PROVE  /\ Orderly(renderAccountsList)
         /\ Orderly(rowClick)
         /\ Orderly(updateWalletBondTotal)
         /\ Orderly(updateAdversarialSecurity)
         /\ Orderly(handleAccountAction)
         /\ Orderly(walletSelected)
<1> USE DEF Maybe, Now, Risky, Show, Sleep, Still, Wait
<1>1. Walks(<<Still, Maybe, Now("accounts"), Sleep, Maybe, Still, Show("accounts")>>,
            "looked", "looked")
  <2>1. LookedAt(<<Still, Maybe, Now("accounts"), Sleep, Maybe, Still, Show("accounts")>>,
                 {1, 2, 3, 4, 7, 8})
    BY DEF LookedAt, LookOps, PauseOps
  <2> QED BY <2>1 DEF Walks, Linear
<1>2. Walks(<<Still, Now("accounts"), Sleep, Still, Show("accounts")>>, "looked", "looked")
  <2>1. LookedAt(<<Still, Now("accounts"), Sleep, Still, Show("accounts")>>, {1, 2, 3, 5, 6})
    BY DEF LookedAt, LookOps, PauseOps
  <2> QED BY <2>1 DEF Walks, Linear
<1>3. Walks(<<Still>>, "looked", "looked")
  <2>1. LookedAt(<<Still>>, {1, 2})
    BY DEF LookedAt, LookOps, PauseOps
  <2> QED BY <2>1 DEF Walks, Linear
<1>4. Walks(<<Wait, Still, Risky, Show("bond")>>, "looked", "looked")
  <2>1. LookedAt(<<Wait, Still, Risky, Show("bond")>>, {1, 3, 4, 5})
    BY DEF LookedAt, LookOps, PauseOps
  <2> QED BY <2>1 DEF Walks, Linear
<1>5. Walks(<<Still, Now("bond")>>, "stale", "looked")
  <2>1. LookedAt(<<Still, Now("bond")>>, {2, 3})
    BY DEF LookedAt, LookOps, PauseOps
  <2> QED BY <2>1 DEF Walks, Linear
<1>6. Walks(<<Maybe, Now("accounts")>>, "looked", "looked")
  <2>1. LookedAt(<<Maybe, Now("accounts")>>, {1, 2, 3})
    BY DEF LookedAt, LookOps, PauseOps
  <2> QED BY <2>1 DEF Walks, Linear
<1>7. Walks(<<Maybe, Now("accounts"), Now("bond")>>, "looked", "looked")
  <2>1. LookedAt(<<Maybe, Now("accounts"), Now("bond")>>, {1, 2, 3, 4})
    BY DEF LookedAt, LookOps, PauseOps
  <2> QED BY <2>1 DEF Walks, Linear
<1>8. Walks(<<Still, Maybe>>, "looked", "looked")
  <2>1. LookedAt(<<Still, Maybe>>, {1, 2, 3})
    BY DEF LookedAt, LookOps, PauseOps
  <2> QED BY <2>1 DEF Walks, Linear
<1> HIDE DEF Maybe, Now, Risky, Show, Sleep, Still, Wait
<1>9. Orderly(renderAccountsList)
  BY <1>1, HandlerOrderly DEF renderAccountsList
<1>10. Orderly(rowClick)
  BY <1>2, HandlerOrderly DEF rowClick
<1>11. Orderly(updateWalletBondTotal)
  <2>1. \A i \in 1..Len(<<>>) : <<>>[i].op # "again"
    OBVIOUS
  <2>2. Orderly(Trying(<<Still>>,
                       <<Wait, Still, Risky, Show("bond")>>,
                       <<Still, Now("bond")>>, <<>>, <<>>))
    BY ONLY <1>3, <1>4, <1>5, NothingWalks, <2>1, TryingOrderly
  <2> QED BY <2>2 DEF updateWalletBondTotal
<1>12. Orderly(updateAdversarialSecurity)
  <2>1. Walks(<<Still, Maybe>> \o <<Still>>, "looked", "looked")
    BY <1>8, <1>3, WalkOn
  <2>2. \A i \in 1..Len(<<>>) : <<>>[i].op # "again"
    OBVIOUS
  <2>3. Orderly(Trying(<<Still, Maybe>> \o <<Still>>, <<Wait, Still, Risky, Show("bond")>>,
                       <<Still, Now("bond")>>, <<>>, <<>>))
    BY ONLY <2>1, <2>2, <1>4, <1>5, NothingWalks, TryingOrderly
  <2>4. /\ updateWalletBondTotal.pre = <<Still>>
        /\ updateWalletBondTotal.body = <<Wait, Still, Risky, Show("bond")>>
        /\ updateWalletBondTotal.caught = <<Still, Now("bond")>>
    BY DEF updateWalletBondTotal, Trying
  <2> QED BY <2>3, <2>4 DEF updateAdversarialSecurity
<1>13. Orderly(handleAccountAction)
  BY <1>6, HandlerOrderly DEF handleAccountAction
<1>14. Orderly(walletSelected)
  BY <1>7, HandlerOrderly DEF walletSelected
<1> QED BY <1>9, <1>10, <1>11, <1>12, <1>13, <1>14

(* Receiving and sending.                                                  *)
LEMMA PaymentHandlers ==
  ASSUME Watched \subseteq GuardedSinks
  PROVE  /\ Orderly(showReceiveModal)
         /\ Orderly(populateSendForm)
         /\ Orderly(updateSendFromSelection)
         /\ Orderly(showSendReview)
         /\ Orderly(updateSendFiatEstimate)
         /\ \A p \in executeSend : Orderly(p)
<1> USE DEF Clear, Maybe, NeedsKeys, Now, Risky, Show, Sleep, Still, Undo, Wait
<1>0. "broadcast" \notin Watched
  BY DEF GuardedSinks
<1>1. Walks(<<Still, Show("receive")>>, "looked", "looked")
  <2>1. LookedAt(<<Still, Show("receive")>>, {1, 2, 3})
    BY DEF LookedAt, LookOps, PauseOps
  <2> QED BY <2>1 DEF Walks, Linear
<1>2. Walks(<<Wait>>, "looked", "stale")
  <2>1. LookedAt(<<Wait>>, {1})
    BY DEF LookedAt, LookOps, PauseOps
  <2> QED BY <2>1 DEF Walks, Linear
<1>3. Walks(<<Undo("receive"), Show("receive"), Sleep, Still>>, "stale", "looked")
  <2>1. LookedAt(<<Undo("receive"), Show("receive"), Sleep, Still>>, {2, 3, 5})
    BY DEF LookedAt, LookOps, PauseOps
  <2> QED BY <2>1 DEF Walks, Linear
<1>4. Walks(<<Maybe, Now("send")>>, "looked", "looked")
  <2>1. LookedAt(<<Maybe, Now("send")>>, {1, 2, 3})
    BY DEF LookedAt, LookOps, PauseOps
  <2> QED BY <2>1 DEF Walks, Linear
<1>5. Walks(<<Still, Maybe>>, "looked", "looked")
  <2>1. LookedAt(<<Still, Maybe>>, {1, 2, 3})
    BY DEF LookedAt, LookOps, PauseOps
  <2> QED BY <2>1 DEF Walks, Linear
<1>6. Walks(<<Wait, Still, Show("send")>>, "looked", "looked")
  <2>1. LookedAt(<<Wait, Still, Show("send")>>, {1, 3, 4})
    BY DEF LookedAt, LookOps, PauseOps
  <2> QED BY <2>1 DEF Walks, Linear
<1>7. Walks(<<Still, Clear("send")>>, "stale", "looked")
  <2>1. LookedAt(<<Still, Clear("send")>>, {2, 3})
    BY DEF LookedAt, LookOps, PauseOps
  <2> QED BY <2>1 DEF Walks, Linear
<1>8. Walks(<<Still, Maybe, Show("send")>>, "looked", "looked")
  <2>1. LookedAt(<<Still, Maybe, Show("send")>>, {1, 2, 3, 4})
    BY DEF LookedAt, LookOps, PauseOps
  <2> QED BY <2>1 DEF Walks, Linear
<1>9. Walks(<<Risky, Wait, Risky, NeedsKeys, Risky, Show("broadcast"), Wait, Risky>>,
            "looked", "stale")
  <2>1. LookedAt(<<Risky, Wait, Risky, NeedsKeys, Risky, Show("broadcast"), Wait, Risky>>, {1, 2})
    BY <1>0 DEF LookedAt, LookOps, PauseOps
  <2> QED BY <2>1 DEF Walks, Linear
<1>10. Walks(<<Risky, Wait, Risky, NeedsKeys, Risky, Show("broadcast"), Wait>>, "looked", "stale")
  <2>1. LookedAt(<<Risky, Wait, Risky, NeedsKeys, Risky, Show("broadcast"), Wait>>, {1, 2})
    BY <1>0 DEF LookedAt, LookOps, PauseOps
  <2> QED BY <2>1 DEF Walks, Linear
<1>11. Walks(<<Risky>>, "looked", "looked")
  <2>1. LookedAt(<<Risky>>, {1, 2})
    BY DEF LookedAt, LookOps, PauseOps
  <2> QED BY <2>1 DEF Walks, Linear
<1>12. Walks(<<Still, Show("send"), Sleep, Still>>, "stale", "looked")
  <2>1. LookedAt(<<Still, Show("send"), Sleep, Still>>, {2, 3, 5})
    BY DEF LookedAt, LookOps, PauseOps
  <2> QED BY <2>1 DEF Walks, Linear
<1>13. Walks(<<Still, Show("send"), Sleep, Still>>, "looked", "looked")
  <2>1. LookedAt(<<Still, Show("send"), Sleep, Still>>, {1, 2, 3, 5})
    BY DEF LookedAt, LookOps, PauseOps
  <2> QED BY <2>1 DEF Walks, Linear
<1>14. Walks(<<Still, Show("send")>>, "stale", "looked")
  <2>1. LookedAt(<<Still, Show("send")>>, {2, 3})
    BY DEF LookedAt, LookOps, PauseOps
  <2> QED BY <2>1 DEF Walks, Linear
<1>15. Walks(<<Still>>, "stale", "looked")
  <2>1. LookedAt(<<Still>>, {2})
    BY DEF LookedAt, LookOps, PauseOps
  <2> QED BY <2>1 DEF Walks, Linear
<1> HIDE DEF Clear, Maybe, NeedsKeys, Now, Risky, Show, Sleep, Still, Undo, Wait
<1>16. Orderly(showReceiveModal)
  <2>1. \A i \in 1..Len(<<>>) : <<>>[i].op # "again"
    OBVIOUS
  <2>2. Orderly(Trying(<<Still, Show("receive")>>,
                       <<Wait>>,
                       <<>>, <<>>, <<Undo("receive"), Show("receive"), Sleep, Still>>))
    BY ONLY <1>1, <1>2, NothingWalks, <1>3, <2>1, TryingOrderly
  <2> QED BY <2>2 DEF showReceiveModal
<1>17. Orderly(populateSendForm)
  BY <1>4, HandlerOrderly DEF populateSendForm
<1>18. Orderly(updateSendFromSelection)
  BY <1>4, HandlerOrderly DEF updateSendFromSelection
<1>19. Orderly(showSendReview)
  BY <1>4, HandlerOrderly DEF showSendReview
<1>20. Orderly(updateSendFiatEstimate)
  <2>1. \A i \in 1..Len(<<>>) : <<>>[i].op # "again"
    OBVIOUS
  <2>2. Orderly(Trying(<<Still, Maybe>>,
                       <<Wait, Still, Show("send")>>,
                       <<Still, Clear("send")>>, <<>>, <<>>))
    BY ONLY <1>5, <1>6, <1>7, NothingWalks, <2>1, TryingOrderly
  <2> QED BY <2>2 DEF updateSendFiatEstimate
<1>21. \A p \in executeSend : Orderly(p)
  <2>1. ASSUME NEW chain, NEW b, Walks(chain \o <<Still, Show("send"), Sleep, Still>>, "looked", b)
        PROVE  Orderly(Send(chain))
    <3>1. \A i \in 1..Len(<<Still>>) : <<Still>>[i].op # "again"
      BY DEF Still
    <3>2. Orderly(Trying(<<Still, Maybe, Show("send")>>,
                       chain \o <<Still, Show("send"), Sleep, Still>>,
                       <<Still, Show("send")>>, <<Still>>, <<>>))
      BY ONLY <1>8, <2>1, <1>14, <1>15, NothingWalks, <3>1, TryingOrderly
    <3> QED BY <3>2 DEF Send
  <2>2. Orderly(Send(sendBtcTransaction))
    BY <1>9, <1>12, WalkOn, <2>1 DEF sendBtcTransaction
  <2>3. Orderly(Send(sendEthTransaction))
    BY <1>10, <1>12, WalkOn, <2>1 DEF sendEthTransaction
  <2>4. Orderly(Send(<<Risky>>))
    BY <1>11, <1>13, WalkOn, <2>1
  <2> QED BY <2>2, <2>3, <2>4 DEF executeSend
<1> QED BY <1>16, <1>17, <1>18, <1>19, <1>20, <1>21

(* The derivation grid, the names, the exports.                            *)
LEMMA NameHandlers ==
  ASSUME Watched \subseteq GuardedSinks
  PROVE  /\ Orderly(deriveAndDisplayAddress)
         /\ Orderly(updatePathDisplay)
         /\ Orderly(namesShown)
         /\ Orderly(exportWallet)
         /\ Orderly(keyRevealed)
         /\ Orderly(keyCopied)
<1> USE DEF HasKeys, LoggedIn, Maybe, Now, Risky, Show, Sleep, Still, Undo, Wait
<1>1. Walks(<<Still, HasKeys>>, "looked", "looked")
  <2>1. LookedAt(<<Still, HasKeys>>, {1, 2, 3})
    BY DEF LookedAt, LookOps, PauseOps
  <2> QED BY <2>1 DEF Walks, Linear
<1>2. Walks(<<Risky, Show("derived"), Wait, Undo("derived"), Show("derived")>>, "looked", "looked")
  <2>1. LookedAt(<<Risky, Show("derived"), Wait, Undo("derived"), Show("derived")>>,
                 {1, 2, 3, 5, 6})
    BY DEF LookedAt, LookOps, PauseOps
  <2> QED BY <2>1 DEF Walks, Linear
<1>3. Walks(<<Now("derived")>>, "looked", "looked")
  <2>1. LookedAt(<<Now("derived")>>, {1, 2})
    BY DEF LookedAt, LookOps, PauseOps
  <2> QED BY <2>1 DEF Walks, Linear
<1>4. Walks(<<LoggedIn>>, "looked", "looked")
  <2>1. LookedAt(<<LoggedIn>>, {1, 2})
    BY DEF LookedAt, LookOps, PauseOps
  <2> QED BY <2>1 DEF Walks, Linear
<1>5. Walks(<<Still, Maybe, Sleep, Still, Show("names")>>, "looked", "looked")
  <2>1. LookedAt(<<Still, Maybe, Sleep, Still, Show("names")>>, {1, 2, 3, 5, 6})
    BY DEF LookedAt, LookOps, PauseOps
  <2> QED BY <2>1 DEF Walks, Linear
<1>6. Walks(<<Still, Show("names")>>, "looked", "looked")
  <2>1. LookedAt(<<Still, Show("names")>>, {1, 2, 3})
    BY DEF LookedAt, LookOps, PauseOps
  <2> QED BY <2>1 DEF Walks, Linear
<1>7. Walks(<<LoggedIn, Maybe, Now("taken")>>, "looked", "looked")
  <2>1. LookedAt(<<LoggedIn, Maybe, Now("taken")>>, {1, 2, 3, 4})
    BY DEF LookedAt, LookOps, PauseOps
  <2> QED BY <2>1 DEF Walks, Linear
<1>8. Walks(<<Now("keys")>>, "looked", "looked")
  <2>1. LookedAt(<<Now("keys")>>, {1, 2})
    BY DEF LookedAt, LookOps, PauseOps
  <2> QED BY <2>1 DEF Walks, Linear
<1>9. Walks(<<Maybe, Now("taken"), Wait>>, "looked", "stale")
  <2>1. LookedAt(<<Maybe, Now("taken"), Wait>>, {1, 2, 3})
    BY DEF LookedAt, LookOps, PauseOps
  <2> QED BY <2>1 DEF Walks, Linear
<1> HIDE DEF HasKeys, LoggedIn, Maybe, Now, Risky, Show, Sleep, Still, Undo, Wait
<1>10. Orderly(deriveAndDisplayAddress)
  <2>1. \A i \in 1..Len(<<>>) : <<>>[i].op # "again"
    OBVIOUS
  <2>2. Orderly(Trying(<<Still, HasKeys>>,
                       <<Risky, Show("derived"), Wait, Undo("derived"), Show("derived")>>,
                       <<>>, <<>>, <<>>))
    BY ONLY <1>1, <1>2, NothingWalks, <2>1, TryingOrderly
  <2> QED BY <2>2 DEF deriveAndDisplayAddress
<1>11. Orderly(updatePathDisplay)
  BY <1>3, HandlerOrderly DEF updatePathDisplay
<1>12. Orderly(namesShown)
  <2>1. Walks(<<LoggedIn>> \o resolveNames, "looked", "looked")
    BY <1>4, <1>5, WalkOn DEF resolveNames
  <2>2. Walks(<<LoggedIn>> \o resolveNames \o updateAccountTitle, "looked", "looked")
    BY <2>1, <1>6, WalkOn DEF resolveNames, updateAccountTitle
  <2> QED BY <2>2, HandlerOrderly DEF namesShown
<1>13. Orderly(exportWallet)
  BY <1>7, HandlerOrderly DEF exportWallet
<1>14. Orderly(keyRevealed)
  BY <1>8, HandlerOrderly DEF keyRevealed
<1>15. Orderly(keyCopied)
  BY <1>9, HandlerOrderly DEF keyCopied
<1> QED BY <1>10, <1>11, <1>12, <1>13, <1>14, <1>15

(* The PKI demo and the external wallet.                                   *)
LEMMA KeyHandlers ==
  ASSUME Watched \subseteq GuardedSinks
  PROVE  /\ Orderly(savePKIKeys)
         /\ Orderly(loadPKIKeys)
         /\ Orderly(upgradePKIKeys)
         /\ Orderly(generatePKIKeyPairs)
         /\ Orderly(generateRandomPKIKeyPairs)
         /\ Orderly(clearPKIKeys)
         /\ Orderly(loginExternalBalance)
         /\ Orderly(externalPrice)
<1> USE DEF Clear, External, HasKeys, LoggedIn, Maybe, Now, Risky, Show, Still, Wait
<1>0. "external" \notin Watched
  BY DEF GuardedSinks
<1>1. Walks(<<Still, Maybe>>, "looked", "looked")
  <2>1. LookedAt(<<Still, Maybe>>, {1, 2, 3})
    BY DEF LookedAt, LookOps, PauseOps
  <2> QED BY <2>1 DEF Walks, Linear
<1>2. Walks(<<Wait, Still, Still, Show("storedPki")>>, "looked", "looked")
  <2>1. LookedAt(<<Wait, Still, Still, Show("storedPki")>>, {1, 3, 4, 5})
    BY DEF LookedAt, LookOps, PauseOps
  <2> QED BY <2>1 DEF Walks, Linear
<1>3. Walks(<<Still>>, "looked", "looked")
  <2>1. LookedAt(<<Still>>, {1, 2})
    BY DEF LookedAt, LookOps, PauseOps
  <2> QED BY <2>1 DEF Walks, Linear
<1>4. Walks(<<Maybe, Risky, Wait, Still, Maybe, Still, Show("pki"), Still, Show("pki")>>,
            "looked", "looked")
  <2>1. LookedAt(<<Maybe, Risky, Wait, Still, Maybe, Still, Show("pki"), Still, Show("pki")>>,
                 {1, 2, 3, 5, 6, 7, 8, 9, 10})
    BY DEF LookedAt, LookOps, PauseOps
  <2> QED BY <2>1 DEF Walks, Linear
<1>5. Walks(<<Wait, Still, Show("storedPki")>>, "looked", "looked")
  <2>1. LookedAt(<<Wait, Still, Show("storedPki")>>, {1, 3, 4})
    BY DEF LookedAt, LookOps, PauseOps
  <2> QED BY <2>1 DEF Walks, Linear
<1>6. Walks(<<Maybe, Still, Show("pki"), Still, Show("pki")>>, "stale", "looked")
  <2>1. LookedAt(<<Maybe, Still, Show("pki"), Still, Show("pki")>>, {3, 4, 5, 6})
    BY DEF LookedAt, LookOps, PauseOps
  <2> QED BY <2>1 DEF Walks, Linear
<1>7. Walks(<<HasKeys, Risky, Now("pki")>>, "looked", "looked")
  <2>1. LookedAt(<<HasKeys, Risky, Now("pki")>>, {1, 2, 3, 4})
    BY DEF LookedAt, LookOps, PauseOps
  <2> QED BY <2>1 DEF Walks, Linear
<1>8. Walks(<<Still, Show("pki")>>, "looked", "looked")
  <2>1. LookedAt(<<Still, Show("pki")>>, {1, 2, 3})
    BY DEF LookedAt, LookOps, PauseOps
  <2> QED BY <2>1 DEF Walks, Linear
<1>9. Walks(<<Wait, Still, Wait, Still, Show("pki")>>, "looked", "looked")
  <2>1. LookedAt(<<Wait, Still, Wait, Still, Show("pki")>>, {1, 3, 5, 6})
    BY DEF LookedAt, LookOps, PauseOps
  <2> QED BY <2>1 DEF Walks, Linear
<1>10. Walks(<<Maybe, Still>>, "stale", "looked")
  <2>1. LookedAt(<<Maybe, Still>>, {3})
    BY DEF LookedAt, LookOps, PauseOps
  <2> QED BY <2>1 DEF Walks, Linear
<1>11. Walks(<<Still, Show("pki")>>, "stale", "looked")
  <2>1. LookedAt(<<Still, Show("pki")>>, {2, 3})
    BY DEF LookedAt, LookOps, PauseOps
  <2> QED BY <2>1 DEF Walks, Linear
<1>12. Walks(<<Clear("storedPki"), Clear("pki")>>, "looked", "looked")
  <2>1. LookedAt(<<Clear("storedPki"), Clear("pki")>>, {1, 2, 3})
    BY DEF LookedAt, LookOps, PauseOps
  <2> QED BY <2>1 DEF Walks, Linear
<1>13. Walks(<<LoggedIn>>, "looked", "looked")
  <2>1. LookedAt(<<LoggedIn>>, {1, 2})
    BY DEF LookedAt, LookOps, PauseOps
  <2> QED BY <2>1 DEF Walks, Linear
<1>14. Walks(<<Wait, External, Show("external")>>, "looked", "stale")
  <2>1. LookedAt(<<Wait, External, Show("external")>>, {1})
    BY <1>0 DEF LookedAt, LookOps, PauseOps
  <2> QED BY <2>1 DEF Walks, Linear
<1>15. Walks(<<LoggedIn, Now("accounts"), Now("bond")>>, "stale", "stale")
  <2>1. LookedAt(<<LoggedIn, Now("accounts"), Now("bond")>>, {})
    BY DEF LookedAt, LookOps, PauseOps
  <2> QED BY <2>1 DEF Walks, Linear
<1>16. Walks(<<External, Wait, External, Show("external")>>, "looked", "stale")
  <2>1. LookedAt(<<External, Wait, External, Show("external")>>, {1, 2})
    BY <1>0 DEF LookedAt, LookOps, PauseOps
  <2> QED BY <2>1 DEF Walks, Linear
<1> HIDE DEF Clear, External, HasKeys, LoggedIn, Maybe, Now, Risky, Show, Still, Wait
<1>17. Orderly(savePKIKeys)
  <2>1. \A i \in 1..Len(<<>>) : <<>>[i].op # "again"
    OBVIOUS
  <2>2. Orderly(Trying(<<Still, Maybe>>,
                       <<Wait, Still, Still, Show("storedPki")>>,
                       <<>>, <<>>, <<>>))
    BY ONLY <1>1, <1>2, NothingWalks, <2>1, TryingOrderly
  <2> QED BY <2>2 DEF savePKIKeys
<1>18. Orderly(loadPKIKeys)
  <2>1. \A i \in 1..Len(<<>>) : <<>>[i].op # "again"
    OBVIOUS
  <2>2. Orderly(Trying(<<Still>>,
                       <<Maybe, Risky, Wait, Still, Maybe, Still, Show("pki"), Still, Show("pki")>>,
                       <<>>, <<>>, <<>>))
    BY ONLY <1>3, <1>4, NothingWalks, <2>1, TryingOrderly
  <2> QED BY <2>2 DEF loadPKIKeys
<1>19. Orderly(upgradePKIKeys)
  <2>1. \A i \in 1..Len(<<>>) : <<>>[i].op # "again"
    OBVIOUS
  <2>2. Orderly(Trying(<<Still, Maybe>>,
                       <<Wait, Still, Show("storedPki")>>,
                       <<>>, <<>>, <<Maybe, Still, Show("pki"), Still, Show("pki")>>))
    BY ONLY <1>1, <1>5, NothingWalks, <1>6, <2>1, TryingOrderly
  <2> QED BY <2>2 DEF upgradePKIKeys
<1>20. Orderly(generatePKIKeyPairs)
  <2>1. Walks(<<Still>> \o derivePKIKeysFromHD, "looked", "looked")
    BY <1>3, <1>7, WalkOn DEF derivePKIKeysFromHD
  <2>2. Walks(<<Still>> \o derivePKIKeysFromHD \o <<Still, Show("pki")>>, "looked", "looked")
    BY <2>1, <1>8, WalkOn DEF derivePKIKeysFromHD
  <2> QED BY <2>2, HandlerOrderly DEF generatePKIKeyPairs
<1>21. Orderly(generateRandomPKIKeyPairs)
  <2>1. \A i \in 1..Len(<<>>) : <<>>[i].op # "again"
    OBVIOUS
  <2>2. Orderly(Trying(<<Still>>,
                       <<Wait, Still, Wait, Still, Show("pki")>>,
                       <<Maybe, Still>>, <<>>, <<Still, Show("pki")>>))
    BY ONLY <1>3, <1>9, <1>10, NothingWalks, <1>11, <2>1, TryingOrderly
  <2> QED BY <2>2 DEF generateRandomPKIKeyPairs
<1>22. Orderly(clearPKIKeys)
  BY <1>12, HandlerOrderly DEF clearPKIKeys
<1>23. Orderly(loginExternalBalance)
  <2>1. \A i \in 1..Len(<<>>) : <<>>[i].op # "again"
    OBVIOUS
  <2>2. Orderly(Trying(<<LoggedIn>>,
                       <<Wait, External, Show("external")>>,
                       <<>>, <<>>, <<LoggedIn, Now("accounts"), Now("bond")>>))
    BY ONLY <1>13, <1>14, NothingWalks, <1>15, <2>1, TryingOrderly
  <2> QED BY <2>2 DEF loginExternalBalance
<1>24. Orderly(externalPrice)
  BY <1>16, HandlerOrderly DEF externalPrice
<1> QED BY <1>17, <1>18, <1>19, <1>20, <1>21, <1>22, <1>23, <1>24

(* The photo and the camera.                                               *)
LEMMA PhotoHandlers ==
  ASSUME Watched \subseteq GuardedSinks
  PROVE  /\ Orderly(photoUploaded)
         /\ Orderly(photoRemoved)
         /\ Orderly(imageFailed)
         /\ Orderly(cameraStarted)
         /\ Orderly(cameraCaptured)
         /\ Orderly(cameraCancelled)
<1> USE DEF Clear, Maybe, Now, Show, Sleep, Still, Undo, Wait
<1>1. Walks(<<>>, "looked", "looked")
  <2>1. LookedAt(<<>>, {1})
    BY DEF LookedAt, LookOps, PauseOps
  <2> QED BY <2>1 DEF Walks, Linear
<1>2. Walks(<<Wait, Still>>, "looked", "looked")
  <2>1. LookedAt(<<Wait, Still>>, {1, 3})
    BY DEF LookedAt, LookOps, PauseOps
  <2> QED BY <2>1 DEF Walks, Linear
<1>3. Walks(<<Still, Wait, Undo("photo"), Show("photo")>>, "looked", "looked")
  <2>1. LookedAt(<<Still, Wait, Undo("photo"), Show("photo")>>, {1, 2, 4, 5})
    BY DEF LookedAt, LookOps, PauseOps
  <2> QED BY <2>1 DEF Walks, Linear
<1>4. Walks(<<Still, Clear("camera"), Now("vcard")>>, "looked", "looked")
  <2>1. LookedAt(<<Still, Clear("camera"), Now("vcard")>>, {1, 2, 3, 4})
    BY DEF LookedAt, LookOps, PauseOps
  <2> QED BY <2>1 DEF Walks, Linear
<1>5. Walks(<<Still>>, "stale", "looked")
  <2>1. LookedAt(<<Still>>, {2})
    BY DEF LookedAt, LookOps, PauseOps
  <2> QED BY <2>1 DEF Walks, Linear
<1>6. Walks(<<Clear("photo"), Now("vcard")>>, "looked", "looked")
  <2>1. LookedAt(<<Clear("photo"), Now("vcard")>>, {1, 2, 3})
    BY DEF LookedAt, LookOps, PauseOps
  <2> QED BY <2>1 DEF Walks, Linear
<1>7. Walks(<<Clear("photo")>>, "looked", "looked")
  <2>1. LookedAt(<<Clear("photo")>>, {1, 2})
    BY DEF LookedAt, LookOps, PauseOps
  <2> QED BY <2>1 DEF Walks, Linear
<1>8. Walks(<<Wait, Still, Show("camera"), Wait, Undo("camera"), Still, Show("camera")>>,
            "looked", "looked")
  <2>1. LookedAt(<<Wait, Still, Show("camera"), Wait, Undo("camera"), Still, Show("camera")>>,
                 {1, 3, 4, 6, 7, 8})
    BY DEF LookedAt, LookOps, PauseOps
  <2> QED BY <2>1 DEF Walks, Linear
<1>9. Walks(<<Clear("camera"), Still>>, "stale", "looked")
  <2>1. LookedAt(<<Clear("camera"), Still>>, {3})
    BY DEF LookedAt, LookOps, PauseOps
  <2> QED BY <2>1 DEF Walks, Linear
<1>10. Walks(<<Still, Maybe>>, "looked", "looked")
  <2>1. LookedAt(<<Still, Maybe>>, {1, 2, 3})
    BY DEF LookedAt, LookOps, PauseOps
  <2> QED BY <2>1 DEF Walks, Linear
<1>11. Walks(<<Maybe, Still, Sleep, Still, Sleep, Maybe, Still>>, "looked", "looked")
  <2>1. LookedAt(<<Maybe, Still, Sleep, Still, Sleep, Maybe, Still>>, {1, 2, 3, 5, 8})
    BY DEF LookedAt, LookOps, PauseOps
  <2> QED BY <2>1 DEF Walks, Linear
<1>12. Walks(<<Still>>, "looked", "looked")
  <2>1. LookedAt(<<Still>>, {1, 2})
    BY DEF LookedAt, LookOps, PauseOps
  <2> QED BY <2>1 DEF Walks, Linear
<1>13. Walks(<<Clear("camera")>>, "looked", "looked")
  <2>1. LookedAt(<<Clear("camera")>>, {1, 2})
    BY DEF LookedAt, LookOps, PauseOps
  <2> QED BY <2>1 DEF Walks, Linear
<1> HIDE DEF Clear, Maybe, Now, Show, Sleep, Still, Undo, Wait
<1>14. Orderly(photoUploaded)
  <2>1. Walks(<<Wait, Still>> \o installVcardPhoto, "looked", "looked")
    BY <1>2, <1>3, WalkOn DEF installVcardPhoto
  <2>2. Walks(<<Wait, Still>> \o installVcardPhoto \o <<Still, Clear("camera"), Now("vcard")>>,
              "looked", "looked")
    BY <2>1, <1>4, WalkOn DEF installVcardPhoto
  <2>3. \A i \in 1..Len(<<>>) : <<>>[i].op # "again"
    OBVIOUS
  <2>4. Orderly(Trying(<<>>,
                       <<Wait, Still>> \o installVcardPhoto
                         \o <<Still, Clear("camera"), Now("vcard")>>,
                       <<Still>>, <<>>, <<>>))
    BY ONLY <1>1, <2>2, <1>5, NothingWalks, <2>3, TryingOrderly
  <2> QED BY <2>4 DEF photoUploaded
<1>15. Orderly(photoRemoved)
  BY <1>6, HandlerOrderly DEF photoRemoved
<1>16. Orderly(imageFailed)
  BY <1>7, HandlerOrderly DEF imageFailed
<1>17. Orderly(cameraStarted)
  <2>1. \A i \in 1..Len(<<>>) : <<>>[i].op # "again"
    OBVIOUS
  <2>2. Orderly(Trying(<<>>,
                       <<Wait, Still, Show("camera"), Wait, Undo("camera"), Still, Show("camera")>>,
                       <<Clear("camera"), Still>>, <<>>, <<>>))
    BY ONLY <1>1, <1>8, <1>9, NothingWalks, <2>1, TryingOrderly
  <2> QED BY <2>2 DEF cameraStarted
<1>18. Orderly(cameraCaptured)
  <2>1. Walks(<<Still, Maybe>> \o encodeVcardPhoto, "looked", "looked")
    BY <1>10, <1>11, WalkOn DEF encodeVcardPhoto
  <2>2. Walks(<<Still>> \o installVcardPhoto, "looked", "looked")
    BY <1>12, <1>3, WalkOn DEF installVcardPhoto
  <2>3. Walks(<<Still>> \o installVcardPhoto \o <<Still, Clear("camera"), Now("vcard")>>,
              "looked", "looked")
    BY <2>2, <1>4, WalkOn DEF installVcardPhoto
  <2>4. \A i \in 1..Len(<<>>) : <<>>[i].op # "again"
    OBVIOUS
  <2>5. Orderly(Trying(<<Still, Maybe>> \o encodeVcardPhoto,
                       <<Still>> \o installVcardPhoto \o <<Still, Clear("camera"), Now("vcard")>>,
                       <<>>, <<>>, <<>>))
    BY ONLY <2>1, <2>3, NothingWalks, <2>4, TryingOrderly
  <2> QED BY <2>5 DEF cameraCaptured
<1>19. Orderly(cameraCancelled)
  BY <1>13, HandlerOrderly DEF cameraCancelled
<1> QED BY <1>14, <1>15, <1>16, <1>17, <1>18, <1>19

(* The identity card and the messages.                                     *)
LEMMA CardHandlers ==
  ASSUME Watched \subseteq GuardedSinks
  PROVE  /\ Orderly(identityEdited)
         /\ Orderly(vcfImported)
         /\ Orderly(applyImportedVcardPreview)
         /\ Orderly(vcardGenerated)
         /\ Orderly(vcardDownloaded)
         /\ Orderly(vcardCopied)
         /\ Orderly(updateEncryptionTab)
         /\ Orderly(messageEncrypted)
         /\ Orderly(messageDecrypted)
<1> USE DEF Clear, HasKeys, LoggedIn, Maybe, Now, Risky, Show, Still, Throws, Undo, Wait
<1>1. Walks(<<Now("vcard")>>, "looked", "looked")
  <2>1. LookedAt(<<Now("vcard")>>, {1, 2})
    BY DEF LookedAt, LookOps, PauseOps
  <2> QED BY <2>1 DEF Walks, Linear
<1>2. Walks(<<Maybe, Still>>, "looked", "looked")
  <2>1. LookedAt(<<Maybe, Still>>, {1, 2, 3})
    BY DEF LookedAt, LookOps, PauseOps
  <2> QED BY <2>1 DEF Walks, Linear
<1>3. Walks(<<Wait, Still, Maybe>>, "looked", "looked")
  <2>1. LookedAt(<<Wait, Still, Maybe>>, {1, 3, 4})
    BY DEF LookedAt, LookOps, PauseOps
  <2> QED BY <2>1 DEF Walks, Linear
<1>4. Walks(<<Throws, Show("vcard")>>, "looked", "looked")
  <2>1. LookedAt(<<Throws, Show("vcard")>>, {1, 2, 3})
    BY DEF LookedAt, LookOps, PauseOps
  <2> QED BY <2>1 DEF Walks, Linear
<1>5. Walks(<<Maybe>>, "stale", "stale")
  <2>1. LookedAt(<<Maybe>>, {})
    BY DEF LookedAt, LookOps, PauseOps
  <2> QED BY <2>1 DEF Walks, Linear
<1>6. Walks(<<Maybe, Throws, Clear("photo"), Now("vcard")>>, "looked", "looked")
  <2>1. LookedAt(<<Maybe, Throws, Clear("photo"), Now("vcard")>>, {1, 2, 3, 4, 5})
    BY DEF LookedAt, LookOps, PauseOps
  <2> QED BY <2>1 DEF Walks, Linear
<1>7. Walks(<<Still, Maybe>>, "looked", "looked")
  <2>1. LookedAt(<<Still, Maybe>>, {1, 2, 3})
    BY DEF LookedAt, LookOps, PauseOps
  <2> QED BY <2>1 DEF Walks, Linear
<1>8. Walks(<<Risky, Still, Wait, Undo("vcard"), Show("vcard")>>, "looked", "looked")
  <2>1. LookedAt(<<Risky, Still, Wait, Undo("vcard"), Show("vcard")>>, {1, 2, 3, 5, 6})
    BY DEF LookedAt, LookOps, PauseOps
  <2> QED BY <2>1 DEF Walks, Linear
<1>9. Walks(<<Still>>, "stale", "looked")
  <2>1. LookedAt(<<Still>>, {2})
    BY DEF LookedAt, LookOps, PauseOps
  <2> QED BY <2>1 DEF Walks, Linear
<1>10. Walks(<<LoggedIn, Maybe, Now("taken")>>, "looked", "looked")
  <2>1. LookedAt(<<LoggedIn, Maybe, Now("taken")>>, {1, 2, 3, 4})
    BY DEF LookedAt, LookOps, PauseOps
  <2> QED BY <2>1 DEF Walks, Linear
<1>11. Walks(<<Now("taken"), Wait, Still>>, "looked", "looked")
  <2>1. LookedAt(<<Now("taken"), Wait, Still>>, {1, 2, 4})
    BY DEF LookedAt, LookOps, PauseOps
  <2> QED BY <2>1 DEF Walks, Linear
<1>12. Walks(<<HasKeys, Risky, Now("messages")>>, "looked", "looked")
  <2>1. LookedAt(<<HasKeys, Risky, Now("messages")>>, {1, 2, 3, 4})
    BY DEF LookedAt, LookOps, PauseOps
  <2> QED BY <2>1 DEF Walks, Linear
<1>13. Walks(<<HasKeys, Maybe, Risky, Now("messages")>>, "looked", "looked")
  <2>1. LookedAt(<<HasKeys, Maybe, Risky, Now("messages")>>, {1, 2, 3, 4, 5})
    BY DEF LookedAt, LookOps, PauseOps
  <2> QED BY <2>1 DEF Walks, Linear
<1> HIDE DEF Clear, HasKeys, LoggedIn, Maybe, Now, Risky, Show, Still, Throws, Undo, Wait
<1>14. Orderly(identityEdited)
  BY <1>1, HandlerOrderly DEF identityEdited
<1>15. Orderly(vcfImported)
  <2>1. Walks(<<Wait, Still, Maybe>> \o parseAndDisplayVCF, "looked", "looked")
    BY <1>3, <1>4, WalkOn DEF parseAndDisplayVCF
  <2>2. \A i \in 1..Len(<<>>) : <<>>[i].op # "again"
    OBVIOUS
  <2>3. Orderly(Trying(<<Maybe, Still>>,
                       <<Wait, Still, Maybe>> \o parseAndDisplayVCF,
                       <<Maybe>>, <<>>, <<>>))
    BY ONLY <1>2, <2>1, <1>5, NothingWalks, <2>2, TryingOrderly
  <2> QED BY <2>3 DEF vcfImported
<1>16. Orderly(applyImportedVcardPreview)
  BY <1>6, HandlerOrderly DEF applyImportedVcardPreview
<1>17. Orderly(vcardGenerated)
  <2>1. \A i \in 1..Len(<<>>) : <<>>[i].op # "again"
    OBVIOUS
  <2>2. Orderly(Trying(<<Still, Maybe>>,
                       <<Risky, Still, Wait, Undo("vcard"), Show("vcard")>>,
                       <<Still>>, <<>>, <<>>))
    BY ONLY <1>7, <1>8, <1>9, NothingWalks, <2>1, TryingOrderly
  <2> QED BY <2>2 DEF vcardGenerated
<1>18. Orderly(vcardDownloaded)
  BY <1>10, HandlerOrderly DEF vcardDownloaded
<1>19. Orderly(vcardCopied)
  <2>1. \A i \in 1..Len(<<>>) : <<>>[i].op # "again"
    OBVIOUS
  <2>2. Orderly(Trying(<<Still, Maybe>>,
                       <<Now("taken"), Wait, Still>>,
                       <<Still>>, <<>>, <<>>))
    BY ONLY <1>7, <1>11, <1>9, NothingWalks, <2>1, TryingOrderly
  <2> QED BY <2>2 DEF vcardCopied
<1>20. Orderly(updateEncryptionTab)
  BY <1>12, HandlerOrderly DEF updateEncryptionTab
<1>21. Orderly(messageEncrypted)
  BY <1>13, HandlerOrderly DEF messageEncrypted
<1>22. Orderly(messageDecrypted)
  BY <1>13, HandlerOrderly DEF messageDecrypted
<1> QED BY <1>14, <1>15, <1>16, <1>17, <1>18, <1>19, <1>20, <1>21, <1>22

(* The trust map.                                                          *)
LEMMA TrustHandlers ==
  ASSUME Watched \subseteq GuardedSinks
  PROVE  /\ Orderly(trustEstablished)
         /\ Orderly(revocationAsked)
         /\ Orderly(trustRulesShown)
         /\ Orderly(trustRulesSaved)
         /\ Orderly(trustExported)
         /\ Orderly(trustImported)
<1> USE DEF LoggedIn, Maybe, Now, Show, Still, Wait
<1>0. "revocation" \notin Watched
  BY DEF GuardedSinks
<1>1. Walks(<<LoggedIn, Wait, Still, Show("trust")>>, "looked", "looked")
  <2>1. LookedAt(<<LoggedIn, Wait, Still, Show("trust")>>, {1, 2, 4, 5})
    BY DEF LookedAt, LookOps, PauseOps
  <2> QED BY <2>1 DEF Walks, Linear
<1>2. Walks(<<Maybe, Wait, Show("revocation")>>, "looked", "stale")
  <2>1. LookedAt(<<Maybe, Wait, Show("revocation")>>, {1, 2})
    BY <1>0 DEF LookedAt, LookOps, PauseOps
  <2> QED BY <2>1 DEF Walks, Linear
<1>3. Walks(<<Still, Wait, Still, Show("trust")>>, "looked", "looked")
  <2>1. LookedAt(<<Still, Wait, Still, Show("trust")>>, {1, 2, 4, 5})
    BY DEF LookedAt, LookOps, PauseOps
  <2> QED BY <2>1 DEF Walks, Linear
<1>4. Walks(<<Still, Maybe, Now("trust")>>, "looked", "looked")
  <2>1. LookedAt(<<Still, Maybe, Now("trust")>>, {1, 2, 3, 4})
    BY DEF LookedAt, LookOps, PauseOps
  <2> QED BY <2>1 DEF Walks, Linear
<1>5. Walks(<<Maybe, Wait, Still, Now("taken")>>, "looked", "looked")
  <2>1. LookedAt(<<Maybe, Wait, Still, Now("taken")>>, {1, 2, 4, 5})
    BY DEF LookedAt, LookOps, PauseOps
  <2> QED BY <2>1 DEF Walks, Linear
<1>6. Walks(<<Maybe, Still>>, "looked", "looked")
  <2>1. LookedAt(<<Maybe, Still>>, {1, 2, 3})
    BY DEF LookedAt, LookOps, PauseOps
  <2> QED BY <2>1 DEF Walks, Linear
<1>7. Walks(<<Wait, Still, Maybe, Wait, Still, Maybe, Show("storedTrust")>>, "looked", "looked")
  <2>1. LookedAt(<<Wait, Still, Maybe, Wait, Still, Maybe, Show("storedTrust")>>,
                 {1, 3, 4, 6, 7, 8})
    BY DEF LookedAt, LookOps, PauseOps
  <2> QED BY <2>1 DEF Walks, Linear
<1>8. Walks(<<Still>>, "stale", "looked")
  <2>1. LookedAt(<<Still>>, {2})
    BY DEF LookedAt, LookOps, PauseOps
  <2> QED BY <2>1 DEF Walks, Linear
<1> HIDE DEF LoggedIn, Maybe, Now, Show, Still, Wait
<1>9. Orderly(trustEstablished)
  BY <1>1, HandlerOrderly DEF trustEstablished
<1>10. Orderly(revocationAsked)
  BY <1>2, HandlerOrderly DEF revocationAsked
<1>11. Orderly(trustRulesShown)
  BY <1>3, HandlerOrderly DEF trustRulesShown
<1>12. Orderly(trustRulesSaved)
  BY <1>4, HandlerOrderly DEF trustRulesSaved
<1>13. Orderly(trustExported)
  BY <1>5, HandlerOrderly DEF trustExported
<1>14. Orderly(trustImported)
  <2>1. \A i \in 1..Len(<<>>) : <<>>[i].op # "again"
    OBVIOUS
  <2>2. Orderly(Trying(<<Maybe, Still>>,
                       <<Wait, Still, Maybe, Wait, Still, Maybe, Show("storedTrust")>>,
                       <<Still>>, <<>>, <<>>))
    BY ONLY <1>6, <1>7, <1>8, NothingWalks, <2>1, TryingOrderly
  <2> QED BY <2>2 DEF trustImported
<1> QED BY <1>9, <1>10, <1>11, <1>12, <1>13, <1>14

(* The scans, and the balance one of them asks for.                        *)
LEMMA ScanHandlers ==
  ASSUME Watched \subseteq GuardedSinks
  PROVE  /\ Orderly(fetchBalanceForScanTarget)
         /\ Orderly(scanActiveAccounts)
         /\ Orderly(runTrustScan)
<1> USE DEF Again, HasKeys, Lock, Maybe, Now, Show, Sleep, Still, Unlock, Wait
<1>0. "baselines" \notin Watched
  BY DEF GuardedSinks
<1>1. Walks(<<Still, Maybe, Maybe>>, "looked", "looked")
  <2>1. LookedAt(<<Still, Maybe, Maybe>>, {1, 2, 3, 4})
    BY DEF LookedAt, LookOps, PauseOps
  <2> QED BY <2>1 DEF Walks, Linear
<1> DEFINE attempt == <<Sleep, Still, Show("balances"), Wait, Still, Still, Show("balances"),
                        Sleep, Still, Again(1)>>
<1>2. Walks(attempt, "looked", "looked")
  <2>1. LookedAt(attempt, {1, 3, 4, 6, 7, 8, 10, 11})
    BY DEF LookedAt, LookOps, PauseOps
  <2> QED BY <2>1 DEF Walks, Linear
<1>3. Walks(<<Still, Show("balances")>>, "stale", "looked")
  <2>1. LookedAt(<<Still, Show("balances")>>, {2, 3})
    BY DEF LookedAt, LookOps, PauseOps
  <2> QED BY <2>1 DEF Walks, Linear
<1>4. Walks(<<Still>>, "stale", "looked")
  <2>1. LookedAt(<<Still>>, {2})
    BY DEF LookedAt, LookOps, PauseOps
  <2> QED BY <2>1 DEF Walks, Linear
<1> DEFINE accountsPre == <<HasKeys, Still, Lock("balances"), Show("balances"), Now("accounts")>>
           targets == <<Still, Sleep, Still, Show("balances"), Wait, Still, Show("balances"),
                        Still, Show("accounts"), Again(1), Still, Show("accounts")>>
<1>5. /\ LookedAt(accountsPre, {1, 2, 3, 4, 5, 6}) /\ Len(accountsPre) = 5
      /\ accountsPre[3].op = "lock" /\ accountsPre[3].scan = "balances"
      /\ \A k \in 1..5 : accountsPre[k].op # "unlock"
      /\ \A k \in 1..5 : accountsPre[k].op = "lock" => accountsPre[k].scan = "balances"
  BY DEF LookedAt, LookOps, PauseOps
<1>6. Walks(targets, "looked", "looked")
  <2>1. LookedAt(targets, {1, 2, 4, 5, 7, 8, 9, 10, 11, 12, 13})
    BY DEF LookedAt, LookOps, PauseOps
  <2> QED BY <2>1 DEF Walks, Linear
<1> DEFINE trustPre == <<Still, Maybe, Lock("trust"), Show("trust")>>
           trustBody == <<Wait, Still, Wait, Still, Wait, Still, Wait, Sleep, Show("baselines"),
                          Still, Show("trust"), Still, Show("trust"), Still, Show("trust")>>
<1>7. /\ LookedAt(trustPre, {1, 2, 3, 4, 5}) /\ Len(trustPre) = 4
      /\ trustPre[3].op = "lock" /\ trustPre[3].scan = "trust"
      /\ \A k \in 1..4 : trustPre[k].op # "unlock"
      /\ \A k \in 1..4 : trustPre[k].op = "lock" => trustPre[k].scan = "trust"
  BY DEF LookedAt, LookOps, PauseOps
<1>8. Walks(trustBody, "looked", "looked")
  <2>1. LookedAt(trustBody, {1, 3, 5, 7, 11, 12, 13, 14, 15, 16})
    BY <1>0 DEF LookedAt, LookOps, PauseOps
  <2> QED BY <2>1 DEF Walks, Linear
<1>9. Walks(<<Still, Show("trust")>>, "stale", "looked")
  <2>1. LookedAt(<<Still, Show("trust")>>, {2, 3})
    BY DEF LookedAt, LookOps, PauseOps
  <2> QED BY <2>1 DEF Walks, Linear
<1> HIDE DEF Again, HasKeys, Lock, Maybe, Now, Show, Sleep, Still, Unlock, Wait
<1>10. fetchBalanceForScanTarget =
         Trying(<<Still, Maybe, Maybe>>, attempt, <<Still, Show("balances")>>, <<>>, <<Still>>)
  <2>1. attempt = waitForScanThrottle \o <<Wait, Still, Still, Show("balances")>>
                  \o <<Sleep, Still, Again(1)>>
    BY DEF waitForScanThrottle
  <2> QED BY <2>1 DEF fetchBalanceForScanTarget
<1>11. scanActiveAccounts =
         Trying(accountsPre, targets, <<>>, <<Unlock("balances")>>, <<>>)
  <2>1. targets = <<Still>> \o waitForScanThrottle
                  \o <<Wait, Still, Show("balances"), Still, Show("accounts"), Again(1)>>
                  \o <<Still, Show("accounts")>>
    BY DEF waitForScanThrottle
  <2> QED BY <2>1 DEF scanActiveAccounts
<1>12. runTrustScan =
         Trying(trustPre, trustBody, <<Still, Show("trust")>>, <<Unlock("trust")>>, <<>>)
  <2>1. trustBody = <<Wait, Still, Wait, Still, Wait, Still>> \o monitorTrustDrains
                    \o <<Still, Show("trust"), Still, Show("trust"), Still, Show("trust")>>
    BY DEF monitorTrustDrains
  <2> QED BY <2>1 DEF runTrustScan
<1> HIDE DEF attempt, accountsPre, targets, trustPre, trustBody
<1>14. Orderly(fetchBalanceForScanTarget)
  <2>1. \A i \in 1..Len(<<>>) : <<>>[i].op # "again"
    OBVIOUS
  <2>2. Orderly(Trying(<<Still, Maybe, Maybe>>, attempt, <<Still, Show("balances")>>, <<>>,
                       <<Still>>))
    BY ONLY <1>1, <1>2, <1>3, <1>4, <2>1, NothingWalks, TryingOrderly
  <2> QED BY <1>10, <2>2
<1>15. Orderly(scanActiveAccounts)
  <2>1. /\ "balances" \in Scans /\ {1, 2, 3, 4, 5, 6} \in SUBSET Nat
        /\ LookedAt(accountsPre, {1, 2, 3, 4, 5, 6})
        /\ Len(accountsPre) \in Nat /\ (Len(accountsPre) + 1) \in {1, 2, 3, 4, 5, 6}
        /\ \E k \in 1..Len(accountsPre) :
             accountsPre[k].op = "lock" /\ accountsPre[k].scan = "balances"
        /\ \A k \in 1..Len(accountsPre) :
             /\ accountsPre[k].op # "unlock"
             /\ accountsPre[k].op = "lock" => accountsPre[k].scan \in Scans
    BY <1>5 DEF Scans
  <2>2. Orderly(Trying(accountsPre, targets, <<>>, <<Unlock("balances")>>, <<>>))
    BY ONLY <2>1, <1>6, NothingWalks, ScanOrderly
  <2> QED BY <1>11, <2>2
<1>16. Orderly(runTrustScan)
  <2>1. /\ "trust" \in Scans /\ {1, 2, 3, 4, 5} \in SUBSET Nat
        /\ LookedAt(trustPre, {1, 2, 3, 4, 5})
        /\ Len(trustPre) \in Nat /\ (Len(trustPre) + 1) \in {1, 2, 3, 4, 5}
        /\ \E k \in 1..Len(trustPre) : trustPre[k].op = "lock" /\ trustPre[k].scan = "trust"
        /\ \A k \in 1..Len(trustPre) :
             /\ trustPre[k].op # "unlock"
             /\ trustPre[k].op = "lock" => trustPre[k].scan \in Scans
    BY <1>7 DEF Scans
  <2>2. Orderly(Trying(trustPre, trustBody, <<Still, Show("trust")>>, <<Unlock("trust")>>, <<>>))
    BY ONLY <2>1, <1>8, <1>9, ScanOrderly
  <2> QED BY <1>12, <2>2
<1> QED BY <1>14, <1>15, <1>16

(* The records put on a chain: they write nothing but what is signed.      *)
LEMMA RecordHandlers ==
  ASSUME Watched \subseteq GuardedSinks
  PROVE  \A p \in trustConfirmed \cup revocationConfirmed : Orderly(p)
<1> USE DEF External, NeedsKeys, Risky, Show, Still, Wait
<1>0. "broadcast" \notin Watched
  BY DEF GuardedSinks
<1>1. \A record \in publishTrustRecord : LookedAt(record, {}) /\ Linear(record)
  <2> DEFINE btc == <<Wait, Risky, Wait, Risky, NeedsKeys, Risky, Show("broadcast"), Wait>>
             sol == <<Wait, Risky, Wait, NeedsKeys, Risky, Show("broadcast"), Wait>>
             ethExternal == <<Wait, Risky, External, Show("broadcast"), Wait>>
             solExternal == <<Wait, Risky, Wait, External, Risky, Show("broadcast"), Wait>>
  <2>1. /\ LookedAt(btc, {}) /\ LookedAt(sol, {})
        /\ LookedAt(ethExternal, {}) /\ LookedAt(solExternal, {})
    BY <1>0 DEF LookedAt
  <2>2. Linear(btc) /\ Linear(sol) /\ Linear(ethExternal) /\ Linear(solExternal)
    BY DEF Linear
  <2>3. publishTrustRecord = {btc, sol, ethExternal, solExternal}
    BY DEF publishTrustRecord
  <2> HIDE DEF btc, sol, ethExternal, solExternal
  <2> QED BY <2>1, <2>2, <2>3
<1>2. LookedAt(<<Still>>, {}) /\ Linear(<<Still>>) /\ LookedAt(<<>>, {}) /\ Linear(<<>>)
  BY DEF LookedAt, Linear
<1> HIDE DEF External, NeedsKeys, Risky, Show, Still, Wait
<1>3. ASSUME NEW pre \in {<<Still>>, <<>>}, NEW record \in publishTrustRecord
      PROVE  Orderly(Trying(pre, record, <<>>, <<>>, <<>>))
  <2>1. Walks(pre, "looked", "stale") /\ Walks(record, "stale", "stale")
    BY <1>1, <1>2 DEF Walks
  <2>2. \A i \in 1..Len(<<>>) : <<>>[i].op # "again"
    OBVIOUS
  <2> QED BY ONLY <2>1, <2>2, NothingWalks, TryingOrderly
<1> QED BY <1>3 DEF trustConfirmed, revocationConfirmed

(* Every handler of the page looks before it shows something of its login  *)
(* in a sink that the page guards.                                         *)
LEMMA AllLookFirst ==
  ASSUME HandlerPrograms \subseteq AllHandlers, Watched \subseteq GuardedSinks,
         "external" \notin OverLogins
  PROVE  LooksFirst
<1>1. \A p \in AllHandlers : Orderly(p)
  BY AccountHandlers, PaymentHandlers, NameHandlers, KeyHandlers, PhotoHandlers, CardHandlers,
     TrustHandlers, ScanHandlers, RecordHandlers DEF AllHandlers
<1>2. GuardedSinks \subseteq LogoutClears \cup Outlives
  BY DEF GuardedSinks, LogoutClears, Outlives, clearSensitiveWalletUI, clearTrustStateAndUI,
         clearSignedVCardStateAndUI, stopCamera, resetMessagingStateAndUI
<1> QED BY <1>1, <1>2 DEF LooksFirst

(***************************************************************************)
(* Whatever handlers of the page run, however many and however late their  *)
(* answers come: after logout() the page holds nothing of any login, and a *)
(* session has one scan of a kind at a time (the looks at                  *)
(* isCurrentLegacySession after each await, and the locks of the scans     *)
(* that name a generation).                                                *)
(***************************************************************************)
THEOREM LoginsSafe ==
  ASSUME HandlerPrograms \subseteq AllHandlers, Watched \subseteq GuardedSinks,
         "external" \notin OverLogins
  PROVE  PageSpec => []LoginsAreSeparate
<1>1. LooksFirst
  BY AllLookFirst
<1>2. PageSpec => []LegacyInv
  BY <1>1, LegacyInvariant
<1>3. LegacyInv => LoginsAreSeparate
  BY <1>1, LoginsApart
<1> QED BY <1>2, <1>3, PTL

(***************************************************************************)
(* And nothing of a login that is over is written into the page: what a    *)
(* handler of app.js writes after an await is of the login the page is in  *)
(* at that moment, or of nobody.                                           *)
(***************************************************************************)
THEOREM EndedSessionsWriteNothing ==
  ASSUME HandlerPrograms \subseteq AllHandlers, Watched \subseteq GuardedSinks,
         "external" \notin OverLogins
  PROVE  PageSpec => EndedSessionWritesNothing
<1>1. LooksFirst
  BY AllLookFirst
<1>2. PageSpec => []LegacyInv
  BY <1>1, LegacyInvariant
<1>3. LegacyInv /\ [PageNext]_pageVars =>
        [logins' = logins /\ holds' # holds => holds' \in {Nobody, session'}]_pageVars
  BY <1>1, EndedWritesNothing
<1> QED BY <1>2, <1>3, PTL DEF PageSpec, EndedSessionWritesNothing
=============================================================================
