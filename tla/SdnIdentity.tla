---------------------------- MODULE SdnIdentity ----------------------------
(***************************************************************************)
(* The native identities of wasm/src/sdn-typed.mjs.  A derivation or an    *)
(* import opens one of the instance's few native slots; its value is given *)
(* to the caller behind an opaque handle ("issued"), or, when a later step *)
(* of the same call fails, is destroyed again ("rolled back").  A destroy  *)
(* that throws leaves the value queued, and the next call has to drain the *)
(* queue first.                                                            *)
(*                                                                         *)
(* A password is derived in a fresh WASM instance of its own and moved     *)
(* into this one: the call waits for that instance and for its derivation, *)
(* so several such calls interleave; the rest of each call is synchronous. *)
(*                                                                         *)
(* Native values are never used twice, so they are the numbers 1, 2, ...   *)
(* The reads of the heap after a native call are taken to succeed.         *)
(***************************************************************************)
EXTENDS Naturals, FiniteSets

CONSTANTS Calls,         \* the password derivations of one page
          Slots,         \* native identities an instance can hold (16 in the code)
          MaxValues      \* bound: identities ever opened

ASSUME SlotsAssumption == Slots \in Nat \ {0} /\ MaxValues \in Nat

VARIABLES slots,   \* the identities that are open in the instance
          made,    \* how many were ever opened
          record,  \* issuedHandles: the state behind each handle
          queue,   \* unpublishedRollbackQueue
          held,    \* the handles a call has returned
          call,    \* how far each password derivation is
          kdf      \* what its short-lived instance holds

sdnVars == <<slots, made, record, queue, held, call, kdf>>

Values == 1..MaxValues

SdnTypeOK ==
    /\ slots \subseteq Values /\ made \in 0..MaxValues
    /\ record \in [Values -> {"none", "active", "destroy-pending", "destroyed"}]
    /\ queue \subseteq Values /\ held \subseteq Values
    /\ call \in [Calls -> {"idle", "instance", "deriving", "returned", "failed"}]
    /\ kdf \in [Calls -> {"none", "secrets", "zeroed"}]

SdnInit ==
    /\ slots = {} /\ made = 0
    /\ record = [v \in Values |-> "none"]
    /\ queue = {} /\ held = {}
    /\ call = [c \in Calls |-> "idle"]
    /\ kdf = [c \in Calls |-> "none"]

-----------------------------------------------------------------------------
(***************************************************************************)
(* invokeDerive, synchronous, by its outcomes.                             *)
(***************************************************************************)

(* A queued identity cannot be destroyed: the call fails there.            *)
DrainFails ==
    \E gone \in SUBSET queue :
        /\ gone # queue
        /\ slots' = slots \ gone /\ queue' = queue \ gone
        /\ UNCHANGED <<made, record>>

Drained == slots \ queue

CanOpen == made < MaxValues /\ Cardinality(Drained) < Slots

(* No memory, no free slot, or a native status without an identity.        *)
Refused ==
    /\ slots' = Drained /\ queue' = {}
    /\ UNCHANGED <<made, record>>

(* The identity is open and something after that fails: the export threw,  *)
(* the status or the answer is not valid, the answer is not the one that   *)
(* was asked for, a buffer could not be wiped.                             *)
RolledBack ==
    /\ CanOpen
    /\ made' = made + 1
    /\ slots' = Drained /\ queue' = {}
    /\ UNCHANGED record

RollbackFails ==
    /\ CanOpen
    /\ made' = made + 1
    /\ slots' = Drained \union {made'} /\ queue' = {made'}
    /\ UNCHANGED record

(* A slip: the call opens an identity over the queued ones.                *)
IssuedUndrained ==
    /\ CanOpen
    /\ made' = made + 1
    /\ slots' = slots \union {made'} /\ UNCHANGED queue
    /\ record' = [record EXCEPT ![made'] = "active"]

Issued ==
    /\ CanOpen
    /\ made' = made + 1
    /\ slots' = Drained \union {made'} /\ queue' = {}
    /\ record' = [record EXCEPT ![made'] = "active"]

DeriveFails == DrainFails \/ Refused \/ RolledBack \/ RollbackFails

(* deriveLegacyPasswordIdentity, importLegacyMnemonicIdentity,             *)
(* importRememberedIdentity, and derivePasswordIdentity of an instance     *)
(* that was made without createKdfInstance.                                *)
Derive ==
    /\ \/ Issued /\ held' = held \union {made'}
       \/ DeriveFails /\ UNCHANGED held
    /\ UNCHANGED <<call, kdf>>

-----------------------------------------------------------------------------
(***************************************************************************)
(* derivePasswordIdentity through deriveInKdfInstance.                     *)
(***************************************************************************)
(* A slip: only a derivation that returns zeroes the memory.               *)
EndsDirty(c, how) ==
    /\ call' = [call EXCEPT ![c] = how]
    /\ kdf' = [kdf EXCEPT ![c] = IF @ # "none" /\ how = "returned" THEN "zeroed" ELSE @]

Ends(c, how) ==
    /\ call' = [call EXCEPT ![c] = how]
    /\ kdf' = [kdf EXCEPT ![c] = IF @ = "none" THEN @ ELSE "zeroed"]

Password(c) ==
    /\ call[c] = "idle"
    /\ call' = [call EXCEPT ![c] = "instance"]
    /\ UNCHANGED <<slots, made, record, queue, held, kdf>>

(* The input is refused, or the short-lived instance does not load.        *)
PasswordFails(c) ==
    /\ call[c] \in {"idle", "instance"}
    /\ Ends(c, "failed")
    /\ UNCHANGED <<slots, made, record, queue, held>>

InstanceLoads(c) ==
    /\ call[c] = "instance"
    /\ call' = [call EXCEPT ![c] = "deriving"]
    /\ kdf' = [kdf EXCEPT ![c] = "secrets"]
    /\ UNCHANGED <<slots, made, record, queue, held>>

(* The derivation there fails, or this instance refuses to begin the       *)
(* transfer, or that one to seal it: nothing has reached this instance.    *)
TransferFails(c) ==
    /\ call[c] = "deriving"
    /\ Ends(c, "failed")
    /\ UNCHANGED <<slots, made, record, queue, held>>

OpenFails(c) ==
    /\ call[c] = "deriving"
    /\ DeriveFails
    /\ Ends(c, "failed")
    /\ UNCHANGED held

Transferred(c) ==
    /\ call[c] = "deriving"
    /\ Issued
    /\ held' = held \union {made'}
    /\ Ends(c, "returned")

(* The identity that arrived is not the one that was sent, and is          *)
(* destroyed by a handle nobody else has.                                  *)
TransferDiffers(c) ==
    /\ call[c] = "deriving"
    /\ CanOpen
    /\ made' = made + 1
    /\ slots' = Drained /\ queue' = {}
    /\ record' = [record EXCEPT ![made'] = "destroyed"]
    /\ Ends(c, "failed")
    /\ UNCHANGED held

TransferDiffersDestroyThrows(c) ==
    /\ call[c] = "deriving"
    /\ CanOpen
    /\ made' = made + 1
    /\ slots' = Drained \union {made'} /\ queue' = {}
    /\ record' = [record EXCEPT ![made'] = "destroy-pending"]
    /\ Ends(c, "failed")
    /\ UNCHANGED held

(* The identity is issued, and then the caller's password cannot be wiped  *)
(* because its buffer was transferred during the wait: the finally throws. *)
CleanupFails(c) ==
    /\ call[c] = "deriving"
    /\ Issued
    /\ Ends(c, "failed")
    /\ UNCHANGED held

-----------------------------------------------------------------------------
(***************************************************************************)
(* What is done with a handle.                                             *)
(***************************************************************************)

(* destroySdnIdentity; of a destroyed identity it does nothing.            *)
DestroyIdentity(v) ==
    /\ v \in held /\ record[v] \in {"active", "destroy-pending"}
    /\ record' = [record EXCEPT ![v] = "destroyed"]
    /\ slots' = slots \ {v}
    /\ UNCHANGED <<made, queue, held, call, kdf>>

(* The native destroy throws: no operation accepts the handle any more     *)
(* (recordFor), and destroySdnIdentity may be called again.                *)
DestroyIdentityThrows(v) ==
    /\ v \in held /\ record[v] \in {"active", "destroy-pending"}
    /\ record' = [record EXCEPT ![v] = "destroy-pending"]
    /\ UNCHANGED <<slots, made, queue, held, call, kdf>>

(* recordFor: the signatures, sealRememberedIdentity and openSealedFields  *)
(* reach native code for these handles only.  They change no state here.   *)
Usable == {v \in held : record[v] = "active"}

SdnNext ==
    \/ Derive
    \/ \E c \in Calls : Password(c)
    \/ \E c \in Calls : PasswordFails(c)
    \/ \E c \in Calls : InstanceLoads(c)
    \/ \E c \in Calls : TransferFails(c)
    \/ \E c \in Calls : OpenFails(c)
    \/ \E c \in Calls : Transferred(c)
    \/ \E c \in Calls : TransferDiffers(c)
    \/ \E c \in Calls : TransferDiffersDestroyThrows(c)
    \/ \E c \in Calls : CleanupFails(c)
    \/ \E v \in Values : DestroyIdentity(v)
    \/ \E v \in Values : DestroyIdentityThrows(v)

SdnSpec == SdnInit /\ [][SdnNext]_sdnVars

-----------------------------------------------------------------------------
(* Every open native identity can still be destroyed by someone: a caller  *)
(* has its handle, or it is queued for the next call to drain.  Otherwise  *)
(* its slot is gone for the lifetime of the page.                          *)
NoSlotIsLost == \A v \in slots : (v \in held /\ record[v] # "destroyed") \/ v \in queue

(* No operation reaches a native identity that was destroyed, at most one  *)
(* rolled-back identity is ever open, and an ended password derivation     *)
(* leaves no secret in the memory of its short-lived instance.             *)
AuthorityIsLive ==
    /\ SdnTypeOK
    /\ Usable \subseteq slots
    /\ Cardinality(queue) <= 1 /\ queue \subseteq slots
    /\ \A c \in Calls : call[c] \in {"returned", "failed"} => kdf[c] # "secrets"

(* A new identity is opened only after every queued one was destroyed, and *)
(* a handle that was refused once is refused for ever.                     *)
DrainsFirst ==
    /\ made' # made => slots' \intersect queue = {}
    /\ \A v \in held : record[v] # "active" => record'[v] # "active"
=============================================================================
