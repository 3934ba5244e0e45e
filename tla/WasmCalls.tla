----------------------------- MODULE WasmCalls -----------------------------
(***************************************************************************)
(* How one call of the JavaScript bindings (wasm/src/index.mjs and the     *)
(* modules around it) uses the memory of the WASM instance.  A wrapper     *)
(* prepares its buffers, enters a try block, calls the native export,      *)
(* reads the outputs, and gives the memory back in a finally block.  The   *)
(* wrappers differ only in their buffers and in the order of those steps,  *)
(* so each one is a PROGRAM (its definition is in WasmBindings and         *)
(* WasmCapabilities) and this module is what executes it.  Calls are       *)
(* synchronous: nothing runs between two steps of one call, so one call at *)
(* a time is the whole of the concurrency; the choices are the failures.   *)
(*                                                                         *)
(* A program has four parts: "pre" runs before the try, "body" inside it,  *)
(* "caught" in its catch (only when the body threw), "fin" in its finally. *)
(* A step that throws in "pre" leaves the call at once; one that throws in *)
(* "body" goes to "caught" and "fin" and then leaves.                      *)
(*                                                                         *)
(* A buffer is absent from "heap" until it is allocated, and then          *)
(*   "null"   the allocator answered 0 and the wrapper did not look,       *)
(*   "raw"    allocated, nothing written yet,                              *)
(*   "dirty"  holds the caller's data or what the export wrote,            *)
(*   "wiped"  zeroed,             "gone"    given back,                    *)
(*   "held"   a native handle (not a buffer) that is still open,           *)
(*   "corrupt" used or given back after it was given back.                 *)
(***************************************************************************)
EXTENDS Naturals, Sequences

CONSTANT Programs    \* the programs of the wrappers that are checked

VARIABLES prog,      \* the program of the current call, or Idle
          part,      \* "pre", "body", "caught", "fin"; "done", or "left"
                     \* when an exception left the call before its try
          at,        \* the step of that part that runs next
          threw,     \* the call is leaving with an exception
          heap       \* the buffers and handles of this call

callVars == <<prog, part, at, threw, heap>>

Idle == [pre |-> <<>>, body |-> <<>>, caught |-> <<>>, fin |-> <<>>]

-----------------------------------------------------------------------------
(***************************************************************************)
(* The steps a wrapper is made of.                                         *)
(***************************************************************************)
Check   == [op |-> "check"]                  \* validation, a missing export, a getter
Sub     == [op |-> "check"]                  \* a call of another wrapper
Native  == [op |-> "native"]                 \* an export whose result is checked
Ask     == [op |-> "ask"]                    \* an export whose result is only compared
Copy(b) == [op |-> "copy", buf |-> b]        \* allocAndCopy, allocString
New(b)  == [op |-> "new", buf |-> b]         \* _hd_alloc with a check for 0
Raw(b)  == [op |-> "raw", buf |-> b]         \* _hd_alloc without one
Opt(b)  == [op |-> "opt", buf |-> b]         \* Copy, or no buffer at all
Put(b)  == [op |-> "use", buf |-> b]         \* setValue into a size cell
Take(b) == [op |-> "take", buf |-> b]        \* readBytes, readString, getValue
Wipe(b) == [op |-> "wipe", buf |-> b]        \* _hd_secure_wipe
Free(b) == [op |-> "free", buf |-> b]        \* _hd_dealloc
Make(b) == [op |-> "make", buf |-> b]        \* an export that opens a handle or answers 0
Destroy(b) == [op |-> "destroy", buf |-> b]  \* wipe() or destroy() of that handle

Each(Step(_), bs) == [i \in 1..Len(bs) |-> Step(bs[i])]

Program(pre, body, fin) ==
    [pre |-> pre, body |-> body, caught |-> <<>>, fin |-> fin]

(* Validate, copy the inputs in, allocate the outputs; call and read the   *)
(* outputs; wipe what is secret and give everything back.                  *)
Exchange(copies, outs, wiped) ==
    Program(<<Check>> \o Each(Copy, copies) \o Each(Raw, outs),
            <<Native>> \o Each(Take, outs),
            Each(Wipe, wiped) \o Each(Free, copies \o outs))

(* The same with an output whose length the export writes to a size cell.  *)
SizedExchange(copies, outs, size, wiped) ==
    Program(<<Check>> \o Each(Copy, copies) \o Each(Raw, outs) \o <<Raw(size)>>,
            <<Put(size), Native, Take(size)>> \o Each(Take, outs),
            Each(Wipe, wiped) \o Each(Free, copies \o outs \o <<size>>))

(* A question: the inputs are copied in and the result is compared.        *)
Question(copies) ==
    Program(<<Check>> \o Each(Copy, copies), <<Ask>>, Each(Free, copies))

(* A call without buffers.                                                 *)
Plain(body) == Program(<<Check>>, body, <<>>)

-----------------------------------------------------------------------------
CallInit ==
    /\ prog = Idle
    /\ part = "done"
    /\ at = 1
    /\ threw = FALSE
    /\ heap = <<>>

Ended == part \in {"done", "left"}

(* A wrapper is called; nothing of the previous call can be reached.       *)
Begin(p) ==
    /\ Ended
    /\ prog' = p
    /\ part' = "pre"
    /\ at' = 1
    /\ threw' = FALSE
    /\ heap' = <<>>

Running == ~Ended /\ at <= Len(prog[part])

This == prog[part][at]

Advance == at' = at + 1 /\ UNCHANGED <<prog, part, threw>>

(* An exception: out of "pre" it leaves the call, out of "body" it goes to *)
(* the catch.  Neither the catch nor the finally blocks of the bindings    *)
(* contain a step that throws.                                             *)
Throw ==
    /\ threw' = TRUE
    /\ part' = IF part = "pre" THEN "left" ELSE "caught"
    /\ at' = 1
    /\ UNCHANGED <<prog, heap>>

Allocated(b, s) ==
    heap' = [x \in DOMAIN heap \cup {b} |-> IF x = b THEN s ELSE heap[x]]

CheckPasses == Running /\ This.op = "check" /\ Advance /\ UNCHANGED heap

CheckThrows == Running /\ This.op = "check" /\ Throw

CopyIn ==
    /\ Running /\ This.op \in {"copy", "opt"}
    /\ Allocated(This.buf, "dirty")
    /\ Advance

(* Out of memory, or a string allocString refuses.                         *)
AllocThrows == Running /\ This.op \in {"copy", "opt", "new"} /\ Throw

CopyOmitted == Running /\ This.op = "opt" /\ Advance /\ UNCHANGED heap

AllocOut ==
    /\ Running /\ This.op \in {"raw", "new"}
    /\ Allocated(This.buf, "raw")
    /\ Advance

AllocNull ==
    /\ Running /\ This.op = "raw"
    /\ Allocated(This.buf, "null")
    /\ Advance

(* What a native call leaves in memory: an output may have been written    *)
(* whether or not the call reports success.                                *)
Written == [b \in DOMAIN heap |-> IF heap[b] = "raw" THEN "dirty" ELSE heap[b]]

(* The exports check their pointers: with a null one they fail.            *)
NativeOk ==
    /\ Running
    /\ \/ This.op = "native" /\ \A b \in DOMAIN heap : heap[b] # "null"
       \/ This.op = "ask"
    /\ heap' = Written
    /\ Advance

NativeFails ==
    /\ Running /\ This.op = "native"
    /\ threw' = TRUE
    /\ part' = IF part = "pre" THEN "left" ELSE "caught"
    /\ at' = 1
    /\ heap' = Written
    /\ UNCHANGED prog

HandleMade ==
    /\ Running /\ This.op = "make"
    /\ Allocated(This.buf, "held")
    /\ Advance

HandleRefused == Running /\ This.op = "make" /\ Throw

(* An access to a buffer: of one that is not there, a corruption.  A wipe  *)
(* and a free of a null pointer do nothing.                                *)
Touch(b, s) ==
    /\ b \in DOMAIN heap
    /\ heap' = [heap EXCEPT ![b] = IF @ = "gone" THEN "corrupt"
                                   ELSE IF @ = "null" THEN @ ELSE s]

Access ==
    /\ Running /\ This.op \in {"use", "take"}
    /\ Touch(This.buf, IF This.op = "use" THEN "dirty" ELSE heap[This.buf])
    /\ Advance

WipeBuffer == Running /\ This.op = "wipe" /\ Touch(This.buf, "wiped") /\ Advance

Release == Running /\ This.op \in {"free", "destroy"} /\ Touch(This.buf, "gone") /\ Advance

(* if (ptr) _hd_dealloc(ptr) for a buffer that was never allocated.        *)
ReleaseOmitted ==
    /\ Running /\ This.op \in {"free", "destroy", "wipe"}
    /\ This.buf \notin DOMAIN heap
    /\ Advance
    /\ UNCHANGED heap

(* The end of one part is the beginning of the next one that applies.      *)
NextPart ==
    /\ ~Ended /\ at > Len(prog[part])
    /\ part' = CASE part = "pre" -> "body"
                 [] part \in {"body", "caught"} -> "fin"
                 [] part = "fin" -> "done"
    /\ at' = 1
    /\ UNCHANGED <<prog, threw, heap>>

CallNext ==
    \/ \E p \in Programs : Begin(p)
    \/ CheckPasses \/ CheckThrows
    \/ CopyIn \/ CopyOmitted \/ AllocThrows
    \/ AllocOut \/ AllocNull
    \/ NativeOk \/ NativeFails
    \/ HandleMade \/ HandleRefused
    \/ Access \/ WipeBuffer
    \/ Release \/ ReleaseOmitted
    \/ NextPart

CallSpec == CallInit /\ [][CallNext]_callVars
=============================================================================
