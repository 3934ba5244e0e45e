-------------------------- MODULE WasmCapabilities --------------------------
(***************************************************************************)
(* The batch capabilities of wasm/src/aligned.mjs, the native checks of    *)
(* wasm/src/input-validation.mjs and the identity calls of                 *)
(* wasm/src/sdn-typed.mjs, as programs of WasmCalls, together with what    *)
(* every program of the package promises about the WASM heap.  A try       *)
(* inside a try is a program of its own, called by a Sub step.             *)
(***************************************************************************)
EXTENDS WasmBindings

-----------------------------------------------------------------------------
(* nativeKeyCheck for a private and for a public key.                      *)
validate_privateKey ==
    Program(<<Check, New("key")>>, <<Put("key"), Ask>>, <<Wipe("key"), Free("key")>>)

validate_publicKey == Program(<<Check, New("pub")>>, <<Put("pub"), Ask>>, <<Free("pub")>>)

-----------------------------------------------------------------------------
(* class AlignedKeyDeriver.  The request carries the base private key and  *)
(* the results carry the derived ones.                                     *)

AlignedKeyDeriver_deriveBatch ==
    Program(<<Check, New("request")>>, <<Sub, Put("request"), Sub>>,
            <<Wipe("request"), Free("request")>>)

deriveBatch_results ==
    Program(<<New("results")>>, <<Native, Take("results")>>, <<Wipe("results"), Free("results")>>)

(* streamKeys up to the open stream: the refusal of the export is looked   *)
(* at after the finally, which changes nothing the call leaves behind.     *)
AlignedKeyDeriver_streamKeys ==
    Program(<<Check, New("request")>>, <<Sub, Put("request"), Make("stream")>>,
            <<Wipe("request"), Free("request")>>)

(* A slip: the stream is destroyed at the end of the loop only.           *)
StreamFreedInLoop ==
    Program(<<Make("stream"), New("results")>>,
            <<Native, Take("results"), Check, Native, Take("results"), Check, Destroy("stream")>>,
            <<Wipe("results"), Free("results")>>)

(* streamKeys from the open stream on: each Check is a yield, where the    *)
(* consumer may abandon the generator and so run its finally.  Without a   *)
(* results buffer the stream is destroyed just the same.                   *)
streamKeys_batches ==
    Program(<<Make("stream")>>,
            <<New("results"), Native, Take("results"), Check, Native, Take("results"), Check>>,
            <<Wipe("results"), Free("results"), Destroy("stream")>>)

(* A slip: the copied key is given back as it is.                          *)
KeyDataFreedOnly ==
    Program(<<Check, New("keyData")>>, <<Native, Take("keyData"), Wipe("keyData")>>,
            <<Free("keyData")>>)

fillBaseKey ==
    Program(<<Check, New("keyData")>>, <<Native, Take("keyData")>>,
            <<Wipe("keyData"), Free("keyData")>>)

-----------------------------------------------------------------------------
(* class AlignedSigner: three buffers, each with a finally of its own.     *)

AlignedSigner_signBatch ==
    Program(<<Check, Sub, New("request")>>, <<Put("request"), Sub>>,
            <<Wipe("request"), Free("request")>>)

signBatch_hashes == Program(<<New("hashes")>>, <<Put("hashes"), Sub>>, <<Free("hashes")>>)

signBatch_results == Program(<<New("sigs")>>, <<Native, Take("sigs")>>, <<Free("sigs")>>)

AlignedSigner_verifyBatch ==
    Program(<<Check, Sub, New("query")>>, <<Put("query"), Sub>>, <<Free("query")>>)

verifyBatch_entries == Program(<<New("entries")>>, <<Put("entries"), Sub>>, <<Free("entries")>>)

verifyBatch_results == Program(<<New("verdicts")>>, <<Native, Take("verdicts")>>, <<Free("verdicts")>>)

AlignedAPI_keyToBytes ==
    Program(<<Check, New("keyData")>>, <<Native, Take("keyData")>>,
            <<Wipe("keyData"), Free("keyData")>>)

-----------------------------------------------------------------------------
(* wasm/src/sdn-typed.mjs: the buffers of a call belong to its allocation  *)
(* scope, which gives them back in reverse order in the finally, whatever  *)
(* part of them was allocated.  SdnIdentity has the identities themselves. *)

(* The longest of them, invokeDerive for importRememberedIdentity.         *)
sdn_invokeDerive ==
    Program(<<Sub>>,
            <<Copy("input"), Copy("prf"), New("outHandle"), New("required"), New("json"),
              Native, Take("outHandle"), Take("required"), Take("json"), Check>>,
            <<Free("json"), Free("required"), Wipe("outHandle"), Free("outHandle"),
              Wipe("prf"), Free("prf"), Free("input")>>)

sdn_invokeSign ==
    Program(<<>>, <<Copy("input"), New("required"), New("json"), Native, Take("required"), Take("json")>>,
            <<Free("json"), Free("required"), Free("input")>>)

(* The signatures of the registry's rows: the handle, the row and the      *)
(* request are checked in that order.                                      *)
sdn_signRequest == Plain(<<Check, Check, Sub>>)

sdn_beginTransfer == Program(<<>>, <<New("public"), Native, Take("public")>>, <<Free("public")>>)

sdn_sealTransfer ==
    Program(<<Check>>, <<Copy("recipient"), New("required"), New("sealed"), Native,
                         Take("required"), Check, Take("sealed")>>,
            <<Free("sealed"), Free("required"), Free("recipient")>>)

sdn_sealRememberedIdentity ==
    Program(<<>>,
            <<Check, Copy("password"), Copy("prf"), Copy("salt"), New("required"), New("out"),
              Native, Take("required"), Check, Take("out")>>,
            <<Free("out"), Free("required"), Free("salt"), Wipe("prf"), Free("prf"),
              Wipe("password"), Free("password")>>)

sdn_openSealedFields ==
    Program(<<Check>>,
            <<Copy("fields"), Copy("reply"), New("required"), New("out"),
              Native, Take("required"), Check, Take("out"), Check>>,
            <<Free("out"), Free("required"), Free("reply"), Free("fields")>>)

CapabilityPrograms ==
    {validate_privateKey, validate_publicKey, AlignedKeyDeriver_deriveBatch,
     deriveBatch_results, AlignedKeyDeriver_streamKeys, streamKeys_batches, fillBaseKey,
     AlignedSigner_signBatch, signBatch_hashes, signBatch_results,
     AlignedSigner_verifyBatch, verifyBatch_entries, verifyBatch_results,
     AlignedAPI_keyToBytes, sdn_invokeDerive, sdn_invokeSign, sdn_signRequest,
     sdn_beginTransfer, sdn_sealTransfer, sdn_sealRememberedIdentity, sdn_openSealedFields}

AllPrograms == BindingPrograms \union CapabilityPrograms

-----------------------------------------------------------------------------
(***************************************************************************)
(* What the wrappers promise.                                              *)
(***************************************************************************)

(* The buffers that carry secrets, as bytes or as text.  What the hashes   *)
(* and the codecs are given is the caller's, and one word of a mnemonic    *)
(* (suggestWords, checkWord) is not counted as the mnemonic.               *)
Secrets == {"key", "priv", "seed", "secret", "ikm", "password", "passphrase", "entropy",
            "mnemonic", "plaintext", "request", "results", "keyData", "prf", "outHandle",
            "chainCode", "derived", "xprv", "wif", "pem"}

(* The secrets that the code gives back as they are: the chain codes, the  *)
(* keys that hkdf, pbkdf2 and scrypt derive, a mnemonic that is generated  *)
(* or validated, an imported xprv, and a WIF string either way.            *)
LeftUnwiped ==
    {<<HDKey_chainCode, "chainCode">>, <<slip10_deriveEd25519Path, "chainCode">>,
     <<utils_hkdf, "derived">>, <<utils_pbkdf2, "derived">>, <<utils_scrypt, "derived">>,
     <<mnemonic_generate, "mnemonic">>, <<mnemonic_validate, "mnemonic">>,
     <<hdkey_fromXprv, "xprv">>, <<bitcoin_toWIF, "wif">>, <<bitcoin_fromWIF, "wif">>}

(* Whatever fails inside its try (an allocation that answered 0, an export *)
(* that reports an error, a length that does not fit, a consumer that      *)
(* stops reading), a call that reached its try leaves no buffer behind and *)
(* has used none after giving it back; a call that threw leaves no native  *)
(* handle open either.                                                     *)
CallsReleaseAll ==
    /\ \A b \in DOMAIN heap : heap[b] # "corrupt"
    /\ part = "done" =>
         \A b \in DOMAIN heap : heap[b] \in {"gone", "null"} \/ (heap[b] = "held" /\ ~threw)

(* But for those, no buffer with a secret goes back to the allocator       *)
(* before it is overwritten, on the paths that return and on those that    *)
(* throw.                                                                  *)
WipesBeforeFree ==
    \A b \in Secrets \intersect DOMAIN heap \intersect DOMAIN heap' :
        heap[b] = "dirty" /\ heap'[b] = "gone" => <<prog, b>> \in LeftUnwiped

=============================================================================
