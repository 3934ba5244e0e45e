------------------------------- MODULE MCPage -------------------------------
(***************************************************************************)
(* The code of the wallet in a browser: the handlers of the legacy page,   *)
(* its list of wallets and accounts, its trust map, the page of the wallet *)
(* origin, and below them the calls of the WASM wrappers, the native       *)
(* identities, and the instances and keys.  The properties of one layer    *)
(* read nothing of another, so each behaviour is of one of them and the    *)
(* rest stand still.                                                       *)
(*                                                                         *)
(* An earlier legacy page has stored nothing, a list without the default   *)
(* wallet, or one in which it is put aside; the last two repeat an entry.  *)
(***************************************************************************)
EXTENDS MCLegacyPage, WalletList, MCTrustMap, OriginPage, WasmCapabilities, SdnIdentity,
        WasmInstances

VARIABLE layer   \* which of the layers a behaviour is of

Wallet(id, index, inactive) == [id |-> id, accountIndex |-> index, inactive |-> inactive]

MCStoredLists ==
    {<<>>, <<Wallet(1, 1, FALSE), Wallet(4, 1, FALSE)>>,
     <<Wallet(0, 0, TRUE), Wallet(0, 1, FALSE), Wallet(1, 1, FALSE)>>}

MCPrograms == AllPrograms

(* The initial states of a layer that stands still are not enumerated.     *)
MCInit ==
    /\ layer \in {"handlers", "wallets", "trust", "origin", "calls", "identity", "instances"}
    /\ PageInit /\ ListInit /\ TrustInit /\ OriginPageInit /\ CallInit /\ SdnInit /\ InstInit
    /\ layer # "wallets" => storedWallets = normalizeWallets(<<>>)
    /\ layer # "handlers" => watch = "keys"
    /\ layer # "origin" => storage.active = "empty" /\ storage.pending = "empty"

legacyVars == <<pageVars, listVars, trustVars>>
wasmVars == <<callVars, sdnVars, instVars>>

MCNext ==
    \/ /\ layer = "handlers" /\ PageNext
       /\ UNCHANGED <<layer, listVars, trustVars, originPageVars, wasmVars>>
    \/ /\ layer = "wallets" /\ ListNext
       /\ UNCHANGED <<layer, pageVars, trustVars, originPageVars, wasmVars>>
    \/ /\ layer = "trust" /\ TrustNext
       /\ UNCHANGED <<layer, pageVars, listVars, originPageVars, wasmVars>>
    \/ /\ layer = "origin" /\ OriginPageNext
       /\ UNCHANGED <<layer, legacyVars, wasmVars>>
    \/ /\ layer = "calls" /\ CallNext
       /\ UNCHANGED <<layer, legacyVars, originPageVars, sdnVars, instVars>>
    \/ /\ layer = "identity" /\ SdnNext
       /\ UNCHANGED <<layer, legacyVars, originPageVars, callVars, instVars>>
    \/ /\ layer = "instances" /\ InstNext
       /\ UNCHANGED <<layer, legacyVars, originPageVars, callVars, sdnVars>>

MCSpec ==
    /\ MCInit /\ [][MCNext]_<<layer, legacyVars, originPageVars, wasmVars>>
    /\ OriginPageFairness /\ InstFairness

(* No step frees a secret it has not wiped, but for those the wrappers of  *)
(* index.mjs never wipe (LeftUnwiped names each), opens an identity before *)
(* the rolled-back ones are destroyed or revives a handle that was refused *)
(* (drainRollbackQueue of sdn-typed.mjs).                                  *)
NativeStateIsReleasedInOrder == [][WipesBeforeFree /\ DrainsFirst]_<<callVars, sdnVars>>

(* Nothing is waited for that will not come: a closed wallet page comes to *)
(* rest (start and stop of app.mjs), and a load that failed is forgotten   *)
(* by every copy of the module (index.mjs).                                *)
NothingWaitsForever == ClosedComesToRest /\ FailedLoadIsForgotten
=============================================================================
