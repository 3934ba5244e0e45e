------------------------------ MODULE TrustMap ------------------------------
(***************************************************************************)
(* Trust records (wallet-ui/src/blockchain-trust.js, trust-ui.js and the   *)
(* trust handlers of app.js): wallets publish on three public chains whom  *)
(* they trust and what they revoke, read their own records back, and hand  *)
(* them to each other as files.  One of the wallets is followed; of the    *)
(* others there are the records and the files.                             *)
(*                                                                         *)
(* A record is a payload in a transaction, which may pay another wallet    *)
(* besides.  A transaction is known by a hash whose form is that of the    *)
(* chain's own interface: bare hexadecimal for Bitcoin, hexadecimal behind *)
(* "0x" for Ethereum, base58 of 64 bytes for Solana; a revocation embeds   *)
(* 32 bytes, which read back bare.  Scans are modelled by what they find,  *)
(* since LegacyHandlers has their waits.                                   *)
(***************************************************************************)
EXTENDS Integers, FiniteSets, Sequences, SequencesExt

CONSTANTS
    Own,          \* the wallet of this browser
    Others,       \* wallets elsewhere that publish and export
    Recipients,   \* addresses: [owner, chain, short], short below 32 characters
    Cards,        \* those of them in a vCard
    Levels,       \* trust levels chosen, out of TrustLevel
    MaxTrusts,    \* bound on the trust records published
    MaxRevoked,   \* bound on the revocations published
    NoTrust       \* no address, no transaction

ASSUME TrustMapAssumption == Levels \subseteq 1..5 /\ {MaxTrusts, MaxRevoked} \subseteq Nat

VARIABLES
    ledger,       \* the records on the chains, in the order of publication
    trustTxs,     \* state.trustTransactions
    importedTxs,  \* TRUST_IMPORTED_KEY in localStorage
    document      \* the file exported last, by whichever wallet; NoTrust for none

trustVars == <<ledger, trustTxs, importedTxs, document>>

TrustChains == {"btc", "eth", "sol"}

(* Numbers from the least on, and what a sequence has at these places.     *)
InOrder(K) ==
    [n \in 1..Cardinality(K) |-> CHOOSE k \in K : Cardinality({j \in K : j < k}) = n - 1]

AtPlaces(s, K) == [n \in 1..Cardinality(K) |-> s[InOrder(K)[n]]]

-----------------------------------------------------------------------------
(* Hashes.                                                                 *)
FormOf(chain) == CASE chain = "btc" -> "bare" [] chain = "eth" -> "0x" [] chain = "sol" -> "base58"

TxHash(id, chain) == [id |-> id, form |-> FormOf(chain)]

(* normalizeTxHashHex refuses the 64 bytes of a Solana signature.          *)
CanBeEmbedded(hash) == hash.form \in {"bare", "0x"}

normalizeTxHashHex(hash) == [hash EXCEPT !.form = "bare"]

-----------------------------------------------------------------------------
(* What is read of a record.  Bitcoin and Solana take a payload of 39      *)
(* bytes, 7 of which are not the address, and Ethereum a shorter one.  A   *)
(* Solana memo is the payload itself when this page wrote it and base64    *)
(* when another tool did, and the scanner reads base64.                    *)
parseBinaryMetadata(r) == r.type = "revocation" \/ ~r.to.short

parseSolanaMemo(r) == r.memo = "base64" /\ parseBinaryMetadata(r)

Parses(r) ==
    CASE r.chain = "btc" -> parseBinaryMetadata(r)
      [] r.chain = "sol" -> parseSolanaMemo(r)
      [] r.chain = "eth" -> TRUE

(* A variant that asks no chain for the sender. *)
AttributedToAnyParty(r) == {r.by, r.paid}

(* Whose record it is taken for.  The interfaces of Bitcoin and Solana     *)
(* list the transactions an address takes part in, and the scanners call   *)
(* every record in them the address's own; of Ethereum the sender is       *)
(* compared.                                                               *)
AttributedTo(r) == IF r.chain = "eth" THEN {r.by} ELSE {r.by, r.paid}

RecordsOf(w, chain) ==
    {i \in DOMAIN ledger :
        w \in AttributedTo(ledger[i]) /\ ledger[i].chain = chain /\ Parses(ledger[i])}

(* The record as the scanners return it for the wallet w.                  *)
Scanned(id, w) ==
    LET r == ledger[id]
    IN [type |-> r.type, hash |-> TxHash(id, r.chain), time |-> id, from |-> w,
        to |-> r.to, level |-> r.level, original |-> r.original, chain |-> r.chain]

(* Bitcoin is read at once or not at all; a Solana transaction that is not *)
(* answered is left out, and so is an Ethereum block, of which only the    *)
(* latest are read.                                                        *)
scanBitcoinTrustTransactions(w) == {{}, RecordsOf(w, "btc")}

scanSolanaTrustTransactions(w) == SUBSET RecordsOf(w, "sol")

scanEthereumTrustTransactions(w) == SUBSET RecordsOf(w, "eth")

MayBeFound(w) ==
    {b \cup s \cup e : b \in scanBitcoinTrustTransactions(w), s \in scanSolanaTrustTransactions(w),
                       e \in scanEthereumTrustTransactions(w)}

(* scanAllTrustTransactions: one chain after the other, newest first.      *)
scanAllTrustTransactions(found, w) ==
    LET of(chain) == Reverse(InOrder({i \in found : ledger[i].chain = chain}))
        ids == of("btc") \o of("sol") \o of("eth")
    IN [k \in DOMAIN ids |-> Scanned(ids[k], w)]

(* The first of several transactions with one hash is kept.                *)
Deduplicated(txs) ==
    AtPlaces(txs, {k \in DOMAIN txs : \A j \in DOMAIN txs : j < k => txs[j].hash # txs[k].hash})

Entries(txs) == {txs[k] : k \in DOMAIN txs}

TrustsIn(txs) == {tx \in Entries(txs) : tx.type = "trust"}

RevocationsIn(txs) == {tx \in Entries(txs) : tx.type = "revocation"}

(* buildTrustGraph: a revocation is bound by the hash as it is written.    *)
Binds(revocation, tx) == revocation.original = tx.hash

buildTrustGraph(txs) ==
    {[from |-> tx.from, to |-> tx.to, level |-> tx.level, hash |-> tx.hash,
      revoked |-> \E r \in RevocationsIn(txs) : Binds(r, tx)] : tx \in TrustsIn(txs)}

(* analyzeTrustRelationships: the addresses that are not the wallet's own  *)
(* and that it trusts, whatever was revoked since.                         *)
TrustedAddresses(txs) == {tx.to : tx \in {t \in TrustsIn(txs) : t.from = Own /\ t.to.owner # Own}}

(* renderTrustList: a row that is not only inbound has a Revoke button.    *)
RowsToRevoke == TrustedAddresses(trustTxs)

(* chainForTxRecord knows no chain of an imported transaction.             *)
chainForTxRecord(tx) == IF tx.chain \in TrustChains THEN tx.chain ELSE NoTrust

(* matchOutboundTrustTx: the first to the address with a chain.            *)
MatchesOutbound(tx, address) ==
    tx.type = "trust" /\ tx.to = address /\ chainForTxRecord(tx) # NoTrust

matchOutboundTrustTx(address) ==
    LET matching == {k \in DOMAIN trustTxs : MatchesOutbound(trustTxs[k], address)}
    IN IF matching = {} THEN NoTrust ELSE trustTxs[Min(matching)]

-----------------------------------------------------------------------------
(* Files.                                                                  *)
trustLevelToWeight(level) == level - 1      \* in quarters

trustWeightToLevel(weight) == weight + 1

(* An edge is DELETED when a revocation binds its hash.  (No hash is an    *)
(* address, which the code compares as well.)                              *)
Edge(tx, txs) ==
    [truster |-> tx.from, trustee |-> tx.to, weight |-> trustLevelToWeight(tx.level),
     updated |-> tx.time, hash |-> tx.hash,
     deleted |-> \E r \in RevocationsIn(txs) : Binds(r, tx)]

LossOfTrust(tx) ==
    [id |-> tx.hash, from |-> tx.from, time |-> tx.time, chain |-> tx.chain,
     evidence |-> <<tx.hash, tx.original>>]

buildSdsTrustExport(txs) ==
    LET trusts == AtPlaces(txs, {k \in DOMAIN txs : txs[k].type = "trust"})
        revocations == AtPlaces(txs, {k \in DOMAIN txs : txs[k].type = "revocation"})
    IN [tre |-> [k \in DOMAIN trusts |-> Edge(trusts[k], txs)],
        lot |-> [k \in DOMAIN revocations |-> LossOfTrust(revocations[k])]]

FromEdge(e) ==
    [type |-> "trust", hash |-> e.hash, time |-> e.updated, from |-> e.truster, to |-> e.trustee,
     level |-> trustWeightToLevel(e.weight), original |-> NoTrust, chain |-> "sds"]

(* A variant that takes the first hash of the evidence.                    *)
FromLossByItself(l) ==
    [type |-> "revocation", hash |-> l.id, time |-> l.time, from |-> l.from, to |-> NoTrust,
     level |-> NoTrust, original |-> l.evidence[1], chain |-> l.chain]

FromLoss(l) ==
    [type |-> "revocation", hash |-> l.id, time |-> l.time, from |-> l.from, to |-> NoTrust,
     level |-> NoTrust, original |-> l.evidence[2], chain |-> l.chain]

parseSdsTrustImport(doc) ==
    Deduplicated([k \in DOMAIN doc.tre |-> FromEdge(doc.tre[k])]
                 \o [k \in DOMAIN doc.lot |-> FromLoss(doc.lot[k])])

-----------------------------------------------------------------------------
TrustInit ==
    /\ ledger = <<>>
    /\ trustTxs = <<>>
    /\ importedTxs = <<>>
    /\ document = NoTrust

OnChain(r) ==
    /\ Cardinality({i \in DOMAIN ledger : ledger[i].type = r.type})
           < IF r.type = "trust" THEN MaxTrusts ELSE MaxRevoked
    /\ ledger' = Append(ledger, r)
    /\ UNCHANGED <<trustTxs, importedTxs, document>>

(* What buildSolanaTrustTx writes as the memo.                             *)
PageMemo == "payload"

(* encodeTrustMetadata and encodeRevocationMetadata.                       *)
TrustRecord(w, paid, chain, address, level, memo) ==
    [type |-> "trust", by |-> w, paid |-> paid, chain |-> chain, to |-> address,
     level |-> level, original |-> NoTrust, memo |-> memo]

RevocationRecord(w, paid, hash, chain) ==
    [type |-> "revocation", by |-> w, paid |-> paid, chain |-> chain, to |-> NoTrust,
     level |-> NoTrust, original |-> normalizeTxHashHex(hash), memo |-> PageMemo]

detectChainFromAddress(address) == address.chain

(* A record is published on the network the dialog has detected, which is  *)
(* that of the address typed or of a vCard read after it: going back to    *)
(* the typed address does not bring its network back.  Ethereum takes no   *)
(* other address.  What fails before the broadcast changes nothing, and a  *)
(* broadcast whose answer is lost is reported as failed.                   *)
EstablishTrust(w, address, card, level) ==
    LET detectedNetwork == detectChainFromAddress(card)
    IN /\ detectedNetwork = "eth" => address.chain = "eth"
       /\ OnChain(TrustRecord(w, NoTrust, detectedNetwork, address, level, PageMemo))

(* Another tool that signs for the same account writes Solana memos as     *)
(* buildSolanaTrustMemo does.                                              *)
OtherToolPublishes(w, address, level) ==
    OnChain(TrustRecord(w, NoTrust, "sol", address, level, "base64"))

(* Another wallet pays this one, in a transaction that carries a record of *)
(* its own: whom it trusts, or that it does no longer.                     *)
OtherPaysAndTrusts(w, chain, address, level) ==
    OnChain(TrustRecord(w, Own, chain, address, level, "base64"))

OtherPaysAndRevokes(w, i) ==
    /\ ledger[i].type = "trust" /\ ledger[i].by = w
    /\ CanBeEmbedded(TxHash(i, ledger[i].chain))
    /\ OnChain(RevocationRecord(w, Own, TxHash(i, ledger[i].chain), ledger[i].chain))

(* The record is looked up when Revoke is pressed and published when the   *)
(* dialog is confirmed; it is the same, and it stays on its chain.         *)
RevokeTrust(address) ==
    LET tx == matchOutboundTrustTx(address)
    IN /\ address \in RowsToRevoke
       /\ tx # NoTrust
       /\ CanBeEmbedded(tx.hash)
       /\ OnChain(RevocationRecord(Own, NoTrust, tx.hash, tx.chain))

(* runTrustScan: what is found replaces the map, and the transactions      *)
(* imported earlier complete it.                                           *)
ScanReplacesMap(found) ==
    /\ trustTxs' = Deduplicated(scanAllTrustTransactions(found, Own) \o importedTxs)
    /\ UNCHANGED <<ledger, importedTxs, document>>

ExportTrust ==
    /\ trustTxs # <<>>
    /\ document' = buildSdsTrustExport(trustTxs)
    /\ UNCHANGED <<ledger, trustTxs, importedTxs>>

OtherExports(found, w) ==
    /\ found # {}
    /\ document' = buildSdsTrustExport(scanAllTrustTransactions(found, w))
    /\ UNCHANGED <<ledger, trustTxs, importedTxs>>

ImportTrust ==
    /\ document # NoTrust
    /\ importedTxs' = Deduplicated(importedTxs \o parseSdsTrustImport(document))
    /\ UNCHANGED <<ledger, trustTxs, document>>

(* logout(): the map goes, the imported transactions stay.                 *)
TrustLogout ==
    /\ trustTxs # <<>>
    /\ trustTxs' = <<>>
    /\ UNCHANGED <<ledger, importedTxs, document>>

TrustNext ==
    \/ \E address \in Recipients, level \in Levels :
          \/ \E w \in {Own} \cup Others : EstablishTrust(w, address, address, level)
          \/ \E card \in Cards : EstablishTrust(Own, address, card, level)
          \/ OtherToolPublishes(Own, address, level)
          \/ \E w \in Others, chain \in TrustChains :
                OtherPaysAndTrusts(w, chain, address, level)
    \/ \E address \in Recipients : RevokeTrust(address)
    \/ \E found \in MayBeFound(Own) : ScanReplacesMap(found)
    \/ \E w \in Others :
          \/ \E found \in MayBeFound(w) : OtherExports(found, w)
          \/ \E i \in DOMAIN ledger : OtherPaysAndRevokes(w, i)
    \/ ExportTrust
    \/ ImportTrust
    \/ TrustLogout

TrustSpec == TrustInit /\ [][TrustNext]_trustVars

-----------------------------------------------------------------------------
(* What the map says was published, to whom and at which level, after any  *)
(* number of exports and imports; and the wallet it is said to be from had *)
(* a part in it, as the one that was paid if not as the one that published *)
(* it, on Ethereum as the latter only.                                     *)
NothingIsInvented ==
    \A tx \in Entries(trustTxs) \cup Entries(importedTxs) :
        /\ tx.hash.id \in DOMAIN ledger
        /\ LET r == ledger[tx.hash.id]
           IN /\ tx.from = r.by \/ (tx.from = r.paid /\ r.chain # "eth")
              /\ [tx EXCEPT !.chain = r.chain] = Scanned(tx.hash.id, tx.from)

(* What is revoked is a trust record of the chain it is revoked on, and of *)
(* the wallet that revokes it or of one whose payment to it carried the    *)
(* record, although imported maps name the records of anyone to the same   *)
(* address.                                                                *)
RevokesWhatTouchesIt ==
    \A i \in DOMAIN ledger : ledger[i].type = "revocation" =>
        LET original == ledger[ledger[i].original.id]
        IN /\ original.type = "trust" /\ original.chain = ledger[i].chain
           /\ ledger[i].by = original.by
              \/ (ledger[i].by = original.paid /\ original.chain # "eth")

(* No edge is shown revoked that was not, and a revocation on Bitcoin that *)
(* was read marks its edge.                                                *)
BitcoinRevocationsBind ==
    \A e \in buildTrustGraph(trustTxs) :
        e.revoked <=> /\ e.hash.form = "bare"
                      /\ \E r \in RevocationsIn(trustTxs) : r.original.id = e.hash.id

(* A file says of every edge what the map says, and a wallet that knows    *)
(* nothing else gets the same map from it.                                 *)
FilesGiveTheMapBack ==
    LET map == buildTrustGraph(trustTxs)
        doc == buildSdsTrustExport(trustTxs)
    IN /\ {<<e.hash, e.deleted>> : e \in Entries(doc.tre)} = {<<e.hash, e.revoked>> : e \in map}
       /\ buildTrustGraph(parseSdsTrustImport(doc)) = map

(* Together: the trust map is true.                                        *)
TrustMapIsTrue ==
    NothingIsInvented /\ RevokesWhatTouchesIt /\ BitcoinRevocationsBind /\ FilesGiveTheMapBack

(* A revocation a map holds marks the edge it revokes, on every chain:     *)
(* hashes of Bitcoin and Ethereum are reduced to the form the revocation   *)
(* embeds (normalizeTxHashHex).                                            *)
RevokedIsShown ==
    \A r \in RevocationsIn(trustTxs), e \in buildTrustGraph(trustTxs) :
        e.hash.id = r.original.id => e.revoked
=============================================================================
