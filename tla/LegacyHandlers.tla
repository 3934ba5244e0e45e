--------------------------- MODULE LegacyHandlers ---------------------------
(***************************************************************************)
(* The handlers of wallet-ui/src/app.js as the programs LegacyPage runs:   *)
(* where each one looks whether its session is still the current one,      *)
(* where it waits, and what it writes.                                     *)
(***************************************************************************)
EXTENDS LegacyPage

-----------------------------------------------------------------------------
(* Balances and accounts.  A balance is asked for after a pause, up to     *)
(* three times; what the answer says of the rate limit and of the balance  *)
(* is kept.                                                                *)

waitForScanThrottle == <<Sleep, Still, Show("balances")>>

fetchBalanceForScanTarget ==
    LET attempt == waitForScanThrottle \o <<Wait, Still, Still, Show("balances")>>
    IN Trying(<<Still, Maybe, Maybe>>, attempt \o <<Sleep, Still, Again(1)>>,
              <<Still, Show("balances")>>, <<>>, <<Still>>)

(* The loop over the targets is steps 1 to 10 of the body; a derivation    *)
(* that fails goes on with the next one.                                   *)
scanActiveAccounts ==
    LET target == <<Still>> \o waitForScanThrottle
                  \o <<Wait, Still, Show("balances"), Still, Show("accounts"), Again(1)>>
    IN Trying(<<HasKeys, Still, Lock("balances"), Show("balances"), Now("accounts")>>,
              target \o <<Still, Show("accounts")>>, <<>>, <<Unlock("balances")>>, <<>>)

(* The rows are built at once; their prices are filled in later.           *)
renderAccountsList == Handler(<<Still, Maybe, Now("accounts"), Sleep, Maybe, Still, Show("accounts")>>)

(* A row of a list that was replaced keeps its listener.                   *)
rowClick == Handler(<<Still, Now("accounts"), Sleep, Still, Show("accounts")>>)

updateWalletBondTotal ==
    Trying(<<Still>>, <<Wait, Still, Risky, Show("bond")>>, <<Still, Now("bond")>>, <<>>, <<>>)

updateAdversarialSecurity ==
    Trying(<<Still, Maybe>> \o updateWalletBondTotal.pre, updateWalletBondTotal.body,
           updateWalletBondTotal.caught, <<>>, <<>>)

(* Another currency: the prices are asked for again.                       *)
currencyChosen == updateAdversarialSecurity

handleAccountAction == Handler(<<Maybe, Now("accounts")>>)

-----------------------------------------------------------------------------
(* Receiving and sending.  A QR code is drawn when the drawing resolves,   *)
(* in the turn of the look that clears it when the session is over.        *)

showReceiveModal ==
    Trying(<<Still, Show("receive")>>, <<Wait>>, <<>>, <<>>,
           <<Undo("receive"), Show("receive"), Sleep, Still>>)

populateSendForm == Handler(<<Maybe, Now("send")>>)

updateSendFromSelection == Handler(<<Maybe, Now("send")>>)

showSendReview == Handler(<<Maybe, Now("send")>>)

updateSendFiatEstimate ==
    Trying(<<Still, Maybe>>, <<Wait, Still, Show("send")>>, <<Still, Clear("send")>>, <<>>, <<>>)

(* The outputs to spend are asked for, then the keys that are in the state *)
(* at that moment sign.                                                    *)
sendBtcTransaction ==
    <<Risky, Wait, Risky, NeedsKeys, Risky, Show("broadcast"), Wait, Risky>>

(* The nonce and the fee, then the same.                                   *)
sendEthTransaction == <<Risky, Wait, Risky, NeedsKeys, Risky, Show("broadcast"), Wait>>

Send(chain) ==
    Trying(<<Still, Maybe, Show("send")>>, chain \o <<Still, Show("send"), Sleep, Still>>,
           <<Still, Show("send")>>, <<Still>>, <<>>)

executeSend == {Send(sendBtcTransaction), Send(sendEthTransaction), Send(<<Risky>>)}

-----------------------------------------------------------------------------
(* The derivation grid, the names, and the exports.                        *)

deriveAndDisplayAddress ==
    Trying(<<Still, HasKeys>>, <<Risky, Show("derived"), Wait, Undo("derived"), Show("derived")>>,
           <<>>, <<>>, <<>>)

updatePathDisplay == Handler(<<Now("derived")>>)

(* The three services answer or fail; the answers are kept and shown.      *)
resolveNames == <<Still, Maybe, Sleep, Still, Show("names")>>

updateAccountTitle == <<Still, Show("names")>>

namesShown == Handler(<<LoggedIn>> \o resolveNames \o updateAccountTitle)

-----------------------------------------------------------------------------
(* The PKI demo: its keys are derived, or random when there is no root,    *)
(* and stored under the key of the session.                                *)

savePKIKeys == Trying(<<Still, Maybe>>, <<Wait, Still, Still, Show("storedPki")>>, <<>>, <<>>, <<>>)

loadPKIKeys ==
    Trying(<<Still>>, <<Maybe, Risky, Wait, Still, Maybe, Still, Show("pki"), Still, Show("pki")>>,
           <<>>, <<>>, <<>>)

(* A record in plaintext is stored again under the key of the session; a   *)
(* failure of that is passed over.                                         *)
upgradePKIKeys ==
    Trying(<<Still, Maybe>>, <<Wait, Still, Show("storedPki")>>, <<>>, <<>>,
           <<Maybe, Still, Show("pki"), Still, Show("pki")>>)

derivePKIKeysFromHD == <<HasKeys, Risky, Now("pki")>>

generatePKIKeyPairs == Handler(<<Still>> \o derivePKIKeysFromHD \o <<Still, Show("pki")>>)

generateRandomPKIKeyPairs ==
    Trying(<<Still>>, <<Wait, Still, Wait, Still, Show("pki")>>, <<Maybe, Still>>, <<>>,
           <<Still, Show("pki")>>)

clearPKIKeys == Handler(<<Clear("storedPki"), Clear("pki")>>)

-----------------------------------------------------------------------------
(* An external wallet: the balance of the connected address, and the price *)
(* of it, arrive later, and find the account and the row of the external   *)
(* session there is by then.                                               *)

loginExternalBalance ==
    Trying(<<LoggedIn>>, <<Wait, External, Show("external")>>, <<>>, <<>>,
           <<LoggedIn, Now("accounts"), Now("bond")>>)

externalPrice == Handler(<<External, Wait, External, Show("external")>>)

-----------------------------------------------------------------------------
(* The identity card, its photo and the camera.  Reading a file or the     *)
(* picture of the camera gives nothing when the session is over.           *)

identityEdited == Handler(<<Now("vcard")>>)

encodeVcardPhoto == <<Maybe, Still, Sleep, Still, Sleep, Maybe, Still>>

(* A variant that installs the image without another look.                 *)
installVcardPhotoUnseen == <<Still, Wait, Show("photo")>>

(* An image decoded for an ended session is revoked; a failure wipes it.   *)
installVcardPhoto == <<Still, Wait, Undo("photo"), Show("photo")>>

photoUploaded ==
    Trying(<<>>, <<Wait, Still>> \o installVcardPhoto \o <<Still, Clear("camera"), Now("vcard")>>,
           <<Still>>, <<>>, <<>>)

photoRemoved == Handler(<<Clear("photo"), Now("vcard")>>)

imageFailed == Handler(<<Clear("photo")>>)

(* A camera that is granted to an ended session is stopped at once, and    *)
(* one whose session ends while its picture starts is stopped then.        *)
cameraStarted ==
    Trying(<<>>, <<Wait, Still, Show("camera"), Wait, Undo("camera"), Still, Show("camera")>>,
           <<Clear("camera"), Still>>, <<>>, <<>>)

cameraCaptured ==
    Trying(<<Still, Maybe>> \o encodeVcardPhoto,
           <<Still>> \o installVcardPhoto \o <<Still, Clear("camera"), Now("vcard")>>,
           <<>>, <<>>, <<>>)

cameraCancelled == Handler(<<Clear("camera")>>)

(* The fields' names are local to setupMainAppHandlers: parsing the file   *)
(* throws before it shows anything, and there is never a preview to apply. *)
parseAndDisplayVCF == <<Throws, Show("vcard")>>

vcfImported ==
    Trying(<<Maybe, Still>>, <<Wait, Still, Maybe>> \o parseAndDisplayVCF, <<Maybe>>, <<>>, <<>>)

applyImportedVcardPreview == Handler(<<Maybe, Throws, Clear("photo"), Now("vcard")>>)

vcardGenerated ==
    Trying(<<Still, Maybe>>, <<Risky, Still, Wait, Undo("vcard"), Show("vcard")>>,
           <<Still>>, <<>>, <<>>)

-----------------------------------------------------------------------------
(* What the user takes away: files and the clipboard.                      *)

exportWallet == Handler(<<LoggedIn, Maybe, Now("taken")>>)

keyRevealed == Handler(<<Now("keys")>>)

keyCopied == Handler(<<Maybe, Now("taken"), Wait>>)

vcardDownloaded == Handler(<<LoggedIn, Maybe, Now("taken")>>)

vcardCopied == Trying(<<Still, Maybe>>, <<Now("taken"), Wait, Still>>, <<Still>>, <<>>, <<>>)

walletSelected == Handler(<<Maybe, Now("accounts"), Now("bond")>>)

-----------------------------------------------------------------------------
(* The trust map.                                                          *)

(* Balances of the trusted addresses are compared with the stored ones,    *)
(* which are written back when they are all there.                         *)
monitorTrustDrains == <<Wait, Sleep, Show("baselines")>>

runTrustScan ==
    Trying(<<Still, Maybe, Lock("trust"), Show("trust")>>,
           <<Wait, Still, Wait, Still, Wait, Still>> \o monitorTrustDrains
           \o <<Still, Show("trust"), Still, Show("trust"), Still, Show("trust")>>,
           <<Still, Show("trust")>>, <<Unlock("trust")>>, <<>>)

(* A record is built from the addresses of the state, and signed with the  *)
(* keys the state has when the network has answered; an external wallet    *)
(* asks its owner.                                                         *)
publishTrustRecord ==
    LET signed == <<NeedsKeys, Risky, Show("broadcast"), Wait>>
        btc == <<Wait, Risky, Wait, Risky>> \o signed
        eth == <<Wait, Risky, Wait, Risky>> \o signed
        sol == <<Wait, Risky, Wait>> \o signed
        ethExternal == <<Wait, Risky, External, Show("broadcast"), Wait>>
        solExternal == <<Wait, Risky, Wait, External, Risky, Show("broadcast"), Wait>>
    IN {btc, eth, sol, ethExternal, solExternal}

trustEstablished == Handler(<<LoggedIn, Wait, Still, Show("trust")>>)

trustConfirmed == {Trying(<<Still>>, record, <<>>, <<>>, <<>>) : record \in publishTrustRecord}

(* The dialog of a revocation is not bound to its session.                 *)
revocationAsked == Handler(<<Maybe, Wait, Show("revocation")>>)

revocationConfirmed == {Trying(<<>>, record, <<>>, <<>>, <<>>) : record \in publishTrustRecord}

trustRulesShown == Handler(<<Still, Wait, Still, Show("trust")>>)

trustRulesSaved == Handler(<<Still, Maybe, Now("trust")>>)

trustExported == Handler(<<Maybe, Wait, Still, Now("taken")>>)

trustImported ==
    Trying(<<Maybe, Still>>, <<Wait, Still, Maybe, Wait, Still, Maybe, Show("storedTrust")>>,
           <<Still>>, <<>>, <<>>)

-----------------------------------------------------------------------------
(* Messages: encrypted and decrypted within one turn.                      *)

updateEncryptionTab == Handler(<<HasKeys, Risky, Now("messages")>>)

messageEncrypted == Handler(<<HasKeys, Maybe, Risky, Now("messages")>>)

messageDecrypted == Handler(<<HasKeys, Maybe, Risky, Now("messages")>>)

-----------------------------------------------------------------------------
scanHandlers == {scanActiveAccounts, runTrustScan}

AllHandlers ==
    {fetchBalanceForScanTarget, scanActiveAccounts, renderAccountsList, rowClick,
     updateWalletBondTotal, updateAdversarialSecurity, handleAccountAction, showReceiveModal,
     populateSendForm, updateSendFromSelection, showSendReview, updateSendFiatEstimate,
     deriveAndDisplayAddress, updatePathDisplay, namesShown, savePKIKeys, loadPKIKeys,
     upgradePKIKeys, generatePKIKeyPairs, generateRandomPKIKeyPairs, clearPKIKeys,
     loginExternalBalance, externalPrice, identityEdited, photoUploaded, photoRemoved,
     imageFailed, cameraStarted, cameraCaptured, cameraCancelled, vcfImported,
     applyImportedVcardPreview, vcardGenerated, exportWallet, keyRevealed, keyCopied,
     vcardDownloaded, vcardCopied, walletSelected, runTrustScan, trustEstablished,
     revocationAsked, trustRulesShown, trustRulesSaved, trustExported, trustImported,
     updateEncryptionTab, messageEncrypted, messageDecrypted}
    \cup executeSend \cup trustConfirmed \cup revocationConfirmed
=============================================================================
