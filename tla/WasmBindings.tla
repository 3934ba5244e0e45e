---------------------------- MODULE WasmBindings ----------------------------
(***************************************************************************)
(* The wrappers of wasm/src/index.mjs as the programs WasmCalls executes:  *)
(* which buffers a call copies in, allocates, reads, wipes and gives back, *)
(* in the order of the code.  A buffer is named after its pointer in the   *)
(* code (keyPtr is "key"), and an output that is a secret for the secret;  *)
(* what the bytes are is left out.                                         *)
(***************************************************************************)
EXTENDS WasmCalls

-----------------------------------------------------------------------------
(* class HDKey.  A getter and a derivation check that the key was not      *)
(* destroyed first; a derived key is a new handle.                         *)

HDKey_get == Plain(<<Ask>>)

HDKey_privateKey ==
    Program(<<Check, Raw("key")>>, <<Native, Take("key")>>, <<Wipe("key"), Free("key")>>)

HDKey_publicKey == Exchange(<<>>, <<"out">>, <<>>)

(* The public key first, by a call of its own.                             *)
HDKey_publicKeyUncompressed ==
    Program(<<Check, Sub, Copy("in"), Raw("out")>>, <<Native, Take("out")>>,
            <<Free("in"), Free("out")>>)

(* peerId, peerIdString, ipnsHash *)
HDKey_peerId == HDKey_publicKeyUncompressed

HDKey_chainCode == Exchange(<<>>, <<"chainCode">>, <<>>)

(* deriveChild, deriveHardened, neutered and clone return the handle the   *)
(* export opened.                                                          *)
HDKey_deriveChild == Plain(<<Make("child")>>)

HDKey_derivePath == Program(<<Check, Copy("path")>>, <<Make("child")>>, <<Free("path")>>)

HDKey_toXprv ==
    Program(<<Check, Raw("xprv")>>, <<Native, Take("xprv")>>, <<Wipe("xprv"), Free("xprv")>>)

HDKey_toXpub == Exchange(<<>>, <<"out">>, <<>>)

-----------------------------------------------------------------------------
(* const mnemonic                                                          *)

mnemonic_generate == Exchange(<<>>, <<"mnemonic">>, <<>>)

mnemonic_validate == Question(<<"mnemonic">>)

mnemonic_toSeed ==
    Program(<<Check, Copy("mnemonic"), Copy("passphrase"), Raw("seed")>>,
            <<Native, Take("seed")>>,
            <<Wipe("seed"), Wipe("mnemonic"), Wipe("passphrase"),
              Free("mnemonic"), Free("passphrase"), Free("seed")>>)

mnemonic_toEntropy ==
    Program(<<Check, Copy("mnemonic"), Raw("entropy"), Raw("size")>>,
            <<Put("size"), Native, Take("size"), Take("entropy")>>,
            <<Wipe("mnemonic"), Free("mnemonic"), Wipe("entropy"), Free("entropy"), Free("size")>>)

mnemonic_fromEntropy ==
    Program(<<Check, Copy("entropy"), Raw("mnemonic")>>,
            <<Native, Take("mnemonic")>>,
            <<Wipe("entropy"), Free("entropy"), Wipe("mnemonic"), Free("mnemonic")>>)

mnemonic_getWordlist == Plain(<<Native>>)

mnemonic_suggestWords == Exchange(<<"prefix">>, <<"out">>, <<>>)

mnemonic_checkWord == Program(<<Check, Copy("word")>>, <<Native>>, <<Free("word")>>)

-----------------------------------------------------------------------------
(* const hdkey                                                             *)

hdkey_fromSeed ==
    Program(<<Check, Copy("seed")>>, <<Make("handle")>>, <<Wipe("seed"), Free("seed")>>)

hdkey_fromXprv == Program(<<Copy("xprv")>>, <<Make("handle")>>, <<Free("xprv")>>)

hdkey_fromXpub == Program(<<Copy("xpub")>>, <<Make("handle")>>, <<Free("xpub")>>)

hdkey_buildPath == Exchange(<<>>, <<"out">>, <<>>)

hdkey_parsePath ==
    Exchange(<<"path">>, <<"purpose", "coinType", "account", "change", "index">>, <<>>)

-----------------------------------------------------------------------------
(* const curves                                                            *)

curves_publicKeyFromPrivate == Exchange(<<"priv">>, <<"pub">>, <<"priv">>)

curves_compressPublicKey == Plain(<<>>)

curves_decompressPublicKey == Exchange(<<"in">>, <<"out">>, <<>>)

curves_ecdh == Exchange(<<"priv", "pub">>, <<"secret">>, <<"priv", "secret">>)

secp256k1_sign == Exchange(<<"msg", "key">>, <<"sig">>, <<"key">>)

(* The recovery id is read from the output before it is checked.           *)
secp256k1_signRecoverable ==
    Program(<<Check, Copy("msg"), Copy("key"), Raw("sig")>>,
            <<Native, Take("sig"), Check, Take("sig")>>,
            <<Wipe("key"), Free("msg"), Free("key"), Free("sig")>>)

secp256k1_verify == Question(<<"msg", "sig", "pub">>)

secp256k1_recover == Exchange(<<"msg", "sig">>, <<"pub">>, <<>>)

secp256k1_ecdh == Exchange(<<"priv", "pub">>, <<"secret">>, <<"priv", "secret">>)

ed25519_publicKeyFromSeed == Exchange(<<"seed">>, <<"pub">>, <<"seed">>)

ed25519_sign == Exchange(<<"msg", "key">>, <<"sig">>, <<"key">>)

ed25519_verify == Question(<<"msg", "sig", "pub">>)

p256_sign == Exchange(<<"msg", "key">>, <<"sig">>, <<"key">>)

p256_verify == Question(<<"msg", "sig", "pub">>)

p256_ecdh == Exchange(<<"priv", "pub">>, <<"secret">>, <<"priv", "secret">>)

p384_sign == Exchange(<<"msg", "key">>, <<"sig">>, <<"key">>)

p384_verify == Question(<<"msg", "sig", "pub">>)

p384_ecdh == Exchange(<<"priv", "pub">>, <<"secret">>, <<"priv", "secret">>)

x25519_publicKey == Exchange(<<"priv">>, <<"pub">>, <<"priv">>)

x25519_ecdh == Exchange(<<"priv", "pub">>, <<"secret">>, <<"priv", "secret">>)

-----------------------------------------------------------------------------
(* const coin                                                              *)

coin_addressFromPubkey == Exchange(<<"pub">>, <<"out">>, <<>>)

coin_validateAddress == Question(<<"addr">>)

coin_signMessage ==
    Program(<<Check, Copy("msg"), Copy("key"), Raw("sigLen"), Put("sigLen"), Raw("sig")>>,
            <<Native, Take("sigLen"), Check, Take("sig")>>,
            <<Wipe("key"), Free("msg"), Free("key"), Free("sig"), Free("sigLen")>>)

coin_verifyMessage == Question(<<"msg", "sig", "pub">>)

-----------------------------------------------------------------------------
(* const bitcoin                                                           *)

(* The export of the address type is looked up inside the try.             *)
bitcoin_getAddress ==
    Program(<<Check, Copy("pub"), Raw("out")>>, <<Check, Native, Take("out")>>,
            <<Free("pub"), Free("out")>>)

bitcoin_validateAddress == Question(<<"addr">>)

DecodedAddress(use) ==
    Program(<<Check, Copy("addr"), Raw("type"), Raw("hash"), Raw("hashLen"), Raw("network")>>,
            <<Put("hashLen"), Native, Take("hashLen"), Check>> \o use,
            Each(Free, <<"addr", "type", "hash", "hashLen", "network">>))

bitcoin_decodeAddress == DecodedAddress(<<Take("type"), Take("hash"), Take("network")>>)

bitcoin_detectAddressType == Question(<<"addr">>)

bitcoin_toWIF == Exchange(<<"key">>, <<"wif">>, <<"key">>)

bitcoin_fromWIF == Exchange(<<"wif">>, <<"key", "compressed">>, <<"key">>)

bitcoin_signMessage == Exchange(<<"msg", "key">>, <<"sig">>, <<"key">>)

bitcoin_verifyMessage == Question(<<"msg", "sig", "addr">>)

btcTx_addInput == Program(<<Check, Copy("txid"), Copy("pub")>>, <<Native>>, Each(Free, <<"txid", "pub">>))

(* The network and the payload length of the decoded address are checked   *)
(* inside the try; a key hash goes to its own export, any other type is    *)
(* added as a script by a nested try.                                      *)
btcTx_addOutput == DecodedAddress(<<Take("type"), Take("network"), Check, Native>>)

btcTx_addOutputScript ==
    DecodedAddress(<<Take("type"), Take("network"), Check, Take("hash"), Check, Sub>>)

btcTx_scriptOutput == Program(<<Copy("script")>>, <<Native>>, <<Free("script")>>)

(* One native call per input, and the first that fails ends it.            *)
btcTx_sign == Program(<<Check, Copy("key")>>, <<Native, Native>>, <<Wipe("key"), Free("key")>>)

btcTx_serialize == SizedExchange(<<>>, <<"out">>, "size", <<>>)

btcTx_getTxid == Exchange(<<>>, <<"out">>, <<>>)

(* getSize, getVsize, getWeight, getFee, validate *)
btcTx_get == Plain(<<Ask>>)

btcTx_create == Plain(<<Make("tx")>>)

btcTx_parse == Program(<<Check, Copy("data")>>, <<Make("tx")>>, <<Free("data")>>)

-----------------------------------------------------------------------------
(* const ethereum                                                          *)

ethereum_getAddress == Exchange(<<"pub">>, <<"out">>, <<>>)

ethereum_getChecksumAddress == Exchange(<<"addr">>, <<"out">>, <<>>)

ethereum_validateAddress == Question(<<"addr">>)

ethereum_signMessage == Exchange(<<"msg", "key">>, <<"sig">>, <<"key">>)

(* The struct hash is computed before anything of this call is allocated,  *)
(* by one k256 call per type and value.                                    *)
ethereum_signTypedData ==
    Program(<<Check, Sub, Copy("name"), Copy("version"), Copy("contract"), Copy("structHash"),
              Copy("key"), Raw("sig")>>,
            <<Native, Take("sig")>>,
            <<Wipe("key")>> \o
            Each(Free, <<"name", "version", "contract", "structHash", "key", "sig">>))

ethereum_k256 == Exchange(<<"data">>, <<"hash">>, <<>>)

ethereum_verifyMessage == Exchange(<<"msg", "sig">>, <<"addr">>, <<>>)

ethereum_verifyChecksum == Question(<<"addr">>)

ethereum_hashMessage == Exchange(<<"msg">>, <<"hash">>, <<>>)

ethTx_sign == Program(<<Check, Copy("key")>>, <<Native>>, <<Wipe("key"), Free("key")>>)

ethTx_serialize == SizedExchange(<<>>, <<"out">>, "size", <<>>)

ethTx_getHash == Exchange(<<>>, <<"out">>, <<>>)

(* Each optional field of the transaction is set by a block of its own;    *)
(* only the recipient's setter is checked.                                 *)
ethTx_setTo == Program(<<Check, Copy("to")>>, <<Native>>, <<Free("to")>>)

ethTx_setValue == Program(<<Check, Copy("value")>>, <<Ask>>, <<Free("value")>>)

ethTx_setData == Program(<<Check, Copy("data")>>, <<Ask>>, <<Free("data")>>)

(* The handle is open before the fields are set: a field that is refused   *)
(* destroys it in the catch.                                               *)
CreatedTx(checks) ==
    [pre    |-> <<Check, Make("tx")>>,
     body   |-> checks,
     caught |-> <<Destroy("tx")>>,
     fin    |-> <<>>]

ethTx_createEIP1559 == CreatedTx(<<Ask, Sub, Sub, Sub>>)

ethTx_create == CreatedTx(<<Check, Ask, Sub, Sub, Sub>>)

ethTx_parse == Program(<<Check, Copy("data")>>, <<Make("tx")>>, <<Free("data")>>)

-----------------------------------------------------------------------------
(* const cosmos, const solana, const polkadot                              *)

cosmos_getAddress == Exchange(<<"pub", "prefix">>, <<"out">>, <<>>)

cosmos_validateAddress ==
    Program(<<Check, Copy("addr"), Opt("prefix")>>, <<Ask>>, Each(Free, <<"addr", "prefix">>))

cosmos_convertPrefix == Exchange(<<"addr", "prefix">>, <<"out">>, <<>>)

cosmos_signAmino == Exchange(<<"doc", "key">>, <<"sig">>, <<"key">>)

(* Both forms of the arguments end in the same call.                       *)
cosmos_signDirect == Exchange(<<"doc", "key">>, <<"sig">>, <<"key">>)

cosmos_verifySignature == Question(<<"msg", "sig", "pub">>)

solana_getAddress == Exchange(<<"pub">>, <<"out">>, <<>>)

solana_validateAddress == Question(<<"addr">>)

solana_signMessage == Exchange(<<"msg", "key">>, <<"sig">>, <<"key">>)

solana_verifyMessage == Question(<<"msg", "sig", "pub">>)

solana_addressToPubkey == Exchange(<<"addr">>, <<"out">>, <<>>)

solana_derivePubkey == Exchange(<<"key">>, <<"out">>, <<"key">>)

(* The seed lengths are written to their cells before the try.             *)
solana_findPDA ==
    Program(<<Check, Copy("prog"), Opt("seeds"), Raw("seedLens"), Put("seedLens"),
              Raw("addr"), Raw("bump")>>,
            <<Native, Take("addr"), Take("bump")>>,
            Each(Free, <<"prog", "seeds", "seedLens", "addr", "bump">>))

solana_getAssociatedTokenAddress == Exchange(<<"wallet", "mint">>, <<"out">>, <<>>)

polkadot_getAddress == Exchange(<<"pub">>, <<"out">>, <<>>)

polkadot_validateAddress == Question(<<"addr">>)

polkadot_decodeAddress == Exchange(<<"addr">>, <<"prefix", "pub">>, <<>>)

polkadot_convertPrefix == Exchange(<<"addr">>, <<"out">>, <<>>)

polkadot_derivePubkey == Exchange(<<"key">>, <<"out">>, <<"key">>)

polkadot_signMessage == Exchange(<<"msg", "key">>, <<"sig">>, <<"key">>)

polkadot_verifyMessage == Question(<<"msg", "sig", "pub">>)

-----------------------------------------------------------------------------
(* const hardware, const keyring.  A string the export returns is read     *)
(* where the export keeps it and is not given back.                        *)

hardware_enumerate == Plain(<<Ask>>)

hardware_connect == Program(<<Check, Copy("path")>>, <<Make("device")>>, <<Free("path")>>)

hardware_getPublicKey == Exchange(<<"path">>, <<"out">>, <<>>)

hardware_signTransaction == Exchange(<<"path", "tx">>, <<"sig">>, <<>>)

hardware_signMessage == Exchange(<<"path", "msg">>, <<"sig">>, <<>>)

keyring_addWallet ==
    Program(<<Check, Copy("seed"), Opt("name")>>, <<Ask>>,
            <<Wipe("seed"), Free("seed"), Free("name")>>)

keyring_removeWallet == Program(<<Check, Copy("id")>>, <<Native>>, <<Free("id")>>)

keyring_getAccounts == Program(<<Check, Copy("id")>>, <<Ask, Check>>, <<Free("id")>>)

keyring_signTransaction == Exchange(<<"id", "path", "tx">>, <<"sig">>, <<>>)

keyring_signMessage == Exchange(<<"id", "path", "msg">>, <<"sig">>, <<>>)

-----------------------------------------------------------------------------
(* const utils.  A codec that this build does not export runs in           *)
(* JavaScript and touches no WASM memory: Check stands for both outcomes.  *)

(* sha256, sha512, keccak256, ripemd160, hash160, blake2b, blake2s *)
utils_hash == Exchange(<<"data">>, <<"hash">>, <<>>)

utils_hkdf == Exchange(<<"ikm", "salt", "info">>, <<"derived">>, <<"ikm">>)

aesGcm_encrypt ==
    Program(<<Check, Copy("key"), Copy("plaintext"), Copy("iv"), Opt("aad"), Raw("ct"), Raw("tag")>>,
            <<Native, Take("ct"), Take("tag")>>,
            <<Wipe("key"), Wipe("plaintext")>> \o
            Each(Free, <<"key", "plaintext", "iv", "aad", "ct", "tag">>))

aesGcm_decrypt ==
    Program(<<Check, Copy("key"), Copy("ct"), Copy("iv"), Copy("tag"), Opt("aad"), Raw("plaintext")>>,
            <<Native, Take("plaintext")>>,
            <<Wipe("key")>> \o Each(Free, <<"key", "ct", "iv", "tag", "aad">>) \o
            <<Wipe("plaintext"), Free("plaintext")>>)

utils_pbkdf2 == Exchange(<<"password", "salt">>, <<"derived">>, <<"password">>)

utils_scrypt == Exchange(<<"password", "salt">>, <<"derived">>, <<"password">>)

utils_encodeBase58 == Program(<<Check, Copy("data")>>, <<Ask>>, <<Free("data")>>)

utils_decodeBase58 == SizedExchange(<<"str">>, <<"out">>, "size", <<>>)

utils_encodeBase58Check == Program(<<Check, Copy("data")>>, <<Ask>>, <<Free("data")>>)

utils_decodeBase58Check == SizedExchange(<<"str">>, <<"out">>, "size", <<>>)

utils_encodeBech32 == Program(<<Check, Copy("hrp"), Copy("data")>>, <<Ask>>, Each(Free, <<"hrp", "data">>))

utils_decodeBech32 == SizedExchange(<<"str">>, <<"hrp", "data">>, "size", <<>>)

-----------------------------------------------------------------------------
(* const x509.  An output of unknown length is asked for twice: a probe    *)
(* for its length, then up to six attempts, each with a buffer of its own  *)
(* that it gives back whether it returns, retries or throws.               *)

DynamicResult == Program(<<New("len")>>, <<Put("len"), Native, Take("len"), Sub>>, <<Free("len")>>)

DynamicAttempt == Program(<<New("out")>>, <<Native, Take("out")>>, <<Free("out")>>)

DynamicSecretAttempt ==
    Program(<<New("key")>>, <<Native, Take("key")>>, <<Wipe("key"), Free("key")>>)

x509_generatePrivateKey == Plain(<<Sub>>)

x509_exportPrivateKeyPem == Program(<<Check, Copy("key")>>, <<Sub>>, <<Wipe("key"), Free("key")>>)

x509_importPrivateKeyPem == Program(<<Check, Copy("pem")>>, <<Sub>>, <<Wipe("pem"), Free("pem")>>)

(* The private keys are validated after the options were copied in.        *)
x509_createSelfSignedCertificate ==
    Program(<<Check, Copy("options"), Check, Copy("key")>>, <<Sub>>,
            <<Wipe("options"), Wipe("key"), Free("options"), Free("key")>>)

x509_issueCertificate ==
    Program(<<Check, Copy("options"), Check, Copy("key"), Check, Copy("issuerCert"),
              Check, Copy("priv")>>,
            <<Sub>>,
            <<Wipe("options"), Wipe("key"), Wipe("priv")>> \o
            Each(Free, <<"options", "key", "issuerCert", "priv">>))

(* convertCertificate, parseCertificate *)
x509_convertCertificate == Program(<<Check, Copy("cert")>>, <<Sub, Check>>, <<Free("cert")>>)

x509_verifyWalletAttestation == Program(<<Check, Copy("cert")>>, <<Native>>, <<Free("cert")>>)

x509_exportPkcs12 ==
    Program(<<Check, Copy("cert"), Check, Copy("key"), Copy("password"), Copy("friendlyName"),
              Check, Opt("chain")>>,
            <<Sub>>,
            <<Wipe("key"), Wipe("password")>> \o
            Each(Free, <<"cert", "key", "password", "friendlyName", "chain">>))

x509_importPkcs12 ==
    Program(<<Check, Copy("bundle"), Copy("password")>>, <<Sub, Check>>,
            <<Wipe("bundle"), Wipe("password"), Free("bundle"), Free("password")>>)

-----------------------------------------------------------------------------
(* const ecies, const aesCtr, const slip10, const libp2p, the module       *)

ecies_encrypt ==
    Program(<<Check, Copy("pub"), Copy("plaintext"), Opt("aad"), Raw("out")>>,
            <<Native, Take("out")>>,
            <<Free("pub"), Wipe("plaintext"), Free("plaintext"), Free("aad"), Free("out")>>)

ecies_decrypt ==
    Program(<<Check, Copy("priv"), Copy("ct"), Opt("aad"), Raw("plaintext")>>,
            <<Native, Take("plaintext")>>,
            <<Wipe("priv"), Free("priv"), Free("ct"), Free("aad"),
              Wipe("plaintext"), Free("plaintext")>>)

aesCtr_encrypt ==
    Exchange(<<"key", "plaintext", "iv">>, <<"out">>, <<"key", "plaintext">>)

aesCtr_decrypt ==
    Program(<<Check, Copy("key"), Copy("ct"), Copy("iv"), Raw("plaintext")>>,
            <<Native, Take("plaintext")>>,
            <<Wipe("key"), Free("key"), Free("ct"), Free("iv"),
              Wipe("plaintext"), Free("plaintext")>>)

slip10_deriveEd25519Path ==
    Exchange(<<"seed", "path">>, <<"key", "chainCode">>, <<"seed", "key">>)

libp2p_peerIdFromPublicKey == Exchange(<<"pub">>, <<"out">>, <<>>)

(* The output is allocated before the input that may be refused.           *)
libp2p_ipnsHash ==
    Program(<<Check, Raw("out"), Copy("cid")>>, <<Native, Take("out")>>, Each(Free, <<"cid", "out">>))

libp2p_ipnsHashBase32 == Exchange(<<"cid">>, <<"out">>, <<>>)

(* peerIdFromXpub, ipnsHashFromXpub: a key of the call's own.              *)
libp2p_ofXpub == Program(<<Make("handle")>>, <<Sub>>, <<Destroy("handle")>>)

(* The entropy goes in and nothing comes out.                              *)
injectEntropy == Program(<<Check, Copy("entropy")>>, <<Ask>>, <<Wipe("entropy"), Free("entropy")>>)

(* getSigningKey, getEncryptionKey *)
getSigningKey == Program(<<Make("handle")>>, <<Sub, Sub>>, <<Destroy("handle")>>)

-----------------------------------------------------------------------------
KeyPrograms ==
    {HDKey_get, HDKey_privateKey, HDKey_publicKey, HDKey_publicKeyUncompressed, HDKey_peerId,
     HDKey_chainCode,
     HDKey_deriveChild, HDKey_derivePath, HDKey_toXprv, HDKey_toXpub, mnemonic_generate,
     mnemonic_validate, mnemonic_toSeed, mnemonic_toEntropy, mnemonic_fromEntropy,
     mnemonic_getWordlist, mnemonic_suggestWords, mnemonic_checkWord, hdkey_fromSeed,
     hdkey_fromXprv, hdkey_fromXpub, hdkey_buildPath, hdkey_parsePath,
     getSigningKey, injectEntropy, slip10_deriveEd25519Path}

CurvePrograms ==
    {curves_publicKeyFromPrivate, curves_compressPublicKey, curves_decompressPublicKey,
     curves_ecdh, secp256k1_sign, secp256k1_signRecoverable, secp256k1_verify,
     secp256k1_recover, secp256k1_ecdh, ed25519_publicKeyFromSeed, ed25519_sign,
     ed25519_verify, p256_sign, p256_verify, p256_ecdh, p384_sign, p384_verify, p384_ecdh,
     x25519_publicKey, x25519_ecdh, ecies_encrypt, ecies_decrypt}

CoinPrograms ==
    {coin_addressFromPubkey, coin_validateAddress, coin_signMessage, coin_verifyMessage,
     bitcoin_getAddress, bitcoin_validateAddress, bitcoin_decodeAddress,
     bitcoin_detectAddressType, bitcoin_toWIF, bitcoin_fromWIF, bitcoin_signMessage,
     bitcoin_verifyMessage, btcTx_addInput, btcTx_addOutput, btcTx_addOutputScript,
     btcTx_scriptOutput, btcTx_sign, btcTx_serialize, btcTx_getTxid, btcTx_get, btcTx_create,
     btcTx_parse, ethereum_getAddress, ethereum_getChecksumAddress, ethereum_validateAddress,
     ethereum_signMessage, ethereum_signTypedData, ethereum_k256, ethereum_verifyMessage,
     ethereum_verifyChecksum, ethereum_hashMessage, ethTx_sign, ethTx_serialize,
     ethTx_getHash, ethTx_setTo, ethTx_setValue, ethTx_setData, ethTx_createEIP1559,
     ethTx_create, ethTx_parse, cosmos_getAddress, cosmos_validateAddress,
     cosmos_convertPrefix, cosmos_signAmino, cosmos_signDirect, cosmos_verifySignature,
     solana_getAddress, solana_validateAddress, solana_signMessage, solana_verifyMessage,
     solana_addressToPubkey, solana_derivePubkey, solana_findPDA,
     solana_getAssociatedTokenAddress, polkadot_getAddress, polkadot_validateAddress,
     polkadot_decodeAddress, polkadot_convertPrefix, polkadot_derivePubkey,
     polkadot_signMessage, polkadot_verifyMessage}

DevicePrograms ==
    {hardware_enumerate, hardware_connect, hardware_getPublicKey, hardware_signTransaction,
     hardware_signMessage, keyring_addWallet, keyring_removeWallet, keyring_getAccounts,
     keyring_signTransaction, keyring_signMessage}

UtilPrograms ==
    {utils_hash, utils_hkdf, aesGcm_encrypt, aesGcm_decrypt, utils_pbkdf2, utils_scrypt,
     utils_encodeBase58, utils_decodeBase58, utils_encodeBase58Check, utils_decodeBase58Check,
     utils_encodeBech32, utils_decodeBech32, DynamicResult, DynamicAttempt,
     DynamicSecretAttempt, x509_generatePrivateKey, x509_exportPrivateKeyPem,
     x509_importPrivateKeyPem, x509_createSelfSignedCertificate, x509_issueCertificate,
     x509_convertCertificate, x509_verifyWalletAttestation, x509_exportPkcs12,
     x509_importPkcs12, aesCtr_encrypt, aesCtr_decrypt, libp2p_peerIdFromPublicKey,
     libp2p_ipnsHash, libp2p_ipnsHashBase32, libp2p_ofXpub}

BindingPrograms ==
    KeyPrograms \union CurvePrograms \union CoinPrograms \union DevicePrograms \union UtilPrograms
=============================================================================
