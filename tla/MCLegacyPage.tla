---------------------------- MODULE MCLegacyPage ----------------------------
(* The page with its handlers: two calls in progress when a scan is one of *)
(* them, two logins, a logout at any moment no handler runs.               *)
EXTENDS LegacyHandlers

(* The sinks whose writers all look before they write.                     *)
GuardedSinks ==
    {"keys", "addresses", "accounts", "balances", "bond", "names", "send", "receive",
     "derived", "pki", "storedPki", "vcard", "photo", "camera", "trust", "messages",
     "taken", "storedTrust"}

(* What is signed and sent: a payment or a trust record.                   *)
SignedSinks == {"broadcast"}

NoOverLogin == {}
=============================================================================
