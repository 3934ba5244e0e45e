CONSTANTS
    Own = "mine"
    Others = {"peer"}
    Recipients <- MCRecipients
    Cards <- MCCards
    Levels = {4}
    MaxTrusts = 2
    MaxRevoked = 1
    NoTrust = NoTrust
SPECIFICATION TrustSpec
INVARIANT RevokedIsShown
CHECK_DEADLOCK FALSE
