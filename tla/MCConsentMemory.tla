--------------------------- MODULE MCConsentMemory ---------------------------
(* One tab and one site: a grant, and a logout from the account page.      *)
EXTENDS ConsentMemory

CONSTANTS t1, s1
=============================================================================
