----------------------------- MODULE WalletList -----------------------------
(***************************************************************************)
(* The wallets and accounts of the legacy page (wallet-ui/src/app.js): a   *)
(* list of wallets, each with one account per chain, which every tab keeps *)
(* in its state and writes to localStorage as a whole.  A scan asks for    *)
(* the balance of one account after another and merges what it found into  *)
(* the accounts there are by then, while the user adds wallets, puts them  *)
(* aside and switches accounts on and off.                                 *)
(*                                                                         *)
(* The chains are alike here, so there is one; an account is that of its   *)
(* wallet's accountIndex.  A balance is "--" when it is not known.  What   *)
(* the cache holds of an address is left open.                             *)
(***************************************************************************)
EXTENDS Integers, FiniteSets, FiniteSetsExt, Sequences

CONSTANTS
    Tabs,           \* pages on the same storage
    DefaultCount,   \* DEFAULT_WALLET_COUNT
    MaxIndex,       \* bound on the account index of a wallet
    StoredLists,    \* wallet lists an earlier page may have stored
    NoListScan

(* What parseInt leaves of a stored entry.                                 *)
WalletRecord == [id : Int, accountIndex : Int, inactive : BOOLEAN]

ASSUME WalletListAssumption ==
    /\ DefaultCount \in Nat \ {0} /\ MaxIndex \in Nat
    /\ StoredLists \subseteq Seq(WalletRecord)

VARIABLES
    wallets,         \* state.wallets of each tab
    current,         \* state.activeWalletId
    accounts,        \* state.activeAccounts
    hasRoot,         \* state.hdRoot is there
    scan,            \* the scan of the tab: targets to come, the one asked for
                     \* with the balance known before, and what was found
    storedWallets,   \* the list in localStorage
    storedAccounts

listVars == <<wallets, current, accounts, hasRoot, scan, storedWallets, storedAccounts>>

Balances == {"--", "zero", "funded"}

-----------------------------------------------------------------------------
(* Stored entries are taken in their order: one that repeats an id or an   *)
(* account index of those kept before is dropped.  The default wallets     *)
(* that are missing get the ids that follow.                               *)
(* (The variant looks at the ids alone.)                                   *)
KeptById(list) ==
    {list[i] : i \in {i \in DOMAIN list : \A j \in DOMAIN list : j < i => list[j].id # list[i].id}}

Clashes(v, w) == v.id = w.id \/ v.accountIndex = w.accountIndex

KeptPlaces(list) ==
    CHOOSE K \in SUBSET DOMAIN list :
        \A i \in DOMAIN list : i \in K <=> \A j \in K : j < i => ~Clashes(list[j], list[i])

Kept(list) == {list[i] : i \in KeptPlaces(list)}

normalizeWallets(list) ==
    LET kept == Kept(list)
        missing == (0..(DefaultCount - 1)) \ {w.accountIndex : w \in kept}
        next == 1 + Max({w.id : w \in kept} \cup {-1})
    IN kept \cup {[id |-> next + Cardinality({j \in missing : j < i}), accountIndex |-> i,
                   inactive |-> FALSE] : i \in missing}

getActiveWallets(ws) == {w \in ws : ~w.inactive}

(* Whichever page stored a list had a wallet left to be the current one,   *)
(* as setWalletInactive puts the last one aside on none.                   *)
ASSUME StoredListsAssumption ==
    \A list \in StoredLists : getActiveWallets(normalizeWallets(list)) # {}

First(ws) == CHOOSE w \in ws : \A v \in ws : w.accountIndex <= v.accountIndex

(* The current wallet: the chosen one when it is active, else the first.   *)
getCurrentWallet(ws, chosen) ==
    LET active == getActiveWallets(ws)
        named == {w \in active : w.id = chosen}
    IN IF named # {} THEN First(named) ELSE First(active)

(* The wallet of an account: by its id, else by its path.                  *)
getAccountWalletId(ws, a) ==
    IF \E w \in ws : w.id = a.walletId THEN a.walletId
    ELSE LET same == {w \in ws : w.accountIndex = a.index}
         IN IF same = {} THEN 0 ELSE First(same).id

isSigningAccount(ws, a) ==
    \E w \in ws : w.id = getAccountWalletId(ws, a) /\ w.accountIndex = a.index

normalizeActiveAccounts(ws, as) ==
    {[a EXCEPT !.walletId = getAccountWalletId(ws, a)] : a \in as}

Key(ws, a) == <<getAccountWalletId(ws, a), a.index>>

Fresh(w) ==
    [walletId |-> w.id, index |-> w.accountIndex, balance |-> "--", active |-> FALSE]

Missing(ws, as) ==
    {w \in ws : <<w.id, w.accountIndex>> \notin {Key(ws, a) : a \in as}}

(* A derivation that fails leaves its account out.                         *)
Ensured(ws, as, failed) == as \cup {Fresh(w) : w \in Missing(ws, as) \ failed}

(* mergeAccounts: what was found updates the account there is, except for  *)
(* the user's choice, and is added when there is none.                     *)
mergeAccounts(ws, as, found) ==
    {IF \E f \in found : Key(ws, f) = Key(ws, a)
     THEN LET f == CHOOSE f \in found : Key(ws, f) = Key(ws, a)
          IN [a EXCEPT !.balance = f.balance, !.walletId = getAccountWalletId(ws, f)]
     ELSE a : a \in as}
    \cup {f \in found : \A a \in as : Key(ws, a) # Key(ws, f)}

(* A variant that takes the choice from the scan.                          *)
mergeAccountsAndChoices(ws, as, found) ==
    {a \in as : \A f \in found : Key(ws, f) # Key(ws, a)} \cup found

-----------------------------------------------------------------------------
ListInit ==
    /\ wallets = [t \in Tabs |-> {}]
    /\ current = [t \in Tabs |-> 0]
    /\ accounts = [t \in Tabs |-> {}]
    /\ hasRoot = [t \in Tabs |-> FALSE]
    /\ scan = [t \in Tabs |-> NoListScan]
    /\ storedWallets \in {normalizeWallets(list) : list \in StoredLists}
    /\ storedAccounts = {}

SaveWallets(t) == storedWallets' = wallets'[t]

SaveAccounts(t) == storedAccounts' = accounts'[t]

(* login(): the stored list, the stored accounts, the missing ones, and    *)
(* only those that are a wallet's own.                                     *)
ListLogin(t) ==
    /\ ~hasRoot[t]
    /\ hasRoot' = [hasRoot EXCEPT ![t] = TRUE]
    /\ wallets' = [wallets EXCEPT ![t] = storedWallets]
    /\ current' = [current EXCEPT ![t] = getCurrentWallet(storedWallets, @).id]
    /\ LET loaded == normalizeActiveAccounts(storedWallets, storedAccounts)
       IN \E failed \in SUBSET Missing(storedWallets, loaded) :
            accounts' = [accounts EXCEPT ![t] =
                {a \in Ensured(storedWallets, loaded, failed) :
                    isSigningAccount(storedWallets, a)}]
    /\ SaveWallets(t) /\ SaveAccounts(t)
    /\ UNCHANGED scan

ListLogout(t) ==
    /\ hasRoot[t]
    /\ hasRoot' = [hasRoot EXCEPT ![t] = FALSE]
    /\ wallets' = [wallets EXCEPT ![t] = {}]
    /\ accounts' = [accounts EXCEPT ![t] = {}]
    /\ current' = [current EXCEPT ![t] = 0]
    /\ scan' = [scan EXCEPT ![t] = NoListScan]
    /\ UNCHANGED <<storedWallets, storedAccounts>>

createNewWallet(t) ==
    LET new == [id |-> 1 + Max({w.id : w \in wallets[t]}),
                accountIndex |-> 1 + Max({w.accountIndex : w \in wallets[t]}), inactive |-> FALSE]
    IN /\ hasRoot[t]
       /\ new.accountIndex <= MaxIndex
       /\ wallets' = [wallets EXCEPT ![t] = @ \cup {new}]
       /\ current' = [current EXCEPT ![t] = new.id]
       /\ \E added \in SUBSET {Fresh(new)} :
            accounts' = [accounts EXCEPT ![t] = @ \cup added]
       /\ SaveWallets(t) /\ SaveAccounts(t)
       /\ UNCHANGED <<hasRoot, scan>>

(* A variant that lets the last active wallet be put aside.                *)
MayPutAsideAny(t, w) == TRUE

MayPutAside(t, w) == Cardinality(getActiveWallets(wallets[t])) > 1

setWalletInactive(t, w, inactive) ==
    /\ hasRoot[t] /\ w.inactive # inactive
    /\ inactive => MayPutAside(t, w)
    /\ wallets' = [wallets EXCEPT ![t] = (@ \ {w}) \cup {[w EXCEPT !.inactive = inactive]}]
    /\ current' = [current EXCEPT ![t] =
           IF inactive /\ @ = w.id /\ getActiveWallets(wallets'[t]) # {}
           THEN First(getActiveWallets(wallets'[t])).id ELSE @]
    /\ SaveWallets(t)
    /\ UNCHANGED <<accounts, hasRoot, scan, storedAccounts>>

(* The name does not matter here; the whole list is written.               *)
renameWallet(t) ==
    /\ hasRoot[t]
    /\ storedWallets' = wallets[t]
    /\ UNCHANGED <<wallets, current, accounts, hasRoot, scan, storedAccounts>>

handleWalletSelectChange(t, w) ==
    /\ hasRoot[t]
    /\ current' = [current EXCEPT ![t] = w.id]
    /\ UNCHANGED <<wallets, accounts, hasRoot, scan, storedWallets, storedAccounts>>

toggleAccountActive(t, a) ==
    /\ hasRoot[t]
    /\ accounts' = [accounts EXCEPT ![t] = (@ \ {a}) \cup {[a EXCEPT !.active = ~@]}]
    /\ SaveAccounts(t)
    /\ UNCHANGED <<wallets, current, hasRoot, scan, storedWallets>>

(* Only the signing account of the current wallet may be added by hand.    *)
addCustomPathAccount(t) ==
    LET w == getCurrentWallet(wallets[t], current[t])
    IN /\ hasRoot[t]
       /\ w \in Missing(wallets[t], accounts[t])
       /\ accounts' = [accounts EXCEPT ![t] = @ \cup {Fresh(w)}]
       /\ SaveAccounts(t)
       /\ UNCHANGED <<wallets, current, hasRoot, scan, storedWallets>>

-----------------------------------------------------------------------------
(* scanActiveAccounts: the accounts that are missing are added, balances   *)
(* of the cache are put in, and the targets are those of the active        *)
(* wallets.                                                                *)
Hydrated(a, cached) ==
    IF cached = "--" THEN a
    ELSE [a EXCEPT !.balance = cached, !.active = @ \/ cached = "funded"]

ScanBegins(t) ==
    /\ hasRoot[t] /\ scan[t] = NoListScan
    /\ \E failed \in SUBSET Missing(wallets[t], accounts[t]) :
        LET ensured == Ensured(wallets[t], accounts[t], failed)
        IN \E cached \in [ensured -> Balances] :
             accounts' = [accounts EXCEPT ![t] = {Hydrated(a, cached[a]) : a \in ensured}]
    /\ scan' = [scan EXCEPT ![t] =
           [targets |-> getActiveWallets(wallets[t]), asked |-> {}, found |-> {}]]
    /\ storedAccounts' = accounts'[t]
    /\ UNCHANGED <<wallets, current, hasRoot, storedWallets>>

(* The balance of the next target is asked for; what is known of it is     *)
(* read before.  A derivation that fails skips it.                         *)
ScanAsks(t) ==
    /\ scan[t] # NoListScan /\ scan[t].asked = {} /\ scan[t].targets # {}
    /\ LET w == First(scan[t].targets)
           known == {a \in accounts[t] : Key(wallets[t], a) = <<w.id, w.accountIndex>>}
           question == [wallet |-> w,
                        known |-> IF known = {} THEN "--" ELSE (CHOOSE a \in known : TRUE).balance]
       IN \E asked \in {{}, {question}} :
            scan' = [scan EXCEPT ![t] =
                       [targets |-> @.targets \ {w}, asked |-> asked, found |-> @.found]]
    /\ UNCHANGED <<wallets, current, accounts, hasRoot, storedWallets, storedAccounts>>

(* A variant that shows that a request failed.                             *)
ResolvedAsAnswered(answer, known) == answer

(* A failed request keeps the balance that was known.                      *)
Resolved(answer, known) == IF answer = "--" THEN known ELSE answer

(* The answer; an account with funds is merged at once.                    *)
ScanAnswered(t, answer) ==
    /\ scan[t] # NoListScan
    /\ \E question \in scan[t].asked :
        LET w == question.wallet
            balance == Resolved(answer, question.known)
            new == [walletId |-> w.id, index |-> w.accountIndex,
                    balance |-> balance, active |-> balance = "funded"]
        IN /\ scan' = [scan EXCEPT ![t] =
                  [targets |-> @.targets, asked |-> {}, found |-> @.found \cup {new}]]
           /\ accounts' = [accounts EXCEPT ![t] =
                  IF balance = "funded"
                  THEN {a \in mergeAccounts(wallets[t], @, {new}) : isSigningAccount(wallets[t], a)}
                  ELSE @]
           /\ storedAccounts' = IF balance = "funded" THEN accounts'[t] ELSE storedAccounts
    /\ UNCHANGED <<wallets, current, hasRoot, storedWallets>>

ScanFinishes(t) ==
    /\ scan[t] # NoListScan /\ scan[t].asked = {} /\ scan[t].targets = {}
    /\ accounts' = [accounts EXCEPT ![t] =
           {a \in mergeAccounts(wallets[t], @, scan[t].found) : isSigningAccount(wallets[t], a)}]
    /\ scan' = [scan EXCEPT ![t] = NoListScan]
    /\ SaveAccounts(t)
    /\ UNCHANGED <<wallets, current, hasRoot, storedWallets>>

-----------------------------------------------------------------------------
(* A page in which another list was loaded writes its wallets or its       *)
(* accounts, each of which replaces all that is stored.                    *)
OtherPageSavesWallets(list) ==
    /\ storedWallets' = normalizeWallets(list)
    /\ UNCHANGED <<wallets, current, accounts, hasRoot, scan, storedAccounts>>

OtherPageSavesAccounts(list) ==
    /\ storedAccounts' = {Fresh(w) : w \in normalizeWallets(list)}
    /\ UNCHANGED <<wallets, current, accounts, hasRoot, scan, storedWallets>>

ListNext ==
  \/ \E list \in StoredLists :
        \/ OtherPageSavesWallets(list)
        \/ OtherPageSavesAccounts(list)
  \/    \E t \in Tabs :
        \/ ListLogin(t)
        \/ ListLogout(t)
        \/ createNewWallet(t)
        \/ \E w \in wallets[t], inactive \in BOOLEAN : setWalletInactive(t, w, inactive)
        \/ renameWallet(t)
        \/ \E w \in wallets[t] : handleWalletSelectChange(t, w)
        \/ \E a \in accounts[t] : toggleAccountActive(t, a)
        \/ addCustomPathAccount(t)
        \/ ScanBegins(t) \/ ScanAsks(t) \/ ScanFinishes(t)
        \/ \E answer \in Balances : ScanAnswered(t, answer)

ListSpec == ListInit /\ [][ListNext]_listVars

-----------------------------------------------------------------------------
Unique(S, Op(_)) == \A x, y \in S : Op(x) = Op(y) => x = y

(* Whatever list was stored and whichever tab wrote it last, ids and       *)
(* account indexes are not shared, no account is there twice, and every    *)
(* account is the one its wallet signs with: what is added by login, by    *)
(* hand, by a new wallet and by a scan that began before it never meets.   *)
ListIsSound ==
    \A t \in Tabs :
        /\ Unique(wallets[t], LAMBDA w : w.id)
        /\ Unique(wallets[t], LAMBDA w : w.accountIndex)
        /\ Unique(accounts[t], LAMBDA a : Key(wallets[t], a))
        /\ \A a \in accounts[t] : isSigningAccount(wallets[t], a)

(* There is always an active wallet to be the current one, in the tab and  *)
(* in what the next login loads.                                           *)
SomeWalletIsActive ==
    /\ getActiveWallets(storedWallets) # {}
    /\ \A t \in Tabs : hasRoot[t] => getActiveWallets(wallets[t]) # {}

(* The two together: the list can be signed with.                          *)
ListIsUsable == ListIsSound /\ SomeWalletIsActive

SameSession(t) == hasRoot[t] /\ hasRoot'[t]

(* While a session lasts, a balance that is known is never lost to a       *)
(* request that failed, and an account the user switched on is not         *)
(* switched off by a scan, although both are read before the scan waits    *)
(* and merged after it.                                                    *)
ScansLoseNothing ==
    [][\A t \in Tabs : SameSession(t) =>
          \A a \in accounts[t], b \in accounts'[t] :
              Key(wallets[t], a) = Key(wallets'[t], b) =>
                  /\ a.balance # "--" => b.balance # "--"
                  /\ scan[t] # scan'[t] => (a.active => b.active)]_listVars
=============================================================================
