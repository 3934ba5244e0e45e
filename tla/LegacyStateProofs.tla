------------------------- MODULE LegacyStateProofs --------------------------
(***************************************************************************)
(* Proofs about what the legacy page keeps.                                *)
(*                                                                         *)
(* The wallets and accounts, for any number of tabs and any stored lists:  *)
(* the list can be signed with, and a scan loses neither a balance nor a   *)
(* choice of the user.  The trust map, for any wallets, addresses and      *)
(* number of records: what it says was published, and what a wallet        *)
(* revokes is its own.                                                     *)
(***************************************************************************)
EXTENDS WalletList, TrustMap, FiniteSetTheorems, WellFoundedInduction, TLAPS

(* A family of finite sets has a member that includes no other.            *)
LEMMA LeastFinite ==
  ASSUME NEW S, NEW F, F \subseteq FiniteSubsetsOf(S), F # {}
  PROVE  \E A \in F : \A B \in F : B \subseteq A => B = A
<1>1. PICK A \in F : \A B \in F : ~(<<B, A>> \in StrictSubsetOrdering(S))
  BY FS_StrictSubsetOrderingWellFounded, WFMin
<1> QED BY <1>1 DEF StrictSubsetOrdering, FiniteSubsetsOf

(* A finite set has an element that no other comes before, in an order     *)
(* given by numbers.                                                       *)
LEMMA LeastByNumber ==
  ASSUME NEW S, IsFiniteSet(S), S # {}, NEW n \in [S -> Int]
  PROVE  \E x \in S : \A y \in S : n[x] <= n[y]
<1> DEFINE Below(x) == {y \in S : n[y] <= n[x]}
           F == {Below(x) : x \in S}
<1>1. ASSUME NEW x \in S PROVE Below(x) \in FiniteSubsetsOf(S)
  <2>1. Below(x) \in SUBSET S
    OBVIOUS
  <2>2. IsFiniteSet(Below(x))
    BY <2>1, FS_Subset
  <2> HIDE DEF Below
  <2> QED  BY <2>1, <2>2 DEF FiniteSubsetsOf
<1>2. PICK A \in F : \A B \in F : B \subseteq A => B = A
  <2>1. F # {}
    <3>1. PICK x \in S : TRUE
      OBVIOUS
    <3>2. Below(x) \in F
      BY <3>1
    <3> QED  BY <3>2
  <2>2. \A A \in F : A \in FiniteSubsetsOf(S)
    <3> HIDE DEF Below
    <3> QED  BY <1>1
  <2> HIDE DEF F
  <2> QED  BY <2>1, <2>2, LeastFinite
<1>3. PICK x \in S : A = Below(x)
  BY <1>2 DEF F
<1>4. ASSUME NEW y \in S, ~(n[x] <= n[y]) PROVE FALSE
  <2>1. Below(y) \subseteq Below(x) /\ x \notin Below(y) /\ x \in Below(x) /\ Below(y) \in F
    BY <1>4
  <2> QED  BY <1>2, <1>3, <2>1
<1> QED  BY <1>4

LEMMA FirstIs ==
  ASSUME NEW ws, IsFiniteSet(ws), ws # {}, ws \subseteq WalletRecord
  PROVE  First(ws) \in ws
<1> DEFINE n == [w \in ws |-> w.accountIndex]
<1>1. n \in [ws -> Int]
  BY DEF WalletRecord
<1>2. PICK x \in ws : \A y \in ws : n[x] <= n[y]
  BY <1>1, LeastByNumber
<1> QED  BY <1>2 DEF First

LEMMA MaxIs ==
  ASSUME NEW S, IsFiniteSet(S), S # {}, S \subseteq Int
  PROVE  Max(S) \in S /\ \A y \in S : y <= Max(S)
<1> DEFINE n == [x \in S |-> -x]
<1>1. n \in [S -> Int]
  OBVIOUS
<1>2. PICK x \in S : \A y \in S : n[x] <= n[y]
  BY <1>1, LeastByNumber
<1>3. \A y \in S : x >= y
  BY <1>2
<1> QED  BY <1>3 DEF Max

LEMMA MinIs ==
  ASSUME NEW S, IsFiniteSet(S), S # {}, S \subseteq Int
  PROVE  Min(S) \in S /\ \A y \in S : Min(S) <= y
<1> DEFINE n == [x \in S |-> x]
<1>1. n \in [S -> Int]
  OBVIOUS
<1>2. PICK x \in S : \A y \in S : n[x] <= n[y]
  BY <1>1, LeastByNumber
<1>3. \A y \in S : x <= y
  BY <1>2
<1> QED  BY <1>3 DEF Min

(* The finite image of a finite set. *)
LEMMA ImageFinite ==
  ASSUME NEW S, IsFiniteSet(S), NEW f, f = [x \in S |-> f[x]]
  PROVE  IsFiniteSet({f[x] : x \in S})
<1> DEFINE T == {f[x] : x \in S}
<1>1. f \in Surjection(S, T)
  BY DEF Surjection
<1> QED  BY <1>1, FS_Surjection

-----------------------------------------------------------------------------
(* What is kept of a list.                                                 *)
IsKept(list, n, K) ==
  \A i \in 1..n : i \in K <=> \A j \in K : j < i => ~Clashes(list[j], list[i])

LEMMA KeptExists ==
  ASSUME NEW list \in Seq(WalletRecord)
  PROVE  \E K \in SUBSET DOMAIN list : IsKept(list, Len(list), K)
<1> DEFINE Lacks(n) == \A K \in SUBSET (1..n) : ~ IsKept(list, n, K)
           F == {1..n : n \in {m \in 0..Len(list) : Lacks(m)}}
<1>0. Len(list) \in Nat /\ DOMAIN list = 1..Len(list)
  OBVIOUS
<1> SUFFICES ASSUME Lacks(Len(list)) PROVE FALSE
  BY <1>0
<1>1. F \subseteq FiniteSubsetsOf(1..Len(list))
  <2> SUFFICES ASSUME NEW n \in 0..Len(list)
               PROVE  1..n \in FiniteSubsetsOf(1..Len(list))
    OBVIOUS
  <2>1. n \in Int /\ 1 \in Int /\ 1..n \subseteq 1..Len(list)
    BY <1>0
  <2>2. IsFiniteSet(1..n)
    BY <2>1, FS_Interval
  <2> QED  BY <2>1, <2>2 DEF FiniteSubsetsOf
<1>2. PICK A \in F : \A B \in F : B \subseteq A => B = A
  <2>1. F # {}
    <3>1. Len(list) \in {m \in 0..Len(list) : Lacks(m)}
      BY <1>0
    <3> HIDE DEF Lacks
    <3> QED  BY <3>1
  <2> HIDE DEF F
  <2> QED  BY <1>1, <2>1, LeastFinite
<1>3. PICK n \in 0..Len(list) : Lacks(n) /\ A = 1..n
  BY <1>2 DEF F
<1>4. n # 0
  <2>1. IsKept(list, 0, {}) /\ {} \in SUBSET (1..0)
    BY DEF IsKept
  <2> QED  BY <1>3, <2>1
<1>5. ~ Lacks(n - 1)
  <2>1. n - 1 \in 0..Len(list) /\ 1..(n - 1) \subseteq 1..n /\ n \in 1..n /\ n \notin 1..(n - 1)
    BY <1>0, <1>4
  <2>2. Lacks(n - 1) => 1..(n - 1) \in F
    BY <2>1
  <2> QED  BY <1>2, <1>3, <2>1, <2>2
<1>6. PICK K \in SUBSET (1..(n - 1)) : IsKept(list, n - 1, K)
  BY <1>5
<1>7. 1..n = 1..(n - 1) \cup {n} /\ \A k \in K : k < n /\ k \in Int
  BY <1>0, <1>4
<1>8. CASE \A j \in K : ~Clashes(list[j], list[n])
  <2>1. IsKept(list, n, K \cup {n})
    BY <1>0, <1>6, <1>7, <1>8 DEF IsKept
  <2> QED  BY <1>3, <1>7, <2>1
<1>9. CASE ~ \A j \in K : ~Clashes(list[j], list[n])
  <2>1. IsKept(list, n, K)
    BY <1>0, <1>6, <1>7, <1>9 DEF IsKept
  <2> QED  BY <1>3, <1>7, <2>1
<1> QED  BY <1>8, <1>9

-----------------------------------------------------------------------------
Account == [walletId : Int, index : Int, balance : Balances, active : BOOLEAN]

(* A list of wallets that share neither an id nor an account index.        *)
GoodList(ws) ==
  /\ IsFiniteSet(ws) /\ ws \subseteq WalletRecord
  /\ \A v, w \in ws : Clashes(v, w) => v = w

LEMMA KeptGood ==
  ASSUME NEW list \in Seq(WalletRecord)
  PROVE  GoodList(Kept(list))
<1> DEFINE K == KeptPlaces(list)
<1>0. Len(list) \in Nat /\ DOMAIN list = 1..Len(list)
  OBVIOUS
<1>1. K \in SUBSET DOMAIN list /\ IsKept(list, Len(list), K)
  BY <1>0, KeptExists DEF KeptPlaces, IsKept
<1>2. Kept(list) \subseteq WalletRecord
  BY <1>1 DEF Kept
<1>3. IsFiniteSet(Kept(list))
  <2> DEFINE f == [i \in K |-> list[i]]
  <2>1. IsFiniteSet(K)
    <3>1. IsFiniteSet(1..Len(list)) /\ K \subseteq 1..Len(list)
      BY <1>0, <1>1, FS_Interval
    <3> QED  BY <3>1, FS_Subset
  <2>2. IsFiniteSet({f[x] : x \in K})
    BY <2>1, ImageFinite
  <2> QED  BY <2>2 DEF Kept
<1>4. ASSUME NEW v \in Kept(list), NEW w \in Kept(list), Clashes(v, w)
      PROVE  v = w
  <2>1. PICK i \in K : v = list[i]
    BY DEF Kept
  <2>2. PICK j \in K : w = list[j]
    BY DEF Kept
  <2>3. i \in 1..Len(list) /\ j \in 1..Len(list) /\ Clashes(w, v)
    BY <1>0, <1>1, <1>4 DEF Clashes
  <2>4. ~(i < j) /\ ~(j < i)
    BY <1>1, <1>4, <2>1, <2>2, <2>3 DEF IsKept
  <2> QED  BY <2>1, <2>2, <2>3, <2>4
<1> QED  BY <1>2, <1>3, <1>4 DEF GoodList

LEMMA NormalizedGood ==
  ASSUME NEW list \in StoredLists
  PROVE  /\ GoodList(normalizeWallets(list))
         /\ getActiveWallets(normalizeWallets(list)) # {}
<1> DEFINE kept == Kept(list)
           ids == {w.id : w \in kept}
           missing == (0..(DefaultCount - 1)) \ {w.accountIndex : w \in kept}
           next == 1 + Max(ids \cup {-1})
           before(i) == {j \in missing : j < i}
           new == [i \in missing |-> [id |-> next + Cardinality(before(i)), accountIndex |-> i,
                                      inactive |-> FALSE]]
           added == {new[i] : i \in missing}
<1>0. GoodList(kept) /\ kept \subseteq WalletRecord
  BY KeptGood, WalletListAssumption DEF GoodList
<1>1. normalizeWallets(list) = kept \cup added
  BY DEF normalizeWallets
<1>2. IsFiniteSet(missing) /\ missing \subseteq Nat
  <2>1. IsFiniteSet(0..(DefaultCount - 1)) /\ 0..(DefaultCount - 1) \subseteq Nat
    BY WalletListAssumption, FS_Interval
  <2> QED  BY <2>1, FS_Subset
<1>3. next \in Int /\ \A w \in kept : w.id < next
  <2> DEFINE f == [w \in kept |-> w.id]
  <2>1. IsFiniteSet({f[w] : w \in kept})
    BY <1>0, ImageFinite DEF GoodList
  <2>2. ids = {f[w] : w \in kept}
    OBVIOUS
  <2>3. IsFiniteSet(ids \cup {-1}) /\ ids \cup {-1} # {} /\ ids \cup {-1} \subseteq Int
    BY <1>0, <2>1, <2>2, FS_AddElement DEF WalletRecord
  <2> HIDE DEF ids
  <2>4. /\ Max(ids \cup {-1}) \in Int
        /\ \A y \in ids \cup {-1} : y <= Max(ids \cup {-1})
    BY <2>3, MaxIs
  <2>5. \A w \in kept : w.id \in ids /\ w.id \in Int
    <3> HIDE DEF kept
    <3> QED  BY <1>0 DEF ids, WalletRecord
  <2>6. next = 1 + Max(ids \cup {-1})
    OBVIOUS
  <2> DEFINE top == Max(ids \cup {-1})
  <2>7. top \in Int /\ next = 1 + top /\ \A y \in ids : y <= top
    BY <2>4, <2>6
  <2> HIDE DEF kept, next, top
  <2> QED  BY <2>5, <2>7
<1> HIDE DEF next
<1>4. \A i \in missing : Cardinality(before(i)) \in Nat /\ IsFiniteSet(before(i))
  BY <1>2, FS_Subset, FS_CardinalityType
<1>5. ASSUME NEW i \in missing, NEW k \in missing, i < k
      PROVE  Cardinality(before(i)) < Cardinality(before(k))
  <2>1. before(i) \subseteq before(k) /\ i \in before(k) /\ i \notin before(i)
    BY <1>2, <1>5
  <2>2. /\ Cardinality(before(i)) <= Cardinality(before(k))
        /\ Cardinality(before(i)) # Cardinality(before(k))
    BY <1>4, <2>1, FS_Subset
  <2> QED  BY <1>4, <2>2
<1>6. added \subseteq WalletRecord /\ \A i \in missing : new[i].id >= next
  <2> SUFFICES ASSUME NEW i \in missing
               PROVE  new[i] \in WalletRecord /\ new[i].id >= next
    OBVIOUS
  <2>1. Cardinality(before(i)) \in Nat /\ i \in Int /\ next \in Int
    BY <1>2, <1>3, <1>4
  <2>2. new[i] = [id |-> next + Cardinality(before(i)), accountIndex |-> i, inactive |-> FALSE]
    OBVIOUS
  <2> HIDE DEF before, new, missing
  <2> QED  BY <2>1, <2>2 DEF WalletRecord
<1>7. IsFiniteSet(kept \cup added)
  <2>1. IsFiniteSet(added)
    BY <1>2, ImageFinite
  <2> QED  BY <1>0, <2>1, FS_Union DEF GoodList
<1>8. ASSUME NEW v \in added, NEW w \in added, Clashes(v, w) PROVE v = w
  <2>1. PICK i \in missing : v = new[i]
    OBVIOUS
  <2>2. PICK k \in missing : w = new[k]
    OBVIOUS
  <2>3. /\ v.id = next + Cardinality(before(i)) /\ v.accountIndex = i
        /\ w.id = next + Cardinality(before(k)) /\ w.accountIndex = k
    BY <2>1, <2>2
  <2>4. Cardinality(before(i)) \in Nat /\ Cardinality(before(k)) \in Nat /\ i \in Nat /\ k \in Nat
    BY <1>2, <1>4
  <2>5. ~(i < k) /\ ~(k < i)
    <3>1. CASE i < k
      <4>1. Cardinality(before(i)) < Cardinality(before(k))
        BY <1>5, <3>1
      <4> HIDE DEF before
      <4> QED  BY <1>3, <1>8, <2>3, <2>4, <3>1, <4>1 DEF Clashes
    <3>2. CASE k < i
      <4>1. Cardinality(before(k)) < Cardinality(before(i))
        BY <1>5, <3>2
      <4> HIDE DEF before
      <4> QED  BY <1>3, <1>8, <2>3, <2>4, <3>2, <4>1 DEF Clashes
    <3> QED  BY <3>1, <3>2, <2>4
  <2>6. i = k
    <3> HIDE DEF before, missing
    <3> QED  BY <2>4, <2>5
  <2> QED  BY <2>1, <2>2, <2>6
<1>9. ASSUME NEW v \in kept, NEW w \in added PROVE ~Clashes(v, w) /\ ~Clashes(w, v)
  <2>1. PICK i \in missing : w = new[i]
    OBVIOUS
  <2>2. w.accountIndex = i /\ w.id >= next /\ w.id \in Int
    BY <1>6, <2>1 DEF WalletRecord
  <2>3. v.id < next /\ v.id \in Int /\ v.accountIndex # i
    BY <1>0, <1>3, <2>1 DEF WalletRecord
  <2> QED  BY <1>3, <2>2, <2>3 DEF Clashes
<1>10. GoodList(kept \cup added)
  <2> HIDE DEF kept, added
  <2> QED  BY <1>0, <1>6, <1>7, <1>8, <1>9 DEF GoodList
<1> QED  BY <1>1, <1>10, StoredListsAssumption

-----------------------------------------------------------------------------
(* Accounts and the wallets they are of.                                   *)
IsOf(ws, a) == \E w \in ws : w.id = a.walletId /\ w.accountIndex = a.index

OnePerIndex(as) == \A a, b \in as : a.index = b.index => a = b

(* Every account is of a wallet, and no two are of one.                    *)
GoodAccounts(ws, as) ==
  /\ as \subseteq Account
  /\ \A a \in as : IsOf(ws, a)
  /\ OnePerIndex(as)

LEMMA IsOfSigns ==
  ASSUME NEW ws, NEW a, IsOf(ws, a)
  PROVE  /\ getAccountWalletId(ws, a) = a.walletId
         /\ Key(ws, a) = <<a.walletId, a.index>>
         /\ isSigningAccount(ws, a)
BY DEF IsOf, getAccountWalletId, Key, isSigningAccount

(* Accounts of wallets have one key when they have one index.              *)
LEMMA KeyIsIndex ==
  ASSUME NEW ws, GoodList(ws), NEW a, NEW b, IsOf(ws, a), IsOf(ws, b)
  PROVE  Key(ws, a) = Key(ws, b) <=> a.index = b.index
<1>1. Key(ws, a) = <<a.walletId, a.index>> /\ Key(ws, b) = <<b.walletId, b.index>>
  BY IsOfSigns
<1>2. a.index = b.index => a.walletId = b.walletId
  BY DEF IsOf, GoodList, Clashes
<1> QED  BY <1>1, <1>2

LEMMA FreshIs ==
  ASSUME NEW ws, GoodList(ws), NEW w \in ws
  PROVE  /\ Fresh(w) \in Account /\ IsOf(ws, Fresh(w))
         /\ Fresh(w).index = w.accountIndex /\ Fresh(w).walletId = w.id
         /\ Fresh(w).balance = "--"
BY DEF Fresh, Account, IsOf, GoodList, WalletRecord, Balances

(* A wallet that misses its account has none of its index.                 *)
LEMMA MissingIs ==
  ASSUME NEW ws, GoodList(ws), NEW as, NEW w \in Missing(ws, as), NEW a \in as,
         IsOf(ws, a)
  PROVE  a.index # w.accountIndex
<1>1. Key(ws, a) = <<a.walletId, a.index>> /\ w \in ws
  BY IsOfSigns DEF Missing
<1>2. <<w.id, w.accountIndex>> # <<a.walletId, a.index>>
  BY <1>1 DEF Missing
<1> QED  BY <1>1, <1>2 DEF IsOf, GoodList, Clashes

(* What is read of the stored accounts: one for an index still, and the    *)
(* ones that sign are of a wallet.                                         *)
LEMMA LoadedIs ==
  ASSUME NEW ws, GoodList(ws), NEW as, as \subseteq Account, OnePerIndex(as)
  PROVE  LET loaded == normalizeActiveAccounts(ws, as) IN
         /\ loaded \subseteq Account /\ OnePerIndex(loaded)
         /\ \A a \in loaded : isSigningAccount(ws, a) => IsOf(ws, a)
<1> DEFINE loaded == normalizeActiveAccounts(ws, as)
           same(a) == {w \in ws : w.accountIndex = a.index}
<1>1. \A a \in as : same(a) # {} => First(same(a)) \in same(a)
  <2> SUFFICES ASSUME NEW a \in as, same(a) # {} PROVE First(same(a)) \in same(a)
    OBVIOUS
  <2>1. IsFiniteSet(same(a)) /\ same(a) \subseteq WalletRecord
    BY FS_Subset DEF GoodList
  <2> HIDE DEF same
  <2> QED  BY <2>1, FirstIs
<1>2. ASSUME NEW a \in as PROVE getAccountWalletId(ws, a) \in Int
  <2>1. CASE \E w \in ws : w.id = a.walletId
    BY <2>1 DEF getAccountWalletId, Account
  <2>2. CASE ~(\E w \in ws : w.id = a.walletId) /\ same(a) = {}
    BY <2>2 DEF getAccountWalletId
  <2>3. CASE ~(\E w \in ws : w.id = a.walletId) /\ same(a) # {}
    <3>1. getAccountWalletId(ws, a) = First(same(a)).id
      BY <2>3 DEF getAccountWalletId
    <3>2. First(same(a)) \in ws
      BY <1>1, <2>3
    <3> QED  BY <3>1, <3>2 DEF GoodList, WalletRecord
  <2> QED  BY <2>1, <2>2, <2>3
<1>3. \A b \in loaded : \E a \in as : b = [a EXCEPT !.walletId = getAccountWalletId(ws, a)]
  BY DEF normalizeActiveAccounts
<1>4. loaded \subseteq Account
  <2> SUFFICES ASSUME NEW b \in loaded PROVE b \in Account
    OBVIOUS
  <2>1. PICK a \in as : b = [a EXCEPT !.walletId = getAccountWalletId(ws, a)]
    BY <1>3
  <2>2. a \in Account /\ getAccountWalletId(ws, a) \in Int
    BY <1>2
  <2> QED  BY <2>1, <2>2 DEF Account
<1>5. OnePerIndex(loaded)
  <2> SUFFICES ASSUME NEW b \in loaded, NEW c \in loaded, b.index = c.index PROVE b = c
    BY DEF OnePerIndex
  <2>1. PICK a \in as : b = [a EXCEPT !.walletId = getAccountWalletId(ws, a)]
    BY <1>3
  <2>2. PICK d \in as : c = [d EXCEPT !.walletId = getAccountWalletId(ws, d)]
    BY <1>3
  <2>3. a.index = b.index /\ d.index = c.index
    BY <2>1, <2>2 DEF Account
  <2> QED  BY <2>1, <2>2, <2>3 DEF OnePerIndex
<1>6. ASSUME NEW b \in loaded, isSigningAccount(ws, b) PROVE IsOf(ws, b)
  <2>1. PICK a \in as : b = [a EXCEPT !.walletId = getAccountWalletId(ws, a)]
    BY <1>3
  <2>2. b.walletId = getAccountWalletId(ws, a) /\ b.index = a.index
    BY <2>1 DEF Account
  <2>3. PICK w \in ws : w.id = getAccountWalletId(ws, b) /\ w.accountIndex = b.index
    BY <1>6 DEF isSigningAccount
  <2>4. CASE \E v \in ws : v.id = b.walletId
    BY <2>3, <2>4 DEF getAccountWalletId, IsOf
  <2>5. CASE ~ \E v \in ws : v.id = b.walletId
    <3>1. same(a) = {}
      BY <1>1, <2>2, <2>5 DEF getAccountWalletId
    <3>2. w \in same(a)
      BY <2>2, <2>3
    <3> QED  BY <3>1, <3>2
  <2> QED  BY <2>4, <2>5
<1> QED  BY <1>4, <1>5, <1>6

(* What the missing accounts are added to, once those that do not sign are *)
(* left out.                                                               *)
LEMMA EnsuredIs ==
  ASSUME NEW ws, GoodList(ws), NEW as, as \subseteq Account, OnePerIndex(as),
         \A a \in as : isSigningAccount(ws, a) => IsOf(ws, a),
         NEW failed
  PROVE  GoodAccounts(ws, {a \in Ensured(ws, as, failed) : isSigningAccount(ws, a)})
<1> DEFINE E == {a \in Ensured(ws, as, failed) : isSigningAccount(ws, a)}
<1>1. ASSUME NEW a \in E
      PROVE  /\ a \in Account /\ IsOf(ws, a)
             /\ a \in as \/ \E w \in Missing(ws, as) : a = Fresh(w)
  BY FreshIs DEF Ensured, Missing
<1>2. ASSUME NEW a \in E, NEW b \in E, a.index = b.index PROVE a = b
  <2>0. IsOf(ws, a) /\ IsOf(ws, b)
    BY <1>1
  <2>1. CASE a \in as /\ b \in as
    BY <1>2, <2>1 DEF OnePerIndex
  <2>2. ASSUME NEW w \in Missing(ws, as), a = Fresh(w), b \in as PROVE FALSE
    <3>1. w \in ws /\ a.index = w.accountIndex
      BY <2>2, FreshIs DEF Missing
    <3> QED  BY <1>2, <2>0, <2>2, <3>1, MissingIs
  <2>3. ASSUME NEW w \in Missing(ws, as), b = Fresh(w), a \in as PROVE FALSE
    <3>1. w \in ws /\ b.index = w.accountIndex
      BY <2>3, FreshIs DEF Missing
    <3> QED  BY <1>2, <2>0, <2>3, <3>1, MissingIs
  <2>4. ASSUME NEW v \in Missing(ws, as), NEW w \in Missing(ws, as),
               a = Fresh(v), b = Fresh(w)
        PROVE  a = b
    <3>1. v \in ws /\ w \in ws /\ v.accountIndex = w.accountIndex
      BY <1>2, <2>4, FreshIs DEF Missing
    <3> QED  BY <2>4, <3>1 DEF GoodList, Clashes
  <2> QED  BY <1>1, <2>1, <2>2, <2>3, <2>4
<1> QED  BY <1>1, <1>2 DEF GoodAccounts, OnePerIndex

(* What was found and is merged: every account there was stays as it was,  *)
(* but for the balance of one that was found.                              *)
LEMMA MergedIs ==
  ASSUME NEW ws, GoodList(ws), NEW as, NEW found,
         GoodAccounts(ws, as), GoodAccounts(ws, found)
  PROVE  LET merged == {a \in mergeAccounts(ws, as, found) : isSigningAccount(ws, a)} IN
         /\ GoodAccounts(ws, merged)
         /\ \A b \in merged :
               \/ b \in as /\ \A f \in found : f.index # b.index
               \/ \E a \in as, f \in found :
                     a.index = f.index /\ b = [a EXCEPT !.balance = f.balance]
               \/ b \in found /\ \A a \in as : a.index # b.index
<1> DEFINE merged == {a \in mergeAccounts(ws, as, found) : isSigningAccount(ws, a)}
<1>1. /\ \A a \in as : a \in Account /\ IsOf(ws, a)
      /\ \A f \in found : f \in Account /\ IsOf(ws, f)
  BY DEF GoodAccounts
<1>2. \A a \in as, f \in found : Key(ws, a) = Key(ws, f) <=> a.index = f.index
  BY <1>1, KeyIsIndex
<1>3. ASSUME NEW b \in merged
      PROVE  \/ b \in as /\ \A f \in found : f.index # b.index
             \/ \E a \in as, f \in found :
                   a.index = f.index /\ b = [a EXCEPT !.balance = f.balance]
             \/ b \in found /\ \A a \in as : a.index # b.index
  <2>1. CASE b \in found /\ \A a \in as : Key(ws, a) # Key(ws, b)
    BY <1>2, <2>1
  <2>2. ASSUME NEW a \in as,
               b = IF \E f \in found : Key(ws, f) = Key(ws, a)
                   THEN LET f == CHOOSE f \in found : Key(ws, f) = Key(ws, a)
                        IN [a EXCEPT !.balance = f.balance,
                                     !.walletId = getAccountWalletId(ws, f)]
                   ELSE a
        PROVE  \/ b \in as /\ \A f \in found : f.index # b.index
               \/ \E f \in found :
                     a.index = f.index /\ b = [a EXCEPT !.balance = f.balance]
    <3>1. CASE \E f \in found : Key(ws, f) = Key(ws, a)
      <4>1. PICK f \in found : /\ Key(ws, f) = Key(ws, a)
                               /\ b = [a EXCEPT !.balance = f.balance,
                                                !.walletId = getAccountWalletId(ws, f)]
        BY <2>2, <3>1
      <4>2. getAccountWalletId(ws, f) = a.walletId
        BY <1>1, <4>1, IsOfSigns DEF Key
      <4>3. b = [a EXCEPT !.balance = f.balance]
        BY <1>1, <4>1, <4>2 DEF Account
      <4> QED  BY <1>2, <4>1, <4>3
    <3>2. CASE ~ \E f \in found : Key(ws, f) = Key(ws, a)
      BY <1>2, <2>2, <3>2
    <3> QED  BY <3>1, <3>2
  <2>3. \/ b \in found /\ \A a \in as : Key(ws, a) # Key(ws, b)
        \/ \E a \in as : b = IF \E f \in found : Key(ws, f) = Key(ws, a)
                              THEN LET f == CHOOSE f \in found : Key(ws, f) = Key(ws, a)
                                   IN [a EXCEPT !.balance = f.balance,
                                                !.walletId = getAccountWalletId(ws, f)]
                              ELSE a
    BY DEF mergeAccounts
  <2> QED  BY <2>1, <2>2, <2>3
<1>4. ASSUME NEW a \in as, NEW f \in found, a.index = f.index
      PROVE  LET b == [a EXCEPT !.balance = f.balance] IN
             b \in Account /\ b.index = a.index /\ IsOf(ws, b)
  BY <1>1 DEF Account, IsOf
<1>5. ASSUME NEW b \in merged PROVE b \in Account /\ IsOf(ws, b)
  <2>1. CASE b \in as \/ b \in found
    BY <1>1, <2>1
  <2>2. ASSUME NEW a \in as, NEW f \in found, a.index = f.index,
               b = [a EXCEPT !.balance = f.balance]
        PROVE  b \in Account /\ IsOf(ws, b)
    BY <1>4, <2>2
  <2> HIDE DEF merged
  <2> QED  BY <1>3, <2>1, <2>2
<1>6. ASSUME NEW b \in merged, NEW c \in merged, b.index = c.index PROVE b = c
  <2>0. OnePerIndex(as) /\ OnePerIndex(found)
    BY DEF GoodAccounts
  <2>1. ASSUME NEW a \in as, NEW f \in found, a.index = f.index,
               c = [a EXCEPT !.balance = f.balance]
        PROVE  c.index = a.index
    BY <1>4, <2>1
  <2>2. \/ c \in as /\ \A f \in found : f.index # c.index
        \/ \E a \in as, f \in found : a.index = f.index /\ c.index = a.index
        \/ c \in found /\ \A a \in as : a.index # c.index
    <3> HIDE DEF merged
    <3> QED  BY <1>3, <2>1
  <2>3. CASE b \in as /\ \A f \in found : f.index # b.index
    <3>1. c \in as
      BY <1>6, <2>3, <2>2
    <3> QED  BY <1>6, <2>0, <2>3, <3>1 DEF OnePerIndex
  <2>4. CASE b \in found /\ \A a \in as : a.index # b.index
    <3>1. c \in found
      BY <1>6, <2>4, <2>2
    <3> QED  BY <1>6, <2>0, <2>4, <3>1 DEF OnePerIndex
  <2>5. CASE \E a \in as, f \in found :
               a.index = f.index /\ b = [a EXCEPT !.balance = f.balance]
    <3>1. PICK a \in as, f \in found :
               a.index = f.index /\ b = [a EXCEPT !.balance = f.balance]
      BY <2>5
    <3>2. a.index = c.index /\ f.index = c.index
      BY <1>4, <1>6, <3>1
    <3>3. PICK d \in as, e \in found :
               d.index = e.index /\ c = [d EXCEPT !.balance = e.balance]
      BY <1>3, <3>2
    <3>4. d.index = c.index
      BY <1>4, <3>3
    <3> QED  BY <2>0, <3>1, <3>2, <3>3, <3>4 DEF OnePerIndex
  <2> QED  BY <1>3, <2>3, <2>4, <2>5
<1>7. GoodAccounts(ws, merged)
  BY <1>5, <1>6 DEF GoodAccounts, OnePerIndex
<1> QED  BY <1>3, <1>7

-----------------------------------------------------------------------------
(* The invariant.                                                          *)
Question == [wallet : WalletRecord, known : Balances]

(* A wallet of the list, as it was when it was read: it may have been put  *)
(* aside since.                                                            *)
Stands(ws, w) == \E v \in ws : v.id = w.id /\ v.accountIndex = w.accountIndex

(* A scan under way.  Each wallet is to come, asked for or found, and a    *)
(* balance that is not known to the scan was not known to the page.        *)
ScanHolds(ws, as, s) ==
  /\ s \in [targets : SUBSET WalletRecord, asked : SUBSET Question, found : SUBSET Account]
  /\ IsFiniteSet(s.targets)
  /\ \A w \in s.targets : Stands(ws, w)
  /\ \A v, w \in s.targets : v.accountIndex = w.accountIndex => v = w
  /\ \A p, q \in s.asked : p = q
  /\ \A q \in s.asked :
       /\ Stands(ws, q.wallet)
       /\ \A w \in s.targets : w.accountIndex # q.wallet.accountIndex
       /\ q.known = "--" => \A a \in as : a.index = q.wallet.accountIndex => a.balance = "--"
  /\ GoodAccounts(ws, s.found)
  /\ \A f \in s.found :
       /\ \A w \in s.targets : w.accountIndex # f.index
       /\ \A q \in s.asked : q.wallet.accountIndex # f.index
       /\ f.balance = "--" => \A a \in as : a.index = f.index => a.balance = "--"

TabHolds(ws, as, root, s) ==
  /\ GoodList(ws)
  /\ GoodAccounts(ws, as)
  /\ root => getActiveWallets(ws) # {}
  /\ ~root => s = NoListScan
  /\ s # NoListScan => ScanHolds(ws, as, s)

ListInv ==
  /\ wallets \in [Tabs -> SUBSET WalletRecord]
  /\ accounts \in [Tabs -> SUBSET Account]
  /\ hasRoot \in [Tabs -> BOOLEAN]
  /\ scan = [t \in Tabs |-> scan[t]]
  /\ \A t \in Tabs : TabHolds(wallets[t], accounts[t], hasRoot[t], scan[t])
  /\ GoodList(storedWallets) /\ getActiveWallets(storedWallets) # {}
  /\ storedAccounts \subseteq Account /\ OnePerIndex(storedAccounts)

(* No balance that was known is lost, no account is switched off.          *)
KeepsBalances(as, bs) ==
  \A a \in as, b \in bs : a.index = b.index /\ a.balance # "--" => b.balance # "--"

KeepsChoices(as, bs) ==
  \A a \in as, b \in bs : a.index = b.index /\ a.active => b.active

LosesNothing ==
  \A t \in Tabs : SameSession(t) =>
     \A a \in accounts[t], b \in accounts'[t] :
        Key(wallets[t], a) = Key(wallets'[t], b) =>
           /\ a.balance # "--" => b.balance # "--"
           /\ scan[t] # scan'[t] => (a.active => b.active)

LEMMA SameKeeps ==
  ASSUME NEW ws, NEW as, GoodAccounts(ws, as)
  PROVE  KeepsBalances(as, as) /\ KeepsChoices(as, as)
BY DEF GoodAccounts, OnePerIndex, KeepsBalances, KeepsChoices

(* A step of one tab: what it leaves behind is enough to know.             *)
LEMMA OneTab ==
  ASSUME ListInv, NEW t \in Tabs, NEW ws, NEW as, NEW root \in BOOLEAN, NEW s,
         wallets' = [wallets EXCEPT ![t] = ws],
         accounts' = [accounts EXCEPT ![t] = as],
         hasRoot' = [hasRoot EXCEPT ![t] = root],
         scan' = [scan EXCEPT ![t] = s],
         TabHolds(ws, as, root, s),
         GoodList(storedWallets') /\ getActiveWallets(storedWallets') # {},
         storedAccounts' \subseteq Account /\ OnePerIndex(storedAccounts'),
         hasRoot[t] /\ root => KeepsBalances(accounts[t], as),
         hasRoot[t] /\ root /\ scan[t] # s => KeepsChoices(accounts[t], as)
  PROVE  ListInv' /\ LosesNothing
<1>1. ws \in SUBSET WalletRecord /\ as \in SUBSET Account
  BY DEF TabHolds, GoodList, GoodAccounts
<1>2. /\ wallets' \in [Tabs -> SUBSET WalletRecord]
      /\ accounts' \in [Tabs -> SUBSET Account]
      /\ hasRoot' \in [Tabs -> BOOLEAN]
  BY <1>1 DEF ListInv
<1>3. scan' = [u \in Tabs |-> scan'[u]] /\ DOMAIN scan = Tabs
  BY DEF ListInv
<1>4. /\ wallets'[t] = ws /\ accounts'[t] = as /\ hasRoot'[t] = root /\ scan'[t] = s
      /\ \A u \in Tabs \ {t} : /\ wallets'[u] = wallets[u] /\ accounts'[u] = accounts[u]
                               /\ hasRoot'[u] = hasRoot[u] /\ scan'[u] = scan[u]
  BY <1>3 DEF ListInv
<1>5. \A u \in Tabs : TabHolds(wallets'[u], accounts'[u], hasRoot'[u], scan'[u])
  BY <1>4 DEF ListInv
<1>6. ListInv'
  BY <1>2, <1>3, <1>5 DEF ListInv
<1>7. ASSUME NEW u \in Tabs, SameSession(u), NEW a \in accounts[u], NEW b \in accounts'[u],
             Key(wallets[u], a) = Key(wallets'[u], b)
      PROVE  /\ a.balance # "--" => b.balance # "--"
             /\ scan[u] # scan'[u] => (a.active => b.active)
  <2>1. a.index = b.index
    BY <1>7 DEF Key
  <2>2. CASE u = t
    BY <1>4, <1>7, <2>1, <2>2 DEF SameSession, KeepsBalances, KeepsChoices
  <2>3. CASE u # t
    <3>1. a = b
      BY <1>4, <2>1, <2>3 DEF ListInv, TabHolds, GoodAccounts, OnePerIndex
    <3> QED  BY <1>4, <2>3, <3>1
  <2> QED  BY <2>2, <2>3
<1>8. LosesNothing
  BY <1>7 DEF LosesNothing
<1> QED  BY <1>6, <1>8

(* What the invariant says of one tab.                                     *)
LEMMA TabIs ==
  ASSUME ListInv, NEW t \in Tabs
  PROVE  /\ GoodList(wallets[t]) /\ GoodAccounts(wallets[t], accounts[t])
         /\ hasRoot[t] \in BOOLEAN
         /\ hasRoot[t] => getActiveWallets(wallets[t]) # {}
         /\ ~hasRoot[t] => scan[t] = NoListScan
         /\ scan[t] # NoListScan => ScanHolds(wallets[t], accounts[t], scan[t])
         /\ wallets = [wallets EXCEPT ![t] = wallets[t]]
         /\ accounts = [accounts EXCEPT ![t] = accounts[t]]
         /\ hasRoot = [hasRoot EXCEPT ![t] = hasRoot[t]]
         /\ scan = [scan EXCEPT ![t] = scan[t]]
BY DEF ListInv, TabHolds

(* What a tab has may be stored.                                           *)
LEMMA GoodToStore ==
  ASSUME NEW ws, NEW as, GoodAccounts(ws, as)
  PROVE  as \subseteq Account /\ OnePerIndex(as)
BY DEF GoodAccounts

LEMMA ListStarts == ListInit => ListInv
<1> SUFFICES ASSUME ListInit PROVE ListInv
  OBVIOUS
<1>1. TabHolds({}, {}, FALSE, NoListScan)
  BY FS_EmptySet DEF TabHolds, GoodList, GoodAccounts, OnePerIndex
<1>2. GoodList(storedWallets) /\ getActiveWallets(storedWallets) # {}
  BY NormalizedGood DEF ListInit
<1> QED  BY <1>1, <1>2 DEF ListInit, ListInv, OnePerIndex

LEMMA LoginListSafe ==
  ASSUME ListInv, NEW t \in Tabs, ListLogin(t)
  PROVE  ListInv' /\ LosesNothing
<1> DEFINE loaded == normalizeActiveAccounts(storedWallets, storedAccounts)
<1>1. PICK failed \in SUBSET Missing(storedWallets, loaded) :
         accounts' = [accounts EXCEPT ![t] =
                {a \in Ensured(storedWallets, loaded, failed) :
                    isSigningAccount(storedWallets, a)}]
  BY DEF ListLogin
<1> DEFINE as == {a \in Ensured(storedWallets, loaded, failed) :
                    isSigningAccount(storedWallets, a)}
<1>2. GoodList(storedWallets) /\ getActiveWallets(storedWallets) # {}
  BY DEF ListInv
<1>3. /\ loaded \subseteq Account /\ OnePerIndex(loaded)
      /\ \A a \in loaded : isSigningAccount(storedWallets, a) => IsOf(storedWallets, a)
  BY <1>2, LoadedIs DEF ListInv
<1>4. GoodAccounts(storedWallets, as)
  <2> HIDE DEF loaded
  <2> QED  BY <1>2, <1>3, EnsuredIs
<1> HIDE DEF as
<1>5. accounts' = [accounts EXCEPT ![t] = as]
  BY <1>1 DEF as
<1>6. TabHolds(storedWallets, as, TRUE, NoListScan)
  BY <1>2, <1>4 DEF TabHolds
<1>7. /\ scan[t] = NoListScan /\ scan' = [scan EXCEPT ![t] = NoListScan]
      /\ ~hasRoot[t]
  BY TabIs DEF ListLogin
<1>8. storedWallets' = storedWallets /\ storedAccounts' = as
  BY <1>5 DEF ListLogin, SaveWallets, SaveAccounts, ListInv
<1>9. as \subseteq Account /\ OnePerIndex(as)
  BY <1>4, GoodToStore
<1>10. /\ wallets' = [wallets EXCEPT ![t] = storedWallets]
       /\ hasRoot' = [hasRoot EXCEPT ![t] = TRUE]
  BY DEF ListLogin
<1> QED  BY <1>2, <1>5, <1>6, <1>7, <1>8, <1>9, <1>10, OneTab

LEMMA LogoutListSafe ==
  ASSUME ListInv, NEW t \in Tabs, ListLogout(t)
  PROVE  ListInv' /\ LosesNothing
<1>1. TabHolds({}, {}, FALSE, NoListScan)
  BY FS_EmptySet DEF TabHolds, GoodList, GoodAccounts, OnePerIndex
<1>2. /\ GoodList(storedWallets') /\ getActiveWallets(storedWallets') # {}
      /\ storedAccounts' \subseteq Account /\ OnePerIndex(storedAccounts')
  BY DEF ListLogout, ListInv
<1> QED  BY <1>1, <1>2, OneTab DEF ListLogout

(* A scan goes on when the list grows and accounts come whose balance is   *)
(* not known.                                                              *)
LEMMA ScanGoesOn ==
  ASSUME NEW ws, NEW vs, NEW as, NEW bs, NEW s, ScanHolds(ws, as, s),
         \A w \in ws : Stands(vs, w),
         \A b \in bs : \/ b.balance = "--"
                       \/ \E a \in as : a.index = b.index /\ a.balance = b.balance
  PROVE  ScanHolds(vs, bs, s)
<1>1. \A w : Stands(ws, w) => Stands(vs, w)
  BY DEF Stands
<1>2. \A a : IsOf(ws, a) => IsOf(vs, a)
  BY DEF Stands, IsOf
<1>3. GoodAccounts(vs, s.found)
  BY <1>2 DEF ScanHolds, GoodAccounts
<1>4. ASSUME NEW i, \A a \in as : a.index = i => a.balance = "--"
      PROVE  \A b \in bs : b.index = i => b.balance = "--"
  BY <1>4
<1>5. ASSUME NEW q \in s.asked
      PROVE  /\ Stands(vs, q.wallet)
             /\ \A w \in s.targets : w.accountIndex # q.wallet.accountIndex
             /\ q.known = "--" =>
                  \A a \in bs : a.index = q.wallet.accountIndex => a.balance = "--"
  BY <1>1, <1>4 DEF ScanHolds
<1>6. ASSUME NEW f \in s.found
      PROVE  /\ \A w \in s.targets : w.accountIndex # f.index
             /\ \A q \in s.asked : q.wallet.accountIndex # f.index
             /\ f.balance = "--" => \A a \in bs : a.index = f.index => a.balance = "--"
  BY <1>4 DEF ScanHolds
<1>7. /\ s \in [targets : SUBSET WalletRecord, asked : SUBSET Question, found : SUBSET Account]
      /\ IsFiniteSet(s.targets)
      /\ \A w \in s.targets : Stands(vs, w)
      /\ \A v, w \in s.targets : v.accountIndex = w.accountIndex => v = w
      /\ \A p, q \in s.asked : p = q
  BY <1>1 DEF ScanHolds
<1> HIDE DEF Stands
<1> QED  BY <1>3, <1>5, <1>6, <1>7 DEF ScanHolds

LEMMA CreateListSafe ==
  ASSUME ListInv, NEW t \in Tabs, createNewWallet(t)
  PROVE  ListInv' /\ LosesNothing
<1> DEFINE ws == wallets[t]
           ids == {w.id : w \in ws}
           indexes == {w.accountIndex : w \in ws}
           new == [id |-> 1 + Max(ids), accountIndex |-> 1 + Max(indexes), inactive |-> FALSE]
           vs == ws \cup {new}
<1>1. PICK added \in SUBSET {Fresh(new)} :
         accounts' = [accounts EXCEPT ![t] = @ \cup added]
  BY DEF createNewWallet
<1> DEFINE bs == accounts[t] \cup added
<1>2. /\ hasRoot[t] = TRUE /\ wallets' = [wallets EXCEPT ![t] = vs]
      /\ accounts' = [accounts EXCEPT ![t] = bs]
      /\ hasRoot' = hasRoot /\ scan' = scan
      /\ storedWallets' = wallets'[t] /\ storedAccounts' = accounts'[t]
  BY <1>1, TabIs DEF createNewWallet, SaveWallets, SaveAccounts
<1>3. GoodList(ws) /\ ws # {} /\ GoodAccounts(ws, accounts[t])
  BY <1>2, TabIs DEF getActiveWallets
<1>4. /\ new \in WalletRecord
      /\ \A w \in ws : w.id < new.id /\ w.accountIndex < new.accountIndex
  <2> DEFINE f == [w \in ws |-> w.id]
             g == [w \in ws |-> w.accountIndex]
  <2>1. \A w \in ws : w.id \in Int /\ w.accountIndex \in Int
    BY <1>3 DEF GoodList, WalletRecord
  <2>2. IsFiniteSet({f[w] : w \in ws}) /\ {f[w] : w \in ws} = ids
    BY <1>3, ImageFinite DEF GoodList
  <2>3. IsFiniteSet({g[w] : w \in ws}) /\ {g[w] : w \in ws} = indexes
    BY <1>3, ImageFinite DEF GoodList
  <2>4. ids # {} /\ ids \subseteq Int /\ indexes # {} /\ indexes \subseteq Int
    BY <1>3, <2>1
  <2>5. \A w \in ws : w.id \in ids /\ w.accountIndex \in indexes
    OBVIOUS
  <2>6. new.id = 1 + Max(ids) /\ new.accountIndex = 1 + Max(indexes)
    OBVIOUS
  <2>7. new = [id |-> 1 + Max(ids), accountIndex |-> 1 + Max(indexes), inactive |-> FALSE]
    OBVIOUS
  <2> HIDE DEF ids, indexes, ws, new
  <2>8. Max(ids) \in Int /\ \A x \in ids : x <= Max(ids)
    BY <2>2, <2>4, MaxIs
  <2>9. Max(indexes) \in Int /\ \A x \in indexes : x <= Max(indexes)
    BY <2>3, <2>4, MaxIs
  <2>10. new \in WalletRecord
    BY <2>7, <2>8, <2>9 DEF WalletRecord
  <2>11. \A w \in ws : w.id < new.id /\ w.accountIndex < new.accountIndex
    BY <2>1, <2>5, <2>6, <2>8, <2>9
  <2> QED  BY <2>10, <2>11
<1>5. new.inactive = FALSE
  OBVIOUS
<1> HIDE DEF new
<1>6. GoodList(vs)
  <2>1. IsFiniteSet(vs)
    BY <1>3, FS_AddElement DEF GoodList
  <2>2. \A w \in ws : w.id \in Int /\ w.accountIndex \in Int
    BY <1>3 DEF GoodList, WalletRecord
  <2>3. \A w \in ws : ~Clashes(w, new) /\ ~Clashes(new, w)
    BY <1>4, <2>2 DEF Clashes, WalletRecord
  <2> QED  BY <1>3, <1>4, <2>1, <2>3 DEF GoodList
<1>7. getActiveWallets(vs) # {}
  BY <1>5 DEF getActiveWallets
<1>8. /\ Fresh(new) \in Account /\ IsOf(vs, Fresh(new)) /\ Fresh(new).balance = "--"
      /\ Fresh(new).index = new.accountIndex
  BY <1>6, FreshIs
<1>9. \A a \in accounts[t] :
         a \in Account /\ IsOf(ws, a) /\ IsOf(vs, a) /\ a.index # new.accountIndex
  <2> SUFFICES ASSUME NEW a \in accounts[t]
               PROVE  a \in Account /\ IsOf(ws, a) /\ IsOf(vs, a) /\ a.index # new.accountIndex
    OBVIOUS
  <2>1. a \in Account /\ IsOf(ws, a)
    BY <1>3 DEF GoodAccounts
  <2>2. PICK w \in ws : w.id = a.walletId /\ w.accountIndex = a.index
    BY <2>1 DEF IsOf
  <2>3. IsOf(vs, a)
    BY <2>2 DEF IsOf
  <2>4. a.index < new.accountIndex /\ new.accountIndex \in Int /\ a.index \in Int
    BY <1>4, <2>1, <2>2 DEF Account, WalletRecord
  <2> QED  BY <2>1, <2>3, <2>4
<1>10. GoodAccounts(vs, bs)
  <2>1. \A b \in bs : b \in accounts[t] \/ b = Fresh(new)
    OBVIOUS
  <2>2. \A a, b \in accounts[t] : a.index = b.index => a = b
    BY <1>3 DEF GoodAccounts, OnePerIndex
  <2>3. OnePerIndex(bs)
    <3> HIDE DEF bs
    <3> QED  BY <1>8, <1>9, <2>1, <2>2 DEF OnePerIndex
  <2>4. bs \subseteq Account /\ \A b \in bs : IsOf(vs, b)
    BY <1>8, <1>9, <2>1
  <2> QED  BY <2>3, <2>4 DEF GoodAccounts
<1>11. KeepsBalances(accounts[t], bs)
  <2>1. \A b \in bs : b \in accounts[t] \/ b = Fresh(new)
    OBVIOUS
  <2> HIDE DEF bs
  <2> QED  BY <1>3, <1>8, <1>9, <2>1 DEF KeepsBalances, GoodAccounts, OnePerIndex
<1>12. scan[t] # NoListScan => ScanHolds(vs, bs, scan[t])
  <2>1. \A w \in ws : Stands(vs, w)
    BY DEF Stands
  <2>2. \A b \in bs : \/ b.balance = "--"
                      \/ \E a \in accounts[t] : a.index = b.index /\ a.balance = b.balance
    BY <1>8
  <2>3. scan[t] # NoListScan => ScanHolds(ws, accounts[t], scan[t])
    BY TabIs
  <2> HIDE DEF vs, bs, ws
  <2> QED  BY <2>1, <2>2, <2>3, ScanGoesOn
<1>13. TabHolds(vs, bs, TRUE, scan[t])
  <2> HIDE DEF vs, bs
  <2> QED  BY <1>6, <1>7, <1>10, <1>12 DEF TabHolds
<1>14. storedWallets' = vs /\ storedAccounts' = bs
  BY <1>2 DEF ListInv
<1>15. /\ hasRoot' = [hasRoot EXCEPT ![t] = TRUE]
       /\ scan' = [scan EXCEPT ![t] = scan[t]]
  BY <1>2, TabIs
<1>16. bs \subseteq Account /\ OnePerIndex(bs)
  BY <1>10, GoodToStore
<1> HIDE DEF vs, bs
<1> QED  BY <1>2, <1>6, <1>7, <1>11, <1>13, <1>14, <1>15, <1>16, OneTab

LEMMA InactiveListSafe ==
  ASSUME ListInv, NEW t \in Tabs, NEW w \in wallets[t], NEW inactive \in BOOLEAN,
         setWalletInactive(t, w, inactive)
  PROVE  ListInv' /\ LosesNothing
<1> DEFINE ws == wallets[t]
           new == [w EXCEPT !.inactive = inactive]
           vs == (ws \ {w}) \cup {new}
           as == accounts[t]
<1>1. /\ hasRoot[t] = TRUE /\ wallets' = [wallets EXCEPT ![t] = vs]
      /\ w.inactive # inactive /\ (inactive => MayPutAside(t, w))
      /\ hasRoot' = hasRoot /\ scan' = scan /\ accounts' = accounts
      /\ storedWallets' = wallets'[t] /\ storedAccounts' = storedAccounts
  BY TabIs DEF setWalletInactive, SaveWallets
<1>2. GoodList(ws) /\ GoodAccounts(ws, as) /\ IsFiniteSet(ws) /\ w \in WalletRecord
  BY TabIs DEF GoodList
<1>3. /\ new \in WalletRecord /\ new.id = w.id /\ new.accountIndex = w.accountIndex
      /\ new.inactive = inactive
  BY <1>2 DEF WalletRecord
<1> HIDE DEF new
<1>4. \A v \in vs : \E u \in ws : v.id = u.id /\ v.accountIndex = u.accountIndex
                                  /\ (v # u => v = new /\ u = w)
  BY <1>3
<1>5. GoodList(vs)
  <2>1. IsFiniteSet(vs)
    <3>1. IsFiniteSet(ws \ {w})
      BY <1>2, FS_Subset
    <3> QED  BY <3>1, FS_AddElement
  <2>2. vs \subseteq WalletRecord
    BY <1>2, <1>3 DEF GoodList
  <2>3. \A u, v \in ws : Clashes(u, v) => u = v
    BY <1>2 DEF GoodList
  <2>4. \A v \in ws \ {w} : ~Clashes(v, new) /\ ~Clashes(new, v)
    BY <1>3, <2>3 DEF Clashes
  <2>5. \A u, v \in vs : Clashes(u, v) => u = v
    BY <2>3, <2>4
  <2> HIDE DEF vs
  <2> QED  BY <2>1, <2>2, <2>5 DEF GoodList
<1>6. getActiveWallets(vs) # {}
  <2>1. CASE ~inactive
    BY <1>3, <2>1 DEF getActiveWallets
  <2>2. CASE inactive
    <3> DEFINE active == getActiveWallets(ws)
    <3>1. Cardinality(active) > 1
      BY <1>1, <2>2 DEF MayPutAside
    <3>2. ~(active \subseteq {w})
      <4> SUFFICES ASSUME active \subseteq {w} PROVE FALSE
        OBVIOUS
      <4>1. IsFiniteSet({w}) /\ Cardinality({w}) = 1
        BY FS_Singleton
      <4>2. Cardinality(active) <= 1 /\ Cardinality(active) \in Nat
        BY <4>1, FS_Subset, FS_CardinalityType
      <4> HIDE DEF active
      <4> QED  BY <3>1, <4>2
    <3> QED  BY <3>2 DEF getActiveWallets
  <2> QED  BY <2>1, <2>2
<1>7. \A v \in ws : Stands(vs, v)
  BY <1>3 DEF Stands
<1>8. GoodAccounts(vs, as)
  <2>1. \A a : IsOf(ws, a) => IsOf(vs, a)
    BY <1>3 DEF IsOf
  <2> HIDE DEF vs
  <2> QED  BY <1>2, <2>1 DEF GoodAccounts
<1>9. scan[t] # NoListScan => ScanHolds(vs, as, scan[t])
  <2>1. scan[t] # NoListScan => ScanHolds(ws, as, scan[t])
    BY TabIs
  <2> HIDE DEF vs, ws, as
  <2> QED  BY <1>7, <2>1, ScanGoesOn
<1>10. TabHolds(vs, as, TRUE, scan[t])
  <2> HIDE DEF vs, as
  <2> QED  BY <1>5, <1>6, <1>8, <1>9 DEF TabHolds
<1>11. storedWallets' = vs
  BY <1>1 DEF ListInv
<1>12. /\ hasRoot' = [hasRoot EXCEPT ![t] = TRUE]
       /\ scan' = [scan EXCEPT ![t] = scan[t]]
       /\ accounts' = [accounts EXCEPT ![t] = as]
  BY <1>1, TabIs
<1>13. storedAccounts' \subseteq Account /\ OnePerIndex(storedAccounts')
  BY <1>1 DEF ListInv
<1>14. KeepsBalances(accounts[t], as)
  BY <1>2, SameKeeps
<1> HIDE DEF vs, as
<1> QED  BY <1>1, <1>5, <1>6, <1>10, <1>11, <1>12, <1>13, <1>14, OneTab, ZenonT(60)

(* A step that leaves every tab alone.                                     *)
LEMMA NoTab ==
  ASSUME ListInv, UNCHANGED <<wallets, accounts, hasRoot, scan>>,
         GoodList(storedWallets') /\ getActiveWallets(storedWallets') # {},
         storedAccounts' \subseteq Account /\ OnePerIndex(storedAccounts')
  PROVE  ListInv' /\ LosesNothing
<1>1. ListInv'
  BY DEF ListInv
<1>2. ASSUME NEW t \in Tabs, NEW a \in accounts[t], NEW b \in accounts'[t],
             Key(wallets[t], a) = Key(wallets'[t], b)
      PROVE  a = b /\ scan[t] = scan'[t]
  <2>1. a.index = b.index
    BY <1>2 DEF Key
  <2> QED  BY <1>2, <2>1 DEF ListInv, TabHolds, GoodAccounts, OnePerIndex
<1>3. LosesNothing
  BY <1>2 DEF LosesNothing
<1> QED  BY <1>1, <1>3

LEMMA RenameListSafe ==
  ASSUME ListInv, NEW t \in Tabs, renameWallet(t)
  PROVE  ListInv' /\ LosesNothing
<1>1. GoodList(storedWallets') /\ getActiveWallets(storedWallets') # {}
  BY TabIs DEF renameWallet
<1>2. storedAccounts' \subseteq Account /\ OnePerIndex(storedAccounts')
  BY DEF renameWallet, ListInv
<1> QED  BY <1>1, <1>2, NoTab DEF renameWallet

LEMMA SelectListSafe ==
  ASSUME ListInv, NEW t \in Tabs, NEW w, handleWalletSelectChange(t, w)
  PROVE  ListInv' /\ LosesNothing
<1>1. /\ GoodList(storedWallets') /\ getActiveWallets(storedWallets') # {}
      /\ storedAccounts' \subseteq Account /\ OnePerIndex(storedAccounts')
  BY DEF handleWalletSelectChange, ListInv
<1> QED  BY <1>1, NoTab DEF handleWalletSelectChange

LEMMA OtherWalletsListSafe ==
  ASSUME ListInv, NEW list \in StoredLists, OtherPageSavesWallets(list)
  PROVE  ListInv' /\ LosesNothing
<1>1. GoodList(storedWallets') /\ getActiveWallets(storedWallets') # {}
  BY NormalizedGood DEF OtherPageSavesWallets
<1>2. storedAccounts' \subseteq Account /\ OnePerIndex(storedAccounts')
  BY DEF OtherPageSavesWallets, ListInv
<1> QED  BY <1>1, <1>2, NoTab DEF OtherPageSavesWallets

LEMMA OtherAccountsListSafe ==
  ASSUME ListInv, NEW list \in StoredLists, OtherPageSavesAccounts(list)
  PROVE  ListInv' /\ LosesNothing
<1> DEFINE ws == normalizeWallets(list)
<1>1. GoodList(ws) /\ storedAccounts' = {Fresh(w) : w \in ws}
  BY NormalizedGood DEF OtherPageSavesAccounts
<1> HIDE DEF ws
<1>2. \A w \in ws : Fresh(w) \in Account /\ Fresh(w).index = w.accountIndex
  BY <1>1, FreshIs
<1>3. \A v, w \in ws : v.accountIndex = w.accountIndex => v = w
  BY <1>1 DEF GoodList, Clashes
<1>4. storedAccounts' \subseteq Account /\ OnePerIndex(storedAccounts')
  BY <1>1, <1>2, <1>3 DEF OnePerIndex
<1>5. GoodList(storedWallets') /\ getActiveWallets(storedWallets') # {}
  BY DEF OtherPageSavesAccounts, ListInv
<1> QED  BY <1>4, <1>5, NoTab DEF OtherPageSavesAccounts

LEMMA ToggleListSafe ==
  ASSUME ListInv, NEW t \in Tabs, NEW a \in accounts[t], toggleAccountActive(t, a)
  PROVE  ListInv' /\ LosesNothing
<1> DEFINE ws == wallets[t]
           as == accounts[t]
           new == [a EXCEPT !.active = ~@]
           bs == (as \ {a}) \cup {new}
<1>1. /\ hasRoot[t] = TRUE /\ accounts' = [accounts EXCEPT ![t] = bs]
      /\ wallets' = wallets /\ hasRoot' = hasRoot /\ scan' = scan
      /\ storedWallets' = storedWallets /\ storedAccounts' = accounts'[t]
  BY TabIs DEF toggleAccountActive, SaveAccounts
<1>2. GoodList(ws) /\ GoodAccounts(ws, as) /\ a \in Account /\ IsOf(ws, a)
  BY TabIs DEF GoodAccounts
<1>3. /\ new \in Account /\ new.index = a.index /\ new.balance = a.balance /\ IsOf(ws, new)
  BY <1>2 DEF Account, IsOf
<1> HIDE DEF new
<1>4. \A b \in bs : /\ b \in Account /\ IsOf(ws, b)
                    /\ \E c \in as : /\ c.index = b.index /\ c.balance = b.balance
                                     /\ (b = c /\ c # a) \/ (b = new /\ c = a)
  BY <1>2, <1>3 DEF GoodAccounts
<1>5. OnePerIndex(as)
  BY <1>2 DEF GoodAccounts
<1> HIDE DEF bs
<1>6. GoodAccounts(ws, bs)
  <2>1. OnePerIndex(bs)
    BY <1>4, <1>5 DEF OnePerIndex
  <2> QED  BY <1>4, <2>1 DEF GoodAccounts
<1>7. KeepsBalances(as, bs)
  BY <1>4, <1>5 DEF KeepsBalances, OnePerIndex
<1>8. scan[t] # NoListScan => ScanHolds(ws, bs, scan[t])
  <2>1. scan[t] # NoListScan => ScanHolds(ws, as, scan[t])
    BY TabIs
  <2>2. \A w \in ws : Stands(ws, w)
    BY DEF Stands
  <2>3. \A b \in bs : \E c \in as : c.index = b.index /\ c.balance = b.balance
    BY <1>4
  <2> HIDE DEF as, ws
  <2> QED  BY <2>1, <2>2, <2>3, ScanGoesOn
<1>9. TabHolds(ws, bs, TRUE, scan[t])
  <2>1. getActiveWallets(ws) # {}
    BY <1>1, TabIs
  <2> HIDE DEF ws
  <2> QED  BY <1>2, <1>6, <1>8, <2>1 DEF TabHolds
<1>10. /\ hasRoot' = [hasRoot EXCEPT ![t] = TRUE]
       /\ scan' = [scan EXCEPT ![t] = scan[t]]
       /\ wallets' = [wallets EXCEPT ![t] = ws]
  BY <1>1, TabIs
<1>11. storedAccounts' \subseteq Account /\ OnePerIndex(storedAccounts')
  <2>1. storedAccounts' = bs
    BY <1>1 DEF ListInv
  <2> QED  BY <1>6, <2>1, GoodToStore
<1>12. GoodList(storedWallets') /\ getActiveWallets(storedWallets') # {}
  BY <1>1 DEF ListInv
<1> QED  BY <1>1, <1>7, <1>9, <1>10, <1>11, <1>12, OneTab

LEMMA CustomPathListSafe ==
  ASSUME ListInv, NEW t \in Tabs, addCustomPathAccount(t)
  PROVE  ListInv' /\ LosesNothing
<1> DEFINE ws == wallets[t]
           as == accounts[t]
<1>1. PICK w \in Missing(ws, as) : accounts' = [accounts EXCEPT ![t] = as \cup {Fresh(w)}]
  BY DEF addCustomPathAccount
<1> DEFINE new == Fresh(w)
           bs == as \cup {new}
<1>2. /\ hasRoot[t] = TRUE /\ accounts' = [accounts EXCEPT ![t] = bs]
      /\ wallets' = wallets /\ hasRoot' = hasRoot /\ scan' = scan
      /\ storedWallets' = storedWallets /\ storedAccounts' = accounts'[t]
  BY <1>1, TabIs DEF addCustomPathAccount, SaveAccounts
<1>3. GoodList(ws) /\ GoodAccounts(ws, as) /\ w \in ws
  BY TabIs DEF Missing
<1>4. /\ new \in Account /\ IsOf(ws, new) /\ new.index = w.accountIndex /\ new.balance = "--"
  BY <1>3, FreshIs
<1>5. \A a \in as : a \in Account /\ IsOf(ws, a) /\ a.index # w.accountIndex
  BY <1>3, MissingIs DEF GoodAccounts
<1>6. OnePerIndex(as)
  BY <1>3 DEF GoodAccounts
<1>7. \A b \in bs : b \in as \/ b = new
  OBVIOUS
<1> HIDE DEF new, bs
<1>8. GoodAccounts(ws, bs)
  <2>1. OnePerIndex(bs)
    BY <1>4, <1>5, <1>6, <1>7 DEF OnePerIndex
  <2>2. \A b \in bs : b \in Account /\ IsOf(ws, b)
    BY <1>4, <1>5, <1>7
  <2> QED  BY <2>1, <2>2 DEF GoodAccounts
<1>9. KeepsBalances(as, bs)
  BY <1>4, <1>5, <1>6, <1>7 DEF KeepsBalances, OnePerIndex
<1>10. scan[t] # NoListScan => ScanHolds(ws, bs, scan[t])
  <2>1. scan[t] # NoListScan => ScanHolds(ws, as, scan[t])
    BY TabIs
  <2>2. \A v \in ws : Stands(ws, v)
    BY DEF Stands
  <2>3. \A b \in bs : \/ b.balance = "--"
                      \/ \E a \in as : a.index = b.index /\ a.balance = b.balance
    BY <1>4, <1>7
  <2> HIDE DEF as, ws
  <2> QED  BY <2>1, <2>2, <2>3, ScanGoesOn
<1>11. TabHolds(ws, bs, TRUE, scan[t])
  <2>1. getActiveWallets(ws) # {}
    BY <1>2, TabIs
  <2> HIDE DEF ws
  <2> QED  BY <1>3, <1>8, <1>10, <2>1 DEF TabHolds
<1>12. /\ hasRoot' = [hasRoot EXCEPT ![t] = TRUE]
       /\ scan' = [scan EXCEPT ![t] = scan[t]]
       /\ wallets' = [wallets EXCEPT ![t] = ws]
  BY <1>2, TabIs
<1>13. storedAccounts' \subseteq Account /\ OnePerIndex(storedAccounts')
  <2>1. storedAccounts' = bs
    BY <1>2 DEF ListInv
  <2> QED  BY <1>8, <2>1, GoodToStore
<1>14. GoodList(storedWallets') /\ getActiveWallets(storedWallets') # {}
  BY <1>2 DEF ListInv
<1> QED  BY <1>2, <1>9, <1>11, <1>12, <1>13, <1>14, OneTab

-----------------------------------------------------------------------------
(* The scan.                                                               *)
LEMMA HydratedIs ==
  ASSUME NEW a \in Account, NEW cached \in Balances
  PROVE  /\ Hydrated(a, cached) \in Account
         /\ Hydrated(a, cached).index = a.index
         /\ Hydrated(a, cached).walletId = a.walletId
         /\ a.balance # "--" => Hydrated(a, cached).balance # "--"
         /\ a.active => Hydrated(a, cached).active
BY DEF Hydrated, Account

LEMMA BeginsListSafe ==
  ASSUME ListInv, NEW t \in Tabs, ScanBegins(t)
  PROVE  ListInv' /\ LosesNothing
<1> DEFINE ws == wallets[t]
           as == accounts[t]
<1>1. PICK failed \in SUBSET Missing(ws, as) :
         \E cached \in [Ensured(ws, as, failed) -> Balances] :
            accounts' = [accounts EXCEPT ![t] =
               {Hydrated(a, cached[a]) : a \in Ensured(ws, as, failed)}]
  BY DEF ScanBegins
<1> DEFINE ensured == Ensured(ws, as, failed)
<1>2. PICK cached \in [ensured -> Balances] :
         accounts' = [accounts EXCEPT ![t] = {Hydrated(a, cached[a]) : a \in ensured}]
  BY <1>1
<1> DEFINE bs == {Hydrated(a, cached[a]) : a \in ensured}
           s == [targets |-> getActiveWallets(ws), asked |-> {}, found |-> {}]
<1>3. /\ hasRoot[t] = TRUE /\ accounts' = [accounts EXCEPT ![t] = bs]
      /\ wallets' = wallets /\ hasRoot' = hasRoot /\ scan' = [scan EXCEPT ![t] = s]
      /\ storedWallets' = storedWallets /\ storedAccounts' = accounts'[t]
  BY <1>2, TabIs DEF ScanBegins
<1>4. GoodList(ws) /\ GoodAccounts(ws, as) /\ as \subseteq Account
  BY TabIs DEF GoodAccounts
<1>5. GoodAccounts(ws, ensured) /\ as \subseteq ensured
  <2>1. \A a \in as : isSigningAccount(ws, a) /\ IsOf(ws, a)
    BY <1>4, IsOfSigns DEF GoodAccounts
  <2>2. GoodAccounts(ws, {a \in ensured : isSigningAccount(ws, a)})
    <3>1. OnePerIndex(as)
      BY <1>4 DEF GoodAccounts
    <3> HIDE DEF ws, as
    <3> QED  BY <1>4, <2>1, <3>1, EnsuredIs
  <2>3. \A a \in ensured : isSigningAccount(ws, a)
    <3>1. \A w \in Missing(ws, as) : w \in ws
      BY DEF Missing
    <3>2. \A w \in ws : isSigningAccount(ws, Fresh(w))
      BY <1>4, FreshIs, IsOfSigns
    <3> QED  BY <2>1, <3>1, <3>2 DEF Ensured
  <2>4. ensured = {a \in ensured : isSigningAccount(ws, a)}
    BY <2>3
  <2> QED  BY <2>2, <2>4 DEF Ensured
<1> HIDE DEF ensured
<1>6. ASSUME NEW b \in bs
      PROVE  \E a \in ensured : /\ b \in Account /\ IsOf(ws, b) /\ b.index = a.index
                                /\ b = Hydrated(a, cached[a])
                                /\ a.balance # "--" => b.balance # "--"
                                /\ a.active => b.active
  <2>1. PICK a \in ensured : b = Hydrated(a, cached[a])
    OBVIOUS
  <2>2. a \in Account /\ IsOf(ws, a) /\ cached[a] \in Balances
    BY <1>5 DEF GoodAccounts
  <2>3. /\ b \in Account /\ b.index = a.index /\ b.walletId = a.walletId
        /\ a.balance # "--" => b.balance # "--"
        /\ a.active => b.active
    BY <2>1, <2>2, HydratedIs
  <2>4. IsOf(ws, b)
    BY <2>2, <2>3 DEF IsOf
  <2> QED  BY <2>1, <2>3, <2>4
<1>7. OnePerIndex(ensured)
  BY <1>5 DEF GoodAccounts
<1> HIDE DEF bs
<1>8. GoodAccounts(ws, bs)
  <2>1. OnePerIndex(bs)
    BY <1>6, <1>7 DEF OnePerIndex
  <2> QED  BY <1>6, <2>1 DEF GoodAccounts
<1>9. KeepsBalances(as, bs) /\ KeepsChoices(as, bs)
  <2> SUFFICES ASSUME NEW a \in as, NEW b \in bs, a.index = b.index
               PROVE  /\ a.balance # "--" => b.balance # "--"
                      /\ a.active => b.active
    BY DEF KeepsBalances, KeepsChoices
  <2>1. PICK c \in ensured : /\ b.index = c.index
                             /\ c.balance # "--" => b.balance # "--"
                             /\ c.active => b.active
    BY <1>6
  <2>2. c = a
    BY <1>5, <1>7, <2>1 DEF OnePerIndex
  <2> QED  BY <2>1, <2>2
<1>10. ScanHolds(ws, bs, s)
  <2>1. getActiveWallets(ws) \subseteq ws /\ IsFiniteSet(getActiveWallets(ws))
    BY <1>4, FS_Subset DEF getActiveWallets, GoodList
  <2>2. \A v, w \in ws : v.accountIndex = w.accountIndex => v = w
    BY <1>4 DEF GoodList, Clashes
  <2>3. \A w \in ws : Stands(ws, w) /\ w \in WalletRecord
    BY <1>4 DEF Stands, GoodList
  <2>4. GoodAccounts(ws, {})
    BY DEF GoodAccounts, OnePerIndex
  <2>5. s.targets = getActiveWallets(ws) /\ s.asked = {} /\ s.found = {}
    OBVIOUS
  <2>6. s \in [targets : SUBSET WalletRecord, asked : SUBSET Question, found : SUBSET Account]
    BY <2>1, <2>3
  <2> HIDE DEF s, ws
  <2> QED  BY <2>1, <2>2, <2>3, <2>4, <2>5, <2>6 DEF ScanHolds
<1>11. TabHolds(ws, bs, TRUE, s)
  <2>1. getActiveWallets(ws) # {}
    BY <1>3, TabIs
  <2> HIDE DEF ws, s
  <2> QED  BY <1>4, <1>8, <1>10, <2>1 DEF TabHolds
<1>12. /\ hasRoot' = [hasRoot EXCEPT ![t] = TRUE]
       /\ wallets' = [wallets EXCEPT ![t] = ws]
  BY <1>3, TabIs
<1>13. storedAccounts' \subseteq Account /\ OnePerIndex(storedAccounts')
  <2>1. storedAccounts' = bs
    BY <1>3 DEF ListInv
  <2> QED  BY <1>8, <2>1, GoodToStore
<1>14. GoodList(storedWallets') /\ getActiveWallets(storedWallets') # {}
  BY <1>3 DEF ListInv
<1> HIDE DEF s
<1> QED  BY <1>3, <1>9, <1>11, <1>12, <1>13, <1>14, OneTab

(* The account of a wallet that stands is the one of its index.            *)
LEMMA AccountOfStanding ==
  ASSUME NEW ws, GoodList(ws), NEW w, Stands(ws, w), NEW a, IsOf(ws, a)
  PROVE  Key(ws, a) = <<w.id, w.accountIndex>> <=> a.index = w.accountIndex
<1>1. Key(ws, a) = <<a.walletId, a.index>>
  BY IsOfSigns
<1>2. a.index = w.accountIndex => a.walletId = w.id
  BY DEF IsOf, Stands, GoodList, Clashes
<1> QED  BY <1>1, <1>2

LEMMA AsksListSafe ==
  ASSUME ListInv, NEW t \in Tabs, ScanAsks(t)
  PROVE  ListInv' /\ LosesNothing
<1> DEFINE ws == wallets[t]
           as == accounts[t]
           s == scan[t]
           w == First(s.targets)
           known == {a \in as : Key(ws, a) = <<w.id, w.accountIndex>>}
           balance == IF known = {} THEN "--" ELSE (CHOOSE a \in known : TRUE).balance
           question == [wallet |-> w, known |-> balance]
<1>1. /\ GoodList(ws) /\ GoodAccounts(ws, as) /\ ScanHolds(ws, as, s)
      /\ s # NoListScan /\ s.asked = {} /\ s.targets # {}
      /\ hasRoot[t] = TRUE
  BY TabIs DEF ScanAsks
<1>2. /\ s.targets \subseteq WalletRecord /\ IsFiniteSet(s.targets) /\ w \in s.targets
      /\ w \in WalletRecord /\ Stands(ws, w)
  <2>1. s.targets \subseteq WalletRecord /\ IsFiniteSet(s.targets)
    BY <1>1 DEF ScanHolds
  <2>2. w \in s.targets
    BY <1>1, <2>1, FirstIs
  <2> HIDE DEF w
  <2> QED  BY <1>1, <2>1, <2>2 DEF ScanHolds
<1>3. PICK asked \in {{}, {question}} :
         scan' = [scan EXCEPT ![t] =
                    [targets |-> @.targets \ {w}, asked |-> asked, found |-> @.found]]
  BY DEF ScanAsks
<1> HIDE DEF w
<1>4. \A a \in as : a \in known <=> a.index = w.accountIndex
  BY <1>1, <1>2, AccountOfStanding DEF GoodAccounts
<1>5. balance \in Balances /\ (balance = "--" =>
         \A a \in as : a.index = w.accountIndex => a.balance = "--")
  <2>1. CASE known = {}
    <3>1. balance = "--"
      BY <2>1
    <3>2. \A a \in as : a.index # w.accountIndex
      BY <1>4, <2>1
    <3> HIDE DEF balance
    <3> QED  BY <3>1, <3>2 DEF Balances
  <2>2. CASE known # {}
    <3> DEFINE c == CHOOSE a \in known : TRUE
    <3>1. c \in known
      BY <2>2
    <3>2. c \in as /\ c.index = w.accountIndex /\ balance = c.balance
      BY <1>4, <2>2, <3>1
    <3> HIDE DEF c, balance, known
    <3>3. \A a \in as : a.index = w.accountIndex => a = c
      BY <1>1, <3>2 DEF GoodAccounts, OnePerIndex
    <3>4. c \in Account
      BY <1>1, <3>2 DEF GoodAccounts
    <3> QED  BY <3>2, <3>3, <3>4 DEF Account
  <2> QED  BY <2>1, <2>2
<1> HIDE DEF balance
<1> DEFINE rest == s.targets \ {w}
           next == [targets |-> rest, asked |-> asked, found |-> s.found]
<1>6. s \in [targets : SUBSET WalletRecord, asked : SUBSET Question, found : SUBSET Account]
  BY <1>1 DEF ScanHolds
<1>7. scan' = [scan EXCEPT ![t] = next]
  <2>1. DOMAIN scan = Tabs
    BY DEF ListInv
  <2> QED  BY <1>3, <2>1
<1>8. \A q \in asked : q = question
  BY <1>3
<1>9. question \in Question /\ question.wallet = w /\ question.known = balance
  BY <1>2, <1>5 DEF Question
<1> HIDE DEF question
<1>10. ScanHolds(ws, as, next)
  <2>1. next.targets = rest /\ next.asked = asked /\ next.found = s.found
    OBVIOUS
  <2>2. next \in [targets : SUBSET WalletRecord, asked : SUBSET Question, found : SUBSET Account]
    BY <1>6, <1>8, <1>9
  <2> HIDE DEF next
  <2>3. IsFiniteSet(rest) /\ \A v \in rest : v \in s.targets /\ v # w
    BY <1>2, FS_Subset
  <2>4. \A v \in s.targets : /\ Stands(ws, v)
                             /\ \A u \in s.targets : v.accountIndex = u.accountIndex => v = u
                             /\ \A f \in s.found : v.accountIndex # f.index
    BY <1>1 DEF ScanHolds
  <2>5. GoodAccounts(ws, s.found)
        /\ \A f \in s.found :
              f.balance = "--" => \A a \in as : a.index = f.index => a.balance = "--"
    BY <1>1 DEF ScanHolds
  <2> HIDE DEF rest, ws, as, s
  <2>6. ASSUME NEW q \in asked
        PROVE  /\ Stands(ws, q.wallet)
               /\ \A v \in rest : v.accountIndex # q.wallet.accountIndex
               /\ q.known = "--" =>
                    \A a \in as : a.index = q.wallet.accountIndex => a.balance = "--"
    <3>1. q.wallet = w /\ q.known = balance
      BY <1>8, <1>9
    <3> QED  BY <1>2, <1>5, <2>3, <2>4, <3>1
  <2>7. \A f \in s.found : \A q \in asked : q.wallet.accountIndex # f.index
    BY <1>2, <1>8, <1>9, <2>4
  <2>8. \A p, q \in asked : p = q
    BY <1>8
  <2> QED  BY <2>1, <2>2, <2>3, <2>4, <2>5, <2>6, <2>7, <2>8 DEF ScanHolds
<1>11. TabHolds(ws, as, TRUE, next)
  <2>1. getActiveWallets(ws) # {}
    BY <1>1, TabIs
  <2> HIDE DEF ws, as, next
  <2> QED  BY <1>1, <1>10, <2>1 DEF TabHolds
<1>12. /\ hasRoot' = [hasRoot EXCEPT ![t] = TRUE]
       /\ wallets' = [wallets EXCEPT ![t] = ws]
       /\ accounts' = [accounts EXCEPT ![t] = as]
  BY <1>1, TabIs DEF ScanAsks
<1>13. /\ storedAccounts' \subseteq Account /\ OnePerIndex(storedAccounts')
       /\ GoodList(storedWallets') /\ getActiveWallets(storedWallets') # {}
  BY DEF ScanAsks, ListInv
<1>14. KeepsBalances(as, as) /\ KeepsChoices(as, as)
  BY <1>1, SameKeeps
<1> HIDE DEF next, ws
<1> QED  BY <1>7, <1>11, <1>12, <1>13, <1>14, OneTab

(* Merging what was found keeps what is known and chosen.                  *)
LEMMA MergedKeeps ==
  ASSUME NEW ws, GoodList(ws), NEW as, NEW found,
         GoodAccounts(ws, as), GoodAccounts(ws, found),
         \A f \in found : f.balance = "--" =>
            \A a \in as : a.index = f.index => a.balance = "--"
  PROVE  LET merged == {a \in mergeAccounts(ws, as, found) : isSigningAccount(ws, a)} IN
         KeepsBalances(as, merged) /\ KeepsChoices(as, merged)
<1> DEFINE merged == {a \in mergeAccounts(ws, as, found) : isSigningAccount(ws, a)}
<1>1. \A b \in merged :
         \/ b \in as /\ \A f \in found : f.index # b.index
         \/ \E a \in as, f \in found : a.index = f.index /\ b = [a EXCEPT !.balance = f.balance]
         \/ b \in found /\ \A a \in as : a.index # b.index
  BY MergedIs
<1> HIDE DEF merged
<1>2. ASSUME NEW a \in as, NEW b \in merged, a.index = b.index
      PROVE  /\ a.balance # "--" => b.balance # "--"
             /\ a.active => b.active
  <2>1. CASE b \in as
    BY <1>2, <2>1 DEF GoodAccounts, OnePerIndex
  <2>2. ASSUME NEW c \in as, NEW f \in found, c.index = f.index,
               b = [c EXCEPT !.balance = f.balance]
        PROVE  /\ a.balance # "--" => b.balance # "--"
               /\ a.active => b.active
    <3>1. c \in Account /\ a \in Account
      BY DEF GoodAccounts
    <3>2. b.index = c.index /\ b.balance = f.balance /\ b.active = c.active
      BY <2>2, <3>1 DEF Account
    <3>3. c = a
      BY <1>2, <3>2 DEF GoodAccounts, OnePerIndex
    <3> QED  BY <2>2, <3>2, <3>3
  <2> QED  BY <1>1, <1>2, <2>1, <2>2
<1> QED  BY <1>2 DEF KeepsBalances, KeepsChoices, merged

LEMMA FinishesListSafe ==
  ASSUME ListInv, NEW t \in Tabs, ScanFinishes(t)
  PROVE  ListInv' /\ LosesNothing
<1> DEFINE ws == wallets[t]
           as == accounts[t]
           s == scan[t]
           bs == {a \in mergeAccounts(ws, as, s.found) : isSigningAccount(ws, a)}
<1>1. /\ GoodList(ws) /\ GoodAccounts(ws, as) /\ ScanHolds(ws, as, s)
      /\ hasRoot[t] = TRUE
  BY TabIs DEF ScanFinishes
<1>2. GoodAccounts(ws, s.found) /\ \A f \in s.found : f.balance = "--" =>
         \A a \in as : a.index = f.index => a.balance = "--"
  BY <1>1 DEF ScanHolds
<1>3. GoodAccounts(ws, bs)
  <2> HIDE DEF ws, as, s
  <2> QED  BY <1>1, <1>2, MergedIs
<1>4. KeepsBalances(as, bs) /\ KeepsChoices(as, bs)
  <2> HIDE DEF ws, as, s
  <2> QED  BY <1>1, <1>2, MergedKeeps
<1>5. /\ accounts' = [accounts EXCEPT ![t] = bs]
      /\ wallets' = wallets /\ hasRoot' = hasRoot /\ scan' = [scan EXCEPT ![t] = NoListScan]
      /\ storedWallets' = storedWallets /\ storedAccounts' = accounts'[t]
  BY DEF ScanFinishes, SaveAccounts
<1> HIDE DEF bs
<1>6. TabHolds(ws, bs, TRUE, NoListScan)
  <2>1. getActiveWallets(ws) # {}
    BY <1>1, TabIs
  <2> HIDE DEF ws
  <2> QED  BY <1>1, <1>3, <2>1 DEF TabHolds
<1>7. /\ hasRoot' = [hasRoot EXCEPT ![t] = TRUE]
      /\ wallets' = [wallets EXCEPT ![t] = ws]
  BY <1>1, <1>5, TabIs
<1>8. storedAccounts' \subseteq Account /\ OnePerIndex(storedAccounts')
  <2>1. storedAccounts' = bs
    BY <1>5 DEF ListInv
  <2> QED  BY <1>3, <2>1, GoodToStore
<1>9. GoodList(storedWallets') /\ getActiveWallets(storedWallets') # {}
  BY <1>5 DEF ListInv
<1> QED  BY <1>4, <1>5, <1>6, <1>7, <1>8, <1>9, OneTab

LEMMA AnsweredListSafe ==
  ASSUME ListInv, NEW t \in Tabs, NEW answer \in Balances, ScanAnswered(t, answer)
  PROVE  ListInv' /\ LosesNothing
<1> DEFINE ws == wallets[t]
           as == accounts[t]
           s == scan[t]
<1>1. /\ GoodList(ws) /\ GoodAccounts(ws, as) /\ ScanHolds(ws, as, s)
      /\ hasRoot[t] = TRUE
  BY TabIs DEF ScanAnswered
<1>2. s \in [targets : SUBSET WalletRecord, asked : SUBSET Question, found : SUBSET Account]
  BY <1>1 DEF ScanHolds
<1>3. PICK question \in s.asked :
        LET w == question.wallet
            balance == Resolved(answer, question.known)
            new == [walletId |-> w.id, index |-> w.accountIndex,
                    balance |-> balance, active |-> balance = "funded"]
        IN /\ scan' = [scan EXCEPT ![t] =
                  [targets |-> @.targets, asked |-> {}, found |-> @.found \cup {new}]]
           /\ accounts' = [accounts EXCEPT ![t] =
                  IF balance = "funded"
                  THEN {a \in mergeAccounts(ws, @, {new}) : isSigningAccount(ws, a)}
                  ELSE @]
           /\ storedAccounts' = IF balance = "funded" THEN accounts'[t] ELSE storedAccounts
  BY DEF ScanAnswered
<1> DEFINE w == question.wallet
           balance == Resolved(answer, question.known)
           new == [walletId |-> w.id, index |-> w.accountIndex,
                   balance |-> balance, active |-> balance = "funded"]
           merged == {a \in mergeAccounts(ws, as, {new}) : isSigningAccount(ws, a)}
           bs == IF balance = "funded" THEN merged ELSE as
           found == s.found \cup {new}
           next == [targets |-> s.targets, asked |-> {}, found |-> found]
<1>4. /\ question \in Question /\ w \in WalletRecord /\ Stands(ws, w)
      /\ \A v \in s.targets : v.accountIndex # w.accountIndex
      /\ question.known = "--" => \A a \in as : a.index = w.accountIndex => a.balance = "--"
  BY <1>1, <1>2 DEF ScanHolds, Question
<1>5. balance \in Balances
  BY <1>4 DEF Resolved, Question
<1>6. balance = "--" => \A a \in as : a.index = w.accountIndex => a.balance = "--"
  BY <1>4 DEF Resolved
<1>7. scan' = [scan EXCEPT ![t] = next] /\ accounts' = [accounts EXCEPT ![t] = bs]
  <2>1. DOMAIN scan = Tabs
    BY DEF ListInv
  <2> QED  BY <1>3, <2>1
<1>8. storedAccounts' = IF balance = "funded" THEN bs ELSE storedAccounts
  BY <1>3, <1>7 DEF ListInv
<1>9. /\ wallets' = wallets /\ hasRoot' = hasRoot /\ storedWallets' = storedWallets
  BY DEF ScanAnswered
<1> HIDE DEF balance
<1>10. /\ new \in Account /\ IsOf(ws, new) /\ new.index = w.accountIndex
       /\ new.balance = balance
  BY <1>4, <1>5 DEF Account, IsOf, Stands, WalletRecord
<1> HIDE DEF new
<1>11. GoodAccounts(ws, {new})
  BY <1>10 DEF GoodAccounts, OnePerIndex
<1>12. GoodAccounts(ws, found)
  <2>1. GoodAccounts(ws, s.found) /\ \A f \in s.found : f.index # w.accountIndex
    BY <1>1 DEF ScanHolds
  <2>2. OnePerIndex(found)
    BY <1>10, <2>1 DEF GoodAccounts, OnePerIndex
  <2> QED  BY <1>10, <2>1, <2>2 DEF GoodAccounts
<1>13. balance = "funded" =>
         /\ GoodAccounts(ws, merged) /\ KeepsBalances(as, merged) /\ KeepsChoices(as, merged)
         /\ \A b \in merged : \/ b.balance = "funded" /\ b.index = w.accountIndex
                              \/ b \in as
  <2> SUFFICES ASSUME balance = "funded"
               PROVE  /\ GoodAccounts(ws, merged)
                      /\ KeepsBalances(as, merged) /\ KeepsChoices(as, merged)
                      /\ \A b \in merged : \/ b.balance = "funded" /\ b.index = w.accountIndex
                                           \/ b \in as
    OBVIOUS
  <2>1. \A f \in {new} : f.balance = "--" => \A a \in as : a.index = f.index => a.balance = "--"
    BY <1>10
  <2>2. \A a \in as : a \in Account
    BY <1>1 DEF GoodAccounts
  <2> HIDE DEF ws, as
  <2>3. GoodAccounts(ws, merged)
    BY <1>1, <1>11, MergedIs
  <2>4. KeepsBalances(as, merged) /\ KeepsChoices(as, merged)
    BY <1>1, <1>11, <2>1, MergedKeeps
  <2> DEFINE one == {new}
  <2>5. \A b \in merged :
           \/ b \in as /\ \A f \in one : f.index # b.index
           \/ \E a \in as, f \in one : a.index = f.index /\ b = [a EXCEPT !.balance = f.balance]
           \/ b \in one /\ \A a \in as : a.index # b.index
    <3>1. /\ GoodAccounts(ws, one)
          /\ merged = {a \in mergeAccounts(ws, as, one) : isSigningAccount(ws, a)}
      BY <1>11
    <3> HIDE DEF merged, one
    <3> QED  BY <1>1, <3>1, MergedIs, ZenonT(60)
  <2> HIDE DEF merged
  <2>6. ASSUME NEW a \in as, NEW b, a.index = new.index, b = [a EXCEPT !.balance = new.balance]
        PROVE  b.balance = "funded" /\ b.index = w.accountIndex
    BY <1>10, <2>2, <2>6 DEF Account
  <2>7. ASSUME NEW b \in merged
        PROVE  \/ b.balance = "funded" /\ b.index = w.accountIndex
               \/ b \in as
    <3>1. CASE b \in as
      BY <3>1
    <3>2. CASE b = new
      BY <1>10, <3>2
    <3>3. CASE \E a \in as : a.index = new.index /\ b = [a EXCEPT !.balance = new.balance]
      BY <2>6, <3>3
    <3> QED  BY <2>5, <3>1, <3>2, <3>3
  <2> QED  BY <2>3, <2>4, <2>7
<1> HIDE DEF merged
<1>14. GoodAccounts(ws, bs) /\ KeepsBalances(as, bs) /\ KeepsChoices(as, bs)
  BY <1>1, <1>13, SameKeeps
<1>15. \A b \in bs : b.balance = "--" => b \in as
  BY <1>13
<1>16. ScanHolds(ws, bs, next)
  <2>1. next.targets = s.targets /\ next.asked = {} /\ next.found = found
    OBVIOUS
  <2>2. next \in [targets : SUBSET WalletRecord, asked : SUBSET Question, found : SUBSET Account]
    BY <1>2, <1>10
  <2>3. ASSUME NEW f \in found
        PROVE  /\ \A v \in s.targets : v.accountIndex # f.index
               /\ f.balance = "--" => \A b \in bs : b.index = f.index => b.balance = "--"
    <3>1. CASE f = new
      <4>1. \A v \in s.targets : v.accountIndex # f.index
        BY <1>4, <1>10, <3>1
      <4>2. balance = "--" => bs = as
        OBVIOUS
      <4> HIDE DEF bs
      <4> QED  BY <1>6, <1>10, <3>1, <4>1, <4>2
    <3>2. CASE f \in s.found
      <4>1. /\ \A v \in s.targets : v.accountIndex # f.index
            /\ f.index # w.accountIndex
            /\ f.balance = "--" => \A a \in as : a.index = f.index => a.balance = "--"
        BY <1>1, <3>2 DEF ScanHolds
      <4>2. \A b \in bs : b.index = f.index => b \in as
        BY <1>13, <4>1
      <4> HIDE DEF bs
      <4> QED  BY <4>1, <4>2
    <3> QED  BY <3>1, <3>2
  <2>4. /\ IsFiniteSet(s.targets)
        /\ \A v \in s.targets : Stands(ws, v)
        /\ \A u, v \in s.targets : u.accountIndex = v.accountIndex => u = v
    BY <1>1 DEF ScanHolds
  <2> HIDE DEF next, found, bs, ws, s
  <2> QED  BY <1>12, <2>1, <2>2, <2>3, <2>4 DEF ScanHolds
<1>17. TabHolds(ws, bs, TRUE, next)
  <2>1. getActiveWallets(ws) # {}
    BY <1>1, TabIs
  <2> HIDE DEF ws, bs, next
  <2> QED  BY <1>1, <1>14, <1>16, <2>1 DEF TabHolds
<1>18. /\ hasRoot' = [hasRoot EXCEPT ![t] = TRUE]
       /\ wallets' = [wallets EXCEPT ![t] = ws]
  BY <1>1, <1>9, TabIs
<1>19. storedAccounts' \subseteq Account /\ OnePerIndex(storedAccounts')
  <2>1. bs \subseteq Account /\ OnePerIndex(bs)
    BY <1>14, GoodToStore
  <2> HIDE DEF bs
  <2> QED  BY <1>8, <2>1 DEF ListInv
<1>20. GoodList(storedWallets') /\ getActiveWallets(storedWallets') # {}
  BY <1>9 DEF ListInv
<1> HIDE DEF next, bs
<1> QED  BY <1>7, <1>14, <1>17, <1>18, <1>19, <1>20, OneTab

-----------------------------------------------------------------------------
LEMMA ListNextSafe ==
  ASSUME ListInv, ListNext
  PROVE  ListInv' /\ LosesNothing
<1>1. ASSUME NEW list \in StoredLists, OtherPageSavesWallets(list)
      PROVE  ListInv' /\ LosesNothing
  BY <1>1, OtherWalletsListSafe
<1>2. ASSUME NEW list \in StoredLists, OtherPageSavesAccounts(list)
      PROVE  ListInv' /\ LosesNothing
  BY <1>2, OtherAccountsListSafe
<1>3. ASSUME NEW t \in Tabs, NEW w \in wallets[t], NEW inactive \in BOOLEAN,
             setWalletInactive(t, w, inactive)
      PROVE  ListInv' /\ LosesNothing
  BY <1>3, InactiveListSafe
<1>4. ASSUME NEW t \in Tabs, NEW w \in wallets[t], handleWalletSelectChange(t, w)
      PROVE  ListInv' /\ LosesNothing
  BY <1>4, SelectListSafe
<1>5. ASSUME NEW t \in Tabs, NEW a \in accounts[t], toggleAccountActive(t, a)
      PROVE  ListInv' /\ LosesNothing
  BY <1>5, ToggleListSafe
<1>6. ASSUME NEW t \in Tabs, NEW answer \in Balances, ScanAnswered(t, answer)
      PROVE  ListInv' /\ LosesNothing
  BY <1>6, AnsweredListSafe
<1>7. ASSUME NEW t \in Tabs,
             \/ ListLogin(t) \/ ListLogout(t) \/ createNewWallet(t) \/ renameWallet(t)
             \/ addCustomPathAccount(t) \/ ScanBegins(t) \/ ScanAsks(t) \/ ScanFinishes(t)
      PROVE  ListInv' /\ LosesNothing
  BY <1>7, LoginListSafe, LogoutListSafe, CreateListSafe, RenameListSafe, CustomPathListSafe,
     BeginsListSafe, AsksListSafe, FinishesListSafe
<1> QED  BY <1>1, <1>2, <1>3, <1>4, <1>5, <1>6, <1>7 DEF ListNext

(* The invariant says what is promised of the list.                        *)
LEMMA ListInvIsUsable == ListInv => ListIsUsable
<1> SUFFICES ASSUME ListInv PROVE ListIsUsable
  OBVIOUS
<1>1. SomeWalletIsActive
  BY DEF SomeWalletIsActive, ListInv, TabHolds
<1>2. ASSUME NEW t \in Tabs
      PROVE  /\ \A v, w \in wallets[t] : v.id = w.id => v = w
             /\ \A v, w \in wallets[t] : v.accountIndex = w.accountIndex => v = w
             /\ \A a, b \in accounts[t] : Key(wallets[t], a) = Key(wallets[t], b) => a = b
             /\ \A a \in accounts[t] : isSigningAccount(wallets[t], a)
  <2>1. GoodList(wallets[t]) /\ GoodAccounts(wallets[t], accounts[t])
    BY TabIs
  <2>2. \A a \in accounts[t] : IsOf(wallets[t], a)
    BY <2>1 DEF GoodAccounts
  <2>3. \A a, b \in accounts[t] : Key(wallets[t], a) = Key(wallets[t], b) => a = b
    BY <2>1, <2>2, KeyIsIndex DEF GoodAccounts, OnePerIndex
  <2>4. \A a \in accounts[t] : isSigningAccount(wallets[t], a)
    BY <2>2, IsOfSigns
  <2> QED  BY <2>1, <2>3, <2>4 DEF GoodList, Clashes
<1>3. ListIsSound
  BY <1>2 DEF ListIsSound, Unique
<1> QED  BY <1>1, <1>3 DEF ListIsUsable

(* Whatever lists normalizeWallets was given and whatever login, scans and *)
(* other tabs add, no two wallets of a tab share an id or an account       *)
(* index, every account is the one its wallet signs with, and              *)
(* setWalletInactive leaves a wallet to be the current one.                *)
THEOREM ListUsable == ListSpec => []ListIsUsable
<1>1. ListInv /\ [ListNext]_listVars => ListInv'
  <2>1. ASSUME ListInv, UNCHANGED listVars PROVE ListInv'
    BY <2>1 DEF ListInv, listVars
  <2> QED  BY <2>1, ListNextSafe
<1> QED  BY <1>1, ListStarts, ListInvIsUsable, PTL DEF ListSpec

(* While a session lasts, what scanActiveAccounts read before it waited    *)
(* and mergeAccounts puts in after it loses no balance that is known, and  *)
(* switches no account off that the user switched on.                      *)
THEOREM ListLosesNothing == ListSpec => ScansLoseNothing
<1>1. ListInv /\ [ListNext]_listVars => ListInv'
  <2>1. ASSUME ListInv, UNCHANGED listVars PROVE ListInv'
    BY <2>1 DEF ListInv, listVars
  <2> QED  BY <2>1, ListNextSafe
<1>2. ListInv /\ [ListNext]_listVars => [LosesNothing]_listVars
  BY ListNextSafe
<1>3. ListSpec => [][LosesNothing]_listVars
  BY <1>1, <1>2, ListStarts, PTL DEF ListSpec
<1> QED  BY <1>3 DEF ScansLoseNothing, LosesNothing

-----------------------------------------------------------------------------
(* Sequences and what they consist of.                                     *)

(* Every number of a finite set has its place.                             *)
LEMMA InOrderIs ==
  ASSUME NEW K, IsFiniteSet(K), K \subseteq Int
  PROVE  /\ InOrder(K) \in [1..Cardinality(K) -> K]
         /\ \A k \in K : \E n \in 1..Cardinality(K) : InOrder(K)[n] = k
<1> DEFINE below(k) == {j \in K : j < k}
           c == Cardinality(K)
           rank == [k \in K |-> Cardinality(below(k))]
<1>1. c \in Nat
  BY FS_CardinalityType
<1>2. ASSUME NEW k \in K
      PROVE  IsFiniteSet(below(k)) /\ rank[k] \in 0..(c - 1)
  <2>1. below(k) \subseteq K /\ k \notin below(k)
    OBVIOUS
  <2>2. IsFiniteSet(below(k)) /\ Cardinality(below(k)) \in Nat
    BY <2>1, FS_Subset, FS_CardinalityType
  <2>3. Cardinality(below(k)) <= c /\ Cardinality(below(k)) # c
    BY <2>1, FS_Subset
  <2>4. rank[k] = Cardinality(below(k))
    OBVIOUS
  <2> HIDE DEF below, rank, c
  <2> QED  BY <1>1, <2>2, <2>3, <2>4
<1>3. \A k \in K : rank[k] \in 0..(c - 1) /\ rank[k] \in Nat
  <2> SUFFICES ASSUME NEW k \in K PROVE rank[k] \in 0..(c - 1) /\ rank[k] \in Nat
    OBVIOUS
  <2>1. rank[k] \in 0..(c - 1)
    BY <1>2
  <2> HIDE DEF rank, c
  <2> QED  BY <1>1, <2>1
<1>4. ASSUME NEW i \in K, NEW k \in K, i < k PROVE rank[i] < rank[k]
  <2>1. below(i) \subseteq below(k) /\ i \in below(k) /\ i \notin below(i)
    <3>1. i \in Int /\ k \in Int
      OBVIOUS
    <3>2. ASSUME NEW j \in K, j < i PROVE j < k
      <4>1. j \in Int
        OBVIOUS
      <4> QED  BY ONLY <1>4, <3>1, <3>2, <4>1
    <3>3. below(i) \subseteq below(k)
      BY <3>2
    <3>4. i \in below(k) /\ ~(i < i)
      BY <1>4, <3>1
    <3> QED  BY <3>3, <3>4
  <2>2. IsFiniteSet(below(k)) /\ rank[i] \in Nat /\ rank[k] \in Nat
    BY <1>1, <1>2
  <2>3. Cardinality(below(i)) <= Cardinality(below(k))
        /\ Cardinality(below(i)) # Cardinality(below(k))
    BY <2>1, <2>2, FS_Subset
  <2>4. rank[i] = Cardinality(below(i)) /\ rank[k] = Cardinality(below(k))
    OBVIOUS
  <2> HIDE DEF below, rank
  <2> QED  BY <2>2, <2>3, <2>4
<1>5. ASSUME NEW i \in K, NEW k \in K, rank[i] = rank[k] PROVE i = k
  <2>1. ~(i < k) /\ ~(k < i)
    <3>1. rank[i] \in 0..(c - 1) /\ rank[k] \in 0..(c - 1)
      BY <1>2
    <3> HIDE DEF rank
    <3> QED  BY <1>1, <1>4, <1>5, <3>1
  <2> QED  BY <2>1
<1> DEFINE image == {rank[k] : k \in K}
<1>6. image = 0..(c - 1)
  <2>1. image \subseteq 0..(c - 1)
    BY <1>2
  <2>2. IsFiniteSet(0..(c - 1)) /\ Cardinality(0..(c - 1)) = c
    <3>1. IsFiniteSet(0..(c - 1))
      BY <1>1, FS_Interval
    <3>2. Cardinality(0..(c - 1)) = IF 0 > c - 1 THEN 0 ELSE (c - 1) - 0 + 1
      BY <1>1, FS_Interval
    <3> QED  BY <1>1, <3>1, <3>2
  <2>3. rank \in Bijection(K, image)
    <3>1. rank \in [K -> image] /\ \A x \in image : \E k \in K : rank[k] = x
      OBVIOUS
    <3>2. \A i, k \in K : rank[i] = rank[k] => i = k
      BY <1>5
    <3> HIDE DEF rank, image
    <3> QED  BY <3>1, <3>2 DEF Bijection, Injection, Surjection, IsInjective
  <2>4. Cardinality(image) = c
    <3> HIDE DEF rank, image
    <3>1. ExistsBijection(K, image)
      BY <2>3 DEF ExistsBijection
    <3> QED  BY <3>1, FS_Bijection
  <2> HIDE DEF image
  <2> QED  BY <2>1, <2>2, <2>4, FS_Subset
<1>7. \A n \in 1..c : \E k \in K : rank[k] = n - 1
  <2> SUFFICES ASSUME NEW n \in 1..c PROVE \E k \in K : rank[k] = n - 1
    OBVIOUS
  <2>1. n - 1 \in image
    <3> HIDE DEF image
    <3> QED  BY <1>1, <1>6
  <2> QED  BY <2>1
<1>8. \A k \in K : rank[k] + 1 \in 1..c
  <2> HIDE DEF rank, c
  <2> QED  BY <1>1, <1>3
<1>9. \A k \in K : rank[k] = Cardinality({j \in K : j < k})
  OBVIOUS
<1>10. \A n \in 1..c : \E k \in K : Cardinality({j \in K : j < k}) = n - 1
  <2> HIDE DEF c
  <2> QED  BY <1>7
<1>11. \A n \in 1..c : InOrder(K)[n] \in K /\ rank[InOrder(K)[n]] = n - 1
  <2> SUFFICES ASSUME NEW n \in 1..c
               PROVE  InOrder(K)[n] \in K /\ rank[InOrder(K)[n]] = n - 1
    OBVIOUS
  <2>1. InOrder(K)[n] = CHOOSE k \in K : Cardinality({j \in K : j < k}) = n - 1
    BY DEF InOrder
  <2>2. InOrder(K)[n] \in K /\ Cardinality({j \in K : j < InOrder(K)[n]}) = n - 1
    BY <1>10, <2>1
  <2> QED  BY <1>9, <2>2
<1>12. DOMAIN InOrder(K) = 1..c /\ InOrder(K) = [n \in 1..c |-> InOrder(K)[n]]
  <2> HIDE DEF c
  <2>1. InOrder(K) = [n \in 1..c |-> CHOOSE k \in K : Cardinality({j \in K : j < k}) = n - 1]
    BY DEF InOrder, c
  <2> QED  BY <2>1, Zenon
<1> HIDE DEF c, rank
<1>13. \A k \in K : InOrder(K)[rank[k] + 1] = k
  <2> SUFFICES ASSUME NEW k \in K PROVE InOrder(K)[rank[k] + 1] = k
    OBVIOUS
  <2>1. rank[k] \in Int
    BY <1>3
  <2>2. rank[InOrder(K)[rank[k] + 1]] = rank[k] /\ InOrder(K)[rank[k] + 1] \in K
    BY <1>8, <1>11, <2>1
  <2> QED  BY <1>5, <2>2
<1>14. InOrder(K) \in [1..c -> K]
  BY <1>11, <1>12
<1> QED  BY <1>8, <1>13, <1>14 DEF c

LEMMA EntriesOf ==
  ASSUME NEW S, NEW s \in Seq(S)
  PROVE  /\ Entries(s) \subseteq S
         /\ Len(s) \in Nat /\ DOMAIN s = 1..Len(s) /\ IsFiniteSet(DOMAIN s)
<1>1. Len(s) \in Nat /\ DOMAIN s = 1..Len(s) /\ Entries(s) \subseteq S
  BY DEF Entries
<1>2. IsFiniteSet(1..Len(s))
  BY <1>1, FS_Interval
<1> QED  BY <1>1, <1>2

LEMMA AtPlacesIs ==
  ASSUME NEW S, NEW s \in Seq(S), NEW K \in SUBSET DOMAIN s
  PROVE  /\ AtPlaces(s, K) \in Seq(S)
         /\ Entries(AtPlaces(s, K)) = {s[k] : k \in K}
<1>1. IsFiniteSet(K) /\ K \subseteq Int /\ K \subseteq 1..Len(s) /\ Len(s) \in Nat
  BY EntriesOf, FS_Subset
<1>2. Cardinality(K) \in Nat
  BY <1>1, FS_CardinalityType
<1> DEFINE c == Cardinality(K)
           o == InOrder(K)
<1>3. o \in [1..c -> K] /\ \A k \in K : \E n \in 1..c : o[n] = k
  BY <1>1, InOrderIs
<1>4. AtPlaces(s, K) = [n \in 1..c |-> s[o[n]]]
  BY DEF AtPlaces
<1> HIDE DEF c, o
<1>5. c \in Nat
  BY <1>2 DEF c
<1>6. \A n \in 1..c : s[o[n]] \in S
  BY <1>1, <1>3
<1>7. AtPlaces(s, K) \in Seq(S)
  BY <1>4, <1>5, <1>6
<1>8. Entries(AtPlaces(s, K)) = {s[k] : k \in K}
  <2>1. DOMAIN AtPlaces(s, K) = 1..c
    BY <1>4
  <2>2. \A n \in 1..c : AtPlaces(s, K)[n] = s[o[n]] /\ o[n] \in K
    BY <1>3, <1>4
  <2> QED  BY <1>3, <2>1, <2>2 DEF Entries
<1> QED  BY <1>7, <1>8

OnePerHash(T) == \A x, y \in T : x.hash = y.hash => x = y

(* One transaction of each hash is kept.                                   *)
LEMMA DeduplicatedIs ==
  ASSUME NEW S, NEW s \in Seq(S)
  PROVE  /\ Deduplicated(s) \in Seq(S)
         /\ Entries(Deduplicated(s)) \subseteq Entries(s)
         /\ OnePerHash(Entries(Deduplicated(s)))
         /\ OnePerHash(Entries(s)) => Entries(Deduplicated(s)) = Entries(s)
<1> DEFINE K == {k \in DOMAIN s : \A j \in DOMAIN s : j < k => s[j].hash # s[k].hash}
<1>1. /\ Deduplicated(s) \in Seq(S)
      /\ Entries(Deduplicated(s)) = {s[k] : k \in K}
  BY AtPlacesIs DEF Deduplicated
<1>2. DOMAIN s \subseteq Int /\ IsFiniteSet(DOMAIN s)
  BY EntriesOf
<1>3. ASSUME NEW j \in K, NEW k \in K, s[j].hash = s[k].hash PROVE s[j] = s[k]
  <2>1. ~(j < k) /\ ~(k < j)
    BY <1>3
  <2> QED  BY <1>2, <2>1
<1>4. ASSUME NEW k \in DOMAIN s PROVE \E j \in K : s[j].hash = s[k].hash
  <2> DEFINE same == {j \in DOMAIN s : s[j].hash = s[k].hash}
  <2>1. IsFiniteSet(same) /\ same # {} /\ same \subseteq Int
    BY <1>2, FS_Subset
  <2>2. Min(same) \in same /\ \A j \in same : Min(same) <= j
    <3> HIDE DEF same
    <3> QED  BY <2>1, MinIs
  <2>3. \A j \in DOMAIN s : j < Min(same) => s[j].hash # s[Min(same)].hash
    <3> SUFFICES ASSUME NEW j \in DOMAIN s, j < Min(same), s[j].hash = s[Min(same)].hash
                 PROVE  FALSE
      OBVIOUS
    <3>1. j \in same /\ j \in Int /\ Min(same) \in Int
      BY <1>2, <2>2
    <3> HIDE DEF same
    <3> QED  BY <2>2, <3>1
  <2>4. Min(same) \in K /\ s[Min(same)].hash = s[k].hash
    BY <2>2, <2>3
  <2> QED  BY <2>4
<1> HIDE DEF K
<1>5. K \subseteq DOMAIN s
  BY DEF K
<1>6. Entries(Deduplicated(s)) \subseteq Entries(s)
  BY <1>1, <1>5 DEF Entries
<1>7. OnePerHash(Entries(Deduplicated(s)))
  BY <1>1, <1>3 DEF OnePerHash
<1>8. ASSUME OnePerHash(Entries(s)), NEW x \in Entries(s)
      PROVE  x \in Entries(Deduplicated(s))
  <2>1. PICK k \in DOMAIN s : x = s[k]
    BY DEF Entries
  <2>2. PICK j \in K : s[j].hash = s[k].hash
    BY <1>4
  <2>3. s[j] \in Entries(s)
    BY <1>5 DEF Entries
  <2> QED  BY <1>1, <1>8, <2>1, <2>2, <2>3 DEF OnePerHash
<1> QED  BY <1>1, <1>6, <1>7, <1>8

LEMMA JoinedIs ==
  ASSUME NEW S, NEW s \in Seq(S), NEW t \in Seq(S)
  PROVE  s \o t \in Seq(S) /\ Entries(s \o t) = Entries(s) \cup Entries(t)
<1>1. /\ s \o t \in Seq(S) /\ Len(s) \in Nat /\ Len(t) \in Nat
      /\ DOMAIN (s \o t) = 1..(Len(s) + Len(t))
      /\ \A k \in 1..Len(s) : (s \o t)[k] = s[k]
      /\ \A k \in 1..Len(t) : (s \o t)[Len(s) + k] = t[k]
      /\ DOMAIN s = 1..Len(s) /\ DOMAIN t = 1..Len(t)
  OBVIOUS
<1>2. ASSUME NEW x \in Entries(s \o t) PROVE x \in Entries(s) \cup Entries(t)
  <2>1. PICK k \in 1..(Len(s) + Len(t)) : x = (s \o t)[k]
    BY <1>1 DEF Entries
  <2>2. CASE k <= Len(s)
    <3>1. k \in 1..Len(s)
      BY <1>1, <2>2
    <3> QED  BY <1>1, <2>1, <3>1 DEF Entries
  <2>3. CASE ~(k <= Len(s))
    <3>1. k - Len(s) \in 1..Len(t) /\ Len(s) + (k - Len(s)) = k
      BY <1>1, <2>3
    <3>2. (s \o t)[Len(s) + (k - Len(s))] = t[k - Len(s)]
      BY <1>1, <3>1
    <3> QED  BY <1>1, <2>1, <3>1, <3>2 DEF Entries
  <2> QED  BY <2>2, <2>3
<1>3. ASSUME NEW k \in 1..Len(s) PROVE s[k] \in Entries(s \o t)
  <2>1. k \in DOMAIN (s \o t) /\ (s \o t)[k] = s[k]
    BY <1>1
  <2> QED  BY <2>1 DEF Entries
<1>4. ASSUME NEW k \in 1..Len(t) PROVE t[k] \in Entries(s \o t)
  <2>1. Len(s) + k \in DOMAIN (s \o t) /\ (s \o t)[Len(s) + k] = t[k]
    BY <1>1
  <2> QED  BY <2>1 DEF Entries
<1>5. Entries(s) \cup Entries(t) \subseteq Entries(s \o t)
  <2>1. Entries(s) = {s[k] : k \in 1..Len(s)} /\ Entries(t) = {t[k] : k \in 1..Len(t)}
    BY <1>1 DEF Entries
  <2> QED  BY <1>3, <1>4, <2>1
<1> QED  BY <1>1, <1>2, <1>5

LEMMA ReverseIs ==
  ASSUME NEW S, NEW s \in Seq(S)
  PROVE  Reverse(s) \in Seq(S) /\ Entries(Reverse(s)) = Entries(s)
<1>1. /\ Reverse(s) \in Seq(S) /\ DOMAIN Reverse(s) = 1..Len(s) /\ Len(s) \in Nat
      /\ \A k \in 1..Len(s) : Reverse(s)[k] = s[(Len(s) - k) + 1]
      /\ DOMAIN s = 1..Len(s)
  BY DEF Reverse
<1>2. \A k \in 1..Len(s) : /\ (Len(s) - k) + 1 \in 1..Len(s)
                           /\ (Len(s) - ((Len(s) - k) + 1)) + 1 = k
  BY <1>1
<1>3. Entries(Reverse(s)) \subseteq Entries(s)
  BY <1>1, <1>2 DEF Entries
<1>4. ASSUME NEW k \in 1..Len(s) PROVE s[k] \in Entries(Reverse(s))
  <2>1. Reverse(s)[(Len(s) - k) + 1] = s[k]
    BY <1>1, <1>2
  <2> QED  BY <1>1, <1>2, <2>1 DEF Entries
<1>5. Entries(s) \subseteq Entries(Reverse(s))
  BY <1>1, <1>4 DEF Entries
<1> QED  BY <1>1, <1>3, <1>5

-----------------------------------------------------------------------------
(* What is on the chains, and what may be said of it.                      *)
Chains == TrustChains \cup {a.chain : a \in Recipients \cup Cards}

Sources == Chains \cup {"sds"}

Embedded == [id : Nat, form : {"bare"}]

TrustRecords ==
  [type : {"trust"}, by : {Own} \cup Others, paid : {NoTrust, Own}, chain : Chains,
   to : Recipients, level : Levels, original : {NoTrust}, memo : {"payload", "base64"}]

RevocationRecords ==
  [type : {"revocation"}, by : {Own} \cup Others, paid : {NoTrust, Own}, chain : Chains,
   to : {NoTrust}, level : {NoTrust}, original : Embedded, memo : {"payload", "base64"}]

(* Who has a part in the transaction of a record, as a scan sees it.       *)
Parties(r) == IF r.chain = "eth" THEN {r.by} ELSE {r.by, r.paid}

LedgerInv ==
  /\ ledger \in Seq(TrustRecords \cup RevocationRecords)
  /\ \A i \in DOMAIN ledger : ledger[i].type = "revocation" =>
        /\ ledger[i].original.id \in DOMAIN ledger
        /\ ledger[ledger[i].original.id].type = "trust"
        /\ ledger[i].by \in Parties(ledger[ledger[i].original.id])
        /\ ledger[ledger[i].original.id].chain = ledger[i].chain

(* A record as it is read of the source c, said to be from w.              *)
Reads(i, c, w) ==
  [type |-> ledger[i].type, hash |-> TxHash(i, ledger[i].chain), time |-> i,
   from |-> w, to |-> ledger[i].to, level |-> ledger[i].level,
   original |-> ledger[i].original, chain |-> c]

Readings ==
  UNION {{Reads(i, c, w) : c \in Sources, w \in Parties(ledger[i])} : i \in DOMAIN ledger}

(* A trust record that is said to be of a chain is on that chain, and is   *)
(* said to be the wallet's own.                                            *)
IsTale(tx) ==
  tx.type = "trust" /\ tx.chain \in TrustChains =>
     tx.from = Own /\ tx.chain = ledger[tx.hash.id].chain

Tales == {tx \in Readings : IsTale(tx)}

DocHolds(doc) ==
  /\ \E n \in Nat : DOMAIN doc.tre = 1..n /\ \A k \in 1..n : FromEdge(doc.tre[k]) \in Tales
  /\ \E n \in Nat : DOMAIN doc.lot = 1..n /\ \A k \in 1..n : FromLoss(doc.lot[k]) \in Tales

TrustInv ==
  /\ LedgerInv
  /\ trustTxs \in Seq(Tales) /\ OnePerHash(Entries(trustTxs))
  /\ importedTxs \in Seq(Tales)
  /\ document # NoTrust => DocHolds(document)

(* What a reading is.                                                      *)
LEMMA ReadingIs ==
  ASSUME LedgerInv, NEW tx \in Readings
  PROVE  /\ \E i \in DOMAIN ledger, c \in Sources : \E w \in Parties(ledger[i]) :
               tx = Reads(i, c, w) /\ tx.hash.id = i
         /\ tx = Reads(tx.hash.id, tx.chain, tx.from) /\ tx.hash.id \in DOMAIN ledger
         /\ tx.from \in Parties(ledger[tx.hash.id])
         /\ tx.hash = [id |-> tx.hash.id, form |-> tx.hash.form]
         /\ tx.chain \in Sources
         /\ tx.type = "trust" \/ tx.type = "revocation"
         /\ tx.type = "trust" => tx.original = NoTrust /\ tx.level \in 1..5
         /\ tx.type = "revocation" => /\ tx.to = NoTrust /\ tx.level = NoTrust
                                      /\ tx.original \in Embedded
<1>1. PICK i \in DOMAIN ledger, c \in Sources : \E w \in Parties(ledger[i]) : tx = Reads(i, c, w)
  BY DEF Readings
<1> PICK w \in Parties(ledger[i]) : tx = Reads(i, c, w)
  BY <1>1
<1>2. ledger[i] \in TrustRecords \cup RevocationRecords
  BY DEF LedgerInv
<1>3. /\ tx.hash = TxHash(i, ledger[i].chain) /\ tx.chain = c /\ tx.type = ledger[i].type
      /\ tx.to = ledger[i].to /\ tx.level = ledger[i].level /\ tx.original = ledger[i].original
      /\ tx.from = w
  BY DEF Reads
<1>4. tx.hash.id = i /\ tx.hash = [id |-> tx.hash.id, form |-> tx.hash.form]
  BY <1>3 DEF TxHash
<1>5. CASE ledger[i] \in TrustRecords
  <2>1. tx.type = "trust" /\ tx.original = NoTrust /\ tx.level \in Levels
    BY <1>3, <1>5 DEF TrustRecords
  <2> QED  BY <1>1, <1>3, <1>4, <2>1, TrustMapAssumption
<1>6. CASE ledger[i] \in RevocationRecords
  <2>1. /\ tx.type = "revocation" /\ tx.to = NoTrust /\ tx.level = NoTrust
        /\ tx.original \in Embedded
    BY <1>3, <1>6 DEF RevocationRecords
  <2> QED  BY <1>1, <1>3, <1>4, <2>1
<1> QED  BY <1>2, <1>5, <1>6

LEMMA ReadIsReading ==
  ASSUME NEW i \in DOMAIN ledger, NEW c \in Sources, NEW w \in Parties(ledger[i])
  PROVE  /\ Reads(i, c, w) \in Readings /\ Reads(i, c, w).hash.id = i
         /\ Reads(i, c, w).chain = c /\ Reads(i, c, w).from = w
<1>1. Reads(i, c, w) \in Readings
  BY DEF Readings
<1>2. /\ Reads(i, c, w).hash = TxHash(i, ledger[i].chain) /\ Reads(i, c, w).chain = c
      /\ Reads(i, c, w).from = w
  BY DEF Reads
<1> QED  BY <1>1, <1>2 DEF TxHash

(* An edge of a file gives the record back, of no chain; an entry of the   *)
(* losses gives the revocation back.                                       *)
LEMMA EdgeBack ==
  ASSUME LedgerInv, NEW tx \in Readings, tx.type = "trust", NEW txs
  PROVE  /\ FromEdge(Edge(tx, txs)) = Reads(tx.hash.id, "sds", tx.from)
         /\ FromEdge(Edge(tx, txs)) \in Tales
<1>1. /\ tx.hash.id \in DOMAIN ledger /\ tx = Reads(tx.hash.id, tx.chain, tx.from)
      /\ tx.original = NoTrust /\ tx.level \in 1..5 /\ tx.from \in Parties(ledger[tx.hash.id])
  BY ReadingIs
<1> DEFINE i == tx.hash.id
<1>2. /\ tx.type = ledger[i].type /\ tx.hash = TxHash(i, ledger[i].chain) /\ tx.time = i
      /\ tx.to = ledger[i].to /\ tx.level = ledger[i].level
      /\ tx.original = ledger[i].original
  <2> HIDE DEF i
  <2>1. tx = Reads(i, tx.chain, tx.from)
    BY <1>1 DEF i
  <2> QED  BY <2>1 DEF Reads
<1> HIDE DEF i
<1>3. trustWeightToLevel(trustLevelToWeight(tx.level)) = tx.level
  BY <1>1 DEF trustWeightToLevel, trustLevelToWeight
<1>4. FromEdge(Edge(tx, txs))
        = [type |-> "trust", hash |-> tx.hash, time |-> tx.time, from |-> tx.from, to |-> tx.to,
           level |-> tx.level, original |-> NoTrust, chain |-> "sds"]
  BY <1>3 DEF FromEdge, Edge
<1>5. FromEdge(Edge(tx, txs)) = Reads(i, "sds", tx.from)
  BY <1>1, <1>2, <1>4 DEF Reads
<1>6. Reads(i, "sds", tx.from) \in Readings /\ Reads(i, "sds", tx.from).chain = "sds"
  BY <1>1, ReadIsReading DEF Sources, i
<1>7. IsTale(Reads(i, "sds", tx.from)) \/ "sds" \in TrustChains
  BY <1>6 DEF IsTale
<1> QED  BY <1>5, <1>6, <1>7 DEF Tales, TrustChains, i

LEMMA LossBack ==
  ASSUME LedgerInv, NEW tx \in Readings, tx.type = "revocation"
  PROVE  FromLoss(LossOfTrust(tx)) = tx /\ tx \in Tales
<1>1. /\ tx = Reads(tx.hash.id, tx.chain, tx.from)
      /\ tx.to = NoTrust /\ tx.level = NoTrust
  BY ReadingIs
<1>2. tx = [type |-> tx.type, hash |-> tx.hash, time |-> tx.time, from |-> tx.from, to |-> tx.to,
            level |-> tx.level, original |-> tx.original, chain |-> tx.chain]
  BY <1>1 DEF Reads
<1>3. FromLoss(LossOfTrust(tx))
        = [type |-> "revocation", hash |-> tx.hash, time |-> tx.time, from |-> tx.from,
           to |-> NoTrust, level |-> NoTrust, original |-> tx.original, chain |-> tx.chain]
  BY DEF FromLoss, LossOfTrust
<1> QED  BY <1>1, <1>2, <1>3 DEF Tales, IsTale

(* What is exported.                                                       *)
LEMMA ExportedIs ==
  ASSUME LedgerInv, NEW txs \in Seq(Readings)
  PROVE  LET doc == buildSdsTrustExport(txs) IN
         /\ DocHolds(doc)
         /\ Entries(doc.tre) = {Edge(tx, txs) : tx \in TrustsIn(txs)}
         /\ Entries(doc.lot) = {LossOfTrust(tx) : tx \in RevocationsIn(txs)}
<1> DEFINE doc == buildSdsTrustExport(txs)
           trusts == AtPlaces(txs, {k \in DOMAIN txs : txs[k].type = "trust"})
           losses == AtPlaces(txs, {k \in DOMAIN txs : txs[k].type = "revocation"})
<1>1. /\ trusts \in Seq(Readings) /\ losses \in Seq(Readings)
      /\ Entries(trusts) = {txs[k] : k \in {k \in DOMAIN txs : txs[k].type = "trust"}}
      /\ Entries(losses) = {txs[k] : k \in {k \in DOMAIN txs : txs[k].type = "revocation"}}
  BY AtPlacesIs
<1>2. Entries(trusts) = TrustsIn(txs) /\ Entries(losses) = RevocationsIn(txs)
  BY <1>1 DEF TrustsIn, RevocationsIn, Entries
<1>3. /\ doc.tre = [k \in DOMAIN trusts |-> Edge(trusts[k], txs)]
      /\ doc.lot = [k \in DOMAIN losses |-> LossOfTrust(losses[k])]
  BY DEF buildSdsTrustExport
<1> HIDE DEF doc, trusts, losses
<1>4. /\ Len(trusts) \in Nat /\ DOMAIN trusts = 1..Len(trusts)
      /\ Len(losses) \in Nat /\ DOMAIN losses = 1..Len(losses)
  BY <1>1, EntriesOf
<1>5. /\ \A k \in DOMAIN trusts : trusts[k] \in Readings /\ trusts[k].type = "trust"
      /\ \A k \in DOMAIN losses : losses[k] \in Readings /\ losses[k].type = "revocation"
  <2>1. /\ \A k \in DOMAIN trusts : trusts[k] \in Entries(trusts)
        /\ \A k \in DOMAIN losses : losses[k] \in Entries(losses)
    BY DEF Entries
  <2>2. Entries(trusts) \subseteq Readings /\ Entries(losses) \subseteq Readings
    BY <1>1, EntriesOf
  <2> QED  BY <1>2, <2>1, <2>2 DEF TrustsIn, RevocationsIn
<1>6. DocHolds(doc)
  <2>1. \A k \in 1..Len(trusts) : FromEdge(doc.tre[k]) \in Tales
    BY <1>3, <1>4, <1>5, EdgeBack
  <2>2. \A k \in 1..Len(losses) : FromLoss(doc.lot[k]) \in Tales
    BY <1>3, <1>4, <1>5, LossBack
  <2> QED  BY <1>3, <1>4, <2>1, <2>2 DEF DocHolds
<1>7. Entries(doc.tre) = {Edge(tx, txs) : tx \in Entries(trusts)}
  BY <1>3 DEF Entries
<1>8. Entries(doc.lot) = {LossOfTrust(tx) : tx \in Entries(losses)}
  BY <1>3 DEF Entries
<1> QED  BY <1>2, <1>6, <1>7, <1>8 DEF doc

(* What is imported.                                                       *)
LEMMA ParsedIs ==
  ASSUME NEW doc, DocHolds(doc)
  PROVE  LET all == {FromEdge(e) : e \in Entries(doc.tre)}
                      \cup {FromLoss(l) : l \in Entries(doc.lot)}
         IN /\ parseSdsTrustImport(doc) \in Seq(Tales)
            /\ OnePerHash(all) => Entries(parseSdsTrustImport(doc)) = all
<1> DEFINE edges == [k \in DOMAIN doc.tre |-> FromEdge(doc.tre[k])]
           losses == [k \in DOMAIN doc.lot |-> FromLoss(doc.lot[k])]
           all == {FromEdge(e) : e \in Entries(doc.tre)}
                    \cup {FromLoss(l) : l \in Entries(doc.lot)}
<1>1. edges \in Seq(Tales) /\ losses \in Seq(Tales)
  BY DEF DocHolds
<1>2. Entries(edges) \cup Entries(losses) = all
  BY DEF Entries
<1>3. parseSdsTrustImport(doc) = Deduplicated(edges \o losses)
  BY DEF parseSdsTrustImport
<1> HIDE DEF edges, losses, all
<1>4. edges \o losses \in Seq(Tales) /\ Entries(edges \o losses) = all
  BY <1>1, <1>2, JoinedIs
<1>5. /\ parseSdsTrustImport(doc) \in Seq(Tales)
      /\ OnePerHash(all) => Entries(parseSdsTrustImport(doc)) = all
  <2> DEFINE both == edges \o losses
  <2>1. both \in Seq(Tales) /\ Entries(both) = all /\ parseSdsTrustImport(doc) = Deduplicated(both)
    BY <1>3, <1>4
  <2> HIDE DEF both
  <2>2. Deduplicated(both) \in Seq(Tales)
    BY <2>1, DeduplicatedIs
  <2>3. OnePerHash(Entries(both)) => Entries(Deduplicated(both)) = Entries(both)
    BY <2>1, DeduplicatedIs
  <2> QED  BY <2>1, <2>2, <2>3
<1> QED  BY <1>5 DEF all

(* What a scan finds.                                                      *)
LEMMA ScannedIs ==
  ASSUME LedgerInv, NEW w, NEW found \in MayBeFound(w)
  PROVE  /\ scanAllTrustTransactions(found, w) \in Seq(Readings)
         /\ w = Own => scanAllTrustTransactions(found, w) \in Seq(Tales)
<1> DEFINE on(chain) == {i \in found : ledger[i].chain = chain}
           of(chain) == Reverse(InOrder(on(chain)))
           ids == of("btc") \o of("sol") \o of("eth")
<1>1. found \subseteq DOMAIN ledger /\ \A i \in found : w \in Parties(ledger[i])
  BY DEF MayBeFound, scanBitcoinTrustTransactions, scanSolanaTrustTransactions,
         scanEthereumTrustTransactions, RecordsOf, AttributedTo, Parties
<1>2. DOMAIN ledger \subseteq Int /\ IsFiniteSet(DOMAIN ledger)
  BY EntriesOf DEF LedgerInv
<1>3. ASSUME NEW chain PROVE of(chain) \in Seq(found)
  <2>1. on(chain) \subseteq DOMAIN ledger /\ on(chain) \subseteq found
    BY <1>1
  <2>2. IsFiniteSet(on(chain)) /\ on(chain) \subseteq Int
    BY <1>2, <2>1, FS_Subset
  <2>3. Cardinality(on(chain)) \in Nat
    BY <2>2, FS_CardinalityType
  <2>4. InOrder(on(chain)) \in [1..Cardinality(on(chain)) -> on(chain)]
    <3> HIDE DEF on
    <3> QED  BY <2>2, InOrderIs
  <2>5. InOrder(on(chain)) \in Seq(found)
    <3> HIDE DEF on
    <3> QED  BY <2>1, <2>3, <2>4
  <2> HIDE DEF on
  <2> QED  BY <2>5, ReverseIs
<1>4. ids \in Seq(found)
  <2>1. of("btc") \in Seq(found) /\ of("sol") \in Seq(found) /\ of("eth") \in Seq(found)
    BY <1>3
  <2> HIDE DEF of
  <2> QED  BY <2>1
<1>5. scanAllTrustTransactions(found, w) = [k \in DOMAIN ids |-> Scanned(ids[k], w)]
  BY DEF scanAllTrustTransactions
<1> HIDE DEF ids
<1>6. Len(ids) \in Nat /\ DOMAIN ids = 1..Len(ids) /\ \A k \in 1..Len(ids) : ids[k] \in found
  BY <1>4
<1>7. ASSUME NEW i \in found
      PROVE  Scanned(i, w) \in Readings /\ (w = Own => Scanned(i, w) \in Tales)
  <2>1. Scanned(i, w) = Reads(i, ledger[i].chain, w)
    BY DEF Scanned, Reads
  <2>2. ledger[i].chain \in Sources
    BY <1>1 DEF LedgerInv, TrustRecords, RevocationRecords, Sources
  <2>3. /\ Scanned(i, w) \in Readings /\ Scanned(i, w).hash.id = i
        /\ Scanned(i, w).chain = ledger[i].chain /\ Scanned(i, w).from = w
    BY <1>1, <2>1, <2>2, ReadIsReading
  <2> QED  BY <2>3 DEF Tales, IsTale
<1> QED  BY <1>5, <1>6, <1>7

-----------------------------------------------------------------------------
LEMMA TrustStarts == TrustInit => TrustInv
<1> SUFFICES ASSUME TrustInit PROVE TrustInv
  OBVIOUS
<1>1. ledger = <<>> /\ trustTxs = <<>> /\ importedTxs = <<>> /\ document = NoTrust
  BY DEF TrustInit
<1>2. LedgerInv
  BY <1>1 DEF LedgerInv
<1>3. trustTxs \in Seq(Tales) /\ importedTxs \in Seq(Tales)
  BY <1>1
<1>4. OnePerHash(Entries(trustTxs))
  BY <1>1 DEF OnePerHash, Entries
<1> QED  BY <1>1, <1>2, <1>3, <1>4 DEF TrustInv

(* A record is published: what was read stays true of the chains.          *)
LEMMA PublishedSafe ==
  ASSUME TrustInv, NEW r \in TrustRecords \cup RevocationRecords, OnChain(r),
         r.type = "revocation" => /\ r.original.id \in DOMAIN ledger
                                  /\ ledger[r.original.id].type = "trust"
                                  /\ r.by \in Parties(ledger[r.original.id])
                                  /\ ledger[r.original.id].chain = r.chain
  PROVE  TrustInv'
<1>1. /\ ledger' = Append(ledger, r) /\ trustTxs' = trustTxs /\ importedTxs' = importedTxs
      /\ document' = document
  BY DEF OnChain
<1>2. LedgerInv
  BY DEF TrustInv
<1>3. /\ ledger' \in Seq(TrustRecords \cup RevocationRecords)
      /\ DOMAIN ledger \subseteq DOMAIN ledger'
      /\ \A i \in DOMAIN ledger : ledger'[i] = ledger[i]
      /\ \A i \in DOMAIN ledger' : i \in DOMAIN ledger \/ ledger'[i] = r
  BY <1>1, <1>2 DEF LedgerInv
<1>4. LedgerInv'
  <2> SUFFICES ASSUME NEW i \in DOMAIN ledger', ledger'[i].type = "revocation"
               PROVE  /\ ledger'[i].original.id \in DOMAIN ledger'
                      /\ ledger'[ledger'[i].original.id].type = "trust"
                      /\ ledger'[i].by \in Parties(ledger'[ledger'[i].original.id])
                      /\ ledger'[ledger'[i].original.id].chain = ledger'[i].chain
    BY <1>3 DEF LedgerInv, Parties
  <2>1. CASE i \in DOMAIN ledger
    <3>1. ledger'[i] = ledger[i]
      BY <1>3, <2>1
    <3>2. /\ ledger[i].original.id \in DOMAIN ledger
          /\ ledger[ledger[i].original.id].type = "trust"
          /\ ledger[i].by \in Parties(ledger[ledger[i].original.id])
          /\ ledger[ledger[i].original.id].chain = ledger[i].chain
      BY <1>2, <2>1, <3>1 DEF LedgerInv
    <3> QED  BY <1>3, <3>1, <3>2
  <2>2. CASE ledger'[i] = r
    BY <1>3, <2>2
  <2> QED  BY <1>3, <2>1, <2>2
<1>5. \A i \in DOMAIN ledger : /\ Parties(ledger[i])' = Parties(ledger[i])
                              /\ \A c, w : Reads(i, c, w)' = Reads(i, c, w)
  BY <1>3 DEF Reads, TxHash, Parties
<1>6. ASSUME NEW tx \in Tales PROVE tx \in Tales'
  <2>1. PICK i \in DOMAIN ledger, c \in Sources : \E w \in Parties(ledger[i]) :
           tx = Reads(i, c, w) /\ tx.hash.id = i
    BY <1>2, ReadingIs DEF Tales
  <2> PICK w \in Parties(ledger[i]) : tx = Reads(i, c, w) /\ tx.hash.id = i
    BY <2>1
  <2>2. tx = Reads(i, c, w)' /\ i \in DOMAIN ledger' /\ w \in Parties(ledger[i])'
    BY <1>3, <1>5
  <2>3. tx \in Readings'
    BY <2>2 DEF Readings
  <2>4. IsTale(tx)'
    BY <1>3, <2>1 DEF Tales, IsTale
  <2> QED  BY <2>3, <2>4 DEF Tales
<1>7. trustTxs' \in Seq(Tales') /\ importedTxs' \in Seq(Tales')
  <2>1. trustTxs \in Seq(Tales) /\ importedTxs \in Seq(Tales)
    BY DEF TrustInv
  <2> QED  BY <1>1, <1>6, <2>1
<1>8. ASSUME document' # NoTrust PROVE DocHolds(document)'
  <2>1. DocHolds(document)
    BY <1>1, <1>8 DEF TrustInv
  <2>2. PICK n \in Nat :
           DOMAIN document.tre = 1..n /\ \A k \in 1..n : FromEdge(document.tre[k]) \in Tales
    BY <2>1 DEF DocHolds
  <2>3. PICK m \in Nat :
           DOMAIN document.lot = 1..m /\ \A k \in 1..m : FromLoss(document.lot[k]) \in Tales
    BY <2>1 DEF DocHolds
  <2>4. /\ \A k \in 1..n : FromEdge(document'.tre[k]) \in Tales'
        /\ \A k \in 1..m : FromLoss(document'.lot[k]) \in Tales'
    BY <1>1, <1>6, <2>2, <2>3
  <2> QED  BY <1>1, <2>2, <2>3, <2>4 DEF DocHolds
<1>9. OnePerHash(Entries(trustTxs))'
  BY <1>1 DEF TrustInv, OnePerHash, Entries
<1> QED  BY <1>4, <1>7, <1>8, <1>9 DEF TrustInv

LEMMA EstablishSafe ==
  ASSUME TrustInv, NEW w \in {Own} \cup Others, NEW address \in Recipients,
         NEW card \in Recipients \cup Cards, NEW level \in Levels,
         EstablishTrust(w, address, card, level)
  PROVE  TrustInv'
<1> DEFINE r == TrustRecord(w, NoTrust, detectChainFromAddress(card), address, level, PageMemo)
<1>1. OnChain(r)
  BY DEF EstablishTrust
<1>2. r \in TrustRecords
  BY DEF TrustRecord, detectChainFromAddress, PageMemo, TrustRecords, Chains
<1>3. r.type = "trust"
  BY DEF TrustRecord
<1> HIDE DEF r
<1> QED  BY <1>1, <1>2, <1>3, PublishedSafe

LEMMA OtherToolSafe ==
  ASSUME TrustInv, NEW address \in Recipients, NEW level \in Levels,
         OtherToolPublishes(Own, address, level)
  PROVE  TrustInv'
<1> DEFINE r == TrustRecord(Own, NoTrust, "sol", address, level, "base64")
<1>1. OnChain(r)
  BY DEF OtherToolPublishes
<1>2. r \in TrustRecords
  BY DEF TrustRecord, TrustRecords, Chains, TrustChains
<1>3. r.type = "trust"
  BY DEF TrustRecord
<1> HIDE DEF r
<1> QED  BY <1>1, <1>2, <1>3, PublishedSafe

LEMMA RevokeSafe ==
  ASSUME TrustInv, NEW address \in Recipients, RevokeTrust(address)
  PROVE  TrustInv'
<1> DEFINE matching == {k \in DOMAIN trustTxs : MatchesOutbound(trustTxs[k], address)}
           tx == matchOutboundTrustTx(address)
           r == RevocationRecord(Own, NoTrust, tx.hash, tx.chain)
<1>1. OnChain(r) /\ tx # NoTrust
  BY DEF RevokeTrust
<1>2. LedgerInv /\ trustTxs \in Seq(Tales)
  BY DEF TrustInv
<1>3. matching # {} /\ tx = trustTxs[Min(matching)]
  BY <1>1 DEF matchOutboundTrustTx
<1>4. Min(matching) \in matching
  <2>1. IsFiniteSet(matching) /\ matching \subseteq Int
    BY <1>2, EntriesOf, FS_Subset
  <2> HIDE DEF matching
  <2> QED  BY <1>3, <2>1, MinIs
<1>5. tx \in Tales /\ MatchesOutbound(tx, address)
  BY <1>2, <1>3, <1>4
<1> HIDE DEF tx, matching
<1>6. tx.type = "trust" /\ tx.chain \in TrustChains
  BY <1>5 DEF MatchesOutbound, chainForTxRecord
<1> DEFINE i == tx.hash.id
<1>7. /\ i \in DOMAIN ledger /\ tx = Reads(i, tx.chain, tx.from)
      /\ tx.from \in Parties(ledger[i])
  BY <1>2, <1>5, ReadingIs DEF Tales
<1>8. tx.from = Own /\ tx.chain = ledger[i].chain
  BY <1>5, <1>6 DEF Tales, IsTale
<1> HIDE DEF i
<1>9. ledger[i].type = "trust" /\ Own \in Parties(ledger[i])
  BY <1>6, <1>7, <1>8 DEF Reads
<1>10. normalizeTxHashHex(tx.hash) = [id |-> i, form |-> "bare"]
  <2>1. tx.hash = TxHash(i, ledger[i].chain)
    BY <1>7 DEF Reads
  <2> QED  BY <2>1 DEF TxHash, normalizeTxHashHex
<1>11. i \in Nat
  BY <1>2, <1>7 DEF LedgerInv
<1>12. /\ r.type = "revocation" /\ r.by = Own /\ r.chain = tx.chain
       /\ r.original = [id |-> i, form |-> "bare"]
  BY <1>10 DEF RevocationRecord
<1>13. r \in RevocationRecords
  BY <1>6, <1>10, <1>11 DEF RevocationRecord, RevocationRecords, PageMemo, Embedded, Chains
<1> HIDE DEF r
<1>14. r.original.id = i
  BY <1>12
<1> QED  BY <1>1, <1>7, <1>8, <1>9, <1>12, <1>13, <1>14, PublishedSafe

(* What other wallets put into the transactions they pay this one by.      *)
LEMMA OtherPaysSafe ==
  ASSUME TrustInv, NEW w \in Others
  PROVE  /\ \A address \in Recipients, level \in Levels, chain \in TrustChains :
              OtherPaysAndTrusts(w, chain, address, level) => TrustInv'
         /\ \A i \in DOMAIN ledger : OtherPaysAndRevokes(w, i) => TrustInv'
<1>1. ASSUME NEW address \in Recipients, NEW level \in Levels, NEW chain \in TrustChains,
             OtherPaysAndTrusts(w, chain, address, level)
      PROVE  TrustInv'
  <2> DEFINE r == TrustRecord(w, Own, chain, address, level, "base64")
  <2>1. OnChain(r)
    BY <1>1 DEF OtherPaysAndTrusts
  <2>2. r \in TrustRecords
    BY DEF TrustRecord, TrustRecords, Chains
  <2>3. r.type = "trust"
    BY DEF TrustRecord
  <2> HIDE DEF r
  <2> QED  BY <2>1, <2>2, <2>3, PublishedSafe
<1>2. ASSUME NEW i \in DOMAIN ledger, OtherPaysAndRevokes(w, i) PROVE TrustInv'
  <2> DEFINE hash == TxHash(i, ledger[i].chain)
             r == RevocationRecord(w, Own, hash, ledger[i].chain)
  <2>1. OnChain(r) /\ ledger[i].type = "trust" /\ ledger[i].by = w
    BY <1>2 DEF OtherPaysAndRevokes
  <2>2. normalizeTxHashHex(hash) = [id |-> i, form |-> "bare"]
    BY DEF TxHash, normalizeTxHashHex
  <2>3. i \in Nat /\ ledger[i].chain \in Chains
    BY DEF TrustInv, LedgerInv, TrustRecords, RevocationRecords
  <2>4. /\ r.type = "revocation" /\ r.by = w /\ r.chain = ledger[i].chain
        /\ r.original = [id |-> i, form |-> "bare"]
    BY <2>2 DEF RevocationRecord
  <2>5. r \in RevocationRecords
    BY <2>2, <2>3 DEF RevocationRecord, RevocationRecords, PageMemo, Embedded
  <2>6. w \in Parties(ledger[i])
    BY <2>1 DEF Parties
  <2> HIDE DEF r
  <2>7. r.original.id = i
    BY <2>4
  <2> QED  BY <2>1, <2>4, <2>5, <2>6, <2>7, PublishedSafe
<1> QED  BY <1>1, <1>2

(* The tales of a chain that stays are the same ones.                      *)
LEMMA SameTales ==
  ASSUME ledger' = ledger
  PROVE  (LedgerInv => LedgerInv') /\ Tales' = Tales
<1>1. LedgerInv => LedgerInv'
  BY DEF LedgerInv, Parties
<1>2. Readings' = Readings
  BY DEF Readings, Reads, Parties, TxHash
<1>3. Tales' = Tales
  BY <1>2 DEF Tales, IsTale
<1> QED  BY <1>1, <1>3

LEMMA ScanSafe ==
  ASSUME TrustInv, NEW found \in MayBeFound(Own), ScanReplacesMap(found)
  PROVE  TrustInv'
<1> DEFINE all == scanAllTrustTransactions(found, Own) \o importedTxs
<1>1. /\ trustTxs' = Deduplicated(all) /\ ledger' = ledger /\ importedTxs' = importedTxs
      /\ document' = document
  BY DEF ScanReplacesMap
<1>2. scanAllTrustTransactions(found, Own) \in Seq(Tales) /\ importedTxs \in Seq(Tales)
  BY ScannedIs DEF TrustInv
<1>3. all \in Seq(Tales)
  BY <1>2, JoinedIs
<1> HIDE DEF all
<1>4. Deduplicated(all) \in Seq(Tales) /\ OnePerHash(Entries(Deduplicated(all)))
  BY <1>3, DeduplicatedIs
<1>5. LedgerInv' /\ Tales' = Tales
  BY <1>1, SameTales DEF TrustInv
<1>6. document' # NoTrust => DocHolds(document)'
  BY <1>1, <1>5 DEF TrustInv, DocHolds
<1>7. OnePerHash(Entries(trustTxs))'
  BY <1>1, <1>4 DEF OnePerHash, Entries
<1> QED  BY <1>1, <1>2, <1>4, <1>6, <1>7, <1>5 DEF TrustInv

(* A step that leaves the chains and the map alone, but may empty it.      *)
LEMMA FileSafe ==
  ASSUME TrustInv, ledger' = ledger, trustTxs' = trustTxs \/ trustTxs' = <<>>,
         importedTxs' \in Seq(Tales), document' # NoTrust => DocHolds(document')
  PROVE  TrustInv'
<1>1. LedgerInv' /\ Tales' = Tales
  BY SameTales DEF TrustInv
<1>2. document' # NoTrust => DocHolds(document)'
  BY <1>1 DEF DocHolds
<1>3. trustTxs' \in Seq(Tales)
  <2>1. trustTxs \in Seq(Tales)
    BY DEF TrustInv
  <2>2. <<>> \in Seq(Tales)
    OBVIOUS
  <2> QED  BY <2>1, <2>2
<1>4. OnePerHash(Entries(trustTxs))'
  <2>1. CASE trustTxs' = trustTxs
    BY <2>1 DEF TrustInv, OnePerHash, Entries
  <2>2. CASE trustTxs' = <<>>
    BY <2>2 DEF OnePerHash, Entries
  <2> QED  BY <2>1, <2>2
<1> QED  BY <1>1, <1>2, <1>3, <1>4 DEF TrustInv

LEMMA TrustFilesSafe ==
  ASSUME TrustInv
  PROVE  /\ ExportTrust => TrustInv'
         /\ \A w \in Others : \A found \in MayBeFound(w) : OtherExports(found, w) => TrustInv'
         /\ ImportTrust => TrustInv'
         /\ TrustLogout => TrustInv'
<1>1. LedgerInv /\ trustTxs \in Seq(Tales) /\ importedTxs \in Seq(Tales)
  BY DEF TrustInv
<1>2. ASSUME ExportTrust PROVE TrustInv'
  <2>1. trustTxs \in Seq(Readings)
    BY <1>1 DEF Tales
  <2>2. DocHolds(buildSdsTrustExport(trustTxs))
    BY <1>1, <2>1, ExportedIs
  <2> QED  BY <1>1, <1>2, <2>2, FileSafe DEF ExportTrust
<1>3. ASSUME NEW w \in Others, NEW found \in MayBeFound(w), OtherExports(found, w) PROVE TrustInv'
  <2>1. scanAllTrustTransactions(found, w) \in Seq(Readings)
    BY <1>1, ScannedIs
  <2>2. DocHolds(buildSdsTrustExport(scanAllTrustTransactions(found, w)))
    BY <1>1, <2>1, ExportedIs
  <2> QED  BY <1>1, <1>3, <2>2, FileSafe DEF OtherExports
<1>4. ASSUME ImportTrust PROVE TrustInv'
  <2>1. DocHolds(document) /\ document' = document
    BY <1>4 DEF TrustInv, ImportTrust
  <2>2. parseSdsTrustImport(document) \in Seq(Tales)
    BY <2>1, ParsedIs
  <2>3. importedTxs \o parseSdsTrustImport(document) \in Seq(Tales)
    BY <1>1, <2>2, JoinedIs
  <2>4. importedTxs' \in Seq(Tales)
    BY <1>4, <2>3, DeduplicatedIs DEF ImportTrust
  <2> QED  BY <1>4, <2>1, <2>4, FileSafe DEF ImportTrust
<1>5. ASSUME TrustLogout PROVE TrustInv'
  BY <1>1, <1>5, FileSafe DEF TrustLogout, TrustInv
<1> QED  BY <1>2, <1>3, <1>4, <1>5

LEMMA TrustNextSafe == TrustInv /\ [TrustNext]_trustVars => TrustInv'
<1>1. ASSUME TrustInv, UNCHANGED trustVars PROVE TrustInv'
  BY <1>1, FileSafe DEF trustVars, TrustInv
<1>2. ASSUME TrustInv, TrustNext PROVE TrustInv'
  <2>1. ASSUME NEW address \in Recipients, NEW level \in Levels,
               NEW w \in {Own} \cup Others, EstablishTrust(w, address, address, level)
        PROVE  TrustInv'
    BY <1>2, <2>1, EstablishSafe
  <2>2. ASSUME NEW address \in Recipients, NEW level \in Levels, NEW card \in Cards,
               EstablishTrust(Own, address, card, level)
        PROVE  TrustInv'
    BY <1>2, <2>2, EstablishSafe
  <2>3. ASSUME NEW address \in Recipients, NEW level \in Levels,
               OtherToolPublishes(Own, address, level)
        PROVE  TrustInv'
    BY <1>2, <2>3, OtherToolSafe
  <2>4. ASSUME NEW address \in Recipients, RevokeTrust(address) PROVE TrustInv'
    BY <1>2, <2>4, RevokeSafe
  <2>5. ASSUME NEW found \in MayBeFound(Own), ScanReplacesMap(found) PROVE TrustInv'
    BY <1>2, <2>5, ScanSafe
  <2>6. ASSUME NEW w \in Others, NEW found \in MayBeFound(w), OtherExports(found, w) PROVE TrustInv'
    BY <1>2, <2>6, TrustFilesSafe
  <2>7. ASSUME ExportTrust \/ ImportTrust \/ TrustLogout PROVE TrustInv'
    BY <1>2, <2>7, TrustFilesSafe
  <2>8. ASSUME NEW w \in Others,
               \/ \E address \in Recipients, level \in Levels, chain \in TrustChains :
                     OtherPaysAndTrusts(w, chain, address, level)
               \/ \E i \in DOMAIN ledger : OtherPaysAndRevokes(w, i)
        PROVE  TrustInv'
    BY <1>2, <2>8, OtherPaysSafe
  <2> QED  BY <1>2, <2>1, <2>2, <2>3, <2>4, <2>5, <2>6, <2>7, <2>8 DEF TrustNext
<1> QED  BY <1>1, <1>2

-----------------------------------------------------------------------------
(* The invariant says that the map is true.                                *)
LEMMA TellsNothingElse == TrustInv => NothingIsInvented
<1> SUFFICES ASSUME TrustInv, NEW tx \in Entries(trustTxs) \cup Entries(importedTxs)
             PROVE  /\ tx.hash.id \in DOMAIN ledger
                    /\ LET r == ledger[tx.hash.id]
                       IN /\ tx.from = r.by \/ (tx.from = r.paid /\ r.chain # "eth")
                          /\ [tx EXCEPT !.chain = r.chain] = Scanned(tx.hash.id, tx.from)
  BY DEF NothingIsInvented
<1>1. LedgerInv /\ tx \in Readings
  BY EntriesOf DEF TrustInv, Tales
<1>2. PICK i \in DOMAIN ledger, c \in Sources : \E w \in Parties(ledger[i]) :
         tx = Reads(i, c, w) /\ tx.hash.id = i
  BY <1>1, ReadingIs
<1> PICK w \in Parties(ledger[i]) : tx = Reads(i, c, w) /\ tx.hash.id = i
  BY <1>2
<1>3. /\ [Reads(i, c, w) EXCEPT !.chain = ledger[i].chain] = Scanned(i, w)
      /\ Reads(i, c, w).from = w
  BY DEF Reads, Scanned
<1>4. w = ledger[i].by \/ (w = ledger[i].paid /\ ledger[i].chain # "eth")
  BY DEF Parties
<1> QED  BY <1>3, <1>4

LEMMA BindsByIdWhenBare ==
  ASSUME LedgerInv, NEW tx \in Readings, NEW r \in Readings, r.type = "revocation"
  PROVE  Binds(r, tx) <=> tx.hash.form = "bare" /\ r.original.id = tx.hash.id
<1>1. r.original \in Embedded /\ tx.hash = [id |-> tx.hash.id, form |-> tx.hash.form]
  BY ReadingIs
<1> QED  BY <1>1 DEF Binds, Embedded

LEMMA TellsWhatIsRevoked == TrustInv => BitcoinRevocationsBind
<1> SUFFICES ASSUME TrustInv, NEW e \in buildTrustGraph(trustTxs)
             PROVE  e.revoked <=> /\ e.hash.form = "bare"
                                  /\ \E r \in RevocationsIn(trustTxs) : r.original.id = e.hash.id
  BY DEF BitcoinRevocationsBind
<1>1. LedgerInv /\ Entries(trustTxs) \subseteq Readings
  BY EntriesOf DEF TrustInv, Tales
<1>2. PICK tx \in TrustsIn(trustTxs) :
         e = [from |-> tx.from, to |-> tx.to, level |-> tx.level, hash |-> tx.hash,
              revoked |-> \E r \in RevocationsIn(trustTxs) : Binds(r, tx)]
  BY DEF buildTrustGraph
<1>3. /\ e.hash = tx.hash
      /\ e.revoked <=> \E r \in RevocationsIn(trustTxs) : Binds(r, tx)
  BY <1>2, Zenon
<1>4. \A r \in RevocationsIn(trustTxs) :
         Binds(r, tx) <=> tx.hash.form = "bare" /\ r.original.id = tx.hash.id
  BY <1>1, BindsByIdWhenBare DEF TrustsIn, RevocationsIn
<1> QED  BY <1>4, <1>3

LEMMA GivesTheMapBack == TrustInv => FilesGiveTheMapBack
<1> SUFFICES ASSUME TrustInv PROVE FilesGiveTheMapBack
  OBVIOUS
<1> DEFINE txs == trustTxs
           doc == buildSdsTrustExport(txs)
           back(tx) == FromEdge(Edge(tx, txs))
           parsed == parseSdsTrustImport(doc)
           trusts == TrustsIn(txs)
           losses == RevocationsIn(txs)
<1>1. LedgerInv /\ txs \in Seq(Readings) /\ OnePerHash(Entries(txs))
  BY DEF TrustInv, Tales
<1>2. /\ DocHolds(doc)
      /\ Entries(doc.tre) = {Edge(tx, txs) : tx \in trusts}
      /\ Entries(doc.lot) = {LossOfTrust(tx) : tx \in losses}
  BY <1>1, ExportedIs
<1>3. /\ trusts \subseteq Entries(txs) /\ losses \subseteq Entries(txs)
      /\ Entries(txs) \subseteq Readings
      /\ \A tx \in trusts : tx.type = "trust"
      /\ \A tx \in losses : tx.type = "revocation"
  BY <1>1, EntriesOf DEF TrustsIn, RevocationsIn
<1> HIDE DEF doc, txs, trusts, losses
<1>4. ASSUME NEW tx \in trusts
      PROVE  /\ back(tx).type = "trust" /\ back(tx).hash = tx.hash /\ back(tx).from = tx.from
             /\ back(tx).to = tx.to /\ back(tx).level = tx.level
  <2>1. /\ back(tx) = Reads(tx.hash.id, "sds", tx.from)
        /\ tx = Reads(tx.hash.id, tx.chain, tx.from)
    BY <1>1, <1>3, EdgeBack, ReadingIs
  <2> DEFINE i == tx.hash.id
  <2>2. /\ tx.type = ledger[i].type /\ tx.hash = TxHash(i, ledger[i].chain)
        /\ tx.to = ledger[i].to /\ tx.level = ledger[i].level
    <3> HIDE DEF i
    <3>1. tx = Reads(i, tx.chain, tx.from)
      BY <2>1 DEF i
    <3> QED  BY <3>1 DEF Reads
  <2> HIDE DEF i, back
  <2>3. back(tx) = Reads(i, "sds", tx.from)
    BY <2>1 DEF i
  <2> QED  BY <1>3, <2>2, <2>3 DEF Reads
<1>5. \A tx \in losses : FromLoss(LossOfTrust(tx)) = tx
  BY <1>1, <1>3, LossBack
<1> DEFINE all == {back(tx) : tx \in trusts} \cup losses
<1>6. all = {FromEdge(e) : e \in Entries(doc.tre)} \cup {FromLoss(l) : l \in Entries(doc.lot)}
  <2>1. {FromEdge(e) : e \in Entries(doc.tre)} = {back(tx) : tx \in trusts}
    BY <1>2
  <2>2. {FromLoss(l) : l \in Entries(doc.lot)} = {FromLoss(LossOfTrust(tx)) : tx \in losses}
    BY <1>2
  <2>3. {FromLoss(LossOfTrust(tx)) : tx \in losses} = losses
    BY <1>5
  <2> QED  BY <2>1, <2>2, <2>3
<1>7. OnePerHash(all)
  <2> SUFFICES ASSUME NEW x \in all, NEW y \in all, x.hash = y.hash PROVE x = y
    BY DEF OnePerHash
  <2>1. ASSUME NEW z \in all
        PROVE  \/ \E tx \in trusts : z = back(tx) /\ z.hash = tx.hash
               \/ z \in losses
    BY <1>4
  <2>2. \A a, b \in trusts \cup losses : a.hash = b.hash => a = b
    BY <1>1, <1>3 DEF OnePerHash
  <2>3. \A a \in trusts, b \in losses : a # b
    BY <1>3
  <2> HIDE DEF all, back
  <2> QED  BY <2>1, <2>2, <2>3
<1>8. Entries(parsed) = all
  <2> HIDE DEF all
  <2> QED  BY <1>2, <1>6, <1>7, ParsedIs
<1>9. RevocationsIn(parsed) = losses
  BY <1>3, <1>4, <1>8 DEF RevocationsIn
<1>10. TrustsIn(parsed) = {back(tx) : tx \in trusts}
  BY <1>3, <1>4, <1>8 DEF TrustsIn
<1> HIDE DEF all, parsed, back
<1> DEFINE revoked(tx) == \E r \in losses : Binds(r, tx)
           edge(tx) == [from |-> tx.from, to |-> tx.to, level |-> tx.level, hash |-> tx.hash,
                        revoked |-> revoked(tx)]
<1>11. buildTrustGraph(parsed) = {edge(tx) : tx \in {back(tx) : tx \in trusts}}
  BY <1>9, <1>10 DEF buildTrustGraph
<1>12. buildTrustGraph(txs) = {edge(tx) : tx \in trusts}
  BY DEF buildTrustGraph, trusts, losses
<1>13. \A tx \in trusts : edge(back(tx)) = edge(tx)
  BY <1>4 DEF Binds
<1>14. buildTrustGraph(parsed) = buildTrustGraph(txs)
  <2> HIDE DEF edge
  <2> QED  BY <1>11, <1>12, <1>13
<1>15. {<<e.hash, e.deleted>> : e \in Entries(doc.tre)}
         = {<<e.hash, e.revoked>> : e \in buildTrustGraph(txs)}
  <2>1. \A tx \in trusts :
           Edge(tx, txs).hash = edge(tx).hash /\ Edge(tx, txs).deleted = edge(tx).revoked
    BY DEF Edge, losses
  <2> HIDE DEF edge
  <2> QED  BY <1>2, <1>12, <2>1
<1> QED  BY <1>14, <1>15 DEF FilesGiveTheMapBack, doc, txs, parsed

(* For any wallets, addresses and levels and any number of records, what   *)
(* runTrustScan shows was published, and by or to the wallet it is said to *)
(* be from; matchOutboundTrustTx finds a wallet its own records to revoke, *)
(* or on Bitcoin those of a payment to it; buildTrustGraph marks an edge   *)
(* exactly when a revocation names its hash in the bare form; and          *)
(* parseSdsTrustImport gives back what buildSdsTrustExport wrote.          *)
THEOREM TrustMapTrue == TrustSpec => []TrustMapIsTrue
<1>1. TrustInv => RevokesWhatTouchesIt
  BY DEF RevokesWhatTouchesIt, TrustInv, LedgerInv, Parties
<1>2. TrustInv => TrustMapIsTrue
  BY <1>1, TellsNothingElse, TellsWhatIsRevoked, GivesTheMapBack DEF TrustMapIsTrue
<1> QED  BY <1>2, TrustStarts, TrustNextSafe, PTL DEF TrustSpec
=============================================================================
