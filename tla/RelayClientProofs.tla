-------------------------- MODULE RelayClientProofs --------------------------
(* Proofs about RelayClient: the promises, the cleanups, the connection and *)
(* the codes of the relying site's end of the relay.                        *)
EXTENDS RelayClient, SequenceTheorems, TLAPS

-----------------------------------------------------------------------------
(* The sequence that stands for the set #retired.                          *)

(* A fresh element at the end: no repetition, one longer.                  *)
LEMMA AppendFresh ==
  ASSUME NEW S, NEW s \in Seq(S), NEW e \in S, IsInjective(s), e \notin Range(s)
  PROVE  /\ Append(s, e) \in Seq(S) /\ IsInjective(Append(s, e))
         /\ Range(Append(s, e)) = Range(s) \cup {e}
         /\ Len(Append(s, e)) = Len(s) + 1
         /\ Head(Append(s, e)) \in Range(Append(s, e))
         /\ s # <<>> => Head(Append(s, e)) # e
<1> DEFINE t == Append(s, e)
<1>1. /\ t \in Seq(S) /\ t # <<>> /\ Len(t) = Len(s) + 1 /\ Len(s) \in Nat
      /\ DOMAIN t = 1..(Len(s) + 1) /\ DOMAIN s = 1..Len(s)
      /\ \A i \in 1..Len(s) : t[i] = s[i]
      /\ t[Len(s) + 1] = e
  BY AppendProperties, LenProperties
<1>2. Head(t) = t[1]
  BY <1>1
<1> HIDE DEF t
<1>3. Range(t) = Range(s) \cup {e}
  <2>1. \A x \in Range(t) : x \in Range(s) \cup {e}
    BY <1>1 DEF Range
  <2>2. \A x \in Range(s) \cup {e} : x \in Range(t)
    <3>1. e \in Range(t)
      BY <1>1 DEF Range
    <3>2. \A x \in Range(s) : x \in Range(t)
      BY <1>1 DEF Range
    <3> QED BY <3>1, <3>2
  <2> QED BY <2>1, <2>2
<1>4. IsInjective(t)
  <2> SUFFICES ASSUME NEW i \in 1..(Len(s) + 1), NEW j \in 1..(Len(s) + 1), t[i] = t[j]
               PROVE  i = j
    BY <1>1 DEF IsInjective
  <2>1. \A k \in 1..Len(s) : t[k] # e
    BY <1>1 DEF Range
  <2>2. CASE i \in 1..Len(s) /\ j \in 1..Len(s)
    BY <2>2, <1>1 DEF IsInjective
  <2>3. CASE i = Len(s) + 1 \/ j = Len(s) + 1
    BY <2>1, <2>3, <1>1
  <2> QED BY <2>2, <2>3, <1>1
<1>5. t[1] \in Range(t)
  BY <1>1 DEF Range
<1>6. s # <<>> => Len(s) >= 1
  BY <1>1, EmptySeq
<1>7. s # <<>> => t[1] # e
  <2> SUFFICES ASSUME Len(s) >= 1 PROVE t[1] # e
    BY <1>6
  <2>1. 1 \in 1..Len(s)
    BY <1>1
  <2>2. t[1] = s[1] /\ s[1] \in Range(s)
    BY <1>1, <2>1 DEF Range
  <2> QED BY <2>2
<1> QED BY <1>1, <1>2, <1>3, <1>4, <1>5, <1>7 DEF t

(* Without one element: the others, each still once.                       *)
LEMMA WithoutRest ==
  ASSUME NEW S, NEW s \in Seq(S), NEW e, IsInjective(s)
  PROVE  /\ Without(s, e) \in Seq(S) /\ IsInjective(Without(s, e))
         /\ Range(Without(s, e)) = Range(s) \ {e}
         /\ Len(Without(s, e)) = IF e \in Range(s) THEN Len(s) - 1 ELSE Len(s)
<1>1. CASE e \notin Range(s)
  BY <1>1 DEF Without
<1>2. CASE e \in Range(s)
  <2> DEFINE k == CHOOSE i \in DOMAIN s : s[i] = e
             t == RemoveAt(s, k)
  <2>1. k \in DOMAIN s /\ s[k] = e
    BY <1>2 DEF Range
  <2>2. Len(s) \in Nat /\ DOMAIN s = 1..Len(s) /\ \A i \in 1..Len(s) : s[i] \in S
    BY LenProperties
  <2> HIDE DEF k
  <2>3. k \in 1..Len(s) /\ k \in Int /\ k - 1 \in Int /\ k + 1 \in Int /\ 1 \in Int /\ Len(s) \in Int
    BY <2>1, <2>2
  <2>bounds. k \in Nat /\ Len(s) \in Nat /\ 1 <= k /\ k <= Len(s)
    BY <2>2, <2>3
  <2> DEFINE u == SubSeq(s, 1, k - 1)
             v == SubSeq(s, k + 1, Len(s))
  <2>4. u \in Seq(S) /\ Len(u) = k - 1 /\ \A i \in 1..(k - 1) : u[i] = s[i]
    <3>1. \A i \in 1..(k - 1) : s[i] \in S
      BY <2>2, <2>3
    <3> QED BY <3>1, <2>3, SubSeqProperties
  <2>5. v \in Seq(S) /\ Len(v) = Len(s) - k /\ \A i \in 1..(Len(s) - k) : v[i] = s[k + i]
    <3>1. \A i \in (k + 1)..Len(s) : s[i] \in S
      BY <2>2, <2>3
    <3>2. /\ v \in Seq(S)
          /\ Len(v) = IF k + 1 <= Len(s) THEN Len(s) - (k + 1) + 1 ELSE 0
          /\ \A i \in 1..(Len(s) - (k + 1) + 1) : v[i] = s[(k + 1) + i - 1]
      BY <3>1, <2>3, SubSeqProperties
    <3> HIDE DEF v
    <3>3. Len(v) = Len(s) - k
      <4>1. CASE k + 1 <= Len(s)
        <5>1. Len(v) = Len(s) - (k + 1) + 1
          BY <4>1, <3>2
        <5> QED BY <5>1, <2>2, <2>3
      <4>2. CASE ~(k + 1 <= Len(s))
        <5>1. Len(v) = 0
          BY <4>2, <3>2
        <5>2. k = Len(s)
          BY ONLY <4>2, <2>bounds
        <5>3. Len(s) - Len(s) = 0
          BY <2>2
        <5> QED BY <5>1, <5>2, <5>3
      <4> QED BY <4>1, <4>2
    <3>4. ASSUME NEW i \in 1..(Len(s) - k) PROVE v[i] = s[k + i]
      <4>1. i \in 1..(Len(s) - (k + 1) + 1) /\ (k + 1) + i - 1 = k + i
        BY <2>2, <2>3
      <4> QED BY <4>1, <3>2
    <3> QED BY <3>2, <3>3, <3>4
  <2> HIDE DEF u, v
  <2>6. /\ t \in Seq(S) /\ Len(t) = Len(s) - 1
        /\ \A i \in 1..(Len(s) - 1) : t[i] = IF i <= k - 1 THEN s[i] ELSE s[i + 1]
    <3>1. t = u \o v
      BY DEF t, u, v, RemoveAt
    <3> HIDE DEF t
    <3>2. /\ t \in Seq(S) /\ Len(t) = Len(u) + Len(v)
          /\ \A i \in 1..(Len(u) + Len(v)) : t[i] = IF i <= Len(u) THEN u[i] ELSE v[i - Len(u)]
      BY ONLY <3>1, <2>4, <2>5, ConcatProperties
    <3>3. Len(u) + Len(v) = Len(s) - 1
      BY <2>2, <2>3, <2>4, <2>5
    <3>4. ASSUME NEW i \in 1..(Len(s) - 1)
          PROVE  t[i] = IF i <= k - 1 THEN s[i] ELSE s[i + 1]
      <4>1. CASE i <= k - 1
        BY <4>1, <3>2, <3>3, <2>3, <2>4
      <4>2. CASE ~(i <= k - 1)
        <5>1. i - (k - 1) \in 1..(Len(s) - k) /\ k + (i - (k - 1)) = i + 1
          BY <4>2, <2>2, <2>3
        <5>2. t[i] = v[i - (k - 1)]
          BY <4>2, <3>2, <3>3, <2>4
        <5> QED BY <5>1, <5>2, <4>2, <2>5
      <4> QED BY <4>1, <4>2
    <3> QED BY <3>2, <3>3, <3>4
  <2>7. DOMAIN t = 1..(Len(s) - 1)
    BY <2>6, LenProperties
  <2> HIDE DEF t
  <2>8. \A i \in 1..Len(s) : s[i] = e => i = k
    BY <2>1, <2>2 DEF IsInjective
  <2>9. IsInjective(t)
    <3> SUFFICES ASSUME NEW i \in 1..(Len(s) - 1), NEW j \in 1..(Len(s) - 1), t[i] = t[j]
                 PROVE  i = j
      BY <2>7 DEF IsInjective
    <3> DEFINE f(x) == IF x <= k - 1 THEN x ELSE x + 1
    <3>1. f(i) \in 1..Len(s) /\ f(j) \in 1..Len(s) /\ (f(i) = f(j) => i = j)
      BY <2>2, <2>3
    <3>2. s[f(i)] = s[f(j)]
      BY <2>6
    <3> HIDE DEF f
    <3> QED BY <3>1, <3>2, <2>2 DEF IsInjective
  <2>10. Range(t) = Range(s) \ {e}
    <3>1. ASSUME NEW i \in 1..(Len(s) - 1) PROVE t[i] \in Range(s) \ {e}
      <4>1. CASE i <= k - 1
        <5>1. i \in 1..Len(s) /\ i # k
          BY <4>1, <2>2, <2>3
        <5>2. t[i] = s[i]
          BY <4>1, <2>6
        <5> QED BY <5>1, <5>2, <2>2, <2>8 DEF Range
      <4>2. CASE ~(i <= k - 1)
        <5>1. i + 1 \in 1..Len(s) /\ i + 1 # k
          BY <4>2, <2>2, <2>3
        <5>2. t[i] = s[i + 1]
          BY <4>2, <2>6
        <5> QED BY <5>1, <5>2, <2>2, <2>8 DEF Range
      <4> QED BY <4>1, <4>2
    <3>2. ASSUME NEW i \in 1..Len(s), i # k PROVE s[i] \in Range(t)
      <4>1. CASE i <= k - 1
        <5>1. i \in 1..(Len(s) - 1)
          BY <4>1, <2>2, <2>3
        <5> QED BY <5>1, <4>1, <2>6, <2>7 DEF Range
      <4>2. CASE ~(i <= k - 1)
        <5>1. i - 1 \in 1..(Len(s) - 1) /\ ~(i - 1 <= k - 1) /\ (i - 1) + 1 = i
          BY <4>2, <3>2, <2>2, <2>3
        <5> QED BY <5>1, <2>6, <2>7 DEF Range
      <4> QED BY <4>1, <4>2
    <3>3. \A x \in Range(t) : x \in Range(s) \ {e}
      BY <3>1, <2>7 DEF Range
    <3>4. \A x \in Range(s) \ {e} : x \in Range(t)
      BY <3>2, <2>1, <2>2 DEF Range
    <3> QED BY <3>3, <3>4
  <2>11. Without(s, e) = t
    BY <1>2 DEF Without, t, k
  <2> QED BY <1>2, <2>6, <2>9, <2>10, <2>11
<1> QED BY <1>1, <1>2

-----------------------------------------------------------------------------
(* The inductive invariant of the operations.  It speaks of books that may *)
(* be half way through a step: n operations exist, pend is the current one *)
(* and loose are those that a #retire or #complete under way has taken     *)
(* from #pending and not yet finished or given to #retired.                *)
BookSet ==
  [ops : [Ops -> Operation \cup {NoOperation}], retired : Seq(Ops),
   outbox : SUBSET Request, sent : SUBSET Request, evicted : SUBSET Ops]

Reg(p) == [type |-> "register", op |-> p]
Can(p) == [type |-> "cancel", op |-> p]

(* The phases of a pending object and what it awaits.                      *)
Sound(o) ==
  /\ o.task = "hash" => o.phase = "hashing"
  /\ o.task = "register" => o.phase = "registering"
  /\ o.redeems = 0 \/ (o.redeems = 1 /\ o.phase = "redeeming")
  /\ o.cleanupFinished => o.task = "none" /\ ~o.operationTimer
  /\ o.outcome = "not-started" => o.phase = "hashing"

(* An operation o: was its registration or a cancel sent, was it given up, *)
(* where is it kept, is its promise still owed, is the client destroyed?   *)
OpInv(o, reg, can, lost, place, owes, gone) ==
  /\ o \in Operation /\ Sound(o)
  /\ o.active <=> place = "pending"
  /\ o.active => o.outcome # "not-started"
  /\ o.cleanupFinished <=> place = "done"
  /\ o.cleaner # "none" => place = "retired" /\ can
  /\ o.phase = "hashing" => ~reg
  /\ ~o.cleanupFinished /\ reg => o.challenge
  /\ ~gone /\ o.cleanupFinished /\ reg =>
       o.outcome = "definitive-failure" \/ o.resolved \/ can \/ lost
  /\ o.settlements = IF o.active \/ owes THEN 0 ELSE 1

Place(b, p, pend, loose) ==
  IF p = pend THEN "pending"
  ELSE IF p \in Range(b.retired) THEN "retired"
  ELSE IF p \in loose THEN "loose" ELSE "done"

OpFacts(b, p, pend, loose, owed, gone) ==
  OpInv(b.ops[p], Reg(p) \in b.sent, Can(p) \in b.sent, p \in b.evicted,
        Place(b, p, pend, loose), p \in owed, gone)

(* Nobody is kept in two places.                                           *)
Apart(b, n, pend, loose) ==
  /\ n \in 0..MaxOps /\ pend \in 0..n /\ loose \subseteq 1..n
  /\ IsInjective(b.retired) /\ Range(b.retired) \subseteq 1..n
  /\ pend \notin Range(b.retired) /\ pend \notin loose
  /\ Range(b.retired) \cap loose = {}

(* Operations are numbered, and their calls no later than top, in order.   *)
Numbered(b, n, top) ==
  /\ \A p \in Ops : b.ops[p] # NoOperation <=> p <= n
  /\ \A p \in Ops : Reg(p) \in b.sent => p <= n
  /\ \A p \in 1..n : b.ops[p].call <= top
  /\ \A p, q \in 1..n : p < q => b.ops[p].call < b.ops[q].call

Ledger(b, n, pend, loose, owed, gone, top, gen, prior) ==
  /\ b \in BookSet
  /\ Apart(b, n, pend, loose)
  /\ Numbered(b, n, top)
  /\ \A p \in 1..n : OpFacts(b, p, pend, loose, owed, gone)
  /\ pend # 0 => b.ops[pend].generation = gen /\ b.ops[pend].prior = prior

LEMMA BornAreApart == NoOperation \notin Operation
BY DEF NoOperation, Operation, Phases

(* Operation p becomes o, or goes from one place to another, and nothing   *)
(* else does.                                                              *)
Moves(b, c, n, p, o, pend, loose, owed, gen, prior, pend2, loose2, owed2, gen2, prior2) ==
  /\ c \in BookSet /\ p \in 1..n /\ o \in Operation
  /\ c.ops = [b.ops EXCEPT ![p] = o] /\ o.call = b.ops[p].call
  /\ \A q \in 1..n : q # p => /\ Place(c, q, pend2, loose2) = Place(b, q, pend, loose)
                              /\ q \in owed2 <=> q \in owed
  /\ \A q \in Ops : q # p => /\ Reg(q) \in c.sent <=> Reg(q) \in b.sent
                             /\ Can(q) \in c.sent <=> Can(q) \in b.sent
                             /\ q \in c.evicted <=> q \in b.evicted
  /\ pend2 # 0 => IF pend2 = p THEN o.generation = gen2 /\ o.prior = prior2
                  ELSE pend2 = pend /\ gen2 = gen /\ prior2 = prior

(* The ledger is kept if it is in order for that operation.                *)
LEMMA OneMoves ==
  ASSUME NEW b, NEW n, NEW pend, NEW loose, NEW owed, NEW gone, NEW top, NEW gen, NEW prior,
         Ledger(b, n, pend, loose, owed, gone, top, gen, prior),
         NEW c, NEW p, NEW o, NEW pend2, NEW loose2, NEW owed2, NEW gen2, NEW prior2,
         Moves(b, c, n, p, o, pend, loose, owed, gen, prior, pend2, loose2, owed2, gen2, prior2),
         Apart(c, n, pend2, loose2),
         OpFacts(c, p, pend2, loose2, owed2, gone)
  PROVE  Ledger(c, n, pend2, loose2, owed2, gone, top, gen2, prior2)
<1>1. n \in Nat /\ n <= MaxOps /\ 1..n \subseteq Ops /\ p \in Ops /\ p <= n
  BY RelayClientAssumption DEF Ledger, Apart, Ops, Moves
<1>2. b \in BookSet /\ b.ops \in [Ops -> Operation \cup {NoOperation}] /\ DOMAIN b.ops = Ops
  BY DEF Ledger, BookSet
<1>3. c.ops[p] = o /\ \A q \in Ops : q # p => c.ops[q] = b.ops[q]
  BY <1>1, <1>2 DEF Moves
<1>4. Numbered(c, n, top)
  <2>1. \A q \in Ops : c.ops[q] # NoOperation <=> q <= n
    BY <1>1, <1>3, BornAreApart DEF Ledger, Numbered, Moves
  <2>2. \A q \in Ops : Reg(q) \in c.sent => q <= n
    BY <1>1 DEF Ledger, Numbered, Moves
  <2>3. \A q \in 1..n : c.ops[q].call = b.ops[q].call
    BY <1>1, <1>3 DEF Moves
  <2>4. \A q \in 1..n : c.ops[q].call <= top
    BY <2>3 DEF Ledger, Numbered
  <2>5. \A q, r \in 1..n : q < r => c.ops[q].call < c.ops[r].call
    BY <2>3 DEF Ledger, Numbered
  <2> QED BY <2>1, <2>2, <2>4, <2>5 DEF Numbered
<1>5. ASSUME NEW q \in 1..n PROVE OpFacts(c, q, pend2, loose2, owed2, gone)
  <2>1. CASE q # p
    <3>1. OpFacts(b, q, pend, loose, owed, gone)
      BY DEF Ledger
    <3>2. /\ c.ops[q] = b.ops[q] /\ Place(c, q, pend2, loose2) = Place(b, q, pend, loose)
          /\ (q \in owed2) = (q \in owed)
          /\ (Reg(q) \in c.sent) = (Reg(q) \in b.sent)
          /\ (Can(q) \in c.sent) = (Can(q) \in b.sent)
          /\ (q \in c.evicted) = (q \in b.evicted)
      BY <1>1, <1>3, <2>1 DEF Moves
    <3> QED BY <3>1, <3>2 DEF OpFacts
  <2>2. CASE q = p
    BY <2>2
  <2> QED BY <2>1, <2>2
<1>6. pend2 # 0 => c.ops[pend2].generation = gen2 /\ c.ops[pend2].prior = prior2
  <2> SUFFICES ASSUME pend2 # 0 
               PROVE  c.ops[pend2].generation = gen2 /\ c.ops[pend2].prior = prior2
    OBVIOUS
  <2>1. CASE pend2 = p
    BY <2>1, <1>3 DEF Moves
  <2>2. CASE pend2 # p
    <3>1. pend2 = pend /\ gen2 = gen /\ prior2 = prior /\ pend2 \in Ops
      BY <2>2, <1>1 DEF Apart, Ops, Moves
    <3> QED BY <3>1, <2>2, <1>3 DEF Ledger
  <2> QED BY <2>1, <2>2
<1> QED BY <1>4, <1>5, <1>6 DEF Ledger, Moves

-----------------------------------------------------------------------------
(* What the operators on books do to each field.                           *)
SetOp(b, p, o) == [b EXCEPT !.ops[p] = o]

LEMMA SetOpIs ==
  ASSUME NEW b \in BookSet, NEW p \in Ops, NEW o \in Operation
  PROVE  LET c == SetOp(b, p, o)
         IN  /\ c \in BookSet
             /\ c.ops = [b.ops EXCEPT ![p] = o] /\ c.ops[p] = o
             /\ c.retired = b.retired /\ c.outbox = b.outbox
             /\ c.sent = b.sent /\ c.evicted = b.evicted
BY DEF SetOp, BookSet

LEMMA SendIs ==
  ASSUME NEW b \in BookSet, NEW p \in Ops, NEW type \in {"register", "redeem", "cancel"}
  PROVE  LET c == Send(b, type, p)
         IN  /\ c \in BookSet
             /\ c.ops = b.ops /\ c.retired = b.retired /\ c.evicted = b.evicted
             /\ c.outbox = b.outbox \cup {[type |-> type, op |-> p]}
             /\ c.sent = b.sent \cup {[type |-> type, op |-> p]}
<1>1. [type |-> type, op |-> p] \in Request
  BY DEF Request
<1> QED BY <1>1 DEF Send, BookSet

(* What the end of the cleanup and the move of an operation never change.  *)
Kept(o, k) ==
  /\ k.kind = o.kind /\ k.call = o.call /\ k.generation = o.generation /\ k.active = o.active
  /\ k.phase = o.phase /\ k.outcome = o.outcome /\ k.settlements = o.settlements
  /\ k.resolved = o.resolved /\ k.redeems = o.redeems

LEMMA FinishedIs ==
  ASSUME NEW o \in Operation, Sound(o)
  PROVE  /\ Finished(o) \in Operation /\ Sound(Finished(o)) /\ Kept(o, Finished(o))
         /\ Finished(o).cleanupFinished
         /\ Finished(o).cleaner \in {"none", o.cleaner}
         /\ ~o.cleanupFinished => Finished(o).cleaner = "none"
<1>1. CASE o.cleanupFinished
  <2>1. Finished(o) = o
    BY <1>1 DEF Finished
  <2> QED BY <1>1, <2>1 DEF Kept
<1>2. CASE ~o.cleanupFinished
  <2> DEFINE f == Finished(o)
  <2>1. f = [o EXCEPT !.cleanupFinished = TRUE, !.operationTimer = FALSE,
                 !.expiryTimer = FALSE, !.pollTimer = FALSE, !.task = "none",
                 !.cleaner = "none", !.challenge = FALSE, !.prior = NoConnection,
                 !.expires = 0]
    BY <1>2 DEF Finished
  <2>2. 0 \in Readings
    BY RelayClientAssumption DEF Readings
  <2>3. f \in Operation
    <3> DEFINE h == [o EXCEPT !.cleanupFinished = TRUE, !.operationTimer = FALSE,
                              !.expiryTimer = FALSE, !.pollTimer = FALSE]
    <3>1. h \in Operation
      BY DEF Operation
    <3>2. f = [h EXCEPT !.task = "none", !.cleaner = "none", !.challenge = FALSE,
                        !.prior = NoConnection, !.expires = 0]
      BY <2>1
    <3> HIDE DEF f, h
    <3> QED BY <3>1, <3>2, <2>2 DEF Operation
  <2>4. /\ Kept(o, f) /\ f.cleanupFinished /\ f.cleaner = "none" /\ f.task = "none"
        /\ f.operationTimer = FALSE
    BY <2>1 DEF Operation, Kept
  <2> HIDE DEF f
  <2>5. Sound(f)
    BY <2>4 DEF Sound, Kept
  <2> QED BY <2>3, <2>4, <2>5 DEF f
<1> QED BY <1>1, <1>2

LEMMA FinishCleanupIs ==
  ASSUME NEW b \in BookSet, NEW p \in Ops, b.ops[p] \in Operation, Sound(b.ops[p]),
         IsInjective(b.retired)
  PROVE  LET c == FinishCleanup(b, p)
         IN  /\ c \in BookSet
             /\ c.ops = [b.ops EXCEPT ![p] = Finished(b.ops[p])]
             /\ c.ops[p] = Finished(b.ops[p])
             /\ c.retired = Without(b.retired, p) /\ c.outbox = b.outbox
             /\ c.sent = b.sent /\ c.evicted = b.evicted
             /\ IsInjective(c.retired) /\ Range(c.retired) = Range(b.retired) \ {p}
             /\ Len(c.retired) <= Len(b.retired)
             /\ p \in Range(b.retired) => Len(c.retired) = Len(b.retired) - 1
<1>1. Finished(b.ops[p]) \in Operation
  BY FinishedIs
<1>2. b.retired \in Seq(Ops) /\ Len(b.retired) \in Nat
  BY LenProperties DEF BookSet
<1> DEFINE s == Without(b.retired, p)
<1>3. /\ s \in Seq(Ops) /\ IsInjective(s) /\ Range(s) = Range(b.retired) \ {p}
      /\ Len(s) = IF p \in Range(b.retired) THEN Len(b.retired) - 1 ELSE Len(b.retired)
  BY <1>2, WithoutRest
<1> HIDE DEF s
<1>4. Len(s) <= Len(b.retired)
  BY <1>2, <1>3
<1> DEFINE c == FinishCleanup(b, p)
<1>5. /\ c \in BookSet
      /\ c.ops = [b.ops EXCEPT ![p] = Finished(b.ops[p])]
      /\ c.ops[p] = Finished(b.ops[p])
      /\ c.retired = s /\ c.outbox = b.outbox
      /\ c.sent = b.sent /\ c.evicted = b.evicted
  BY <1>1, <1>3 DEF FinishCleanup, BookSet, s
<1> QED BY <1>3, <1>4, <1>5 DEF s

-----------------------------------------------------------------------------
(* The operators on books keep the ledger.                                 *)
LEMMA LedgerTypes ==
  ASSUME NEW b, NEW n, NEW pend, NEW loose, NEW owed, NEW gone, NEW top, NEW gen, NEW prior,
         Ledger(b, n, pend, loose, owed, gone, top, gen, prior)
  PROVE  /\ b \in BookSet /\ b.ops \in [Ops -> Operation \cup {NoOperation}]
         /\ b.retired \in Seq(Ops) /\ IsInjective(b.retired)
         /\ n \in Nat /\ n <= MaxOps /\ pend \in Nat /\ pend <= n
         /\ 1..n \subseteq Ops /\ Range(b.retired) \subseteq 1..n /\ loose \subseteq 1..n
         /\ pend # 0 => pend \in 1..n
         /\ \A p \in 1..n : p \in Ops /\ b.ops[p] \in Operation /\ Sound(b.ops[p])
BY RelayClientAssumption DEF Ledger, BookSet, Apart, Ops, OpFacts, OpInv

(* An end of the cleanup: allowed when the registration needs no           *)
(* withdrawal any more.                                                    *)
Excused(b, p) ==
  \/ b.ops[p].outcome = "definitive-failure" \/ b.ops[p].resolved
  \/ Can(p) \in b.sent \/ p \in b.evicted

MayFinish(b, p, gone) == gone \/ Reg(p) \notin b.sent \/ Excused(b, p)

LEMMA FinishKeeps ==
  ASSUME NEW b, NEW n, NEW pend, NEW loose, NEW owed, NEW gone, NEW top, NEW gen, NEW prior,
         Ledger(b, n, pend, loose, owed, gone, top, gen, prior),
         NEW p \in Range(b.retired) \cup loose,
         MayFinish(b, p, gone)
  PROVE  Ledger(FinishCleanup(b, p), n, pend, loose \ {p}, owed, gone, top, gen, prior)
<1> DEFINE c == FinishCleanup(b, p)
           o == Finished(b.ops[p])
<1>1. /\ b \in BookSet /\ IsInjective(b.retired) /\ p \in 1..n /\ p \in Ops
      /\ b.ops[p] \in Operation /\ Sound(b.ops[p]) /\ 1..n \subseteq Ops
      /\ b.ops \in [Ops -> Operation \cup {NoOperation}]
  BY LedgerTypes
<1>2. /\ c \in BookSet /\ c.ops = [b.ops EXCEPT ![p] = o] /\ c.ops[p] = o
      /\ c.outbox = b.outbox /\ c.sent = b.sent /\ c.evicted = b.evicted
  BY <1>1, FinishCleanupIs
<1>3. IsInjective(c.retired) /\ Range(c.retired) = Range(b.retired) \ {p}
  BY <1>1, FinishCleanupIs
<1>5. /\ o \in Operation /\ Sound(o) /\ Kept(b.ops[p], o) /\ o.cleanupFinished
      /\ o.cleaner \in {"none", b.ops[p].cleaner}
      /\ ~b.ops[p].cleanupFinished => o.cleaner = "none"
  BY <1>1, FinishedIs
<1> HIDE DEF c, o
<1>6. p # pend /\ Apart(c, n, pend, loose \ {p}) /\ loose \ {p} \subseteq 1..n
  BY <1>1, <1>3 DEF Ledger, Apart
<1>7. Place(b, p, pend, loose) \in {"retired", "loose"} /\ Place(c, p, pend, loose \ {p}) = "done"
  BY <1>3, <1>6 DEF Place
<1>8. OpFacts(c, p, pend, loose \ {p}, owed, gone)
  <2>1. OpFacts(b, p, pend, loose, owed, gone)
    BY <1>1 DEF Ledger
  <2>2. c.ops[p] = o
    BY <1>1, <1>2
  <2>3. ~b.ops[p].cleanupFinished /\ ~b.ops[p].active
    BY <2>1, <1>7 DEF OpFacts, OpInv
  <2>4. o.cleaner = "none" /\ ~o.active
    BY <2>3, <1>5 DEF Kept
  <2>5. o.settlements = IF o.active \/ p \in owed THEN 0 ELSE 1
    BY <2>1, <1>5 DEF Kept, OpFacts, OpInv
  <2>6. o.phase = "hashing" => Reg(p) \notin b.sent
    BY <2>1, <1>5 DEF Kept, OpFacts, OpInv
  <2>7. ~gone /\ Reg(p) \in b.sent =>
          o.outcome = "definitive-failure" \/ o.resolved \/ Can(p) \in b.sent \/ p \in b.evicted
    BY <1>5 DEF Kept, Excused, MayFinish
  <2> QED BY <2>2, <2>4, <2>5, <2>6, <2>7, <1>2, <1>5, <1>7 DEF OpFacts, OpInv
<1>9. \A q \in 1..n : q # p => Place(c, q, pend, loose \ {p}) = Place(b, q, pend, loose)
  BY <1>3 DEF Place
<1>10. o.call = b.ops[p].call
  BY <1>5 DEF Kept
<1>11. Ledger(c, n, pend, loose \ {p}, owed, gone, top, gen, prior)
  <2>1. Moves(b, c, n, p, o, pend, loose, owed, gen, prior, pend, loose \ {p}, owed, gen, prior)
    BY <1>1, <1>2, <1>5, <1>6, <1>9, <1>10 DEF Moves
  <2> QED BY ONLY <2>1, <1>6, <1>8, OneMoves,
              Ledger(b, n, pend, loose, owed, gone, top, gen, prior)
<1> QED BY <1>11 DEF c

(* #addRetired of an operation that is kept nowhere else: it is kept in    *)
(* #retired, and the oldest makes room.                                    *)
Adding(b, p) == [b EXCEPT !.retired = Append(@, p)]
Evicting(b, p) == [Adding(b, p) EXCEPT !.evicted = @ \cup {Head(Append(b.retired, p))}]

Addable(b, p) ==
  /\ b \in BookSet /\ p \in Ops /\ IsInjective(b.retired) /\ p \notin Range(b.retired)
  /\ b.ops[p] \in Operation /\ ~b.ops[p].cleanupFinished
  /\ \A q \in Range(b.retired) : b.ops[q] \in Operation /\ Sound(b.ops[q])
  /\ Len(b.retired) <= MaxRetired

LEMMA AddRetiredIs ==
  ASSUME NEW b, NEW p, Addable(b, p)
  PROVE  LET a == Adding(b, p)
             e == Evicting(b, p)
             old == Head(Append(b.retired, p))
             c == AddRetired(b, p)
         IN  /\ a \in BookSet /\ a.retired = Append(b.retired, p)
             /\ a.ops = b.ops /\ a.sent = b.sent /\ a.outbox = b.outbox /\ a.evicted = b.evicted
             /\ e \in BookSet /\ e.retired = Append(b.retired, p)
             /\ e.ops = b.ops /\ e.sent = b.sent /\ e.outbox = b.outbox
             /\ e.evicted = b.evicted \cup {old}
             /\ IsInjective(Append(b.retired, p))
             /\ Range(Append(b.retired, p)) = Range(b.retired) \cup {p}
             /\ \/ c = a
                \/ c = FinishCleanup(e, old) /\ old # p /\ old \in Range(b.retired)
             /\ p \in Range(c.retired) /\ Len(c.retired) <= MaxRetired
             /\ c.sent = b.sent /\ c.outbox = b.outbox /\ c.ops[p] = b.ops[p]
             /\ c \in BookSet /\ IsInjective(c.retired)
             /\ \A q \in Ops : q \notin Range(b.retired) => c.ops[q] = b.ops[q]
<1> DEFINE a == Adding(b, p)
           e == Evicting(b, p)
           old == Head(Append(b.retired, p))
           c == AddRetired(b, p)
<1>1. /\ b \in BookSet /\ b.retired \in Seq(Ops) /\ IsInjective(b.retired) /\ p \in Ops
      /\ p \notin Range(b.retired)
      /\ b.ops \in [Ops -> Operation \cup {NoOperation}] /\ b.evicted \subseteq Ops
      /\ Range(b.retired) \subseteq Ops /\ Len(b.retired) <= MaxRetired
  BY RangeOfSeq DEF Addable, BookSet
<1>2. /\ Append(b.retired, p) \in Seq(Ops) /\ IsInjective(Append(b.retired, p))
      /\ Range(Append(b.retired, p)) = Range(b.retired) \cup {p}
      /\ Len(Append(b.retired, p)) = Len(b.retired) + 1
      /\ Head(Append(b.retired, p)) \in Range(Append(b.retired, p))
      /\ b.retired # <<>> => Head(Append(b.retired, p)) # p
  BY <1>1, AppendFresh
<1>3. /\ a \in BookSet /\ a.retired = Append(b.retired, p)
      /\ a.ops = b.ops /\ a.sent = b.sent /\ a.outbox = b.outbox /\ a.evicted = b.evicted
  BY <1>1, <1>2 DEF BookSet, Adding
<1>4. old \in Ops /\ old \in Range(b.retired) \cup {p} /\ Len(b.retired) \in Nat
  BY <1>1, <1>2, LenProperties
<1>5. /\ e \in BookSet /\ e.retired = Append(b.retired, p)
      /\ e.ops = b.ops /\ e.sent = b.sent /\ e.outbox = b.outbox
      /\ e.evicted = b.evicted \cup {old}
  BY <1>1, <1>3, <1>4 DEF BookSet, Evicting
<1>6. c = IF Len(a.retired) <= MaxRetired THEN a
          ELSE [FinishCleanup(a, Head(a.retired)) EXCEPT !.evicted = @ \cup {Head(a.retired)}]
  BY DEF AddRetired, Adding, Addable
<1>7. [FinishCleanup(a, old) EXCEPT !.evicted = @ \cup {old}] = FinishCleanup(e, old)
  BY <1>3, <1>5 DEF FinishCleanup, BookSet, Evicting
<1> HIDE DEF a, e, c, old
<1>8. CASE Len(a.retired) <= MaxRetired
  <2>1. c = a
    BY <1>6, <1>8
  <2> QED BY <2>1, <1>2, <1>3, <1>5, <1>8 DEF a, e, c, old
<1>9. CASE ~(Len(a.retired) <= MaxRetired)
  <2>1. c = FinishCleanup(e, old)
    BY <1>3, <1>6, <1>7, <1>9 DEF old
  <2>2. Len(a.retired) = Len(b.retired) + 1 /\ Len(b.retired) >= 1 /\ Len(b.retired) = MaxRetired
    BY <1>1, <1>2, <1>3, <1>4, <1>9, RelayClientAssumption
  <2>3. old # p /\ old \in Range(b.retired)
    <3>1. b.retired # <<>>
      BY <2>2, EmptySeq
    <3> QED BY <3>1, <1>2, <1>4 DEF old
  <2>4. b.ops[old] \in Operation /\ Sound(b.ops[old])
    BY <2>3 DEF Addable
  <2>5. /\ Range(c.retired) = (Range(b.retired) \cup {p}) \ {old}
        /\ Len(c.retired) = Len(b.retired) + 1 - 1
        /\ c.sent = b.sent /\ c.outbox = b.outbox /\ c.evicted = b.evicted \cup {old}
        /\ c.ops = [b.ops EXCEPT ![old] = Finished(b.ops[old])]
        /\ c \in BookSet /\ IsInjective(c.retired)
    <3>1. e \in BookSet /\ old \in Ops /\ e.ops[old] \in Operation /\ Sound(e.ops[old])
          /\ IsInjective(e.retired) /\ old \in Range(e.retired)
      BY <2>3, <2>4, <1>2, <1>4, <1>5
    <3>2. /\ Range(c.retired) = Range(e.retired) \ {old}
          /\ Len(c.retired) = Len(e.retired) - 1
          /\ c.sent = e.sent /\ c.outbox = e.outbox /\ c.evicted = e.evicted
          /\ c.ops = [e.ops EXCEPT ![old] = Finished(e.ops[old])]
          /\ c \in BookSet /\ IsInjective(c.retired)
      BY ONLY <3>1, <2>1, FinishCleanupIs
    <3> QED BY <3>2, <1>2, <1>5
  <2>6. Len(c.retired) <= MaxRetired
    BY <2>2, <2>5
  <2>7. p \in Range(c.retired) /\ c.ops[p] = b.ops[p]
    BY <2>3, <2>5, <1>1
  <2>8. \A q \in Ops : q \notin Range(b.retired) => c.ops[q] = b.ops[q]
    BY <2>3, <2>5, <1>1
  <2> QED BY <2>1, <2>3, <2>5, <2>6, <2>7, <2>8, <1>2, <1>3, <1>5 DEF a, e, c, old
<1> QED BY <1>8, <1>9

LEMMA AddRetiredKeeps ==
  ASSUME NEW b, NEW n, NEW pend, NEW loose, NEW owed, NEW gone, NEW top, NEW gen, NEW prior,
         Ledger(b, n, pend, loose, owed, gone, top, gen, prior),
         NEW p \in loose, Len(b.retired) <= MaxRetired
  PROVE  /\ Ledger(AddRetired(b, p), n, pend, loose \ {p}, owed, gone, top, gen, prior)
         /\ Addable(b, p)
<1> DEFINE a == Adding(b, p)
           e == Evicting(b, p)
           c == AddRetired(b, p)
           old == Head(Append(b.retired, p))
<1>1. /\ b \in BookSet /\ b.retired \in Seq(Ops) /\ IsInjective(b.retired) /\ p \in 1..n /\ p \in Ops
      /\ b.ops[p] \in Operation /\ 1..n \subseteq Ops
      /\ Range(b.retired) \subseteq 1..n
      /\ \A q \in 1..n : q \in Ops /\ b.ops[q] \in Operation /\ Sound(b.ops[q])
  BY LedgerTypes
<1>2. p # pend /\ p \notin Range(b.retired) /\ Place(b, p, pend, loose) = "loose"
  BY DEF Ledger, Apart, Place
<1>3. OpFacts(b, p, pend, loose, owed, gone) /\ ~b.ops[p].cleanupFinished
  BY <1>1, <1>2 DEF Ledger, OpFacts, OpInv
<1>4. Addable(b, p)
  BY <1>1, <1>2, <1>3 DEF Addable
<1>5. /\ a \in BookSet /\ a.retired = Append(b.retired, p)
      /\ a.ops = b.ops /\ a.sent = b.sent /\ a.outbox = b.outbox /\ a.evicted = b.evicted
      /\ e \in BookSet /\ e.retired = Append(b.retired, p)
      /\ e.ops = b.ops /\ e.sent = b.sent /\ e.outbox = b.outbox
      /\ e.evicted = b.evicted \cup {old}
      /\ IsInjective(Append(b.retired, p))
      /\ Range(Append(b.retired, p)) = Range(b.retired) \cup {p}
      /\ \/ c = a
         \/ c = FinishCleanup(e, old) /\ old # p /\ old \in Range(b.retired)
  BY ONLY <1>4, AddRetiredIs
<1> HIDE DEF a, e, c, old
<1>6. ASSUME NEW d \in {a, e}
      PROVE  Ledger(d, n, pend, loose \ {p}, owed, gone, top, gen, prior)
  <2>1. /\ d \in BookSet /\ d.retired = Append(b.retired, p)
        /\ d.ops = b.ops /\ d.sent = b.sent
    BY <1>5
  <2>2. Apart(d, n, pend, loose \ {p})
    BY <1>1, <1>2, <1>5, <2>1 DEF Ledger, Apart
  <2>3. \A q \in 1..n : q # p => Place(d, q, pend, loose \ {p}) = Place(b, q, pend, loose)
    BY <1>5, <2>1 DEF Place
  <2>4. Place(d, p, pend, loose \ {p}) = "retired"
    BY <1>2, <1>5, <2>1 DEF Place
  <2>5. ASSUME NEW q \in 1..n PROVE OpFacts(d, q, pend, loose \ {p}, owed, gone)
    <3>1. CASE q = p
      <4>1. b.ops[p].cleaner = "none" /\ ~b.ops[p].active
        BY <1>2, <1>3 DEF OpFacts, OpInv
      <4> QED BY <4>1, <3>1, <2>1, <2>4, <1>3 DEF OpFacts, OpInv
    <3>2. CASE q # p
      <4>1. OpFacts(b, q, pend, loose, owed, gone) /\ Place(d, q, pend, loose \ {p}) = Place(b, q, pend, loose)
        BY <2>3, <3>2 DEF Ledger
      <4>2. q \in b.evicted => q \in d.evicted
        BY <1>5
      <4> QED BY <4>1, <4>2, <2>1 DEF OpFacts, OpInv
    <3> QED BY <3>1, <3>2
  <2> QED BY <2>1, <2>2, <2>5 DEF Ledger, Numbered
<1>7. CASE c = a
  BY <1>4, <1>6, <1>7 DEF c
<1>8. CASE c = FinishCleanup(e, old) /\ old # p /\ old \in Range(b.retired)
  <2>1. MayFinish(e, old, gone)
    BY <1>5 DEF Excused, MayFinish
  <2>2. Ledger(e, n, pend, loose \ {p}, owed, gone, top, gen, prior)
    BY <1>6
  <2>3. old \in Range(e.retired) \cup (loose \ {p})
    BY <1>5, <1>8
  <2>4. Ledger(FinishCleanup(e, old), n, pend, (loose \ {p}) \ {old}, owed, gone, top, gen, prior)
    BY ONLY <2>1, <2>2, <2>3, FinishKeeps
  <2>5. (loose \ {p}) \ {old} = loose \ {p}
    BY <1>8 DEF Ledger, Apart
  <2> QED BY <2>4, <2>5, <1>4, <1>8 DEF c
<1> QED BY <1>5, <1>7, <1>8

(* An operation that is not finished advances where it is.                 *)
InPlace(b, c, p, o) ==
  /\ c \in BookSet /\ o \in Operation /\ Sound(o)
  /\ c.ops = [b.ops EXCEPT ![p] = o] /\ c.retired = b.retired /\ c.evicted = b.evicted
  /\ \A q \in Ops : q # p => /\ Reg(q) \in c.sent <=> Reg(q) \in b.sent
                             /\ Can(q) \in c.sent <=> Can(q) \in b.sent
  /\ o.call = b.ops[p].call /\ o.generation = b.ops[p].generation
  /\ o.active = b.ops[p].active /\ o.prior = b.ops[p].prior
  /\ o.settlements = b.ops[p].settlements
  /\ ~b.ops[p].cleanupFinished /\ ~o.cleanupFinished
  /\ o.cleaner # "none" => p \in Range(c.retired) /\ Can(p) \in c.sent
  /\ o.phase = "hashing" => Reg(p) \notin c.sent
  /\ Reg(p) \in c.sent => o.challenge
  /\ o.active => o.outcome # "not-started"

LEMMA ProgressKeeps ==
  ASSUME NEW b, NEW n, NEW pend, NEW loose, NEW owed, NEW gone, NEW top, NEW gen, NEW prior,
         Ledger(b, n, pend, loose, owed, gone, top, gen, prior),
         NEW p \in 1..n, NEW c, NEW o, InPlace(b, c, p, o)
  PROVE  Ledger(c, n, pend, loose, owed, gone, top, gen, prior)
<1>1. /\ b \in BookSet /\ p \in Ops /\ b.ops[p] \in Operation /\ 1..n \subseteq Ops
      /\ b.ops \in [Ops -> Operation \cup {NoOperation}]
      /\ pend # 0 => pend \in 1..n
  BY LedgerTypes
<1>2. Apart(c, n, pend, loose)
  BY DEF Ledger, Apart, InPlace
<1>3. \A q \in 1..n : Place(c, q, pend, loose) = Place(b, q, pend, loose)
  BY DEF InPlace, Place
<1>4. pend # 0 => IF pend = p THEN o.generation = gen /\ o.prior = prior
                  ELSE pend = pend /\ gen = gen /\ prior = prior
  BY DEF Ledger, InPlace
<1>5. Moves(b, c, n, p, o, pend, loose, owed, gen, prior, pend, loose, owed, gen, prior)
  BY <1>3, <1>4 DEF Moves, InPlace
<1>6. OpFacts(c, p, pend, loose, owed, gone)
  <2>1. OpFacts(b, p, pend, loose, owed, gone)
    BY DEF Ledger
  <2>2. c.ops[p] = o
    BY <1>1 DEF InPlace
  <2>3. o.active <=> Place(c, p, pend, loose) = "pending"
    BY <2>1, <1>3 DEF OpFacts, OpInv, InPlace
  <2>4. Place(c, p, pend, loose) # "done"
    BY <2>1, <1>3 DEF OpFacts, OpInv, InPlace
  <2>5. o.cleaner # "none" => Place(c, p, pend, loose) = "retired"
    BY <1>2 DEF InPlace, Place, Apart
  <2>6. o.settlements = IF o.active \/ p \in owed THEN 0 ELSE 1
    BY <2>1 DEF OpFacts, OpInv, InPlace
  <2> QED BY <2>2, <2>3, <2>4, <2>5, <2>6 DEF OpFacts, OpInv, InPlace
<1> QED BY ONLY <1>2, <1>5, <1>6, OneMoves,
            Ledger(b, n, pend, loose, owed, gone, top, gen, prior)

LEMMA CancelKeeps ==
  ASSUME NEW b, NEW n, NEW pend, NEW loose, NEW owed, NEW gone, NEW top, NEW gen, NEW prior,
         Ledger(b, n, pend, loose, owed, gone, top, gen, prior),
         NEW p \in Range(b.retired), Len(b.retired) <= MaxRetired
  PROVE  /\ Ledger(CancelOnce(b, p), n, pend, loose, owed, gone, top, gen, prior)
         /\ Len(CancelOnce(b, p).retired) <= MaxRetired
<1> DEFINE o == b.ops[p]
<1>1. /\ b \in BookSet /\ IsInjective(b.retired) /\ p \in 1..n /\ p \in Ops
      /\ o \in Operation /\ Sound(o) /\ 1..n \subseteq Ops /\ b.retired \in Seq(Ops)
      /\ b.ops \in [Ops -> Operation \cup {NoOperation}]
  BY LedgerTypes
<1>2. p # pend /\ Place(b, p, pend, loose) = "retired" /\ p \notin loose
  BY DEF Ledger, Apart, Place
<1>3. OpFacts(b, p, pend, loose, owed, gone) /\ ~o.cleanupFinished
  BY <1>1, <1>2 DEF Ledger, OpFacts, OpInv
<1>4. CASE ~o.challenge
  <2>1. Reg(p) \notin b.sent
    BY <1>3, <1>4 DEF OpFacts, OpInv
  <2>2. MayFinish(b, p, gone)
    BY <2>1 DEF MayFinish
  <2>3. Ledger(FinishCleanup(b, p), n, pend, loose \ {p}, owed, gone, top, gen, prior)
    BY <2>2, FinishKeeps
  <2>4. loose \ {p} = loose
    BY <1>2
  <2>5. Len(FinishCleanup(b, p).retired) <= Len(b.retired)
        /\ Len(FinishCleanup(b, p).retired) = Len(b.retired) - 1
    BY <1>1, FinishCleanupIs
  <2>6. Len(b.retired) \in Nat
    BY <1>1, LenProperties
  <2>7. CancelOnce(b, p) = FinishCleanup(b, p)
    BY <1>4 DEF CancelOnce
  <2>8. Len(FinishCleanup(b, p).retired) <= MaxRetired
    BY <2>5, <2>6, RelayClientAssumption
  <2> QED BY <2>3, <2>4, <2>7, <2>8
<1>5. CASE o.challenge
  <2> DEFINE d == Send(b, "cancel", p)
             k == [o EXCEPT !.cleaner = "cancel"]
             c == SetOp(d, p, k)
  <2>1. /\ k \in Operation /\ k.cleaner = "cancel" /\ Kept(o, k)
        /\ k.prior = o.prior /\ k.challenge = o.challenge /\ k.task = o.task
        /\ k.cleanupFinished = o.cleanupFinished /\ k.operationTimer = o.operationTimer
    BY <1>1 DEF Operation, Kept
  <2>2. /\ d \in BookSet
        /\ d.ops = b.ops /\ d.retired = b.retired /\ d.evicted = b.evicted
        /\ d.sent = b.sent \cup {Can(p)}
    BY <1>1, SendIs DEF Can
  <2>3. CancelOnce(b, p) = c
    BY <1>5, <2>2 DEF CancelOnce, SetOp
  <2> HIDE DEF d, k
  <2>4. /\ c \in BookSet /\ c.ops = [b.ops EXCEPT ![p] = k]
        /\ c.retired = b.retired /\ c.evicted = b.evicted /\ c.sent = b.sent \cup {Can(p)}
    BY <1>1, <2>1, <2>2, SetOpIs
  <2> HIDE DEF c
  <2>5. \A q \in Ops : q # p => /\ Reg(q) \in c.sent <=> Reg(q) \in b.sent
                                /\ Can(q) \in c.sent <=> Can(q) \in b.sent
    BY <2>4 DEF Reg, Can
  <2>6. Sound(k)
    BY <1>1, <2>1 DEF Sound, Kept
  <2>7. /\ k.phase = "hashing" => Reg(p) \notin c.sent
        /\ k.active => k.outcome # "not-started"
    BY <1>3, <2>1, <2>4 DEF Kept, OpFacts, OpInv, Reg, Can
  <2>8. InPlace(b, c, p, k)
    BY <1>1, <1>3, <1>5, <2>1, <2>4, <2>5, <2>6, <2>7 DEF InPlace, Kept
  <2>9. Ledger(c, n, pend, loose, owed, gone, top, gen, prior)
    BY ONLY <1>1, <2>8, ProgressKeeps, Ledger(b, n, pend, loose, owed, gone, top, gen, prior)
  <2> QED BY <2>3, <2>4, <2>9
<1> QED BY <1>4, <1>5

(* The ledger of books whose #retired is within its limit.                 *)
Tracked(b, n, pend, loose, owed, gone, top, gen, prior) ==
  Ledger(b, n, pend, loose, owed, gone, top, gen, prior) /\ Len(b.retired) <= MaxRetired

LEMMA EnsureKeeps ==
  ASSUME NEW b, NEW n, NEW pend, NEW loose, NEW owed, NEW gone, NEW top, NEW gen, NEW prior,
         Tracked(b, n, pend, loose, owed, gone, top, gen, prior),
         NEW p \in Range(b.retired)
  PROVE  Tracked(EnsureCleanup(b, p), n, pend, loose, owed, gone, top, gen, prior)
<1> DEFINE o == b.ops[p]
           k == [o EXCEPT !.cleanupStarted = TRUE]
           d == SetOp(b, p, k)
<1>1. /\ b \in BookSet /\ p \in 1..n /\ p \in Ops /\ o \in Operation /\ Sound(o)
      /\ Ledger(b, n, pend, loose, owed, gone, top, gen, prior)
      /\ b.ops \in [Ops -> Operation \cup {NoOperation}]
  BY LedgerTypes DEF Tracked
<1>2. OpFacts(b, p, pend, loose, owed, gone) /\ ~o.cleanupFinished
  BY <1>1 DEF Ledger, OpFacts, OpInv, Apart, Place
<1>3. /\ k \in Operation /\ Kept(o, k)
      /\ k.prior = o.prior /\ k.challenge = o.challenge /\ k.task = o.task /\ k.cleaner = o.cleaner
      /\ k.cleanupFinished = o.cleanupFinished /\ k.operationTimer = o.operationTimer
  BY <1>1 DEF Operation, Kept
<1>4. EnsureCleanup(b, p) = b \/ EnsureCleanup(b, p) = CancelOnce(AddRetired(d, p), p)
  BY DEF EnsureCleanup, SetOp
<1> HIDE DEF k
<1>5. /\ d \in BookSet /\ d.ops = [b.ops EXCEPT ![p] = k] /\ d.ops[p] = k
      /\ d.retired = b.retired /\ d.evicted = b.evicted /\ d.sent = b.sent
  BY <1>1, <1>3, SetOpIs
<1> HIDE DEF d
<1>6. Sound(k)
  BY <1>1, <1>3 DEF Sound, Kept
<1>7. /\ k.cleaner # "none" => Can(p) \in d.sent
      /\ k.phase = "hashing" => Reg(p) \notin d.sent
      /\ Reg(p) \in d.sent => k.challenge
      /\ k.active => k.outcome # "not-started"
  BY <1>2, <1>3, <1>5 DEF OpFacts, OpInv, Kept
<1>8. InPlace(b, d, p, k)
  BY <1>2, <1>3, <1>5, <1>6, <1>7 DEF InPlace, Kept
<1>9. Ledger(d, n, pend, loose, owed, gone, top, gen, prior)
  BY ONLY <1>1, <1>8, ProgressKeeps
<1>10. AddRetired(d, p) = d
  BY <1>5 DEF AddRetired
<1>11. Len(d.retired) <= MaxRetired /\ p \in Range(d.retired)
  BY <1>5 DEF Tracked
<1>12. Tracked(CancelOnce(d, p), n, pend, loose, owed, gone, top, gen, prior)
  <2>1. Ledger(CancelOnce(d, p), n, pend, loose, owed, gone, top, gen, prior)
    BY ONLY <1>9, <1>11, CancelKeeps
  <2>2. Len(CancelOnce(d, p).retired) <= MaxRetired
    BY ONLY <1>9, <1>11, CancelKeeps
  <2> QED BY <2>1, <2>2 DEF Tracked
<1> QED BY <1>4, <1>10, <1>12

(* #retire after its publish: what may be registered is withdrawn.         *)
Forgettable(b, p) ==
  Reg(p) \notin b.sent \/ b.ops[p].outcome = "definitive-failure"

LEMMA RetireTailKeeps ==
  ASSUME NEW b, NEW n, NEW pend, NEW loose, NEW owed, NEW gone, NEW top, NEW gen, NEW prior,
         Tracked(b, n, pend, loose, owed, gone, top, gen, prior),
         NEW p \in loose, NEW cleanup, ~cleanup => Forgettable(b, p)
  PROVE  Tracked(RetireTail(b, p, cleanup), n, pend, loose \ {p}, owed, gone, top, gen, prior)
<1> DEFINE o == b.ops[p]
           c == RetireTail(b, p, cleanup)
<1>1. /\ b \in BookSet /\ p \in 1..n /\ p \in Ops /\ o \in Operation /\ Sound(o)
      /\ Ledger(b, n, pend, loose, owed, gone, top, gen, prior)
      /\ b.ops \in [Ops -> Operation \cup {NoOperation}]
      /\ Len(b.retired) <= MaxRetired /\ b.retired \in Seq(Ops) /\ IsInjective(b.retired)
  BY LedgerTypes DEF Tracked
<1>2. OpFacts(b, p, pend, loose, owed, gone) /\ ~o.cleanupFinished /\ p \notin Range(b.retired)
      /\ o.cleaner = "none"
  BY <1>1 DEF Ledger, OpFacts, OpInv, Apart, Place
<1>3. Len(b.retired) \in Nat
  BY <1>1, LenProperties
<1>4. CASE Forgettable(b, p) /\ c = FinishCleanup(b, p)
  <2>1. MayFinish(b, p, gone)
    BY <1>4 DEF Forgettable, MayFinish, Excused
  <2>2. p \in Range(b.retired) \cup loose
    OBVIOUS
  <2>3. Ledger(FinishCleanup(b, p), n, pend, loose \ {p}, owed, gone, top, gen, prior)
    BY ONLY <1>1, <2>1, <2>2, FinishKeeps
  <2>4. Len(FinishCleanup(b, p).retired) <= Len(b.retired)
    BY <1>1, FinishCleanupIs
  <2>5. FinishCleanup(b, p).retired = b.retired
    BY <1>1, <1>2, FinishCleanupIs DEF Without
  <2> QED BY <1>1, <1>4, <2>3, <2>5 DEF Tracked
<1>5. CASE o.phase = "hashing"
           /\ c = FinishCleanup([b EXCEPT !.ops[p].outcome = "not-started"], p)
  <2> DEFINE k == [o EXCEPT !.outcome = "not-started"]
             d == SetOp(b, p, k)
  <2>1. /\ k \in Operation /\ k.call = o.call /\ k.generation = o.generation /\ k.active = o.active
        /\ k.prior = o.prior /\ k.settlements = o.settlements /\ k.phase = o.phase
        /\ k.cleaner = o.cleaner /\ k.cleanupFinished = o.cleanupFinished /\ k.task = o.task
        /\ k.redeems = o.redeems /\ k.challenge = o.challenge /\ k.operationTimer = o.operationTimer
    BY <1>1 DEF Operation, Outcomes
  <2>2. c = FinishCleanup(d, p)
    BY <1>5 DEF SetOp
  <2> HIDE DEF k
  <2>3. /\ d \in BookSet /\ d.ops = [b.ops EXCEPT ![p] = k] /\ d.ops[p] = k
        /\ d.retired = b.retired /\ d.evicted = b.evicted /\ d.sent = b.sent
    BY <1>1, <2>1, SetOpIs
  <2> HIDE DEF d
  <2>4. Sound(k)
    BY <1>1, <1>5, <2>1 DEF Sound
  <2>5. Reg(p) \notin d.sent /\ ~k.active
    BY <1>1, <1>2, <1>5, <2>1, <2>3 DEF OpFacts, OpInv, Place, Ledger, Apart
  <2>6. InPlace(b, d, p, k)
    BY <1>2, <2>1, <2>3, <2>4, <2>5 DEF InPlace
  <2>7. Ledger(d, n, pend, loose, owed, gone, top, gen, prior)
    BY ONLY <1>1, <2>6, ProgressKeeps
  <2>8. MayFinish(d, p, gone) /\ p \in Range(d.retired) \cup loose
    BY <2>5 DEF MayFinish
  <2>9. Ledger(FinishCleanup(d, p), n, pend, loose \ {p}, owed, gone, top, gen, prior)
    BY ONLY <2>7, <2>8, FinishKeeps
  <2>10. FinishCleanup(d, p).retired = b.retired
    BY <1>1, <1>2, <2>1, <2>3, <2>4, FinishCleanupIs DEF Without
  <2> QED BY <1>1, <2>2, <2>9, <2>10 DEF Tracked
<1>6. CASE c = AddRetired(b, p) \/ c = EnsureCleanup(AddRetired(b, p), p)
  <2>1. Ledger(AddRetired(b, p), n, pend, loose \ {p}, owed, gone, top, gen, prior)
    BY ONLY <1>1, AddRetiredKeeps, p \in loose
  <2>2. Addable(b, p)
    BY ONLY <1>1, AddRetiredKeeps, p \in loose
  <2>3. p \in Range(AddRetired(b, p).retired) /\ Len(AddRetired(b, p).retired) <= MaxRetired
    BY ONLY <2>2, AddRetiredIs
  <2>4. Tracked(AddRetired(b, p), n, pend, loose \ {p}, owed, gone, top, gen, prior)
    BY <2>1, <2>3 DEF Tracked
  <2>5. Tracked(EnsureCleanup(AddRetired(b, p), p), n, pend, loose \ {p}, owed, gone, top, gen, prior)
    BY ONLY <2>3, <2>4, EnsureKeeps
  <2> QED BY <1>6, <2>4, <2>5
<1>7. CASE ~cleanup \/ o.outcome \in {"definitive-failure", "not-started"}
  <2>1. o.outcome = "not-started" => Reg(p) \notin b.sent
    BY <1>1, <1>2 DEF Sound, OpFacts, OpInv
  <2>2. Forgettable(b, p)
    BY <1>7, <2>1 DEF Forgettable
  <2> QED BY <1>4, <1>7, <2>2 DEF RetireTail
<1>8. CASE ~(~cleanup \/ o.outcome \in {"definitive-failure", "not-started"})
  <2>1. \/ o.phase = "hashing"
           /\ c = FinishCleanup([b EXCEPT !.ops[p].outcome = "not-started"], p)
        \/ c = AddRetired(b, p)
        \/ c = EnsureCleanup(AddRetired(b, p), p)
    BY <1>8 DEF RetireTail
  <2> QED BY <1>5, <1>6, <2>1
<1> QED BY <1>7, <1>8

LEMMA DeactivatedIs ==
  ASSUME NEW o \in Operation, Sound(o), o.active, o.settlements = 0
  PROVE  LET k == Deactivated(o)
         IN  /\ k \in Operation /\ Sound(k)
             /\ ~k.active /\ k.settlements = 1
             /\ k.call = o.call /\ k.phase = o.phase /\ k.outcome = o.outcome
             /\ k.resolved = o.resolved /\ k.redeems = o.redeems /\ k.challenge = o.challenge
             /\ k.cleaner = o.cleaner /\ k.cleanupFinished = o.cleanupFinished
             /\ k.prior = o.prior /\ k.generation = o.generation
<1> DEFINE task == IF o.phase = "redeeming" THEN "none" ELSE o.task
           m == [o EXCEPT !.active = FALSE, !.expiryTimer = FALSE, !.pollTimer = FALSE,
                          !.task = task]
           k == Deactivated(o)
<1>1. task \in {"none", "hash", "register", "redeem"} /\ task \in {"none", o.task}
  BY DEF Operation
<1>2. k = [m EXCEPT !.settlements = @ + 1, !.resolved = @ \/ FALSE]
  BY DEF Deactivated, Settled
<1> HIDE DEF task
<1>3. /\ m \in Operation
      /\ m.active = FALSE /\ m.task = task /\ m.settlements = 0 /\ m.resolved = o.resolved
      /\ m.call = o.call /\ m.phase = o.phase /\ m.outcome = o.outcome
      /\ m.redeems = o.redeems /\ m.challenge = o.challenge
      /\ m.cleaner = o.cleaner /\ m.cleanupFinished = o.cleanupFinished
      /\ m.prior = o.prior /\ m.generation = o.generation /\ m.operationTimer = o.operationTimer
  <2>1. m \in Operation
    BY <1>1 DEF Operation
  <2> QED BY <2>1 DEF Operation
<1> HIDE DEF m
<1>4. (m.resolved \/ FALSE) = m.resolved /\ m.resolved \in BOOLEAN /\ m.settlements + 1 = 1
  <2>1. m.resolved \in BOOLEAN
    BY <1>3 DEF Operation
  <2>2. m.settlements + 1 = 1
    BY <1>3
  <2> QED BY <2>1, <2>2
<1>5. k = [m EXCEPT !.settlements = 1, !.resolved = m.resolved]
  BY <1>2, <1>3, <1>4
<1> HIDE DEF k
<1>6. /\ k \in Operation /\ k.active = FALSE /\ k.task = task
      /\ k.settlements = 1 /\ k.resolved = m.resolved
      /\ k.call = m.call /\ k.phase = m.phase /\ k.outcome = m.outcome
      /\ k.redeems = m.redeems /\ k.challenge = m.challenge
      /\ k.cleaner = m.cleaner /\ k.cleanupFinished = m.cleanupFinished
      /\ k.prior = m.prior /\ k.generation = m.generation /\ k.operationTimer = m.operationTimer
  BY <1>3, <1>4, <1>5 DEF Operation
<1>7. Sound(k)
  BY <1>1, <1>3, <1>6 DEF Sound
<1> QED BY <1>3, <1>6, <1>7 DEF k

(* The current operation stops being it; the end of the step settles its   *)
(* place.                                                                  *)
LEMMA DeactivateKeeps ==
  ASSUME NEW b, NEW n, NEW pend, NEW loose, NEW owed, NEW gone, NEW top, NEW gen, NEW prior,
         Tracked(b, n, pend, loose, owed, gone, top, gen, prior),
         pend # 0, pend \notin owed, NEW gen2, NEW prior2
  PROVE  Tracked(SetOp(b, pend, Deactivated(b.ops[pend])), n, 0, loose \cup {pend},
                 owed, gone, top, gen2, prior2)
<1> DEFINE o == b.ops[pend]
           k == Deactivated(o)
           c == SetOp(b, pend, k)
<1>1. /\ b \in BookSet /\ pend \in 1..n /\ pend \in Ops /\ o \in Operation /\ Sound(o)
      /\ Ledger(b, n, pend, loose, owed, gone, top, gen, prior)
      /\ b.ops \in [Ops -> Operation \cup {NoOperation}]
      /\ Len(b.retired) <= MaxRetired
      /\ loose \subseteq 1..n /\ Range(b.retired) \subseteq 1..n
  BY LedgerTypes DEF Tracked
<1>2. /\ OpFacts(b, pend, pend, loose, owed, gone) /\ o.active /\ o.settlements = 0
      /\ ~o.cleanupFinished /\ o.cleaner = "none"
  BY <1>1 DEF Ledger, OpFacts, OpInv, Place
<1>3. /\ k \in Operation /\ Sound(k)
      /\ ~k.active /\ k.settlements = 1
      /\ k.call = o.call /\ k.phase = o.phase /\ k.outcome = o.outcome
      /\ k.resolved = o.resolved /\ k.redeems = o.redeems /\ k.challenge = o.challenge
      /\ k.cleaner = o.cleaner /\ k.cleanupFinished = o.cleanupFinished
  BY <1>1, <1>2, DeactivatedIs
<1> HIDE DEF k
<1>4. /\ c \in BookSet /\ c.ops = [b.ops EXCEPT ![pend] = k] /\ c.ops[pend] = k
      /\ c.retired = b.retired /\ c.evicted = b.evicted /\ c.sent = b.sent
  BY <1>1, <1>3, SetOpIs
<1> HIDE DEF c
<1> DEFINE loose2 == loose \cup {pend}
<1>5. n \in 0..MaxOps /\ IsInjective(b.retired) /\ pend \notin Range(b.retired) /\ 0 \notin Range(b.retired)
      /\ 0 \notin loose2 /\ 0 \in 0..n /\ Range(b.retired) \cap loose2 = {} /\ loose2 \subseteq 1..n
  BY <1>1 DEF Ledger, Apart
<1>6. Apart(c, n, 0, loose2)
  BY <1>1, <1>4, <1>5 DEF Apart
<1>7. \A q \in 1..n : q # pend => Place(c, q, 0, loose2) = Place(b, q, pend, loose)
  BY <1>4 DEF Place
<1>8. Moves(b, c, n, pend, k, pend, loose, owed, gen, prior, 0, loose2, owed, gen2, prior2)
  BY <1>1, <1>3, <1>4, <1>7 DEF Moves
<1>9. Place(c, pend, 0, loose2) = "loose"
  BY <1>4, <1>5, <1>1 DEF Place
<1>10. OpFacts(c, pend, 0, loose2, owed, gone)
  BY <1>2, <1>3, <1>4, <1>9 DEF OpFacts, OpInv
<1>11. Ledger(c, n, 0, loose2, owed, gone, top, gen2, prior2)
  BY ONLY <1>1, <1>6, <1>8, <1>10, OneMoves
<1> QED BY <1>1, <1>4, <1>11 DEF Tracked, c, k

(* #retire without a publish.                                              *)
LEMMA RetireQuietlyKeeps ==
  ASSUME NEW b, NEW n, NEW pend, NEW loose, NEW owed, NEW gone, NEW top, NEW gen, NEW prior,
         Tracked(b, n, pend, loose, owed, gone, top, gen, prior),
         pend \notin owed, NEW gen2, NEW prior2
  PROVE  Tracked(RetireQuietly(b, pend), n, 0, loose, owed, gone, top, gen2, prior2)
<1>1. CASE pend = 0
  BY <1>1 DEF RetireQuietly, Tracked, Ledger
<1>2. CASE pend # 0
  <2> DEFINE d == SetOp(b, pend, Deactivated(b.ops[pend]))
  <2>1. Tracked(d, n, 0, loose \cup {pend}, owed, gone, top, gen2, prior2)
    BY <1>2, DeactivateKeeps
  <2>2. b.ops[pend].active /\ pend \notin loose
    <3>1. pend \in 1..n
      BY <1>2, LedgerTypes DEF Tracked
    <3> QED BY <3>1 DEF Tracked, Ledger, OpFacts, OpInv, Place, Apart
  <2>3. RetireQuietly(b, pend) = RetireTail(d, pend, TRUE)
    BY <1>2, <2>2 DEF RetireQuietly, SetOp
  <2> HIDE DEF d
  <2>4. Tracked(RetireTail(d, pend, TRUE), n, 0, (loose \cup {pend}) \ {pend}, owed, gone, top, gen2, prior2)
    <3>1. pend \in loose \cup {pend} /\ (~TRUE => Forgettable(d, pend))
      OBVIOUS
    <3> QED BY ONLY <2>1, <3>1, RetireTailKeeps
  <2>5. (loose \cup {pend}) \ {pend} = loose
    BY <2>2
  <2> QED BY <2>3, <2>4, <2>5
<1> QED BY <1>1, <1>2

(* A new operation is the current one.                                     *)
LEMMA BornKeeps ==
  ASSUME NEW b, NEW n, NEW loose, NEW owed, NEW gone, NEW top, NEW gen, NEW prior,
         Tracked(b, n, 0, loose, owed, gone, top, gen, prior),
         n < MaxOps, owed \subseteq loose, top \in Int,
         NEW o \in Operation, Sound(o), o.active, o.phase = "hashing", ~o.cleanupFinished,
         o.cleaner = "none", o.settlements = 0, o.outcome = "none", top < o.call
  PROVE  Tracked(SetOp(b, n + 1, o), n + 1, n + 1, loose, owed, gone, o.call, o.generation, o.prior)
<1> DEFINE p == n + 1
           c == SetOp(b, p, o)
<1>1. /\ b \in BookSet /\ n \in Nat /\ p \in Ops /\ 1..n \subseteq Ops /\ n \in 0..MaxOps
      /\ Ledger(b, n, 0, loose, owed, gone, top, gen, prior)
      /\ b.ops \in [Ops -> Operation \cup {NoOperation}]
      /\ Len(b.retired) <= MaxRetired /\ IsInjective(b.retired)
      /\ loose \subseteq 1..n /\ Range(b.retired) \subseteq 1..n
  <2>1. Ledger(b, n, 0, loose, owed, gone, top, gen, prior)
    BY DEF Tracked
  <2>2. /\ b \in BookSet /\ n \in Nat /\ 1..n \subseteq Ops
        /\ b.ops \in [Ops -> Operation \cup {NoOperation}] /\ IsInjective(b.retired)
        /\ loose \subseteq 1..n /\ Range(b.retired) \subseteq 1..n
    BY <2>1, LedgerTypes
  <2>3. p \in Ops /\ n \in 0..MaxOps
    BY <2>2, RelayClientAssumption DEF Ops
  <2> QED BY <2>1, <2>2, <2>3 DEF Tracked
<1>2. /\ c \in BookSet /\ c.ops = [b.ops EXCEPT ![p] = o] /\ c.ops[p] = o
      /\ c.retired = b.retired /\ c.evicted = b.evicted /\ c.sent = b.sent
  BY <1>1, SetOpIs
<1> HIDE DEF c
<1>3. p \notin 1..n /\ 1..p = (1..n) \cup {p} /\ p # 0 /\ p \in 0..MaxOps /\ p \in 0..p
  BY <1>1, RelayClientAssumption DEF Ops
<1>4. Reg(p) \notin c.sent
  BY <1>1, <1>2 DEF Ledger, Numbered
<1> HIDE DEF p
<1>5. \A q \in 1..n : q # p /\ q # 0 /\ q \in Ops /\ c.ops[q] = b.ops[q]
  BY <1>1, <1>2, <1>3
<1>6. Apart(c, p, p, loose)
  BY <1>1, <1>2, <1>3 DEF Ledger, Apart
<1>7. Numbered(c, p, o.call)
  <2>1. \A q \in Ops : q # p => (c.ops[q] # NoOperation <=> q <= n)
    BY <1>1, <1>2 DEF Ledger, Numbered
  <2>2. c.ops[p] # NoOperation
    BY <1>2, BornAreApart
  <2>3. \A q \in Ops : q <= p <=> q <= n \/ q = p
    BY <1>1 DEF p, Ops
  <2>4. \A q \in Ops : c.ops[q] # NoOperation <=> q <= p
    BY <2>1, <2>2, <2>3
  <2>5. \A q \in Ops : Reg(q) \in c.sent => q <= p
    BY <1>1, <1>2, <2>3 DEF Ledger, Numbered
  <2>6. o.call \in Int /\ \A q \in 1..n : b.ops[q].call \in Int /\ b.ops[q].call <= top
    <3>1. \A q \in 1..n : b.ops[q] \in Operation
      BY <1>1, LedgerTypes
    <3>2. \A k \in Operation : k.call \in Int
      BY DEF Operation
    <3> QED BY <3>1, <3>2, <1>1 DEF Ledger, Numbered
  <2>7. \A q \in 1..n : c.ops[q].call < o.call
    BY <2>6, <1>5
  <2>8. \A q \in 1..p : c.ops[q].call <= o.call
    BY <1>2, <1>3, <1>5, <2>6, <2>7
  <2>9. ASSUME NEW q \in 1..p, NEW r \in 1..p, q < r
        PROVE  c.ops[q].call < c.ops[r].call
    <3>1. CASE r = p
      <4>1. q \in 1..n
        BY <2>9, <3>1, <1>1, <1>3
      <4> QED BY <4>1, <3>1, <2>7, <1>2
    <3>2. CASE r # p
      <4>1. r \in 1..n /\ q \in 1..n
        BY <2>9, <3>2, <1>1, <1>3 DEF p
      <4>2. c.ops[q] = b.ops[q] /\ c.ops[r] = b.ops[r]
        BY <4>1, <1>5
      <4> QED BY <4>1, <4>2, <2>9, <1>1 DEF Ledger, Numbered
    <3> QED BY <3>1, <3>2
  <2> QED BY <2>4, <2>5, <2>8, <2>9 DEF Numbered
<1>8. ASSUME NEW q \in 1..p PROVE OpFacts(c, q, p, loose, owed, gone)
  <2>1. CASE q \in 1..n
    <3>1. OpFacts(b, q, 0, loose, owed, gone)
      BY <1>1, <2>1 DEF Ledger
    <3>2. Place(c, q, p, loose) = Place(b, q, 0, loose)
      BY <1>2, <1>5, <2>1 DEF Place
    <3> QED BY <3>1, <3>2, <2>1, <1>2, <1>5 DEF OpFacts
  <2>2. CASE q = p
    <3>1. Place(c, p, p, loose) = "pending"
      BY DEF Place
    <3> QED BY <3>1, <2>2, <1>2, <1>4 DEF OpFacts, OpInv
  <2> QED BY <2>1, <2>2, <1>3
<1>9. Ledger(c, p, p, loose, owed, gone, o.call, o.generation, o.prior)
  BY <1>2, <1>6, <1>7, <1>8 DEF Ledger
<1> QED BY <1>1, <1>2, <1>9 DEF Tracked, c, p

(* #complete takes the operation off #pending and settles its promise      *)
(* behind the publish.                                                     *)
LEMMA CompletingKeeps ==
  ASSUME NEW b, NEW n, NEW pend, NEW loose, NEW owed, NEW gone, NEW top, NEW gen, NEW prior,
         Tracked(b, n, pend, loose, owed, gone, top, gen, prior),
         pend # 0, NEW gen2, NEW prior2
  PROVE  Tracked(SetOp(b, pend, [b.ops[pend] EXCEPT !.active = FALSE, !.expiryTimer = FALSE,
                                                    !.pollTimer = FALSE, !.task = "none"]),
                 n, 0, loose \cup {pend}, owed \cup {pend}, gone, top, gen2, prior2)
<1> DEFINE o == b.ops[pend]
           k == [o EXCEPT !.active = FALSE, !.expiryTimer = FALSE, !.pollTimer = FALSE,
                          !.task = "none"]
           c == SetOp(b, pend, k)
<1>1. /\ b \in BookSet /\ pend \in 1..n /\ pend \in Ops /\ o \in Operation /\ Sound(o)
      /\ Ledger(b, n, pend, loose, owed, gone, top, gen, prior)
      /\ b.ops \in [Ops -> Operation \cup {NoOperation}]
      /\ Len(b.retired) <= MaxRetired
      /\ loose \subseteq 1..n /\ Range(b.retired) \subseteq 1..n
  BY LedgerTypes DEF Tracked
<1>2. /\ OpFacts(b, pend, pend, loose, owed, gone) /\ o.active /\ o.settlements = 0
      /\ ~o.cleanupFinished /\ o.cleaner = "none"
  BY <1>1 DEF Ledger, OpFacts, OpInv, Place
<1>3. /\ k \in Operation /\ ~k.active /\ k.task = "none"
      /\ k.settlements = o.settlements /\ k.operationTimer = o.operationTimer
      /\ k.call = o.call /\ k.phase = o.phase /\ k.outcome = o.outcome
      /\ k.resolved = o.resolved /\ k.redeems = o.redeems /\ k.challenge = o.challenge
      /\ k.cleaner = o.cleaner /\ k.cleanupFinished = o.cleanupFinished
  BY <1>1 DEF Operation
<1> HIDE DEF k
<1>4. /\ c \in BookSet /\ c.ops = [b.ops EXCEPT ![pend] = k] /\ c.ops[pend] = k
      /\ c.retired = b.retired /\ c.evicted = b.evicted /\ c.sent = b.sent
  BY <1>1, <1>3, SetOpIs
<1> HIDE DEF c
<1>5. Sound(k)
  BY <1>1, <1>3 DEF Sound
<1> DEFINE loose2 == loose \cup {pend}
           owed2 == owed \cup {pend}
<1>6. n \in 0..MaxOps /\ IsInjective(b.retired) /\ pend \notin Range(b.retired) /\ 0 \notin Range(b.retired)
      /\ 0 \notin loose2 /\ 0 \in 0..n /\ Range(b.retired) \cap loose2 = {} /\ loose2 \subseteq 1..n
  <2>1. Apart(b, n, pend, loose)
    BY <1>1 DEF Ledger
  <2>2. n \in 0..MaxOps /\ IsInjective(b.retired) /\ pend \notin Range(b.retired)
        /\ Range(b.retired) \cap loose = {} /\ n \in Nat
    BY <2>1 DEF Apart
  <2>3. 0 \notin 1..n /\ 0 \in 0..n
    BY <2>2
  <2> QED BY <2>2, <2>3, <1>1
<1>7. Apart(c, n, 0, loose2)
  BY <1>1, <1>4, <1>6 DEF Apart
<1>8. \A q \in 1..n : q # pend => Place(c, q, 0, loose2) = Place(b, q, pend, loose)
  BY <1>4 DEF Place
<1>9. Moves(b, c, n, pend, k, pend, loose, owed, gen, prior, 0, loose2, owed2, gen2, prior2)
  BY <1>1, <1>3, <1>4, <1>8 DEF Moves
<1>10. Place(c, pend, 0, loose2) = "loose"
  BY <1>4, <1>6, <1>1 DEF Place
<1>11. OpFacts(c, pend, 0, loose2, owed2, gone)
  BY <1>2, <1>3, <1>4, <1>5, <1>10 DEF OpFacts, OpInv
<1>12. Ledger(c, n, 0, loose2, owed2, gone, top, gen2, prior2)
  BY ONLY <1>1, <1>7, <1>9, <1>11, OneMoves
<1> QED BY <1>1, <1>4, <1>12 DEF Tracked, c, k

LEMMA SettledKeeps ==
  ASSUME NEW b, NEW n, NEW pend, NEW loose, NEW owed, NEW gone, NEW top, NEW gen, NEW prior,
         Tracked(b, n, pend, loose, owed, gone, top, gen, prior),
         NEW p \in loose, p \in owed
  PROVE  Tracked(FinishCleanup(SetOp(b, p, Settled(b.ops[p], TRUE)), p),
                 n, pend, loose \ {p}, owed \ {p}, gone, top, gen, prior)
<1> DEFINE o == b.ops[p]
           k == Settled(o, TRUE)
           c == SetOp(b, p, k)
<1>1. /\ b \in BookSet /\ p \in 1..n /\ p \in Ops /\ o \in Operation /\ Sound(o)
      /\ Ledger(b, n, pend, loose, owed, gone, top, gen, prior)
      /\ b.ops \in [Ops -> Operation \cup {NoOperation}]
      /\ Len(b.retired) <= MaxRetired /\ IsInjective(b.retired)
  BY LedgerTypes DEF Tracked
<1>2. /\ OpFacts(b, p, pend, loose, owed, gone) /\ ~o.active /\ o.settlements = 0
      /\ ~o.cleanupFinished /\ o.cleaner = "none" /\ p \notin Range(b.retired) /\ p # pend
      /\ Place(b, p, pend, loose) = "loose"
  BY <1>1 DEF Ledger, OpFacts, OpInv, Place, Apart
<1>3. /\ k \in Operation /\ k.settlements = 1 /\ k.resolved = TRUE
      /\ k.active = o.active /\ k.task = o.task /\ k.operationTimer = o.operationTimer
      /\ k.call = o.call /\ k.phase = o.phase /\ k.outcome = o.outcome
      /\ k.redeems = o.redeems /\ k.challenge = o.challenge
      /\ k.cleaner = o.cleaner /\ k.cleanupFinished = o.cleanupFinished
  <2>1. (o.resolved \/ TRUE) = TRUE /\ o.settlements + 1 = 1
    <3>1. o.settlements + 1 = 1
      BY <1>2
    <3> QED BY <3>1
  <2>2. k = [o EXCEPT !.settlements = 1, !.resolved = TRUE]
    BY <2>1 DEF Settled
  <2> HIDE DEF k
  <2> QED BY <1>1, <2>2 DEF Operation
<1> HIDE DEF k
<1>4. /\ c \in BookSet /\ c.ops = [b.ops EXCEPT ![p] = k] /\ c.ops[p] = k
      /\ c.retired = b.retired /\ c.evicted = b.evicted /\ c.sent = b.sent
  BY <1>1, <1>3, SetOpIs
<1> HIDE DEF c
<1>5. Sound(k)
  BY <1>1, <1>3 DEF Sound
<1>6. Apart(c, n, pend, loose)
  BY <1>1, <1>4 DEF Apart, Ledger
<1>7. \A q \in 1..n : Place(c, q, pend, loose) = Place(b, q, pend, loose)
  BY <1>4 DEF Place
<1>8. Moves(b, c, n, p, k, pend, loose, owed, gen, prior, pend, loose, owed \ {p}, gen, prior)
  BY <1>1, <1>2, <1>3, <1>4, <1>7 DEF Moves
<1>9. OpFacts(c, p, pend, loose, owed \ {p}, gone)
  BY <1>1, <1>2, <1>3, <1>4, <1>5, <1>7 DEF OpFacts, OpInv
<1>10. Ledger(c, n, pend, loose, owed \ {p}, gone, top, gen, prior)
  BY ONLY <1>1, <1>6, <1>8, <1>9, OneMoves
<1>11. MayFinish(c, p, gone) /\ p \in Range(c.retired) \cup loose
  BY <1>3, <1>4 DEF MayFinish, Excused
<1>12. Ledger(FinishCleanup(c, p), n, pend, loose \ {p}, owed \ {p}, gone, top, gen, prior)
  BY ONLY <1>10, <1>11, FinishKeeps
<1>13. FinishCleanup(c, p).retired = c.retired
  BY <1>1, <1>2, <1>3, <1>4, <1>5, FinishCleanupIs DEF Without
<1> QED BY <1>1, <1>4, <1>12, <1>13 DEF Tracked, c, k

(* #destroyNow ends every cleanup but that of an operation suspended       *)
(* behind a publish.                                                       *)
LEMMA DestroyKeeps ==
  ASSUME NEW n, NEW loose, NEW owed, NEW gone, NEW top, NEW gen, NEW prior,
         Tracked(Books, n, pending, loose, owed, gone, top, gen, prior),
         pending \notin owed, NEW gen2, NEW prior2
  PROVE  /\ Tracked(DestroyBooks, n, 0, loose, owed, TRUE, top, gen2, prior2)
         /\ DestroyBooks.retired = <<>>
<1> DEFINE b == Books
           c == DestroyBooks
           cut == {p \in Ops : p = pending \/ p \in Range(retired)}
           withdrawn == {[type |-> "cancel", op |-> p] : p \in {q \in cut : ops[q].challenge}}
           rejected(p) == IF p = pending THEN Settled([ops[p] EXCEPT !.active = FALSE], FALSE)
                          ELSE ops[p]
<1>1. /\ b \in BookSet /\ b.ops = ops /\ b.retired = retired /\ b.sent = sent
      /\ b.outbox = outbox /\ b.evicted = evicted
      /\ Ledger(b, n, pending, loose, owed, gone, top, gen, prior)
      /\ b.ops \in [Ops -> Operation \cup {NoOperation}]
      /\ n \in Nat /\ 1..n \subseteq Ops /\ Range(b.retired) \subseteq 1..n
      /\ pending # 0 => pending \in 1..n
      /\ \A p \in 1..n : p \in Ops /\ b.ops[p] \in Operation /\ Sound(b.ops[p])
      /\ outbox \subseteq Request /\ sent \subseteq Request
  <2>1. Ledger(b, n, pending, loose, owed, gone, top, gen, prior)
    BY DEF Tracked
  <2>2. b \in BookSet
    BY <2>1 DEF Ledger
  <2>3. outbox \subseteq Request /\ sent \subseteq Request
    BY <2>2 DEF BookSet, Books
  <2> QED BY <2>1, <2>2, <2>3, LedgerTypes DEF Books
<1>2. /\ c.ops = [p \in Ops |-> IF p \in cut THEN Finished(rejected(p)) ELSE ops[p]]
      /\ c.retired = <<>> /\ c.outbox = outbox \cup withdrawn
      /\ c.sent = sent \cup withdrawn /\ c.evicted = evicted
      /\ c = [ops |-> c.ops, retired |-> c.retired, outbox |-> c.outbox,
              sent |-> c.sent, evicted |-> c.evicted]
  BY DEF DestroyBooks
<1>3. \A p \in cut : p \in 1..n /\ ops[p] \in Operation /\ Sound(ops[p])
  BY <1>1 DEF Ops
<1>4. withdrawn \subseteq Request /\ \A p \in Ops : Reg(p) \notin withdrawn
  <2>1. cut \subseteq Ops
    OBVIOUS
  <2>2. \A p \in cut : [type |-> "cancel", op |-> p] \in Request
    BY <2>1 DEF Request
  <2>3. \A p \in Ops, q \in cut : Reg(p) # [type |-> "cancel", op |-> q]
    BY DEF Reg
  <2> HIDE DEF cut
  <2> QED BY <2>2, <2>3
<1> HIDE DEF c, withdrawn, b
<1>5. ASSUME NEW p \in cut
      PROVE  /\ rejected(p) \in Operation /\ Sound(rejected(p)) /\ ~rejected(p).active
             /\ ~rejected(p).cleanupFinished
             /\ rejected(p).call = ops[p].call /\ rejected(p).phase = ops[p].phase
             /\ rejected(p).settlements = IF p \in owed THEN 0 ELSE 1
  <2>1. p \in 1..n /\ ops[p] \in Operation /\ Sound(ops[p])
        /\ OpFacts(b, p, pending, loose, owed, gone) /\ ~ops[p].cleanupFinished
    BY <1>1, <1>3 DEF Ledger, OpFacts, OpInv, Place
  <2>2. CASE p = pending
    <3> DEFINE m == [ops[p] EXCEPT !.active = FALSE]
    <3>0. ops[p].settlements = 0
      BY <2>1, <2>2, <1>1 DEF OpFacts, OpInv, Place
    <3>1. m \in Operation /\ m.active = FALSE /\ m.settlements = 0
      BY <2>1, <3>0 DEF Operation
    <3>2. /\ m.call = ops[p].call /\ m.phase = ops[p].phase /\ m.task = ops[p].task
          /\ m.outcome = ops[p].outcome /\ m.redeems = ops[p].redeems
          /\ m.cleanupFinished = ops[p].cleanupFinished
          /\ m.operationTimer = ops[p].operationTimer
      BY <2>1 DEF Operation
    <3> DEFINE k == Settled(m, FALSE)
    <3> HIDE DEF m
    <3>3. m.settlements + 1 = 1
      BY <3>1
    <3>4. (m.resolved \/ FALSE) = m.resolved /\ m.resolved \in BOOLEAN
      <4>1. m.resolved \in BOOLEAN
        BY <3>1 DEF Operation
      <4> QED BY <4>1
    <3>5. k = [m EXCEPT !.settlements = 1, !.resolved = m.resolved]
      BY <3>3, <3>4 DEF Settled
    <3> HIDE DEF k
    <3>6. /\ k \in Operation /\ k.active = FALSE /\ k.settlements = 1
          /\ k.call = m.call /\ k.phase = m.phase /\ k.task = m.task /\ k.outcome = m.outcome
          /\ k.redeems = m.redeems /\ k.cleanupFinished = m.cleanupFinished
          /\ k.operationTimer = m.operationTimer
      BY <3>1, <3>4, <3>5 DEF Operation
    <3>7. Sound(k)
      BY <2>1, <3>2, <3>6 DEF Sound
    <3>8. rejected(p) = k
      BY <2>2 DEF k, m
    <3> HIDE DEF rejected
    <3> QED BY <2>1, <2>2, <3>2, <3>6, <3>7, <3>8
  <2>3. CASE p # pending
    <3>1. rejected(p) = ops[p]
      BY <2>3
    <3>2. ~ops[p].active
      BY <2>1, <2>3, <1>1 DEF OpFacts, OpInv, Place
    <3> HIDE DEF rejected
    <3> QED BY <2>1, <3>1, <3>2, <1>1 DEF OpFacts, OpInv
  <2> QED BY <2>2, <2>3
<1> HIDE DEF rejected
<1>6. ASSUME NEW p \in cut
      PROVE  /\ c.ops[p] \in Operation /\ Sound(c.ops[p]) /\ ~c.ops[p].active
             /\ c.ops[p].cleanupFinished /\ c.ops[p].cleaner = "none"
             /\ c.ops[p].call = ops[p].call /\ c.ops[p].phase = ops[p].phase
             /\ c.ops[p].settlements = IF p \in owed THEN 0 ELSE 1
  <2>1. c.ops[p] = Finished(rejected(p))
    BY <1>2
  <2> QED BY <2>1, <1>5, FinishedIs DEF Kept
<1>7. \A p \in Ops : p \notin cut => c.ops[p] = ops[p]
  BY <1>2
<1>8. c \in BookSet
  <2>1. c.ops \in [Ops -> Operation \cup {NoOperation}]
    <3>1. \A p \in Ops : c.ops[p] \in Operation \cup {NoOperation}
      BY <1>1, <1>6, <1>7
    <3>2. c.ops = [p \in Ops |-> c.ops[p]]
      BY <1>2
    <3> HIDE DEF cut
    <3> QED BY <3>1, <3>2
  <2>2. c.retired \in Seq(Ops) /\ c.outbox \in SUBSET Request /\ c.sent \in SUBSET Request
        /\ c.evicted \in SUBSET Ops
    BY <1>1, <1>2, <1>4 DEF BookSet, Books
  <2> QED BY <1>2, <2>1, <2>2 DEF BookSet
<1>9. Range(c.retired) = {} /\ IsInjective(c.retired) /\ Len(c.retired) = 0
  BY <1>2, EmptySeq DEF Range, IsInjective
<1>10. Apart(c, n, 0, loose)
  BY <1>1, <1>9 DEF Ledger, Apart
<1>11. Numbered(c, n, top)
  <2>1. \A p \in Ops : c.ops[p] # NoOperation <=> ops[p] # NoOperation
    BY <1>3, <1>6, <1>7, BornAreApart
  <2>2. \A p \in 1..n : p \in Ops /\ c.ops[p].call = ops[p].call
    BY <1>1, <1>6, <1>7
  <2>3. \A p \in Ops : Reg(p) \in c.sent <=> Reg(p) \in sent
    BY <1>2, <1>4
  <2> QED BY <2>1, <2>2, <2>3, <1>1 DEF Ledger, Numbered
<1>12. ASSUME NEW p \in 1..n PROVE OpFacts(c, p, 0, loose, owed, TRUE)
  <2>1. OpFacts(b, p, pending, loose, owed, gone) /\ p \in Ops /\ p # 0
    BY <1>1 DEF Ledger
  <2>2. (Reg(p) \in c.sent) = (Reg(p) \in sent) /\ (Can(p) \in sent => Can(p) \in c.sent)
    BY <2>1, <1>2, <1>4
  <2>3. CASE p \in cut
    <3>1. Place(c, p, 0, loose) = "done"
      BY <2>1, <2>3, <1>1, <1>9 DEF Place, Ledger, Apart
    <3>2. ops[p].phase = "hashing" => Reg(p) \notin sent
      BY <2>1, <1>1 DEF OpFacts, OpInv
    <3> QED BY <3>1, <3>2, <2>2, <2>3, <1>6 DEF OpFacts, OpInv
  <2>4. CASE p \notin cut
    <3>1. Place(c, p, 0, loose) = Place(b, p, pending, loose) /\ Place(c, p, 0, loose) # "retired"
      BY <2>1, <2>4, <1>1, <1>9 DEF Place
    <3>2. c.ops[p] = b.ops[p]
      BY <2>1, <2>4, <1>1, <1>7
    <3> QED BY <2>1, <2>2, <3>1, <3>2, <1>1 DEF OpFacts, OpInv
  <2> QED BY <2>3, <2>4
<1>13. Ledger(c, n, 0, loose, owed, TRUE, top, gen2, prior2)
  BY <1>8, <1>10, <1>11, <1>12 DEF Ledger
<1>14. Len(c.retired) <= MaxRetired
  BY <1>9, RelayClientAssumption
<1> QED BY <1>2, <1>13, <1>14 DEF Tracked, c

-----------------------------------------------------------------------------
(* The invariant of the states.                                            *)
LooseOf(f) == {p \in Ops : f.tail \in {"complete", "retire"} /\ f.op = p}
OwedOf(f) == {p \in Ops : f.tail = "complete" /\ f.op = p}

(* While an execute that is not stale waits behind a publish, no newer     *)
(* call has started an operation.                                          *)
TopOf(f, k) == IF f.tail = "execute" /\ f.stale = FALSE THEN f.call - 1 ELSE k

PendingPrior == IF pending = 0 THEN NoConnection ELSE ops[pending].prior

BookInv ==
  Tracked(Books, started, pending, LooseOf(frame), OwedOf(frame), destroyed,
          TopOf(frame, calls), generation, PendingPrior)

FrameInv ==
  /\ frame \in Frames
  /\ frame.tail = "execute" => frame.call <= calls
  /\ frame.tail \in {"register", "complete", "retire"} => frame.op \in 1..started
  /\ frame.tail = "register" /\ frame.op = pending => ops[pending].phase = "hashing"
  /\ frame.tail = "retire" => destroyed \/ frame.cleanup \/ Forgettable(Books, frame.op)
  /\ destroyed => pending = 0 /\ retired = <<>>

EnvInv ==
  /\ calls \in Nat /\ generation \in Nat /\ destroyed \in BOOLEAN
  /\ channel \in {"off", "on", "compromised"} /\ callbacks \subseteq CallbackRecord
  /\ now \in Readings /\ skewed \in BOOLEAN

(* The connection the client holds, and the one its current operation      *)
(* would restore: neither was ended, and the timer is set for either.      *)
Remembered == {connection, PendingPrior}

ConnInv ==
  /\ connection \in Connection \cup {NoConnection}
  /\ connTimer \in Connection \cup {NoConnection}
  /\ published \in [status : {"dormant", "opening", "connected", "error"},
                    conn : Connection \cup {NoConnection}]
  /\ forgotten \subseteq Connection
  /\ published.conn = connection
  /\ NoConnection \notin forgotten
  /\ Remembered \cap forgotten = {}
  /\ \A c \in Remembered \cup forgotten : c.op <= started /\ (pending # 0 => c.op # pending)
  /\ ~skewed => /\ connection # NoConnection => connTimer = connection
                /\ Unexpired(PendingPrior) => connTimer = PendingPrior

IInv == EnvInv /\ BookInv /\ FrameInv /\ ConnInv

(* What a step must show of the books.                                     *)
BookNext(prior) ==
  Tracked(Books', started', pending', LooseOf(frame'), OwedOf(frame'), destroyed',
          TopOf(frame', calls'), generation', prior)

LEMMA FrameKinds ==
  ASSUME NEW f \in Frames
  PROVE  /\ f.tail \in {"none", "execute", "register", "complete", "retire"}
         /\ f.tail = "none" <=> f = NoFrame
         /\ f.tail = "execute" => f.kind \in Kinds /\ f.call \in Nat /\ f.stale \in BOOLEAN
         /\ f.tail = "retire" => f.op \in Ops /\ f.cleanup \in BOOLEAN
         /\ f.tail \in {"register", "complete"} => f.op \in Ops
         /\ f.tail \notin {"complete", "retire"} => LooseOf(f) = {} /\ OwedOf(f) = {}
         /\ f.tail = "retire" => LooseOf(f) = {f.op} /\ OwedOf(f) = {}
         /\ f.tail = "complete" => LooseOf(f) = {f.op} /\ OwedOf(f) = {f.op}
         /\ OwedOf(f) \subseteq LooseOf(f)
<1>1. CASE f = NoFrame
  BY <1>1 DEF NoFrame, LooseOf, OwedOf
<1>2. CASE f \in [tail : {"execute"}, kind : Kinds, call : Nat, stale : BOOLEAN]
  BY <1>2 DEF NoFrame, LooseOf, OwedOf
<1>3. CASE f \in [tail : {"register", "complete"}, op : Ops]
  BY <1>3 DEF NoFrame, LooseOf, OwedOf
<1>4. CASE f \in [tail : {"retire"}, op : Ops, cleanup : BOOLEAN]
  BY <1>4 DEF NoFrame, LooseOf, OwedOf
<1> QED BY <1>1, <1>2, <1>3, <1>4 DEF Frames

LEMMA NoFrameIs ==
  /\ NoFrame \in Frames /\ NoFrame.tail = "none"
  /\ LooseOf(NoFrame) = {} /\ OwedOf(NoFrame) = {}
  /\ \A k : TopOf(NoFrame, k) = k
BY DEF NoFrame, Frames, LooseOf, OwedOf, TopOf

LEMMA BecomesIs ==
  ASSUME NEW c \in BookSet, Becomes(c)
  PROVE  Books' = c
BY DEF BookSet, Becomes, Books

LEMMA BooksAre ==
  /\ Books.ops = ops /\ Books.retired = retired /\ Books.outbox = outbox
  /\ Books.sent = sent /\ Books.evicted = evicted
BY DEF Books

(* The bound on the calls only grows, and no operation is current under    *)
(* any generation.                                                         *)
LEMMA TrackedWeakens ==
  ASSUME NEW b, NEW n, NEW pend, NEW loose, NEW owed, NEW gone, NEW top, NEW gen, NEW prior,
         Tracked(b, n, pend, loose, owed, gone, top, gen, prior),
         NEW top2 \in Int, top \in Int, top <= top2
  PROVE  Tracked(b, n, pend, loose, owed, gone, top2, gen, prior)
<1>1. \A p \in 1..n : b.ops[p].call \in Int
  <2>1. \A k \in Operation : k.call \in Int
    BY DEF Operation
  <2> QED BY <2>1, LedgerTypes DEF Tracked
<1>2. \A p \in 1..n : b.ops[p].call <= top2
  BY <1>1 DEF Tracked, Ledger, Numbered
<1> QED BY <1>2 DEF Tracked, Ledger, Numbered

LEMMA NonePending ==
  ASSUME NEW b, NEW n, NEW loose, NEW owed, NEW gone, NEW top, NEW gen, NEW prior,
         Tracked(b, n, 0, loose, owed, gone, top, gen, prior), NEW gen2, NEW prior2
  PROVE  Tracked(b, n, 0, loose, owed, gone, top, gen2, prior2)
BY DEF Tracked, Ledger

(* A step that keeps the ledger for what the current operation remembers   *)
(* keeps what it remembers.                                                *)
LEMMA PriorNext ==
  ASSUME NEW prior, BookNext(prior)
  PROVE  /\ BookInv'
         /\ pending' # 0 => PendingPrior' = prior
         /\ pending' = 0 => PendingPrior' = NoConnection
<1>1. CASE pending' = 0
  <2>1. PendingPrior' = NoConnection
    BY <1>1 DEF PendingPrior
  <2>2. Tracked(Books', started', pending', LooseOf(frame'), OwedOf(frame'), destroyed',
                TopOf(frame', calls'), generation', PendingPrior')
    BY <1>1, NonePending DEF BookNext
  <2> QED BY <1>1, <2>1, <2>2 DEF BookInv
<1>2. CASE pending' # 0
  <2>1. (Books').ops[pending'].prior = prior
    BY <1>2 DEF BookNext, Tracked, Ledger
  <2>2. PendingPrior' = prior
    BY <1>2, <2>1 DEF PendingPrior, Books
  <2> QED BY <1>2, <2>2 DEF BookInv, BookNext
<1> QED BY <1>1, <1>2

(* Where an operation that is not finished is when the event loop runs.    *)
LEMMA StateIs ==
  ASSUME IInv
  PROVE  /\ Ledger(Books, started, pending, LooseOf(frame), OwedOf(frame), destroyed,
                   TopOf(frame, calls), generation, PendingPrior)
         /\ Books \in BookSet /\ ops \in [Ops -> Operation \cup {NoOperation}]
         /\ started \in Nat /\ started <= MaxOps /\ 1..started \subseteq Ops
         /\ pending \in Nat /\ (pending # 0 => pending \in 1..started)
         /\ Range(retired) \subseteq 1..started /\ pending \notin Range(retired)
         /\ Len(retired) <= MaxRetired /\ retired \in Seq(Ops) /\ IsInjective(retired)
         /\ pending \notin LooseOf(frame) /\ pending \notin OwedOf(frame)
         /\ Range(retired) \cap LooseOf(frame) = {}
         /\ \A p \in Ops : Exists(p) <=> p \in 1..started
         /\ \A p \in 1..started : p \in Ops /\ ops[p] \in Operation /\ Sound(ops[p])
         /\ \A p : IsActive(p) => p = pending /\ p \in 1..started /\ ~destroyed /\ p # 0
         /\ pending # 0 => IsActive(pending) /\ ~destroyed
<1>1. Ledger(Books, started, pending, LooseOf(frame), OwedOf(frame), destroyed,
             TopOf(frame, calls), generation, PendingPrior)
      /\ Len(retired) <= MaxRetired
  BY BooksAre DEF IInv, BookInv, Tracked
<1>2. /\ Books \in BookSet /\ ops \in [Ops -> Operation \cup {NoOperation}]
      /\ started \in Nat /\ started <= MaxOps /\ 1..started \subseteq Ops
      /\ pending \in Nat /\ (pending # 0 => pending \in 1..started)
      /\ Range(retired) \subseteq 1..started /\ retired \in Seq(Ops) /\ IsInjective(retired)
      /\ \A p \in 1..started : p \in Ops /\ ops[p] \in Operation /\ Sound(ops[p])
  BY <1>1, LedgerTypes, BooksAre
<1>3. /\ pending \notin Range(retired) /\ pending \notin LooseOf(frame)
      /\ Range(retired) \cap LooseOf(frame) = {}
  BY <1>1, BooksAre DEF Ledger, Apart
<1>4. pending \notin OwedOf(frame)
  BY <1>3, FrameKinds DEF IInv, FrameInv
<1>5. \A p \in Ops : Exists(p) <=> p \in 1..started
  BY <1>1, <1>2, BooksAre DEF Ledger, Numbered, Exists, Ops
<1>6. pending # 0 => ~destroyed
  BY DEF IInv, FrameInv
<1>7. pending # 0 => IsActive(pending)
  <2> SUFFICES ASSUME pending # 0 PROVE IsActive(pending)
    OBVIOUS
  <2>1. OpFacts(Books, pending, pending, LooseOf(frame), OwedOf(frame), destroyed)
        /\ ops[pending].generation = generation
    BY <1>1, <1>2, BooksAre DEF Ledger
  <2>2. ops[pending].active
    BY <2>1, BooksAre DEF OpFacts, OpInv, Place
  <2> QED BY <2>1, <2>2, <1>6 DEF IsActive
<1>8. \A p : IsActive(p) => p = pending /\ p \in 1..started /\ ~destroyed /\ p # 0
  BY <1>2 DEF IsActive
<1> QED BY <1>1, <1>2, <1>3, <1>4, <1>5, <1>6, <1>7, <1>8

-----------------------------------------------------------------------------
(* What a step may do to the connection.                                   *)
LEMMA ConnectionsAre ==
  ASSUME NEW c \in Connection \cup {NoConnection}
  PROVE  /\ c.op \in Nat /\ c.expires \in Int
         /\ c \in Connection <=> c # NoConnection
         /\ NoConnection.op = 0
<1>1. NoConnection \notin Connection
  BY DEF NoConnection, Connection, Ops
<1>2. c \in Connection => c.op \in Nat /\ c.expires \in Int
  BY DEF Connection, Ops, Readings
<1>3. NoConnection.op = 0 /\ NoConnection.expires = 0
  BY DEF NoConnection
<1> QED BY <1>1, <1>2, <1>3

LEMMA PriorIs ==
  ASSUME IInv
  PROVE  /\ PendingPrior \in Connection \cup {NoConnection}
         /\ \A c \in Remembered \cup forgotten : c \in Connection \cup {NoConnection}
<1>1. pending # 0 => ops[pending].prior \in Connection \cup {NoConnection}
  <2>1. \A k \in Operation : k.prior \in Connection \cup {NoConnection}
    BY DEF Operation
  <2> QED BY <2>1, StateIs
<1>2. PendingPrior \in Connection \cup {NoConnection}
  BY <1>1 DEF PendingPrior
<1> QED BY <1>2 DEF IInv, ConnInv, Remembered

(* The current operation stays, with what it remembers, or there is none.  *)
SamePending ==
  \/ pending' = 0 /\ PendingPrior' = NoConnection
  \/ pending' = pending /\ PendingPrior' = PendingPrior

LEMMA ConnSame ==
  ASSUME IInv, UNCHANGED <<connVars, started, now, skewed>>, SamePending
  PROVE  ConnInv'
<1>1. \A c \in Remembered' : c \in Remembered \/ c = NoConnection
  BY DEF Remembered, SamePending, connVars
<1>2. \A c \in Remembered \cup forgotten : c.op <= started /\ (pending # 0 => c.op # pending)
  BY DEF IInv, ConnInv
<1>3. started \in Nat /\ pending \in Nat /\ NoConnection.op = 0
  BY StateIs DEF NoConnection
<1>4. \A c \in (Remembered \cup forgotten)' : c.op <= started' /\ (pending' # 0 => c.op # pending')
  BY <1>1, <1>2, <1>3 DEF SamePending, connVars
<1>5. (Remembered \cap forgotten)' = {}
  BY <1>1 DEF IInv, ConnInv, connVars
<1>6. (~skewed => /\ connection # NoConnection => connTimer = connection
                  /\ Unexpired(PendingPrior) => connTimer = PendingPrior)'
  BY DEF IInv, ConnInv, connVars, Unexpired, SamePending
<1> QED BY <1>4, <1>5, <1>6 DEF IInv, ConnInv, connVars

LEMMA ConnRestore ==
  ASSUME IInv, NEW prior \in Remembered \cup {NoConnection}, NEW otherwise \in {"error", "dormant"},
         RestorePrior(prior, otherwise), pending' = 0, PendingPrior' = NoConnection,
         UNCHANGED <<started, now, skewed>>
  PROVE  ConnInv'
<1>1. prior \in Connection \cup {NoConnection}
  BY PriorIs
<1>2. \A c \in Remembered \cup forgotten : c.op <= started
  BY DEF IInv, ConnInv
<1>3. started \in Nat /\ NoConnection.op = 0
  BY StateIs DEF NoConnection
<1>4. CASE Unexpired(prior)
  <2>1. /\ connection' = prior /\ connTimer' = connTimer /\ forgotten' = forgotten
        /\ published' = [status |-> "connected", conn |-> prior]
    BY <1>4 DEF RestorePrior, Publish
  <2>2. skewed \/ connTimer = prior
    BY <1>4 DEF IInv, ConnInv, Remembered, Unexpired
  <2>3. \A c \in Remembered' : c = prior \/ c = NoConnection
    BY <2>1 DEF Remembered
  <2>4. (Remembered \cap forgotten)' = {}
    BY <2>1, <2>3 DEF IInv, ConnInv
  <2>5. \A c \in (Remembered \cup forgotten)' : c.op <= started'
    BY <2>1, <2>3, <1>2, <1>3
  <2>6. ~Unexpired(PendingPrior)'
    BY DEF Unexpired
  <2>7. published' \in [status : {"dormant", "opening", "connected", "error"},
                        conn : Connection \cup {NoConnection}] /\ published'.conn = connection'
    BY <2>1, <1>1
  <2> QED BY <2>1, <2>2, <2>4, <2>5, <2>6, <2>7, <1>1 DEF IInv, ConnInv
<1>5. CASE ~Unexpired(prior)
  <2>1. /\ connection' = NoConnection /\ connTimer' = NoConnection /\ forgotten' = forgotten
        /\ published' = [status |-> otherwise, conn |-> NoConnection]
    BY <1>5 DEF RestorePrior, Publish, ClearConnection
  <2>2. \A c \in Remembered' : c = NoConnection
    BY <2>1 DEF Remembered
  <2>3. (Remembered \cap forgotten)' = {}
    BY <2>1, <2>2 DEF IInv, ConnInv
  <2>4. \A c \in (Remembered \cup forgotten)' : c.op <= started'
    BY <2>1, <2>2, <1>2, <1>3
  <2>5. ~Unexpired(PendingPrior)'
    BY DEF Unexpired
  <2>6. published' \in [status : {"dormant", "opening", "connected", "error"},
                        conn : Connection \cup {NoConnection}] /\ published'.conn = connection'
    BY <2>1
  <2> QED BY <2>1, <2>3, <2>4, <2>5, <2>6 DEF IInv, ConnInv
<1> QED BY <1>4, <1>5

(* An expired connection goes; the current operation does not remember a   *)
(* living one whose timer this was.                                        *)
LEMMA ConnClears ==
  ASSUME IInv, connection' = NoConnection, connTimer' = NoConnection, forgotten' = forgotten,
         NEW status \in {"dormant", "opening"},
         published' = [status |-> status, conn |-> NoConnection],
         SamePending, UNCHANGED <<started, now, skewed>>,
         skewed \/ ~Unexpired(PendingPrior)
  PROVE  ConnInv'
<1>1. \A c \in Remembered' : c \in Remembered \/ c = NoConnection
  BY DEF Remembered, SamePending
<1>2. \A c \in Remembered \cup forgotten : c.op <= started /\ (pending # 0 => c.op # pending)
  BY DEF IInv, ConnInv
<1>3. started \in Nat /\ NoConnection.op = 0
  BY StateIs DEF NoConnection
<1>4. \A c \in (Remembered \cup forgotten)' : c.op <= started' /\ (pending' # 0 => c.op # pending')
  BY <1>1, <1>2, <1>3 DEF SamePending
<1>5. (Remembered \cap forgotten)' = {}
  BY <1>1 DEF IInv, ConnInv
<1>6. skewed' \/ ~Unexpired(PendingPrior)'
  BY DEF SamePending, Unexpired
<1>7. published' \in [status : {"dormant", "opening", "connected", "error"},
                      conn : Connection \cup {NoConnection}] /\ published'.conn = connection'
  OBVIOUS
<1> QED BY <1>4, <1>5, <1>6, <1>7 DEF IInv, ConnInv

(* The connection is ended, and the current operation with it.             *)
LEMMA ConnForgets ==
  ASSUME IInv, ClearConnection, Forget(connection),
         NEW status \in {"dormant", "error"}, Publish(status, NoConnection),
         pending' = 0, PendingPrior' = NoConnection, UNCHANGED <<started, now, skewed>>
  PROVE  ConnInv'
<1>1. /\ connection' = NoConnection /\ connTimer' = NoConnection
      /\ forgotten' = forgotten \cup ({connection} \ {NoConnection})
      /\ published' = [status |-> status, conn |-> NoConnection]
  BY DEF ClearConnection, Forget, Publish
<1>2. \A c \in Remembered' : c = NoConnection
  BY <1>1 DEF Remembered
<1>3. \A c \in forgotten' : c \in Remembered \cup forgotten /\ c # NoConnection
  BY <1>1 DEF IInv, ConnInv, Remembered
<1>4. started \in Nat /\ NoConnection.op = 0
  BY StateIs DEF NoConnection
<1>5. \A c \in (Remembered \cup forgotten)' : c.op <= started'
  BY <1>2, <1>3, <1>4 DEF IInv, ConnInv
<1>6. (Remembered \cap forgotten)' = {} /\ NoConnection \notin forgotten'
  BY <1>2, <1>3
<1>7. ~Unexpired(PendingPrior)'
  BY DEF Unexpired
<1>8. forgotten' \subseteq Connection
  BY <1>1 DEF IInv, ConnInv
<1>9. published' \in [status : {"dormant", "opening", "connected", "error"},
                      conn : Connection \cup {NoConnection}] /\ published'.conn = connection'
  BY <1>1
<1> QED BY <1>1, <1>5, <1>6, <1>7, <1>8, <1>9 DEF IInv, ConnInv

(* The connection of the operation that completes: never one that ended.   *)
LEMMA ConnInstalls ==
  ASSUME IInv, pending # 0, NEW e \in Readings,
         InstallConnection([op |-> pending, expires |-> e]),
         pending' = 0, PendingPrior' = NoConnection, UNCHANGED <<started, now, skewed>>
  PROVE  ConnInv'
<1> DEFINE c == [op |-> pending, expires |-> e]
<1>1. /\ connection' = c /\ connTimer' = c /\ forgotten' = forgotten
      /\ published' = [status |-> "connected", conn |-> c]
  BY DEF InstallConnection, Publish
<1>2. c \in Connection /\ c.op = pending /\ pending <= started /\ started \in Nat /\ NoConnection.op = 0
  BY StateIs DEF Connection, NoConnection
<1> HIDE DEF c
<1>3. \A d \in Remembered' : d = c \/ d = NoConnection
  BY <1>1 DEF Remembered
<1>4. \A d \in forgotten : d.op <= started /\ d.op # pending
  BY DEF IInv, ConnInv
<1>5. (Remembered \cap forgotten)' = {}
  BY <1>1, <1>2, <1>3, <1>4 DEF IInv, ConnInv
<1>6. \A d \in (Remembered \cup forgotten)' : d.op <= started'
  BY <1>1, <1>2, <1>3, <1>4
<1>7. ~Unexpired(PendingPrior)'
  BY DEF Unexpired
<1>8. published' \in [status : {"dormant", "opening", "connected", "error"},
                      conn : Connection \cup {NoConnection}] /\ published'.conn = connection'
  BY <1>1, <1>2
<1> QED BY <1>1, <1>2, <1>5, <1>6, <1>7, <1>8 DEF IInv, ConnInv

(* A new operation remembers the connection that is held.                  *)
LEMMA ConnStarts ==
  ASSUME IInv, started' = started + 1, pending' = started + 1, forgotten' = forgotten,
         \/ connection' = connection /\ connTimer' = connTimer
         \/ connection' = NoConnection /\ connTimer' = NoConnection,
         PendingPrior' = connection', Publish("opening", connection'),
         UNCHANGED <<now, skewed>>
  PROVE  ConnInv'
<1>1. \A c \in Remembered' : c \in Remembered \/ c = NoConnection
  BY DEF Remembered
<1>2. \A c \in Remembered \cup forgotten : c.op <= started /\ c.op \in Nat
  BY PriorIs, ConnectionsAre DEF IInv, ConnInv
<1>3. started \in Nat /\ NoConnection.op = 0
  BY StateIs DEF NoConnection
<1>4. \A c \in (Remembered \cup forgotten)' : c.op <= started' /\ c.op # pending'
  <2>1. \A c \in (Remembered \cup forgotten)' : c.op \in Nat /\ c.op <= started
    BY <1>1, <1>2, <1>3
  <2> QED BY <2>1, <1>3
<1>5. (Remembered \cap forgotten)' = {}
  BY <1>1 DEF IInv, ConnInv
<1>6. connection' \in Connection \cup {NoConnection} /\ connTimer' \in Connection \cup {NoConnection}
  BY DEF IInv, ConnInv
<1>7. published' \in [status : {"dormant", "opening", "connected", "error"},
                      conn : Connection \cup {NoConnection}] /\ published'.conn = connection'
  BY <1>6 DEF Publish
<1>8. (~skewed => /\ connection # NoConnection => connTimer = connection
                  /\ Unexpired(PendingPrior) => connTimer = PendingPrior)'
  BY DEF IInv, ConnInv, Unexpired
<1> QED BY <1>4, <1>5, <1>6, <1>7, <1>8 DEF IInv, ConnInv

-----------------------------------------------------------------------------
(* An operation kept elsewhere is not touched when another one is retired. *)
Spares(b, c, q) ==
  c.ops[q] = b.ops[q] /\ (Reg(q) \in c.sent <=> Reg(q) \in b.sent)

LEMMA CancelSpares ==
  ASSUME NEW b \in BookSet, NEW p \in Ops, b.ops[p] \in Operation, Sound(b.ops[p]),
         IsInjective(b.retired), NEW q \in Ops, q # p
  PROVE  Spares(b, CancelOnce(b, p), q)
<1>1. b.ops \in [Ops -> Operation \cup {NoOperation}]
  BY DEF BookSet
<1>2. CASE ~b.ops[p].challenge
  <2>1. CancelOnce(b, p) = FinishCleanup(b, p)
    BY <1>2 DEF CancelOnce
  <2> DEFINE c == FinishCleanup(b, p)
  <2>2. c.ops = [b.ops EXCEPT ![p] = Finished(b.ops[p])] /\ c.sent = b.sent
    BY FinishCleanupIs
  <2> HIDE DEF c
  <2>3. c.ops[q] = b.ops[q]
    BY <2>2, <1>1
  <2> QED BY <2>1, <2>2, <2>3 DEF Spares, c
<1>3. CASE b.ops[p].challenge
  <2> DEFINE d == Send(b, "cancel", p)
             k == [b.ops[p] EXCEPT !.cleaner = "cancel"]
             c == SetOp(d, p, k)
  <2>1. k \in Operation
    BY DEF Operation
  <2>2. d \in BookSet /\ d.ops = b.ops /\ d.sent = b.sent \cup {Can(p)}
    BY SendIs DEF Can
  <2>3. CancelOnce(b, p) = c
    BY <1>3, <2>2 DEF CancelOnce, SetOp
  <2> HIDE DEF d, k
  <2>4. c.ops = [b.ops EXCEPT ![p] = k] /\ c.sent = b.sent \cup {Can(p)}
    BY <2>1, <2>2, SetOpIs
  <2> HIDE DEF c
  <2>5. c.ops[q] = b.ops[q]
    BY <2>4, <1>1
  <2>6. Reg(q) # Can(p)
    BY DEF Reg, Can
  <2> QED BY <2>3, <2>4, <2>5, <2>6 DEF Spares
<1> QED BY <1>2, <1>3

LEMMA RetireTailSpares ==
  ASSUME NEW b, NEW p, NEW cleanup, Addable(b, p), Sound(b.ops[p]),
         NEW q \in Ops, q # p, q \notin Range(b.retired)
  PROVE  Spares(b, RetireTail(b, p, cleanup), q)
<1> DEFINE c == RetireTail(b, p, cleanup)
           d == AddRetired(b, p)
           m == SetOp(b, p, [b.ops[p] EXCEPT !.outcome = "not-started"])
           f == SetOp(d, p, [d.ops[p] EXCEPT !.cleanupStarted = TRUE])
<1>1. /\ b \in BookSet /\ p \in Ops /\ b.ops[p] \in Operation /\ IsInjective(b.retired)
      /\ b.ops \in [Ops -> Operation \cup {NoOperation}]
  BY DEF Addable, BookSet
<1>2. /\ p \in Range(d.retired) /\ d.sent = b.sent /\ d.ops[p] = b.ops[p]
      /\ d \in BookSet /\ IsInjective(d.retired) /\ d.ops[q] = b.ops[q]
  BY AddRetiredIs
<1>3. \/ c = FinishCleanup(b, p)
      \/ c = FinishCleanup(m, p)
      \/ c = d
      \/ c = EnsureCleanup(d, p)
  BY DEF RetireTail, SetOp
<1>4. AddRetired(f, p) = f \/ f.retired # d.retired
  BY <1>2 DEF AddRetired
<1>5. EnsureCleanup(d, p) = d \/ EnsureCleanup(d, p) = CancelOnce(AddRetired(f, p), p)
  BY DEF EnsureCleanup, SetOp
<1>6. Spares(b, FinishCleanup(b, p), q)
  <2> DEFINE e == FinishCleanup(b, p)
  <2>1. e.ops = [b.ops EXCEPT ![p] = Finished(b.ops[p])] /\ e.sent = b.sent
    BY <1>1, FinishCleanupIs
  <2> HIDE DEF e
  <2>2. e.ops[q] = b.ops[q]
    BY <2>1, <1>1
  <2> QED BY <2>1, <2>2 DEF Spares, e
<1>7. CASE c = FinishCleanup(m, p) /\ c # FinishCleanup(b, p) /\ c # d /\ c # EnsureCleanup(d, p)
  <2>1. b.ops[p].phase = "hashing"
    BY <1>7 DEF RetireTail, SetOp
  <2> DEFINE k == [b.ops[p] EXCEPT !.outcome = "not-started"]
  <2>2. /\ k \in Operation /\ k.outcome = "not-started" /\ k.phase = b.ops[p].phase
        /\ k.task = b.ops[p].task /\ k.redeems = b.ops[p].redeems
        /\ k.cleanupFinished = b.ops[p].cleanupFinished
        /\ k.operationTimer = b.ops[p].operationTimer
    BY <1>1 DEF Operation, Outcomes
  <2> HIDE DEF k
  <2>3. Sound(k)
    BY <2>1, <2>2 DEF Sound
  <2>4. /\ m \in BookSet /\ m.ops = [b.ops EXCEPT ![p] = k] /\ m.ops[p] = k
        /\ m.retired = b.retired /\ m.sent = b.sent
    BY <1>1, <2>2, SetOpIs DEF k
  <2> HIDE DEF m
  <2> DEFINE e == FinishCleanup(m, p)
  <2>5. e.ops = [m.ops EXCEPT ![p] = Finished(m.ops[p])] /\ e.sent = m.sent
    BY <1>1, <2>2, <2>3, <2>4, FinishCleanupIs
  <2> HIDE DEF e
  <2>6. e.ops[q] = b.ops[q]
    BY <2>4, <2>5, <1>1
  <2> QED BY <1>7, <2>4, <2>5, <2>6 DEF Spares, e
<1>8. Spares(b, d, q)
  BY <1>2 DEF Spares
<1>9. Spares(b, CancelOnce(f, p), q) /\ f.retired = d.retired
  <2> DEFINE k == [d.ops[p] EXCEPT !.cleanupStarted = TRUE]
  <2>1. /\ k \in Operation /\ k.outcome = d.ops[p].outcome /\ k.phase = d.ops[p].phase
        /\ k.task = d.ops[p].task /\ k.redeems = d.ops[p].redeems
        /\ k.cleanupFinished = d.ops[p].cleanupFinished
        /\ k.operationTimer = d.ops[p].operationTimer
    BY <1>1, <1>2 DEF Operation
  <2>0. f = SetOp(d, p, k)
    OBVIOUS
  <2> HIDE DEF k, f
  <2>2. Sound(k)
    BY <1>2, <2>1 DEF Sound
  <2>3. /\ f \in BookSet /\ f.ops = [d.ops EXCEPT ![p] = k] /\ f.ops[p] = k
        /\ f.retired = d.retired /\ f.sent = d.sent
    BY <1>1, <1>2, <2>0, <2>1, SetOpIs
  <2> HIDE DEF f
  <2>4. Spares(f, CancelOnce(f, p), q)
    BY <1>1, <1>2, <2>1, <2>2, <2>3, CancelSpares
  <2>5. f.ops[q] = d.ops[q]
    BY <1>2, <2>3 DEF BookSet
  <2> QED BY <1>2, <2>3, <2>4, <2>5 DEF Spares
<1> QED BY <1>3, <1>4, <1>5, <1>6, <1>7, <1>8, <1>9

LEMMA RetireQuietlySpares ==
  ASSUME NEW b, NEW n, NEW pend, NEW loose, NEW owed, NEW gone, NEW top, NEW gen, NEW prior,
         Tracked(b, n, pend, loose, owed, gone, top, gen, prior),
         pend \notin owed, NEW q \in loose
  PROVE  Spares(b, RetireQuietly(b, pend), q)
<1>1. CASE pend = 0
  BY <1>1 DEF RetireQuietly, Spares
<1>2. CASE pend # 0
  <2> DEFINE o == b.ops[pend]
             k == Deactivated(o)
             d == SetOp(b, pend, k)
  <2>1. /\ b \in BookSet /\ pend \in 1..n /\ pend \in Ops /\ o \in Operation /\ Sound(o)
        /\ Ledger(b, n, pend, loose, owed, gone, top, gen, prior)
        /\ b.ops \in [Ops -> Operation \cup {NoOperation}]
        /\ Len(b.retired) <= MaxRetired /\ IsInjective(b.retired)
        /\ loose \subseteq 1..n /\ Range(b.retired) \subseteq 1..n /\ 1..n \subseteq Ops
        /\ \A p \in 1..n : b.ops[p] \in Operation /\ Sound(b.ops[p])
    BY <1>2, LedgerTypes DEF Tracked
  <2>2. /\ OpFacts(b, pend, pend, loose, owed, gone) /\ o.active /\ o.settlements = 0
        /\ ~o.cleanupFinished /\ pend \notin Range(b.retired) /\ pend \notin loose
        /\ q \notin Range(b.retired)
    BY <2>1 DEF Ledger, OpFacts, OpInv, Place, Apart
  <2>3. k \in Operation /\ Sound(k) /\ k.cleanupFinished = o.cleanupFinished
    BY <2>1, <2>2, DeactivatedIs
  <2>4. RetireQuietly(b, pend) = RetireTail(d, pend, TRUE)
    BY <1>2, <2>2 DEF RetireQuietly, SetOp
  <2> HIDE DEF k
  <2>5. /\ d \in BookSet /\ d.ops = [b.ops EXCEPT ![pend] = k] /\ d.ops[pend] = k
        /\ d.retired = b.retired /\ d.sent = b.sent
    BY <2>1, <2>3, SetOpIs
  <2> HIDE DEF d
  <2>6. \A p \in Ops : p # pend => d.ops[p] = b.ops[p]
    BY <2>1, <2>5
  <2>7. Addable(d, pend)
    BY <2>1, <2>2, <2>3, <2>5, <2>6 DEF Addable
  <2>8. q \in Ops /\ q # pend /\ q \notin Range(d.retired)
    BY <2>1, <2>2, <2>5
  <2>9. Spares(d, RetireTail(d, pend, TRUE), q)
    BY <2>3, <2>5, <2>7, <2>8, RetireTailSpares
  <2>10. Spares(b, d, q)
    BY <2>5, <2>6, <2>8 DEF Spares
  <2> QED BY <2>4, <2>9, <2>10 DEF Spares
<1> QED BY <1>1, <1>2

-----------------------------------------------------------------------------
(* The steps of the calls.                                                 *)
LEMMA MarkStaleIs ==
  ASSUME frame \in Frames
  PROVE  /\ MarkStale \in Frames /\ MarkStale.tail = frame.tail
         /\ LooseOf(MarkStale) = LooseOf(frame) /\ OwedOf(MarkStale) = OwedOf(frame)
         /\ \A k : TopOf(MarkStale, k) = k
         /\ frame.tail = "execute" => MarkStale.call = frame.call
         /\ frame.tail # "execute" => MarkStale = frame
<1>1. CASE frame.tail = "execute"
  <2>1. frame \in [tail : {"execute"}, kind : Kinds, call : Nat, stale : BOOLEAN]
    BY <1>1 DEF Frames, NoFrame
  <2>2. MarkStale = [frame EXCEPT !.stale = TRUE]
    BY <1>1 DEF MarkStale
  <2> DEFINE m == [frame EXCEPT !.stale = TRUE]
  <2>3. m \in [tail : {"execute"}, kind : Kinds, call : Nat, stale : BOOLEAN]
        /\ m.stale = TRUE /\ m.call = frame.call
    BY <2>1
  <2> HIDE DEF m
  <2>4. m \in Frames /\ m.tail = "execute"
    BY <2>3 DEF Frames
  <2> QED BY <1>1, <2>2, <2>3, <2>4, FrameKinds DEF TopOf, m
<1>2. CASE frame.tail # "execute"
  BY <1>2 DEF MarkStale, TopOf
<1> QED BY <1>1, <1>2

LEMMA TopIs ==
  ASSUME IInv
  PROVE  TopOf(frame, calls) \in Int /\ TopOf(frame, calls) <= calls
<1>1. frame \in Frames /\ calls \in Nat /\ (frame.tail = "execute" => frame.call <= calls)
  BY DEF IInv, FrameInv, EnvInv
<1>2. frame.tail = "execute" => frame.call \in Nat
  BY <1>1, FrameKinds
<1> QED BY <1>1, <1>2 DEF TopOf

LEMMA NewOperationIs ==
  ASSUME NEW kind \in Kinds, NEW call \in Nat, NEW prior \in Connection \cup {NoConnection},
         NEW gen \in Nat, MayStart, now \in Readings, NEW nested \in BOOLEAN
  PROVE  LET n == NewOperation(kind, call, prior, gen)
             o == IF nested THEN Hashing(n) ELSE n
         IN  /\ o \in Operation /\ Sound(o) /\ o.active /\ o.phase = "hashing"
             /\ ~o.cleanupFinished /\ o.cleaner = "none" /\ o.settlements = 0
             /\ o.call = call /\ o.generation = gen /\ o.prior = prior /\ o.outcome = "none"
<1> DEFINE n == NewOperation(kind, call, prior, gen)
           h == Hashing(n)
<1>1. now + RegistrationWindow \in Readings /\ 0 \in Readings
  BY RelayClientAssumption DEF MayStart, Readings
<1>2. n \in Operation
  BY <1>1 DEF NewOperation, Operation, Phases, Outcomes
<1>3. /\ n.active /\ n.phase = "hashing" /\ n.redeems = 0 /\ n.outcome = "none" /\ n.task = "none"
      /\ ~n.cleanupFinished /\ n.cleaner = "none" /\ n.settlements = 0
      /\ n.call = call /\ n.generation = gen /\ n.prior = prior
  BY DEF NewOperation
<1> HIDE DEF n
<1>4. h \in Operation
  BY <1>2 DEF Hashing, Operation
<1>5. /\ h.active = n.active /\ h.phase = n.phase /\ h.redeems = n.redeems /\ h.outcome = n.outcome
      /\ h.task = "hash" /\ h.cleanupFinished = n.cleanupFinished /\ h.cleaner = n.cleaner
      /\ h.settlements = n.settlements /\ h.call = n.call /\ h.generation = n.generation
      /\ h.prior = n.prior
  BY <1>2 DEF Hashing, Operation
<1> HIDE DEF h
<1>6. Sound(n) /\ Sound(h)
  BY <1>3, <1>5 DEF Sound
<1> QED BY <1>2, <1>3, <1>4, <1>5, <1>6 DEF n, h

LEMMA GenerationIs ==
  ASSUME IInv
  PROVE  GenerationAfterRetire \in Nat
BY DEF IInv, EnvInv, GenerationAfterRetire

LEMMA StartNext ==
  ASSUME IInv, NEW kind \in Kinds, NEW call \in Nat, NEW prior \in Connection \cup {NoConnection},
         NEW nested \in BOOLEAN, StartOperation(kind, call, prior, nested),
         ~destroyed, destroyed' = destroyed, TopOf(frame, calls) < call,
         calls' \in Nat, calls <= calls', call <= calls',
         nested = TRUE \/ frame.tail \in {"none", "execute"}
  PROVE  /\ BookNext(prior) /\ FrameInv' /\ generation' \in Nat
         /\ started' = started + 1 /\ pending' = started + 1
<1> DEFINE p == started + 1
           gen == GenerationAfterRetire + 1
           n == NewOperation(kind, call, prior, gen)
           o == IF nested THEN Hashing(n) ELSE n
           b == RetireQuietly(Books, pending)
           c == SetOp(b, p, o)
           loose == LooseOf(frame)
           owed == OwedOf(frame)
           top == TopOf(frame, calls)
<1>1. /\ MayStart /\ started' = p /\ pending' = p /\ generation' = gen
      /\ Becomes(c) /\ frame' = IF nested THEN MarkStale ELSE [tail |-> "register", op |-> p]
  BY DEF StartOperation, SetOp
<1>2. gen \in Nat /\ now \in Readings /\ calls \in Nat /\ top \in Int /\ frame \in Frames
  BY GenerationIs, TopIs DEF IInv, EnvInv, FrameInv
<1>3. /\ o \in Operation /\ Sound(o) /\ o.active /\ o.phase = "hashing"
      /\ ~o.cleanupFinished /\ o.cleaner = "none" /\ o.settlements = 0
      /\ o.call = call /\ o.generation = gen /\ o.prior = prior /\ o.outcome = "none"
  <2>1. MayStart /\ kind \in Kinds /\ call \in Nat /\ nested \in BOOLEAN /\ now \in Readings
        /\ prior \in Connection \cup {NoConnection} /\ gen \in Nat
    BY <1>1, <1>2
  <2> HIDE DEF gen
  <2> QED BY ONLY <2>1, NewOperationIs
<1>4. /\ Tracked(Books, started, pending, loose, owed, destroyed, top, generation, PendingPrior)
      /\ pending \notin owed /\ pending \notin loose /\ owed \subseteq loose
      /\ started \in Nat /\ started <= MaxOps /\ p \in Ops /\ p # 0
  <2>1. Tracked(Books, started, pending, loose, owed, destroyed, top, generation, PendingPrior)
    BY DEF IInv, BookInv
  <2>2. started < MaxOps
    BY <1>1 DEF MayStart
  <2>3. pending \notin owed /\ pending \notin loose /\ started \in Nat /\ started <= MaxOps
    BY StateIs
  <2>4. p \in Ops /\ p # 0
    BY <2>2, <2>3, RelayClientAssumption DEF Ops
  <2> QED BY <2>1, <2>3, <2>4, <1>2, FrameKinds
<1> HIDE DEF o, b, c, loose, owed, top, gen
<1>5. Tracked(b, started, 0, loose, owed, destroyed, top, generation, PendingPrior)
  BY <1>4, RetireQuietlyKeeps DEF b
<1>6. started < MaxOps
  BY <1>1 DEF MayStart
<1>7. top < o.call
  BY <1>3 DEF top
<1>8. Tracked(c, p, p, loose, owed, destroyed, o.call, o.generation, o.prior)
  BY ONLY <1>5, <1>6, <1>4, <1>2, <1>3, <1>7, BornKeeps DEF c
<1>9. c \in BookSet
  BY <1>8 DEF Tracked, Ledger
<1>10. Books' = c
  BY <1>1, <1>9, BecomesIs
<1>11. Tracked(c, p, p, loose, owed, destroyed, calls', gen, prior)
  BY <1>3, <1>8, TrackedWeakens
<1>12. /\ frame' \in Frames /\ LooseOf(frame') = loose /\ OwedOf(frame') = owed
       /\ TopOf(frame', calls') = calls'
  <2>1. CASE nested
    BY <2>1, <1>1, <1>2, MarkStaleIs DEF loose, owed
  <2>2. CASE ~nested
    <3>1. frame' = [tail |-> "register", op |-> p]
      BY <2>2, <1>1
    <3>2. frame' \in Frames /\ frame'.tail = "register"
      BY <3>1, <1>4 DEF Frames
    <3>3. loose = {} /\ owed = {}
      BY <2>2, <1>2, FrameKinds DEF loose, owed
    <3> QED BY <3>2, <3>3, FrameKinds DEF TopOf
  <2> QED BY <2>1, <2>2
<1>13. BookNext(prior)
  BY <1>1, <1>10, <1>11, <1>12 DEF BookNext
<1>14. FrameInv'
  <2>1. ops'[p] = o
    <3>1. b \in BookSet
      BY <1>5 DEF Tracked, Ledger
    <3>2. SetOp(b, p, o).ops[p] = o
      BY <3>1, <1>4 DEF SetOp, BookSet
    <3> QED BY <1>10, <3>2 DEF Books, c
  <2>2. CASE nested
    <3>1. frame' = MarkStale /\ frame'.tail = frame.tail
          /\ (frame.tail = "execute" => frame'.call = frame.call)
          /\ (frame.tail # "execute" => frame' = frame)
      BY <2>2, <1>1, <1>2, MarkStaleIs
    <3>2. frame'.tail = "execute" => frame'.call <= calls'
      <4>1. frame.tail = "execute" => frame.call <= calls /\ frame.call \in Nat
        BY <1>2, FrameKinds DEF IInv, FrameInv
      <4> QED BY <3>1, <4>1, <1>2
    <3>3. frame'.tail \in {"register", "complete", "retire"} =>
            frame'.op \in 1..started' /\ frame'.op # pending'
      <4>1. frame'.tail \in {"register", "complete", "retire"} =>
              frame' = frame /\ frame'.op \in 1..started
        BY <3>1 DEF IInv, FrameInv
      <4>2. \A q \in 1..started : q \in 1..started' /\ q # pending'
        BY <1>1, <1>4
      <4> QED BY <4>1, <4>2
    <3>4. frame'.tail = "retire" => frame'.cleanup \/ Forgettable(Books', frame'.op)
      <4> SUFFICES ASSUME frame'.tail = "retire", ~frame'.cleanup
                   PROVE  Forgettable(Books', frame'.op)
        OBVIOUS
      <4> DEFINE q == frame.op
      <4>1. frame' = frame /\ q \in 1..started /\ Forgettable(Books, q)
        BY <3>1 DEF IInv, FrameInv
      <4>2. q \in loose /\ q # p /\ q \in Ops
        <5>1. q \in loose
          BY <4>1, <1>2, FrameKinds DEF loose
        <5>2. q # p
          BY <4>1, <1>4
        <5> QED BY <5>1, <5>2 DEF loose, LooseOf
      <4> HIDE DEF q
      <4>3. Spares(Books, b, q)
        BY <1>4, <4>2, RetireQuietlySpares DEF b
      <4>4. b \in BookSet /\ b.ops \in [Ops -> Operation \cup {NoOperation}]
        BY <1>5 DEF Tracked, Ledger, BookSet
      <4>5. c.ops = [b.ops EXCEPT ![p] = o] /\ c.sent = b.sent
        BY <4>4, <1>3, <1>4, SetOpIs DEF c
      <4>6. c.ops[q] = b.ops[q]
        BY <4>2, <4>4, <4>5
      <4>7. Forgettable(c, q)
        BY <4>1, <4>3, <4>5, <4>6 DEF Spares, Forgettable
      <4> QED BY <4>1, <4>7, <1>10 DEF q
    <3>5. ~destroyed'
      OBVIOUS
    <3> QED BY <3>2, <3>3, <3>4, <3>5, <1>12 DEF FrameInv
  <2>3. CASE ~nested
    <3>1. frame' = [tail |-> "register", op |-> p]
      BY <2>3, <1>1
    <3>2. frame'.tail = "register" /\ frame'.op = p /\ p \in 1..started'
      BY <3>1, <1>1, <1>4
    <3>3. ops'[pending'].phase = "hashing"
      BY <2>1, <1>1, <1>3
    <3> QED BY <3>2, <3>3, <1>12 DEF FrameInv
  <2> QED BY <2>2, <2>3
<1> QED BY <1>1, <1>2, <1>13, <1>14

(* The code behind a publish is none the worse for a listener that ends    *)
(* the current operation.                                                  *)
LEMMA FrameStays ==
  ASSUME IInv, frame' \in {MarkStale, NoFrame}, UNCHANGED <<calls, started>>,
         pending' = 0, destroyed' \in BOOLEAN, destroyed' => retired' = <<>>,
         ~destroyed' /\ frame.tail = "retire" => Spares(Books, Books', frame.op) /\ ~destroyed
  PROVE  FrameInv'
<1>1. frame \in Frames
  BY DEF IInv, FrameInv
<1>2. CASE frame' = NoFrame
  BY <1>2, NoFrameIs DEF FrameInv
<1>3. CASE frame' = MarkStale
  <2>1. /\ frame' \in Frames /\ frame'.tail = frame.tail
        /\ frame.tail = "execute" => frame'.call = frame.call
        /\ frame.tail # "execute" => frame' = frame
    BY <1>1, <1>3, MarkStaleIs
  <2>2. frame'.tail = "execute" => frame'.call <= calls'
    BY <2>1 DEF IInv, FrameInv
  <2>3. frame'.tail \in {"register", "complete", "retire"} =>
          frame'.op \in 1..started' /\ frame'.op # pending'
    <3>1. frame'.tail \in {"register", "complete", "retire"} =>
            frame'.op \in 1..started
      BY <2>1 DEF IInv, FrameInv
    <3>2. \A q \in 1..started : q # 0
      BY StateIs
    <3> QED BY <3>1, <3>2
  <2>4. frame'.tail = "retire" => destroyed' \/ frame'.cleanup \/ Forgettable(Books', frame'.op)
    <3> SUFFICES ASSUME frame'.tail = "retire", ~frame'.cleanup, ~destroyed'
                 PROVE  Forgettable(Books', frame'.op)
      OBVIOUS
    <3>1. frame' = frame /\ Forgettable(Books, frame.op) /\ Spares(Books, Books', frame.op)
      BY <2>1 DEF IInv, FrameInv
    <3> QED BY <3>1 DEF Spares, Forgettable
  <2>5. destroyed' => pending' = 0 /\ retired' = <<>>
    OBVIOUS
  <2> QED BY <2>1, <2>2, <2>3, <2>4, <2>5 DEF FrameInv
<1> QED BY <1>2, <1>3

(* The current operation is retired and none follows it.                   *)
LEMMA StopNext ==
  ASSUME IInv, ~destroyed, destroyed' = destroyed, UNCHANGED <<calls, started>>,
         Becomes(RetireQuietly(Books, pending)), pending' = 0,
         \/ frame' = MarkStale
         \/ frame' = NoFrame /\ frame.tail \in {"none", "execute"}
  PROVE  BookNext(NoConnection) /\ FrameInv'
<1> DEFINE b == RetireQuietly(Books, pending)
           loose == LooseOf(frame)
           owed == OwedOf(frame)
           top == TopOf(frame, calls)
<1>1. Tracked(Books, started, pending, loose, owed, destroyed, top, generation, PendingPrior)
      /\ pending \notin owed /\ pending \notin loose /\ owed \subseteq loose
      /\ frame \in Frames /\ calls \in Int /\ top \in Int /\ top <= calls
  <2>1. frame \in Frames /\ calls \in Int
    BY DEF IInv, FrameInv, EnvInv
  <2> QED BY <2>1, StateIs, TopIs, FrameKinds DEF IInv, BookInv
<1>2. Tracked(b, started, 0, loose, owed, destroyed, top, generation, PendingPrior)
  <2> HIDE DEF loose, owed, top
  <2> QED BY <1>1, RetireQuietlyKeeps
<1>3. b \in BookSet
  BY <1>2 DEF Tracked, Ledger
<1>4. Books' = b
  BY <1>3, BecomesIs
<1>5. LooseOf(frame') = loose /\ OwedOf(frame') = owed /\ TopOf(frame', calls) = calls
  <2>1. CASE frame' = MarkStale
    BY <2>1, <1>1, MarkStaleIs
  <2>2. CASE frame' = NoFrame /\ frame.tail \in {"none", "execute"}
    BY <2>2, <1>1, FrameKinds, NoFrameIs
  <2> QED BY <2>1, <2>2
<1>6. BookNext(NoConnection)
  <2> HIDE DEF loose, owed, top, b
  <2>1. Tracked(b, started, 0, loose, owed, destroyed, calls, generation, PendingPrior)
    BY <1>1, <1>2, TrackedWeakens
  <2>2. Tracked(b, started, 0, loose, owed, destroyed, calls, generation', NoConnection)
    BY <2>1, NonePending
  <2> QED BY <2>2, <1>4, <1>5 DEF BookNext
<1>7. ASSUME frame.tail = "retire" PROVE Spares(Books, Books', frame.op)
  <2>1. frame.op \in loose
    BY <1>1, <1>7, FrameKinds
  <2> HIDE DEF loose, owed, top
  <2> QED BY <2>1, <1>1, <1>4, RetireQuietlySpares
<1>8. FrameInv'
  BY <1>7, FrameStays DEF IInv, EnvInv
<1> QED BY <1>6, <1>8

LEMMA DestroyNext ==
  ASSUME IInv, Destroy
  PROVE  BookNext(NoConnection) /\ FrameInv'
<1> DEFINE loose == LooseOf(frame)
           owed == OwedOf(frame)
           top == TopOf(frame, calls)
<1>1. Tracked(Books, started, pending, loose, owed, destroyed, top, generation, PendingPrior)
      /\ pending \notin owed /\ frame \in Frames /\ calls \in Int /\ top \in Int /\ top <= calls
  <2>1. frame \in Frames /\ calls \in Int
    BY DEF IInv, FrameInv, EnvInv
  <2> QED BY <2>1, StateIs, TopIs DEF IInv, BookInv
<1>2. /\ destroyed' = TRUE /\ Becomes(DestroyBooks) /\ pending' = 0 /\ frame' = MarkStale
      /\ calls' = calls /\ started' = started
  BY DEF Destroy, startVars
<1>3. LooseOf(frame') = loose /\ OwedOf(frame') = owed /\ TopOf(frame', calls) = calls
  BY <1>1, <1>2, MarkStaleIs
<1> HIDE DEF loose, owed, top
<1>4. Tracked(DestroyBooks, started, 0, loose, owed, TRUE, top, generation', NoConnection)
      /\ DestroyBooks.retired = <<>>
  BY <1>1, DestroyKeeps
<1>5. DestroyBooks \in BookSet
  BY <1>4 DEF Tracked, Ledger
<1>6. Books' = DestroyBooks
  BY <1>2, <1>5, BecomesIs
<1>7. BookNext(NoConnection)
  <2>1. Tracked(DestroyBooks, started, 0, loose, owed, TRUE, calls, generation', NoConnection)
    BY <1>1, <1>4, TrackedWeakens
  <2> QED BY <2>1, <1>2, <1>3, <1>6 DEF BookNext
<1>8. retired' = <<>>
  BY <1>2, <1>4 DEF Becomes
<1>9. FrameInv'
  BY <1>2, <1>8, FrameStays
<1> QED BY <1>7, <1>9

-----------------------------------------------------------------------------
(* The steps of the event loop.                                            *)
LEMMA EnvStays ==
  ASSUME IInv, UNCHANGED <<calls, destroyed, channel, now, skewed>>, callbacks' \subseteq callbacks,
         generation' \in Nat
  PROVE  EnvInv'
BY DEF IInv, EnvInv

(* Where an operation that is not finished is when no code is suspended.   *)
LEMMA WaitingIs ==
  ASSUME IInv, Running
  PROVE  /\ Tracked(Books, started, pending, {}, {}, destroyed, TopOf(frame, calls), generation,
                    PendingPrior)
         /\ TopOf(frame, calls) = calls
         /\ \A p \in Ops : Exists(p) =>
              /\ p \in 1..started
              /\ ops[p].task # "none" \/ ops[p].operationTimer =>
                   ~ops[p].cleanupFinished /\ (IsActive(p) \/ p \in Range(retired))
              /\ ops[p].cleaner # "none" => p \in Range(retired) /\ Can(p) \in sent
              /\ p \in Range(retired) => ~destroyed
<1>1. LooseOf(frame) = {} /\ OwedOf(frame) = {} /\ TopOf(frame, calls) = calls
  BY NoFrameIs DEF Running
<1>2. Tracked(Books, started, pending, {}, {}, destroyed, TopOf(frame, calls), generation, PendingPrior)
  BY <1>1 DEF IInv, BookInv
<1>3. ASSUME NEW p \in Ops, Exists(p)
      PROVE  /\ p \in 1..started
             /\ ops[p].task # "none" \/ ops[p].operationTimer =>
                  ~ops[p].cleanupFinished /\ (IsActive(p) \/ p \in Range(retired))
             /\ ops[p].cleaner # "none" => p \in Range(retired) /\ Can(p) \in sent
             /\ p \in Range(retired) => ~destroyed
  <2>1. /\ p \in 1..started /\ ops[p] \in Operation /\ Sound(ops[p])
        /\ pending # 0 => IsActive(pending)
    BY <1>3, StateIs
  <2>2. OpFacts(Books, p, pending, {}, {}, destroyed)
    BY <1>2, <2>1 DEF Tracked, Ledger
  <2>3. ~ops[p].cleanupFinished => p = pending \/ p \in Range(retired)
    BY <2>2, BooksAre DEF OpFacts, OpInv, Place
  <2>4. p # 0
    BY <2>1, StateIs
  <2>5. ops[p].task # "none" \/ ops[p].operationTimer => ~ops[p].cleanupFinished
    BY <2>1 DEF Sound
  <2>6. ops[p].cleaner # "none" => p \in Range(retired) /\ Can(p) \in sent
    BY <2>2, BooksAre DEF OpFacts, OpInv, Place
  <2>7. p \in Range(retired) => ~destroyed
    <3>1. Range(<<>>) = {}
      BY EmptySeq DEF Range
    <3> QED BY <3>1 DEF IInv, FrameInv
  <2> QED BY <2>1, <2>3, <2>4, <2>5, <2>6, <2>7
<1> QED BY <1>1, <1>2, <1>3

(* The books change, nobody waits behind a publish any more.               *)
LEMMA QuietNext ==
  ASSUME IInv, EnvInv', frame' = NoFrame, NEW c, Becomes(c),
         Tracked(c, started, pending, {}, {}, destroyed, TopOf(frame, calls), generation,
                 PendingPrior),
         destroyed => c.retired = <<>>,
         UNCHANGED <<calls, started, pending, generation, connVars, destroyed, now, skewed>>
  PROVE  IInv'
<1>1. c \in BookSet
  BY DEF Tracked, Ledger
<1>2. Books' = c /\ retired' = c.retired
  BY <1>1, BecomesIs DEF Becomes
<1>3. calls \in Int
  BY DEF IInv, EnvInv
<1>4. Tracked(c, started, pending, {}, {}, destroyed, calls, generation, PendingPrior)
  BY <1>3, TopIs, TrackedWeakens
<1>5. BookNext(PendingPrior)
  BY <1>2, <1>4, NoFrameIs DEF BookNext
<1>6. BookInv' /\ SamePending
  BY <1>5, PriorNext DEF SamePending
<1>7. ConnInv'
  BY <1>6, ConnSame
<1>8. FrameInv'
  BY <1>2, NoFrameIs DEF FrameInv, IInv
<1> QED BY <1>6, <1>7, <1>8 DEF IInv

(* The current operation advances, or one in #retired does.                *)
LEMMA ProgressNext ==
  ASSUME IInv, EnvInv', Running, frame' = frame, ~destroyed,
         NEW p \in 1..started, NEW c, NEW o, InPlace(Books, c, p, o), Becomes(c),
         UNCHANGED <<calls, started, pending, generation, connVars, destroyed, now, skewed>>
  PROVE  IInv'
<1>1. Tracked(Books, started, pending, {}, {}, destroyed, TopOf(frame, calls), generation, PendingPrior)
  BY WaitingIs
<1>2. Ledger(Books, started, pending, {}, {}, destroyed, TopOf(frame, calls), generation, PendingPrior)
      /\ Len(Books.retired) <= MaxRetired /\ c.retired = Books.retired
  BY <1>1 DEF Tracked, InPlace
<1>3. Ledger(c, started, pending, {}, {}, destroyed, TopOf(frame, calls), generation, PendingPrior)
  BY <1>2, ProgressKeeps
<1>4. Tracked(c, started, pending, {}, {}, destroyed, TopOf(frame, calls), generation, PendingPrior)
  BY <1>2, <1>3 DEF Tracked
<1> QED BY <1>4, QuietNext DEF Running

(* #failActive: the current operation is retired behind its publish.       *)
LEMMA FailNext ==
  ASSUME IInv, EnvInv', Running, pending # 0, NEW b, NEW cleanup \in BOOLEAN,
         Tracked(b, started, pending, {}, {}, destroyed, TopOf(frame, calls), generation,
                 PendingPrior),
         cleanup \/ Forgettable(b, pending),
         FailActive(b, pending, cleanup),
         UNCHANGED <<calls, started, destroyed, now, skewed>>
  PROVE  IInv'
<1> DEFINE k == Deactivated(b.ops[pending])
           c == SetOp(b, pending, k)
<1>1. /\ Ledger(b, started, pending, {}, {}, destroyed, TopOf(frame, calls), generation, PendingPrior)
      /\ b \in BookSet /\ pending \in 1..started /\ pending \in Ops
      /\ b.ops[pending] \in Operation /\ Sound(b.ops[pending]) /\ TopOf(frame, calls) = calls
      /\ ~destroyed
  <2>1. Ledger(b, started, pending, {}, {}, destroyed, TopOf(frame, calls), generation, PendingPrior)
    BY DEF Tracked
  <2> QED BY <2>1, LedgerTypes, WaitingIs, StateIs
<1>2. b.ops[pending].active /\ b.ops[pending].settlements = 0
  <2>1. OpFacts(b, pending, pending, {}, {}, destroyed)
    BY <1>1 DEF Ledger
  <2> QED BY <2>1 DEF OpFacts, OpInv, Place
<1>3. k \in Operation /\ k.outcome = b.ops[pending].outcome
  BY <1>1, <1>2, DeactivatedIs
<1>4. /\ Becomes(c) /\ pending' = 0 /\ generation' = generation + 1
      /\ PublishFailure(ops[pending].prior)
      /\ frame' = [tail |-> "retire", op |-> pending, cleanup |-> cleanup]
  BY DEF FailActive, SetOp
<1> HIDE DEF k
<1>5. c \in BookSet /\ c.ops[pending] = k /\ c.sent = b.sent
  BY <1>1, <1>3, SetOpIs
<1>6. Tracked(c, started, 0, {} \cup {pending}, {}, destroyed, TopOf(frame, calls), generation', NoConnection)
  BY DeactivateKeeps DEF k
<1> HIDE DEF c
<1>7. Books' = c
  BY <1>4, <1>5, BecomesIs
<1>8. /\ frame' \in Frames /\ frame'.tail = "retire" /\ frame'.op = pending
      /\ frame'.cleanup = cleanup
      /\ LooseOf(frame') = {pending} /\ OwedOf(frame') = {} /\ TopOf(frame', calls) = calls
  <2>1. frame' \in Frames /\ frame'.tail = "retire" /\ frame'.op = pending /\ frame'.cleanup = cleanup
    BY <1>1, <1>4 DEF Frames
  <2> QED BY <2>1, FrameKinds DEF TopOf
<1>9. BookNext(NoConnection)
  <2>1. {} \cup {pending} = {pending}
    OBVIOUS
  <2> QED BY <1>1, <1>4, <1>6, <1>7, <1>8, <2>1 DEF BookNext
<1>10. BookInv' /\ PendingPrior' = NoConnection
  BY <1>4, <1>9, PriorNext
<1>11. ops[pending].prior \in Remembered
  BY DEF Remembered, PendingPrior
<1>12. ConnInv'
  BY <1>4, <1>10, <1>11, ConnRestore DEF PublishFailure
<1>13. FrameInv'
  <2>1. cleanup \/ Forgettable(Books', pending)
    BY <1>3, <1>5, <1>7 DEF Forgettable
  <2> QED BY <1>1, <1>8, <2>1 DEF FrameInv
<1> QED BY <1>10, <1>12, <1>13 DEF IInv

-----------------------------------------------------------------------------
(* Books that differ from those of the state in one operation's progress.  *)
Steady(b) ==
  Tracked(b, started, pending, {}, {}, destroyed, TopOf(frame, calls), generation, PendingPrior)

Advances(o, k) ==
  /\ k \in Operation /\ Sound(k)
  /\ k.call = o.call /\ k.generation = o.generation /\ k.active = o.active /\ k.prior = o.prior
  /\ k.settlements = o.settlements /\ k.cleanupFinished = o.cleanupFinished
  /\ k.cleaner = o.cleaner
  /\ o.challenge => k.challenge
  /\ k.phase = "hashing" => o.phase = "hashing"
  /\ k.outcome = "not-started" => o.outcome = "not-started"

LEMMA SteadyIs ==
  ASSUME NEW b, Steady(b)
  PROVE  /\ Ledger(b, started, pending, {}, {}, destroyed, TopOf(frame, calls), generation,
                   PendingPrior)
         /\ b \in BookSet /\ Len(b.retired) <= MaxRetired
         /\ \A p \in 1..started : /\ p \in Ops /\ b.ops[p] \in Operation /\ Sound(b.ops[p])
                                  /\ OpFacts(b, p, pending, {}, {}, destroyed)
<1>1. Ledger(b, started, pending, {}, {}, destroyed, TopOf(frame, calls), generation, PendingPrior)
      /\ Len(b.retired) <= MaxRetired
  BY DEF Steady, Tracked
<1>2. \A p \in 1..started : OpFacts(b, p, pending, {}, {}, destroyed)
  BY <1>1 DEF Ledger
<1> QED BY <1>1, <1>2, LedgerTypes

LEMMA AdvanceSteady ==
  ASSUME NEW b, Steady(b), NEW p \in 1..started, ~b.ops[p].cleanupFinished,
         NEW k, Advances(b.ops[p], k)
  PROVE  Steady(SetOp(b, p, k))
<1> DEFINE c == SetOp(b, p, k)
<1>1. /\ Ledger(b, started, pending, {}, {}, destroyed, TopOf(frame, calls), generation,
                PendingPrior)
      /\ b \in BookSet /\ Len(b.retired) <= MaxRetired /\ p \in Ops
      /\ OpFacts(b, p, pending, {}, {}, destroyed)
  BY SteadyIs
<1>2. k \in Operation
  BY DEF Advances
<1>3. /\ c \in BookSet /\ c.ops = [b.ops EXCEPT ![p] = k]
      /\ c.retired = b.retired /\ c.sent = b.sent /\ c.evicted = b.evicted
  BY <1>1, <1>2, SetOpIs
<1> HIDE DEF c
<1>4. /\ k.cleaner # "none" => p \in Range(c.retired) /\ Can(p) \in c.sent
      /\ k.phase = "hashing" => Reg(p) \notin c.sent
      /\ Reg(p) \in c.sent => k.challenge
      /\ k.active => k.outcome # "not-started"
  BY <1>1, <1>3 DEF OpFacts, OpInv, Place, Advances
<1>5. InPlace(b, c, p, k)
  BY <1>3, <1>4 DEF InPlace, Advances
<1>6. Ledger(c, started, pending, {}, {}, destroyed, TopOf(frame, calls), generation, PendingPrior)
  BY ONLY <1>1, <1>5, ProgressKeeps
<1> QED BY <1>1, <1>3, <1>6 DEF Steady, Tracked, c

LEMMA SendSteady ==
  ASSUME NEW b, Steady(b), NEW p \in 1..started, ~b.ops[p].cleanupFinished,
         NEW type \in {"register", "redeem"},
         NEW k, Advances(b.ops[p], k), k.phase # "hashing", type = "redeem" \/ k.challenge
  PROVE  Steady(SetOp(Send(b, type, p), p, k))
<1> DEFINE d == Send(b, type, p)
           c == SetOp(d, p, k)
<1>1. /\ Ledger(b, started, pending, {}, {}, destroyed, TopOf(frame, calls), generation,
                PendingPrior)
      /\ b \in BookSet /\ Len(b.retired) <= MaxRetired /\ p \in Ops
      /\ OpFacts(b, p, pending, {}, {}, destroyed)
  BY SteadyIs
<1>2. k \in Operation
  BY DEF Advances
<1>3. /\ d \in BookSet /\ d.ops = b.ops /\ d.retired = b.retired /\ d.evicted = b.evicted
      /\ d.sent = b.sent \cup {[type |-> type, op |-> p]}
  BY <1>1, SendIs
<1> HIDE DEF d
<1>4. /\ c \in BookSet /\ c.ops = [d.ops EXCEPT ![p] = k]
      /\ c.retired = d.retired /\ c.sent = d.sent /\ c.evicted = d.evicted
  BY <1>1, <1>2, <1>3, SetOpIs
<1> HIDE DEF c
<1>5. /\ \A q \in Ops : Can(q) \in c.sent <=> Can(q) \in b.sent
      /\ \A q \in Ops : q # p => (Reg(q) \in c.sent <=> Reg(q) \in b.sent)
      /\ type = "redeem" => (Reg(p) \in c.sent <=> Reg(p) \in b.sent)
  BY <1>3, <1>4 DEF Can, Reg
<1>6. /\ k.cleaner # "none" => p \in Range(c.retired) /\ Can(p) \in c.sent
      /\ Reg(p) \in c.sent => k.challenge
      /\ k.active => k.outcome # "not-started"
  BY <1>1, <1>3, <1>4, <1>5 DEF OpFacts, OpInv, Place, Advances
<1>7. InPlace(b, c, p, k)
  BY <1>3, <1>4, <1>5, <1>6 DEF InPlace, Advances
<1>8. Ledger(c, started, pending, {}, {}, destroyed, TopOf(frame, calls), generation, PendingPrior)
  BY ONLY <1>1, <1>7, ProgressKeeps
<1> QED BY <1>1, <1>3, <1>4, <1>8 DEF Steady, Tracked, c, d

(* The answers and timers that find an operation of the event loop.        *)
LEMMA AwaitedIs ==
  ASSUME IInv, Running, NEW p \in Ops, Exists(p)
  PROVE  /\ p \in 1..started /\ ops[p] \in Operation /\ Sound(ops[p])
         /\ Steady(Books) /\ Books.ops[p] = ops[p]
         /\ IsActive(p) => p = pending /\ pending # 0 /\ ~destroyed /\ ~ops[p].cleanupFinished
         /\ ops[p].task # "none" \/ ops[p].operationTimer \/ ops[p].cleaner # "none" =>
              ~ops[p].cleanupFinished /\ ~destroyed /\ (IsActive(p) \/ p \in Range(retired))
<1>1. Steady(Books) /\ p \in 1..started
  BY WaitingIs DEF Steady
<1>2. OpFacts(Books, p, pending, {}, {}, destroyed) /\ ops[p] \in Operation /\ Sound(ops[p])
  BY <1>1, SteadyIs, BooksAre
<1>3. IsActive(p) => p = pending /\ pending # 0 /\ ~destroyed /\ ~ops[p].cleanupFinished
  <2>1. IsActive(p) => p = pending /\ pending # 0 /\ ~destroyed
    BY StateIs DEF IsActive
  <2> QED BY <2>1, <1>2, BooksAre DEF OpFacts, OpInv, Place
<1>4. ops[p].cleaner # "none" => ~ops[p].cleanupFinished
  BY <1>2, BooksAre DEF OpFacts, OpInv
<1> QED BY <1>1, <1>2, <1>3, <1>4, WaitingIs, BooksAre

(* The registration is handed to fetch.                                    *)
LEMMA HashDoneNext ==
  ASSUME IInv, NEW p \in Ops, HashDone(p)
  PROVE  IInv'
<1> DEFINE k == [ops[p] EXCEPT !.challenge = TRUE, !.phase = "registering", !.task = "register"]
           c == SetOp(Send(Books, "register", p), p, k)
<1>1. /\ Running /\ Exists(p) /\ ops[p].task = "hash" /\ IsActive(p)
      /\ p \in 1..started /\ ops[p] \in Operation /\ Sound(ops[p])
      /\ Steady(Books) /\ Books.ops[p] = ops[p] /\ ~ops[p].cleanupFinished /\ ~destroyed
      /\ Books \in BookSet
  BY AwaitedIs, StateIs DEF HashDone, Awaits
<1>2. /\ k \in Operation /\ k.challenge = TRUE /\ k.phase = "registering" /\ k.task = "register"
      /\ k.call = ops[p].call /\ k.generation = ops[p].generation /\ k.active = ops[p].active
      /\ k.prior = ops[p].prior /\ k.settlements = ops[p].settlements
      /\ k.cleanupFinished = ops[p].cleanupFinished /\ k.cleaner = ops[p].cleaner
      /\ k.redeems = ops[p].redeems /\ k.operationTimer = ops[p].operationTimer
      /\ k.outcome = ops[p].outcome
  BY <1>1 DEF Operation, Phases
<1>3. Becomes(c)
  <2>1. Send(Books, "register", p).ops = ops
    BY <1>1, SendIs, BooksAre
  <2> QED BY <2>1 DEF HashDone, SetOp
<1> HIDE DEF k
<1>4. ops[p].phase = "hashing" /\ ops[p].redeems = 0
  BY <1>1 DEF Sound
<1>5. OpFacts(Books, p, pending, {}, {}, destroyed)
  BY <1>1, SteadyIs
<1>6. ops[p].outcome # "not-started"
  BY <1>1, <1>5 DEF OpFacts, OpInv, IsActive
<1>7. Sound(k)
  BY <1>1, <1>2, <1>4, <1>6 DEF Sound
<1>8. Advances(Books.ops[p], k)
  BY <1>1, <1>2, <1>6, <1>7 DEF Advances
<1>9. Steady(c)
  BY <1>1, <1>2, <1>8, SendSteady
<1> HIDE DEF c
<1>10. Tracked(c, started, pending, {}, {}, destroyed, TopOf(frame, calls), generation, PendingPrior)
  BY <1>9 DEF Steady
<1>11. EnvInv'
  BY EnvStays DEF HashDone, startVars, envVars, IInv, EnvInv
<1> QED BY <1>1, <1>3, <1>10, <1>11, QuietNext DEF HashDone, Running, startVars, envVars

(* #failActive of an operation the event loop found active.                *)
LEMMA FailsHere ==
  ASSUME IInv, Running, NEW p \in Ops, Exists(p), IsActive(p), NEW b, Steady(b),
         NEW cleanup \in BOOLEAN, FailActive(b, p, cleanup), cleanup \/ Forgettable(b, p),
         UNCHANGED <<calls, started, destroyed, channel, now, skewed>>,
         callbacks' \subseteq callbacks
  PROVE  IInv'
<1>1. p = pending /\ pending # 0
  BY AwaitedIs
<1>2. EnvInv'
  <2>1. generation' \in Nat
    BY DEF FailActive, IInv, EnvInv
  <2> QED BY <2>1, EnvStays
<1>3. Tracked(b, started, pending, {}, {}, destroyed, TopOf(frame, calls), generation, PendingPrior)
  BY DEF Steady
<1>4. FailActive(b, pending, cleanup) /\ (cleanup \/ Forgettable(b, pending))
  BY <1>1
<1> QED BY <1>1, <1>2, <1>3, <1>4, FailNext

(* One that was retired meanwhile goes on to its cleanup.                  *)
LEMMA FailsNext ==
  ASSUME IInv, Running, NEW p \in Ops, Exists(p), ~ops[p].cleanupFinished, ~destroyed,
         IsActive(p) \/ p \in Range(retired),
         NEW b, Steady(b), b.retired = retired,
         NEW cleanup \in BOOLEAN, cleanup \/ b.ops[p].outcome = "definitive-failure",
         Fails(b, p, cleanup),
         UNCHANGED <<startVars, destroyed, channel, envVars>>
  PROVE  IInv'
<1>1. CASE IsActive(p)
  <2>1. FailActive(b, p, cleanup)
    BY <1>1 DEF Fails
  <2>2. cleanup \/ Forgettable(b, p)
    BY DEF Forgettable
  <2> QED BY <1>1, <2>1, <2>2, FailsHere DEF startVars, envVars
<1>2. CASE ~IsActive(p)
  <2> DEFINE c == IF cleanup THEN EnsureCleanup(b, p) ELSE FinishCleanup(b, p)
             top == TopOf(frame, calls)
  <2>1. Becomes(c) /\ UNCHANGED <<pending, generation, connVars, frame>>
    BY <1>2 DEF Fails
  <2>2. p \in Range(b.retired)
    BY <1>2
  <2>3. Tracked(b, started, pending, {}, {}, destroyed, top, generation, PendingPrior)
    BY DEF Steady
  <2> HIDE DEF top
  <2>4. Tracked(EnsureCleanup(b, p), started, pending, {}, {}, destroyed, top, generation, PendingPrior)
    BY ONLY <2>2, <2>3, EnsureKeeps
  <2>5. ASSUME ~cleanup
        PROVE  Tracked(FinishCleanup(b, p), started, pending, {}, {}, destroyed, top, generation,
                       PendingPrior)
    <3>1. Ledger(b, started, pending, {}, {}, destroyed, top, generation, PendingPrior)
          /\ Len(b.retired) <= MaxRetired
      BY <2>3 DEF Tracked
    <3>2. MayFinish(b, p, destroyed)
      BY <2>5 DEF MayFinish, Excused
    <3>3. p \in Range(b.retired) \cup {}
      BY <2>2
    <3>4. Ledger(FinishCleanup(b, p), started, pending, {} \ {p}, {}, destroyed, top, generation,
                 PendingPrior)
      BY ONLY <3>1, <3>2, <3>3, FinishKeeps
    <3>5. {} \ {p} = {}
      OBVIOUS
    <3>6. Len(FinishCleanup(b, p).retired) <= Len(b.retired)
      <4>1. p \in 1..started /\ b \in BookSet /\ b.ops[p] \in Operation /\ Sound(b.ops[p])
            /\ IsInjective(b.retired)
        BY AwaitedIs, SteadyIs, LedgerTypes
      <4> QED BY <4>1, FinishCleanupIs
    <3>7. Len(FinishCleanup(b, p).retired) <= MaxRetired
      <4>1. FinishCleanup(b, p).retired \in Seq(Ops) /\ b.retired \in Seq(Ops)
        BY <3>1, <3>4, LedgerTypes
      <4>2. Len(FinishCleanup(b, p).retired) \in Nat /\ Len(b.retired) \in Nat
        BY <4>1, LenProperties
      <4> QED BY <3>1, <3>6, <4>2, RelayClientAssumption
    <3> QED BY <3>4, <3>5, <3>7 DEF Tracked
  <2>6. Tracked(c, started, pending, {}, {}, destroyed, top, generation, PendingPrior)
    BY <2>4, <2>5
  <2> HIDE DEF c
  <2>7. EnvInv'
    BY <2>1, EnvStays DEF startVars, envVars, IInv, EnvInv
  <2> QED BY <2>1, <2>6, <2>7, QuietNext DEF Running, startVars, envVars, top
<1> QED BY <1>1, <1>2

(* The registration of an operation is answered, or given up.              *)
LEMMA AnsweredSteady ==
  ASSUME IInv, Running, NEW p \in Ops, Exists(p), ~ops[p].cleanupFinished,
         NEW outcome \in {"ambiguous", "definitive-failure", "registered"}
  PROVE  /\ Steady(Answered(p, outcome)) /\ Answered(p, outcome).retired = retired
         /\ Answered(p, outcome).ops[p].outcome = outcome
         /\ Answered(p, outcome).ops[p].phase = ops[p].phase
         /\ Answered(p, outcome).ops[p].task = "none"
         /\ Answered(p, outcome).ops[p].cleanupFinished = ops[p].cleanupFinished
<1> DEFINE k == [ops[p] EXCEPT !.outcome = outcome, !.task = "none", !.operationTimer = FALSE]
           b == SetOp(Books, p, k)
<1>1. /\ p \in 1..started /\ ops[p] \in Operation /\ Sound(ops[p])
      /\ Steady(Books) /\ Books.ops[p] = ops[p] /\ Books \in BookSet
  BY AwaitedIs, StateIs
<1>2. /\ k \in Operation /\ k.outcome = outcome /\ k.task = "none" /\ k.operationTimer = FALSE
      /\ k.phase = ops[p].phase /\ k.redeems = ops[p].redeems /\ k.challenge = ops[p].challenge
      /\ k.call = ops[p].call /\ k.generation = ops[p].generation /\ k.active = ops[p].active
      /\ k.prior = ops[p].prior /\ k.settlements = ops[p].settlements
      /\ k.cleanupFinished = ops[p].cleanupFinished /\ k.cleaner = ops[p].cleaner
  BY <1>1 DEF Operation, Outcomes
<1>3. Answered(p, outcome) = b
  BY <1>1 DEF Answered, SetOp
<1> HIDE DEF k
<1>4. Sound(k)
  BY <1>1, <1>2 DEF Sound
<1>5. Advances(Books.ops[p], k)
  BY <1>1, <1>2, <1>4 DEF Advances
<1>6. Steady(b)
  BY <1>1, <1>5, AdvanceSteady
<1>7. b.retired = retired /\ b.ops[p] = k
  BY <1>1, <1>2, SetOpIs, BooksAre
<1> HIDE DEF b
<1> QED BY <1>2, <1>3, <1>6, <1>7

LEMMA RegisterFailsNext ==
  ASSUME IInv, NEW p \in Ops, RegisterFails(p) \/ RegisterRefused(p)
  PROVE  IInv'
<1>1. /\ Running /\ Exists(p) /\ ~ops[p].cleanupFinished /\ ~destroyed
      /\ IsActive(p) \/ p \in Range(retired)
      /\ UNCHANGED <<startVars, destroyed, channel, envVars>>
  <2>1. Running /\ Exists(p) /\ ops[p].task # "none" /\ UNCHANGED <<startVars, destroyed, channel, envVars>>
    BY DEF RegisterFails, RegisterRefused, Awaits
  <2> QED BY <2>1, AwaitedIs
<1>2. CASE RegisterFails(p)
  <2>1. Fails(Answered(p, "ambiguous"), p, TRUE)
    BY <1>2 DEF RegisterFails
  <2>2. Steady(Answered(p, "ambiguous")) /\ Answered(p, "ambiguous").retired = retired
    BY <1>1, AnsweredSteady
  <2> QED BY <1>1, <2>1, <2>2, FailsNext
<1>3. CASE RegisterRefused(p)
  <2>1. Fails(Answered(p, "definitive-failure"), p, FALSE)
    BY <1>3 DEF RegisterRefused
  <2>2. /\ Steady(Answered(p, "definitive-failure"))
        /\ Answered(p, "definitive-failure").retired = retired
        /\ Answered(p, "definitive-failure").ops[p].outcome = "definitive-failure"
    BY <1>1, AnsweredSteady
  <2> QED BY <1>1, <2>1, <2>2, FailsNext
<1> QED BY <1>2, <1>3

(* What an operation awaits ends, and its timer with it or not.            *)
LEMMA EndedSteady ==
  ASSUME IInv, Running, NEW p \in Ops, Exists(p), ~ops[p].cleanupFinished,
         NEW k, k \in {[ops[p] EXCEPT !.task = "none"],
                       [ops[p] EXCEPT !.operationTimer = FALSE, !.task = "none"]}
  PROVE  /\ Steady(SetOp(Books, p, k))
         /\ ops[p].phase = "hashing" => Forgettable(SetOp(Books, p, k), p)
<1>1. /\ p \in 1..started /\ ops[p] \in Operation /\ Sound(ops[p])
      /\ Steady(Books) /\ Books.ops[p] = ops[p] /\ Books \in BookSet
  BY AwaitedIs, StateIs
<1>2. /\ k \in Operation /\ k.task = "none" /\ k.phase = ops[p].phase
      /\ k.call = ops[p].call /\ k.generation = ops[p].generation /\ k.active = ops[p].active
      /\ k.prior = ops[p].prior /\ k.settlements = ops[p].settlements
      /\ k.cleanupFinished = ops[p].cleanupFinished /\ k.cleaner = ops[p].cleaner
      /\ k.redeems = ops[p].redeems
      /\ k.outcome = ops[p].outcome /\ k.challenge = ops[p].challenge
  <2>1. CASE k = [ops[p] EXCEPT !.task = "none"]
    BY <1>1, <2>1 DEF Operation
  <2>2. CASE k = [ops[p] EXCEPT !.operationTimer = FALSE, !.task = "none"]
    BY <1>1, <2>2 DEF Operation
  <2> QED BY <2>1, <2>2
<1>3. Sound(k)
  BY <1>1, <1>2 DEF Sound
<1>4. Advances(Books.ops[p], k)
  BY <1>1, <1>2, <1>3 DEF Advances
<1>5. Steady(SetOp(Books, p, k))
  BY <1>1, <1>4, AdvanceSteady
<1>6. SetOp(Books, p, k).sent = sent
  BY DEF SetOp, Books
<1>7. ASSUME ops[p].phase = "hashing" PROVE Reg(p) \notin sent
  <2>1. OpFacts(Books, p, pending, {}, {}, destroyed)
    BY <1>1, SteadyIs
  <2> QED BY <1>1, <1>7, <2>1, BooksAre DEF OpFacts, OpInv
<1> QED BY <1>5, <1>6, <1>7 DEF Forgettable

LEMMA OperationTimerNext ==
  ASSUME IInv, NEW p \in Ops, OperationTimer(p)
  PROVE  IInv'
<1>1. /\ Running /\ Exists(p) /\ ops[p].operationTimer
      /\ UNCHANGED <<startVars, destroyed, channel, envVars>>
  BY DEF OperationTimer
<1>2. /\ ~ops[p].cleanupFinished /\ ~destroyed /\ (IsActive(p) \/ p \in Range(retired))
      /\ Books.ops[p] = ops[p]
  BY <1>1, AwaitedIs
<1>3. CASE ops[p].phase = "hashing"
  <2> DEFINE k == [ops[p] EXCEPT !.operationTimer = FALSE, !.task = "none"]
             b == SetOp(Books, p, k)
  <2>1. IsActive(p)
    BY <1>3 DEF OperationTimer
  <2>2. [Books EXCEPT !.ops[p] = [@ EXCEPT !.operationTimer = FALSE, !.task = "none"]] = b
    BY <1>2 DEF SetOp
  <2> HIDE DEF b
  <2>3. FailActive(b, p, FALSE)
    BY <1>3, <2>2 DEF OperationTimer
  <2>4. Steady(b) /\ Forgettable(b, p)
    BY <1>1, <1>2, <1>3, EndedSteady DEF b
  <2> QED BY <1>1, <2>1, <2>3, <2>4, FailsHere DEF startVars, envVars
<1>4. CASE ops[p].phase # "hashing"
  <2>1. Fails(Answered(p, "ambiguous"), p, TRUE)
    BY <1>4 DEF OperationTimer
  <2>2. Steady(Answered(p, "ambiguous")) /\ Answered(p, "ambiguous").retired = retired
    BY <1>1, <1>2, AnsweredSteady
  <2> QED BY <1>1, <1>2, <2>1, <2>2, FailsNext
<1> QED BY <1>3, <1>4

LEMMA HashFailsNext ==
  ASSUME IInv, NEW p \in Ops, HashFails(p)
  PROVE  IInv'
<1>1. /\ Running /\ Exists(p) /\ ops[p].task = "hash" /\ IsActive(p)
      /\ UNCHANGED <<startVars, destroyed, channel, envVars>>
  BY DEF HashFails, Awaits
<1>2. ~ops[p].cleanupFinished /\ Books.ops[p] = ops[p] /\ ops[p].phase = "hashing"
  BY <1>1, AwaitedIs DEF Sound
<1> DEFINE k == [ops[p] EXCEPT !.task = "none"]
           b == SetOp(Books, p, k)
<1>3. [Books EXCEPT !.ops[p] = [@ EXCEPT !.task = "none"]] = b
  BY <1>2 DEF SetOp
<1> HIDE DEF b
<1>4. FailActive(b, p, FALSE)
  BY <1>3 DEF HashFails
<1>5. Steady(b) /\ Forgettable(b, p)
  BY <1>1, <1>2, EndedSteady DEF b
<1> QED BY <1>1, <1>4, <1>5, FailsHere DEF startVars, envVars

LEMMA ActiveFailsNext ==
  ASSUME IInv, NEW p \in Ops, ExpiryTimer(p) \/ StorageFails(p) \/ RedeemFails(p)
  PROVE  IInv'
<1>1. /\ Running /\ IsActive(p) /\ UNCHANGED <<startVars, destroyed, channel, envVars>>
  BY DEF ExpiryTimer, StorageFails, RedeemFails, Consumes, Awaits
<1>2. Exists(p)
  BY <1>1, StateIs
<1>3. Steady(Books) /\ ~ops[p].cleanupFinished /\ Books.ops[p] = ops[p]
  BY <1>1, <1>2, AwaitedIs
<1>4. CASE RedeemFails(p)
  <2> DEFINE k == [ops[p] EXCEPT !.task = "none"]
             b == SetOp(Books, p, k)
  <2>1. [Books EXCEPT !.ops[p] = [@ EXCEPT !.task = "none"]] = b
    BY <1>3 DEF SetOp
  <2> HIDE DEF b
  <2>2. FailActive(b, p, TRUE)
    BY <1>4, <2>1 DEF RedeemFails
  <2>3. Steady(b)
    BY <1>1, <1>2, <1>3, EndedSteady DEF b
  <2> QED BY <1>1, <1>2, <2>2, <2>3, FailsHere DEF startVars, envVars
<1>5. CASE ExpiryTimer(p) \/ StorageFails(p)
  <2>1. FailActive(Books, p, TRUE)
    BY <1>5 DEF ExpiryTimer, StorageFails
  <2> QED BY <1>1, <1>2, <1>3, <2>1, FailsHere DEF startVars, envVars
<1> QED BY <1>4, <1>5

(* #consumeCallback after its guard.                                       *)
LEMMA ConsumeNext ==
  ASSUME IInv, Running, NEW p \in Ops, Exists(p), IsActive(p), NEW b, Steady(b),
         ~b.ops[p].cleanupFinished, b.ops[p].phase = "waiting-callback", Consume(b, p),
         UNCHANGED <<startVars, destroyed, channel, now, skewed>>
  PROVE  IInv'
<1> USE DEF startVars
<1>1. p \in 1..started /\ b \in BookSet /\ b.ops[p] \in Operation /\ Sound(b.ops[p])
      /\ ~destroyed
  BY AwaitedIs, SteadyIs
<1>2. callbacks' \subseteq callbacks
  BY DEF Consume
<1>3. CASE FailActive(b, p, TRUE)
  BY <1>2, <1>3, FailsHere
<1>4. CASE /\ Becomes([Send(b, "redeem", p) EXCEPT !.ops[p] = Redeeming(@)])
           /\ UNCHANGED <<pending, generation, connVars, frame>>
  <2> DEFINE k == Redeeming(b.ops[p])
             c == SetOp(Send(b, "redeem", p), p, k)
  <2>1. Becomes(c)
    <3>1. Send(b, "redeem", p).ops = b.ops
      BY <1>1, SendIs
    <3> QED BY <1>4, <3>1 DEF SetOp
  <2>2. b.ops[p].redeems = 0 /\ b.ops[p].redeems + 1 = 1
    BY <1>1 DEF Sound
  <2>3. k = [b.ops[p] EXCEPT !.phase = "redeeming", !.pollTimer = FALSE, !.task = "redeem",
                             !.redeems = 1]
    BY <2>2 DEF Redeeming
  <2> HIDE DEF k
  <2>4. /\ k \in Operation /\ k.phase = "redeeming" /\ k.task = "redeem" /\ k.redeems = 1
        /\ k.call = b.ops[p].call /\ k.generation = b.ops[p].generation
        /\ k.active = b.ops[p].active /\ k.prior = b.ops[p].prior
        /\ k.settlements = b.ops[p].settlements /\ k.outcome = b.ops[p].outcome
        /\ k.cleanupFinished = b.ops[p].cleanupFinished /\ k.cleaner = b.ops[p].cleaner
        /\ k.challenge = b.ops[p].challenge /\ k.operationTimer = b.ops[p].operationTimer
    BY <1>1, <2>3 DEF Operation, Phases
  <2>5. Sound(k)
    BY <1>1, <2>4 DEF Sound
  <2>6. Advances(b.ops[p], k)
    BY <2>4, <2>5 DEF Advances
  <2>7. Steady(c)
    BY <1>1, <2>4, <2>6, SendSteady
  <2> HIDE DEF c
  <2>8. Tracked(c, started, pending, {}, {}, destroyed, TopOf(frame, calls), generation, PendingPrior)
    BY <2>7 DEF Steady
  <2>9. EnvInv'
    BY <1>2, <1>4, EnvStays DEF IInv, EnvInv
  <2> QED BY <1>1, <1>4, <2>1, <2>8, <2>9, QuietNext DEF Running
<1>5. \/ FailActive(b, p, TRUE)
      \/ /\ Becomes([Send(b, "redeem", p) EXCEPT !.ops[p] = Redeeming(@)])
         /\ UNCHANGED <<pending, generation, connVars, frame>>
  BY DEF Consume
<1> QED BY <1>3, <1>4, <1>5

LEMMA ConsumeCallbackNext ==
  ASSUME IInv, NEW p \in Ops, ConsumeCallback(p)
  PROVE  IInv'
<1>1. /\ Running /\ IsActive(p) /\ ops[p].phase = "waiting-callback" /\ Consume(Books, p)
      /\ UNCHANGED <<startVars, destroyed, channel, now, skewed>>
  BY DEF ConsumeCallback, Consumes
<1>2. Exists(p)
  BY <1>1, StateIs
<1>3. Steady(Books) /\ ~ops[p].cleanupFinished /\ Books.ops[p] = ops[p]
  BY <1>1, <1>2, AwaitedIs
<1> QED BY <1>1, <1>2, <1>3, ConsumeNext

(* A cleanup that a retired operation enters or ends.                      *)
LEMMA CleanupNext ==
  ASSUME IInv, Running, NEW c, Becomes(c), Steady(c), ~destroyed,
         UNCHANGED <<startVars, pending, generation, connVars, destroyed, channel, frame, envVars>>
  PROVE  IInv'
<1> USE DEF startVars, envVars
<1>1. Tracked(c, started, pending, {}, {}, destroyed, TopOf(frame, calls), generation, PendingPrior)
  BY DEF Steady
<1>2. EnvInv'
  BY EnvStays DEF IInv, EnvInv
<1> QED BY <1>1, <1>2, QuietNext DEF Running

LEMMA RegisterAcceptedNext ==
  ASSUME IInv, NEW p \in Ops, NEW e \in Readings, RegisterAccepted(p, e)
  PROVE  IInv'
<1> DEFINE a == Answered(p, "registered")
           k == [a.ops[p] EXCEPT !.expires = e]
           b == SetOp(a, p, k)
           m == WaitingCallback(k)
           w == SetOp(b, p, m)
<1>1. /\ Running /\ Exists(p) /\ ops[p].task = "register"
      /\ UNCHANGED <<startVars, destroyed, channel, now, skewed>>
  BY DEF RegisterAccepted, Awaits
<1>2. /\ ~ops[p].cleanupFinished /\ ~destroyed /\ (IsActive(p) \/ p \in Range(retired))
      /\ p \in 1..started /\ Sound(ops[p]) /\ ops[p].phase = "registering"
  BY <1>1, AwaitedIs DEF Sound
<1>3. /\ Steady(a) /\ a.retired = retired /\ a.ops[p].outcome = "registered"
      /\ a.ops[p].phase = "registering" /\ a.ops[p].task = "none" /\ ~a.ops[p].cleanupFinished
  BY <1>1, <1>2, AnsweredSteady
<1>4. /\ [a EXCEPT !.ops[p].expires = e] = b
      /\ [b EXCEPT !.ops[p] = WaitingCallback(@)] = [b EXCEPT !.ops[p] = WaitingCallback(b.ops[p])]
  BY DEF SetOp
<1> HIDE DEF a
<1>5. a \in BookSet /\ a.ops[p] \in Operation /\ Sound(a.ops[p])
  BY <1>2, <1>3, SteadyIs
<1>6. /\ k \in Operation /\ k.phase = "registering" /\ k.task = "none" /\ k.outcome = "registered"
      /\ ~k.cleanupFinished /\ k.cleanupFinished = a.ops[p].cleanupFinished
      /\ k.call = a.ops[p].call /\ k.generation = a.ops[p].generation
      /\ k.active = a.ops[p].active /\ k.prior = a.ops[p].prior
      /\ k.settlements = a.ops[p].settlements /\ k.redeems = a.ops[p].redeems
      /\ k.cleaner = a.ops[p].cleaner
      /\ k.challenge = a.ops[p].challenge /\ k.operationTimer = a.ops[p].operationTimer
  BY <1>3, <1>5 DEF Operation
<1> HIDE DEF k
<1>7. Sound(k)
  BY <1>5, <1>6, <1>3 DEF Sound
<1>8. Advances(a.ops[p], k)
  BY <1>3, <1>6, <1>7 DEF Advances
<1>9. Steady(b)
  BY <1>2, <1>3, <1>8, AdvanceSteady
<1>10. b \in BookSet /\ b.retired = retired /\ b.ops[p] = k
  BY <1>3, <1>5, <1>6, SetOpIs
<1>11. CASE IsActive(p)
  <2>1. /\ m \in Operation /\ m.phase = "waiting-callback" /\ m.task = "none"
        /\ m.outcome = "registered"
        /\ ~m.cleanupFinished /\ m.cleanupFinished = k.cleanupFinished
        /\ m.call = k.call /\ m.generation = k.generation
        /\ m.active = k.active /\ m.prior = k.prior
        /\ m.settlements = k.settlements /\ m.redeems = k.redeems /\ m.cleaner = k.cleaner
        /\ m.challenge = k.challenge /\ m.operationTimer = k.operationTimer
    BY <1>6 DEF WaitingCallback, Operation, Phases
  <2>2. [[a EXCEPT !.ops[p].expires = e] EXCEPT !.ops[p] = WaitingCallback(@)] = w
    <3>1. [b EXCEPT !.ops[p] = WaitingCallback(b.ops[p])] = w
      BY <1>10 DEF SetOp
    <3> HIDE DEF b, w
    <3> QED BY <1>4, <3>1
  <2> HIDE DEF m
  <2>3. Sound(m)
    BY <1>6, <1>7, <2>1 DEF Sound
  <2>4. Advances(b.ops[p], m)
    BY <1>6, <1>10, <2>1, <2>3 DEF Advances
  <2>5. Steady(w)
    <3> HIDE DEF b
    <3> QED BY <1>2, <1>6, <1>9, <1>10, <2>4, AdvanceSteady
  <2>6. w.ops[p] = m
    <3> HIDE DEF b
    <3> QED BY <1>10, <2>1, SetOpIs
  <2> HIDE DEF w, b
  <2>7. \/ Consume(w, p)
        \/ Becomes(w) /\ UNCHANGED <<pending, generation, connVars, frame, callbacks>>
    BY <1>11, <2>2 DEF RegisterAccepted, a
  <2>8. CASE Consume(w, p)
    BY <1>1, <1>11, <2>1, <2>5, <2>6, <2>8, ConsumeNext
  <2>9. CASE Becomes(w) /\ UNCHANGED <<pending, generation, connVars, frame, callbacks>>
    BY <1>1, <1>2, <2>5, <2>9, CleanupNext DEF startVars, envVars
  <2> QED BY <2>7, <2>8, <2>9
<1>12. CASE ~IsActive(p)
  <2> HIDE DEF b
  <2>1. Becomes(EnsureCleanup(b, p)) /\ UNCHANGED <<pending, generation, connVars, frame, callbacks>>
    BY <1>4, <1>12 DEF RegisterAccepted, a
  <2>2. p \in Range(b.retired)
    BY <1>2, <1>10, <1>12
  <2>3. Steady(EnsureCleanup(b, p))
    <3> DEFINE top == TopOf(frame, calls)
    <3>1. Tracked(b, started, pending, {}, {}, destroyed, top, generation, PendingPrior)
      BY <1>9 DEF Steady
    <3> HIDE DEF top
    <3>2. Tracked(EnsureCleanup(b, p), started, pending, {}, {}, destroyed, top, generation,
                  PendingPrior)
      BY ONLY <2>2, <3>1, EnsureKeeps
    <3> QED BY <3>2 DEF Steady, top
  <2> QED BY <1>1, <1>2, <2>1, <2>3, CleanupNext DEF startVars, envVars
<1> QED BY <1>11, <1>12

(* The cleanup of a retired operation: an answer to its cancel, or time.   *)
LEMMA FinishSteady ==
  ASSUME IInv, Running, NEW p \in Range(retired), Can(p) \in sent
  PROVE  Steady(FinishCleanup(Books, p))
<1> DEFINE top == TopOf(frame, calls)
           c == FinishCleanup(Books, p)
<1>1. /\ Ledger(Books, started, pending, {}, {}, destroyed, top, generation, PendingPrior)
      /\ Len(Books.retired) <= MaxRetired
  BY WaitingIs DEF Tracked
<1> HIDE DEF top
<1>2. MayFinish(Books, p, destroyed) /\ p \in Range(Books.retired) \cup {}
  BY BooksAre DEF MayFinish, Excused
<1>3. Ledger(c, started, pending, {} \ {p}, {}, destroyed, top, generation, PendingPrior)
  BY ONLY <1>1, <1>2, FinishKeeps
<1>4. {} \ {p} = {}
  OBVIOUS
<1>5. Len(c.retired) <= Len(Books.retired)
  <2>1. p \in Ops /\ Books \in BookSet /\ Books.ops[p] \in Operation /\ Sound(Books.ops[p])
        /\ IsInjective(Books.retired)
    BY StateIs, BooksAre
  <2> QED BY <2>1, FinishCleanupIs
<1>6. Len(c.retired) <= MaxRetired
  <2>1. c.retired \in Seq(Ops) /\ Books.retired \in Seq(Ops)
    BY <1>1, <1>3, LedgerTypes
  <2>2. Len(c.retired) \in Nat /\ Len(Books.retired) \in Nat
    BY <2>1, LenProperties
  <2> QED BY <1>1, <1>5, <2>2, RelayClientAssumption
<1> QED BY <1>3, <1>4, <1>6 DEF Steady, Tracked, top

LEMMA CancelSteady ==
  ASSUME IInv, Running, NEW p \in Range(retired)
  PROVE  Steady(CancelOnce(Books, p))
<1> DEFINE top == TopOf(frame, calls)
<1>1. /\ Ledger(Books, started, pending, {}, {}, destroyed, top, generation, PendingPrior)
      /\ Len(Books.retired) <= MaxRetired /\ p \in Range(Books.retired)
  BY WaitingIs, BooksAre DEF Tracked
<1> HIDE DEF top
<1>2. Ledger(CancelOnce(Books, p), started, pending, {}, {}, destroyed, top, generation, PendingPrior)
  BY ONLY <1>1, CancelKeeps
<1>3. Len(CancelOnce(Books, p).retired) <= MaxRetired
  BY ONLY <1>1, CancelKeeps
<1> QED BY <1>2, <1>3 DEF Steady, Tracked, top

LEMMA CancelAnsweredNext ==
  ASSUME IInv, NEW p \in Ops, NEW status, CancelAnswered(p, status)
  PROVE  IInv'
<1>1. /\ Running /\ Exists(p) /\ ops[p].cleaner = "cancel"
      /\ UNCHANGED <<startVars, pending, generation, connVars, destroyed, channel, frame, envVars>>
  BY DEF CancelAnswered, Cleaning
<1>2. /\ p \in Range(retired) /\ Can(p) \in sent /\ ~destroyed
  BY <1>1, WaitingIs
<1>3. /\ p \in 1..started /\ ops[p] \in Operation /\ Sound(ops[p]) /\ Steady(Books)
      /\ Books.ops[p] = ops[p] /\ ~ops[p].cleanupFinished
  BY <1>1, AwaitedIs
<1>4. CASE Becomes(FinishCleanup(Books, p))
  BY <1>1, <1>2, <1>4, FinishSteady, CleanupNext
<1>5. CASE Becomes([Books EXCEPT !.ops[p].cleaner = "backoff"])
  <2> DEFINE k == [ops[p] EXCEPT !.cleaner = "backoff"]
             c == SetOp(Books, p, k)
             top == TopOf(frame, calls)
  <2>1. [Books EXCEPT !.ops[p].cleaner = "backoff"] = c
    BY <1>3 DEF SetOp
  <2>2. /\ k \in Operation /\ k.cleaner = "backoff"
        /\ k.phase = ops[p].phase /\ k.task = ops[p].task /\ k.outcome = ops[p].outcome
        /\ k.call = ops[p].call /\ k.generation = ops[p].generation /\ k.active = ops[p].active
        /\ k.prior = ops[p].prior /\ k.settlements = ops[p].settlements
        /\ k.cleanupFinished = ops[p].cleanupFinished /\ k.redeems = ops[p].redeems
        /\ k.challenge = ops[p].challenge /\ k.operationTimer = ops[p].operationTimer
    BY <1>3 DEF Operation
  <2> HIDE DEF k
  <2>3. Sound(k)
    BY <1>3, <2>2 DEF Sound
  <2>4. /\ c \in BookSet /\ c.ops = [ops EXCEPT ![p] = k] /\ c.retired = retired
        /\ c.evicted = evicted /\ c.sent = sent
    <3>1. Books \in BookSet
      BY StateIs
    <3> QED BY <3>1, <2>2, SetOpIs, BooksAre
  <2> HIDE DEF c
  <2>5. OpFacts(Books, p, pending, {}, {}, destroyed)
    BY <1>3, SteadyIs
  <2>6. /\ k.phase = "hashing" => Reg(p) \notin sent
        /\ Reg(p) \in sent => k.challenge
        /\ k.active => k.outcome # "not-started"
    BY <1>3, <2>2, <2>5, BooksAre DEF OpFacts, OpInv
  <2>7. InPlace(Books, c, p, k)
    BY <1>2, <1>3, <2>2, <2>3, <2>4, <2>6, BooksAre DEF InPlace
  <2>8. /\ Ledger(Books, started, pending, {}, {}, destroyed, top, generation, PendingPrior)
        /\ Len(retired) <= MaxRetired
    BY <1>3, SteadyIs, BooksAre
  <2> HIDE DEF top
  <2>9. Ledger(c, started, pending, {}, {}, destroyed, top, generation, PendingPrior)
    BY ONLY <1>3, <2>7, <2>8, ProgressKeeps
  <2>10. Steady(c)
    BY <2>4, <2>8, <2>9 DEF Steady, Tracked, top
  <2> QED BY <1>1, <1>2, <1>5, <2>1, <2>10, CleanupNext
<1> QED BY <1>4, <1>5 DEF CancelAnswered

LEMMA RetryTimerNext ==
  ASSUME IInv, NEW p \in Ops, RetryTimer(p)
  PROVE  IInv'
<1>1. /\ Running /\ Exists(p) /\ ops[p].cleaner = "backoff"
      /\ UNCHANGED <<startVars, pending, generation, connVars, destroyed, channel, frame, envVars>>
      /\ Becomes(CancelOnce(Books, p)) \/ Becomes(FinishCleanup(Books, p))
  BY DEF RetryTimer, Cleaning
<1>2. /\ p \in Range(retired) /\ Can(p) \in sent /\ ~destroyed
  BY <1>1, WaitingIs
<1>3. Steady(CancelOnce(Books, p)) /\ Steady(FinishCleanup(Books, p))
  BY <1>1, <1>2, FinishSteady, CancelSteady
<1> QED BY <1>1, <1>2, <1>3, CleanupNext

-----------------------------------------------------------------------------
(* The code behind a publish.                                              *)
LEMMA RegisterTailNext ==
  ASSUME IInv, RegisterTail
  PROVE  IInv'
<1> USE DEF startVars, envVars
<1>1. /\ frame.tail = "register" /\ frame' = NoFrame
      /\ UNCHANGED <<retired, outbox, sent, evicted, startVars, pending, generation,
                     connVars, destroyed, channel, envVars>>
      /\ frame \in Frames /\ retired = Books.retired
  BY BooksAre DEF RegisterTail, IInv, FrameInv
<1>2. Steady(Books)
  BY <1>1, FrameKinds DEF Steady, IInv, BookInv
<1>3. EnvInv'
  BY <1>1, EnvStays DEF IInv, EnvInv
<1>4. destroyed => retired = <<>>
  BY DEF IInv, FrameInv
<1>5. CASE ~IsActive(frame.op)
  <2>1. Becomes(Books)
    BY <1>1, <1>5, BooksAre DEF RegisterTail, Becomes
  <2>2. Tracked(Books, started, pending, {}, {}, destroyed, TopOf(frame, calls), generation, PendingPrior)
    BY <1>2 DEF Steady
  <2> QED BY <1>1, <1>3, <1>4, <2>1, <2>2, QuietNext
<1>6. CASE IsActive(frame.op)
  <2> DEFINE p == pending
             k == Hashing(ops[p])
             c == SetOp(Books, p, k)
  <2>1. frame.op = p /\ p \in 1..started /\ ops[p] \in Operation /\ Sound(ops[p])
        /\ p \in Ops /\ Books.ops[p] = ops[p] /\ Books \in BookSet /\ ops[p].phase = "hashing"
    BY <1>1, <1>6, StateIs, BooksAre DEF IInv, FrameInv
  <2>2. ~ops[p].cleanupFinished
    <3>1. OpFacts(Books, p, pending, {}, {}, destroyed)
      BY <1>2, <2>1, SteadyIs
    <3> QED BY <2>1, <3>1 DEF OpFacts, OpInv, Place
  <2>3. /\ k \in Operation /\ k.task = "hash"
        /\ k.phase = ops[p].phase /\ k.cleaner = ops[p].cleaner /\ k.outcome = ops[p].outcome
        /\ k.call = ops[p].call /\ k.generation = ops[p].generation /\ k.active = ops[p].active
        /\ k.prior = ops[p].prior /\ k.settlements = ops[p].settlements
        /\ k.cleanupFinished = ops[p].cleanupFinished /\ k.redeems = ops[p].redeems
        /\ k.challenge = ops[p].challenge
    BY <2>1 DEF Hashing, Operation
  <2>4. Becomes(c)
    BY <1>1, <1>6, <2>1, BooksAre DEF RegisterTail, Becomes, SetOp
  <2> HIDE DEF k
  <2>5. Sound(k)
    BY <2>1, <2>2, <2>3 DEF Sound
  <2>6. Advances(Books.ops[p], k)
    BY <2>1, <2>3, <2>5 DEF Advances
  <2>7. Steady(c)
    BY <1>2, <2>1, <2>2, <2>6, AdvanceSteady
  <2>8. c.retired = retired
    BY DEF SetOp, Books
  <2> HIDE DEF c
  <2>9. Tracked(c, started, pending, {}, {}, destroyed, TopOf(frame, calls), generation, PendingPrior)
    BY <2>7 DEF Steady
  <2> QED BY <1>1, <1>3, <1>4, <2>4, <2>8, <2>9, QuietNext
<1> QED BY <1>5, <1>6

LEMMA RetireFrameNext ==
  ASSUME IInv, RetireFrame
  PROVE  IInv'
<1> DEFINE p == frame.op
           top == TopOf(frame, calls)
<1>1. /\ frame.tail = "retire" /\ frame' = NoFrame /\ frame \in Frames
      /\ UNCHANGED <<calls, started, pending, generation, connVars, destroyed, now, skewed>>
      /\ LooseOf(frame) = {p} /\ OwedOf(frame) = {} /\ p \in 1..started
      /\ destroyed => retired = <<>>
      /\ destroyed \/ frame.cleanup \/ Forgettable(Books, p)
  BY FrameKinds DEF RetireFrame, IInv, FrameInv, startVars, envVars
<1>2. Tracked(Books, started, pending, {p}, {}, destroyed, top, generation, PendingPrior)
  BY <1>1 DEF IInv, BookInv
<1>3. EnvInv'
  BY EnvStays DEF RetireFrame, startVars, envVars, IInv, EnvInv
<1> HIDE DEF top
<1>4. {p} \ {p} = {} /\ p \in {p}
  OBVIOUS
<1>5. CASE ~destroyed
  <2> DEFINE c == RetireTail(Books, p, frame.cleanup)
  <2>1. Becomes(c)
    BY <1>5 DEF RetireFrame
  <2>2. ~frame.cleanup => Forgettable(Books, p)
    BY <1>1, <1>5
  <2> HIDE DEF p
  <2>3. Tracked(c, started, pending, {p} \ {p}, {}, destroyed, top, generation, PendingPrior)
    BY ONLY <1>2, <1>4, <2>2, RetireTailKeeps
  <2> HIDE DEF c
  <2> QED BY <1>1, <1>3, <1>4, <1>5, <2>1, <2>3, QuietNext DEF top
<1>6. CASE destroyed
  <2>1. /\ Ledger(Books, started, pending, {p}, {}, destroyed, top, generation, PendingPrior)
        /\ p \in Ops /\ ops[p] \in Operation /\ Sound(ops[p]) /\ Books.ops[p] = ops[p]
        /\ Books \in BookSet /\ retired = <<>> /\ Books.retired = <<>>
        /\ OpFacts(Books, p, pending, {p}, {}, destroyed) /\ p # pending
    BY <1>1, <1>2, <1>6, StateIs, BooksAre DEF Tracked, Ledger, LooseOf
  <2>2. Range(<<>>) = {} /\ IsInjective(<<>>) /\ Len(<<>>) = 0
    BY EmptySeq DEF Range, IsInjective
  <2>3. ~ops[p].cleanupFinished /\ ops[p].cleaner = "none"
    BY <2>1, <2>2, BooksAre DEF OpFacts, OpInv, Place
  <2>4. ASSUME NEW b, b \in {Books, Send(Books, "cancel", p)},
               Ledger(b, started, pending, {p}, {}, destroyed, top, generation, PendingPrior),
               b.retired = <<>>, Becomes(FinishCleanup(b, p))
        PROVE  IInv'
    <3> DEFINE c == FinishCleanup(b, p)
    <3>1. MayFinish(b, p, destroyed) /\ p \in Range(b.retired) \cup {p}
      BY <1>6 DEF MayFinish
    <3> HIDE DEF p
    <3>2. Ledger(c, started, pending, {p} \ {p}, {}, destroyed, top, generation, PendingPrior)
      BY ONLY <2>4, <3>1, FinishKeeps
    <3>3. c.retired = <<>>
      <4>1. b \in BookSet /\ b.ops[p] \in Operation /\ Sound(b.ops[p]) /\ IsInjective(b.retired)
        BY <1>1, <2>1, <2>4, LedgerTypes
      <4>2. c.retired = Without(b.retired, p)
        BY <2>1, <4>1, FinishCleanupIs
      <4> QED BY <2>2, <2>4, <4>2 DEF Without
    <3>4. Len(c.retired) <= MaxRetired
      BY <2>2, <3>3, RelayClientAssumption
    <3>5. Tracked(c, started, pending, {}, {}, destroyed, top, generation, PendingPrior)
      BY <1>4, <3>2, <3>4 DEF Tracked
    <3> HIDE DEF c
    <3> QED BY <1>1, <1>3, <2>4, <3>3, <3>5, QuietNext DEF top, c
  <2>5. CASE Becomes(FinishCleanup(Books, p))
    BY <2>1, <2>4, <2>5
  <2>6. CASE Becomes(FinishCleanup(Send(Books, "cancel", p), p))
    <3> DEFINE d == Send(Books, "cancel", p)
    <3>1. /\ d \in BookSet /\ d.ops = ops /\ d.retired = <<>> /\ d.evicted = evicted
          /\ d.sent = sent \cup {Can(p)}
      BY <2>1, SendIs, BooksAre DEF Can
    <3> HIDE DEF d
    <3>2. ops = [ops EXCEPT ![p] = ops[p]]
      BY StateIs
    <3>3. /\ \A q \in Ops : q # p => /\ Reg(q) \in d.sent <=> Reg(q) \in sent
                                     /\ Can(q) \in d.sent <=> Can(q) \in sent
          /\ Reg(p) \in d.sent <=> Reg(p) \in sent
      BY <3>1 DEF Reg, Can
    <3>4. /\ ops[p].phase = "hashing" => Reg(p) \notin d.sent
          /\ Reg(p) \in d.sent => ops[p].challenge
          /\ ops[p].active => ops[p].outcome # "not-started"
      BY <2>1, <2>3, <3>3, BooksAre DEF OpFacts, OpInv
    <3>5. InPlace(Books, d, p, ops[p])
      BY <2>1, <2>3, <3>1, <3>2, <3>3, <3>4, BooksAre DEF InPlace
    <3>6. Ledger(d, started, pending, {p}, {}, destroyed, top, generation, PendingPrior)
      <4> HIDE DEF p
      <4> QED BY ONLY <1>1, <2>1, <3>5, ProgressKeeps
    <3> QED BY <2>4, <2>6, <3>1, <3>6 DEF d
  <2> QED BY <1>6, <2>5, <2>6 DEF RetireFrame, RetireDestroyed
<1> QED BY <1>5, <1>6

LEMMA CompleteFrameNext ==
  ASSUME IInv, CompleteFrame
  PROVE  IInv'
<1> DEFINE p == frame.op
           top == TopOf(frame, calls)
           b == SetOp(Books, p, Settled(ops[p], TRUE))
           c == FinishCleanup(b, p)
<1>1. /\ frame.tail = "complete" /\ frame' = NoFrame /\ frame \in Frames
      /\ UNCHANGED <<calls, started, pending, generation, connVars, destroyed, now, skewed>>
      /\ LooseOf(frame) = {p} /\ OwedOf(frame) = {p} /\ p \in 1..started
      /\ destroyed => retired = <<>>
  BY FrameKinds DEF CompleteFrame, IInv, FrameInv, startVars, envVars
<1>2. Tracked(Books, started, pending, {p}, {p}, destroyed, top, generation, PendingPrior)
  BY <1>1 DEF IInv, BookInv
<1>3. EnvInv'
  BY EnvStays DEF CompleteFrame, startVars, envVars, IInv, EnvInv
<1>4. Becomes(c)
  <2>1. [Books EXCEPT !.ops[p] = Settled(@, TRUE)] = b
    BY BooksAre DEF SetOp
  <2> HIDE DEF b
  <2> QED BY <2>1 DEF CompleteFrame
<1> HIDE DEF top
<1>5. {p} \ {p} = {} /\ p \in {p} /\ Books.ops[p] = ops[p]
  BY BooksAre
<1>6. Tracked(c, started, pending, {}, {}, destroyed, top, generation, PendingPrior)
  <2> HIDE DEF p
  <2>1. Tracked(FinishCleanup(SetOp(Books, p, Settled(Books.ops[p], TRUE)), p),
                started, pending, {p} \ {p}, {p} \ {p}, destroyed, top, generation, PendingPrior)
    BY ONLY <1>2, <1>5, SettledKeeps
  <2> QED BY <1>5, <2>1
<1>7. destroyed => c.retired = <<>>
  <2> SUFFICES ASSUME destroyed PROVE c.retired = <<>>
    OBVIOUS
  <2>1. IsInjective(<<>>) /\ Range(<<>>) = {}
    BY EmptySeq DEF Range, IsInjective
  <2>2. c.retired = Without(retired, p)
    BY BooksAre DEF FinishCleanup, SetOp
  <2> HIDE DEF c
  <2> QED BY <1>1, <2>1, <2>2 DEF Without
<1> HIDE DEF c
<1> QED BY <1>1, <1>3, <1>4, <1>6, <1>7, QuietNext DEF top

-----------------------------------------------------------------------------
(* The end of an operation that succeeds.                                  *)
LEMMA CompletesNext ==
  ASSUME IInv, NEW p \in Ops, NEW event, NEW e \in Readings, Completes(p, event, e)
  PROVE  IInv'
<1> DEFINE k == [ops[pending] EXCEPT !.active = FALSE, !.expiryTimer = FALSE,
                                     !.pollTimer = FALSE, !.task = "none"]
           c == SetOp(Books, pending, k)
           top == TopOf(frame, calls)
<1>1. /\ Running /\ IsActive(p) /\ Exists(p) /\ pending' = 0
      /\ frame' = [tail |-> "complete", op |-> p]
      /\ UNCHANGED <<retired, outbox, sent, evicted, startVars, generation, destroyed, channel, envVars>>
      /\ ops' = [ops EXCEPT ![p] = [@ EXCEPT !.active = FALSE, !.expiryTimer = FALSE,
                                             !.pollTimer = FALSE, !.task = "none"]]
  BY DEF Completes, Awaits
<1>2. /\ p = pending /\ pending # 0 /\ ~destroyed /\ pending \in 1..started /\ pending \in Ops
      /\ Books.ops[pending] = ops[pending] /\ top = calls
  BY <1>1, AwaitedIs, WaitingIs
<1>3. Tracked(Books, started, pending, {}, {}, destroyed, top, generation, PendingPrior)
  BY <1>1, WaitingIs
<1>4. Becomes(c)
  BY <1>1, <1>2, BooksAre DEF Becomes, SetOp
<1> HIDE DEF top
<1>5. Tracked(SetOp(Books, pending, [Books.ops[pending] EXCEPT !.active = FALSE, !.expiryTimer = FALSE,
                                     !.pollTimer = FALSE, !.task = "none"]),
              started, 0, {} \cup {pending}, {} \cup {pending}, destroyed, top, generation', NoConnection)
  BY ONLY <1>2, <1>3, CompletingKeeps
<1>6. Tracked(c, started, 0, {pending}, {pending}, destroyed, top, generation', NoConnection)
  <2>1. {} \cup {pending} = {pending}
    OBVIOUS
  <2> QED BY <1>2, <1>5, <2>1
<1> HIDE DEF k, c
<1>7. c \in BookSet
  BY <1>6 DEF Tracked, Ledger
<1>8. Books' = c
  BY <1>4, <1>7, BecomesIs
<1>9. /\ frame' \in Frames /\ frame'.tail = "complete" /\ frame'.op = pending
      /\ LooseOf(frame') = {pending} /\ OwedOf(frame') = {pending} /\ TopOf(frame', calls) = calls
  <2>1. frame' \in Frames /\ frame'.tail = "complete" /\ frame'.op = pending
    BY <1>1, <1>2 DEF Frames
  <2> QED BY <2>1, FrameKinds DEF TopOf
<1>10. BookNext(NoConnection)
  BY <1>1, <1>2, <1>6, <1>8, <1>9 DEF BookNext, startVars
<1>11. BookInv' /\ PendingPrior' = NoConnection
  BY <1>1, <1>10, PriorNext
<1>12. FrameInv'
  BY <1>1, <1>2, <1>9 DEF FrameInv, startVars
<1>13. EnvInv'
  BY <1>1, EnvStays DEF startVars, envVars, IInv, EnvInv
<1>14. ConnInv'
  <2>1. UNCHANGED <<started, now, skewed>>
    BY <1>1 DEF startVars, envVars
  <2>2. CASE Connects(ops[p].kind, event)
    <3>1. InstallConnection([op |-> pending, expires |-> e])
      BY <1>2, <2>2 DEF Completes
    <3> QED BY <1>1, <1>2, <1>11, <2>1, <3>1, ConnInstalls
  <2>3. CASE ~Connects(ops[p].kind, event) /\ ops[p].kind = "account"
    <3>1. ClearConnection /\ Forget(connection) /\ Publish("dormant", NoConnection)
      BY <2>3 DEF Completes
    <3> QED BY <1>1, <1>11, <2>1, <3>1, ConnForgets
  <2>4. CASE ~Connects(ops[p].kind, event) /\ ops[p].kind # "account"
    <3>1. RestorePrior(ops[p].prior, "dormant")
      BY <2>4 DEF Completes
    <3>2. ops[p].prior \in Remembered
      BY <1>2 DEF Remembered, PendingPrior
    <3> QED BY <1>1, <1>11, <2>1, <3>1, <3>2, ConnRestore
  <2> QED BY <2>2, <2>3, <2>4
<1> QED BY <1>11, <1>12, <1>13, <1>14 DEF IInv

-----------------------------------------------------------------------------
(* The calls, with what they do to the connection.                         *)
LEMMA StartsNext ==
  ASSUME IInv, NEW kind \in Kinds, NEW call \in Nat, NEW prior \in Connection \cup {NoConnection},
         NEW nested \in BOOLEAN, StartOperation(kind, call, prior, nested),
         ~destroyed, destroyed' = destroyed, TopOf(frame, calls) < call,
         calls' \in Nat, calls <= calls', call <= calls',
         nested = TRUE \/ frame.tail \in {"none", "execute"},
         connection' = prior, forgotten' = forgotten,
         \/ connection' = connection /\ connTimer' = connTimer
         \/ connection' = NoConnection /\ connTimer' = NoConnection,
         UNCHANGED <<now, skewed>>, callbacks' \subseteq callbacks,
         channel' \in {"off", "on", "compromised"}
  PROVE  IInv'
<1>1. /\ BookNext(prior) /\ FrameInv' /\ generation' \in Nat
      /\ started' = started + 1 /\ pending' = started + 1
  BY StartNext
<1>2. started + 1 # 0
  BY StateIs
<1>3. BookInv' /\ PendingPrior' = connection'
  BY <1>1, <1>2, PriorNext
<1>4. Publish("opening", connection')
  BY DEF StartOperation
<1>5. ConnInv'
  BY <1>1, <1>3, <1>4, ConnStarts
<1>6. EnvInv'
  BY <1>1 DEF IInv, EnvInv
<1> QED BY <1>1, <1>3, <1>5, <1>6 DEF IInv

LEMMA StartFailsNext ==
  ASSUME IInv, NEW prior \in Remembered \cup {NoConnection}, StartFails(prior),
         ~destroyed, destroyed' = destroyed, calls' = calls,
         \/ frame' = MarkStale
         \/ frame' = NoFrame /\ frame.tail \in {"none", "execute"},
         UNCHANGED <<now, skewed>>, callbacks' \subseteq callbacks,
         channel' \in {"off", "on", "compromised"}
  PROVE  IInv'
<1>1. /\ Becomes(RetireQuietly(Books, pending)) /\ pending' = 0 /\ started' = started
      /\ generation' = GenerationAfterRetire /\ RestorePrior(prior, "error")
  BY DEF StartFails, PublishFailure
<1>2. BookNext(NoConnection) /\ FrameInv'
  BY <1>1, StopNext
<1>3. BookInv' /\ PendingPrior' = NoConnection
  BY <1>1, <1>2, PriorNext
<1>4. ConnInv'
  BY <1>1, <1>3, ConnRestore
<1>5. EnvInv'
  BY <1>1, GenerationIs DEF IInv, EnvInv
<1> QED BY <1>2, <1>3, <1>4, <1>5 DEF IInv

LEMMA ExecuteNext ==
  ASSUME IInv, NEW kind \in Kinds, Execute(kind)
  PROVE  IInv'
<1>1. /\ ~destroyed /\ destroyed' = destroyed /\ UNCHANGED <<now, skewed>>
      /\ callbacks' \subseteq callbacks /\ channel' \in {"off", "on", "compromised"}
      /\ frame = NoFrame /\ frame.tail = "none" /\ TopOf(frame, calls) = calls
      /\ calls \in Nat /\ connection \in Connection \cup {NoConnection}
  <2>1. /\ ~destroyed /\ destroyed' = destroyed /\ UNCHANGED <<now, skewed>> /\ frame = NoFrame
        /\ Activate
    BY DEF Execute, Running
  <2>2. callbacks' \subseteq callbacks /\ channel' \in {"off", "on", "compromised"}
    BY <2>1 DEF Activate, IInv, EnvInv
  <2>3. calls \in Nat /\ connection \in Connection \cup {NoConnection}
    BY DEF IInv, EnvInv, ConnInv
  <2> QED BY <2>1, <2>2, <2>3, NoFrameIs
<1>2. CASE /\ StartOperation(kind, calls + 1, connection, FALSE) /\ calls' = calls + 1
           /\ UNCHANGED <<connection, connTimer, forgotten>>
  <2>1. /\ IInv /\ kind \in Kinds /\ calls + 1 \in Nat /\ TopOf(frame, calls) < calls + 1
        /\ calls' \in Nat /\ calls <= calls' /\ calls + 1 <= calls' /\ FALSE \in BOOLEAN
        /\ connection' = connection /\ connTimer' = connTimer /\ forgotten' = forgotten
        /\ frame.tail \in {"none", "execute"}
    BY <1>1, <1>2
  <2>2. StartOperation(kind, calls + 1, connection, FALSE)
    BY <1>2
  <2> QED BY ONLY <1>1, <2>1, <2>2, StartsNext
<1>3. CASE StartFails(connection) /\ UNCHANGED <<calls, frame>>
  <2>1. connection \in Remembered \cup {NoConnection}
    BY DEF Remembered
  <2> QED BY <1>1, <1>3, <2>1, StartFailsNext
<1> QED BY <1>2, <1>3 DEF Execute

LEMMA ExecuteTailNext ==
  ASSUME IInv, ExecuteTail
  PROVE  IInv'
<1> USE DEF envVars
<1>1. /\ frame.tail = "execute" /\ UNCHANGED <<calls, destroyed, channel, envVars>>
      /\ frame \in Frames /\ frame.call <= calls /\ calls \in Nat
      /\ channel \in {"off", "on", "compromised"}
      /\ connection \in Connection \cup {NoConnection}
  BY DEF ExecuteTail, IInv, FrameInv, EnvInv, ConnInv
<1>2. frame.kind \in Kinds /\ frame.call \in Nat /\ frame.stale \in BOOLEAN
  BY <1>1, FrameKinds
<1>3. CASE destroyed \/ frame.stale
  <2>1. frame' = NoFrame /\ UNCHANGED <<bookVars, started, pending, generation, connVars>>
    BY <1>3 DEF ExecuteTail
  <2>2. Becomes(Books)
    BY <2>1 DEF Becomes, Books, bookVars
  <2>3. Tracked(Books, started, pending, {}, {}, destroyed, TopOf(frame, calls), generation, PendingPrior)
    BY <1>1, FrameKinds DEF IInv, BookInv
  <2>4. EnvInv'
    BY <1>1, <2>1, EnvStays DEF IInv, EnvInv
  <2>5. destroyed => Books.retired = <<>>
    BY BooksAre DEF IInv, FrameInv
  <2> QED BY <1>1, <2>1, <2>2, <2>3, <2>4, <2>5, QuietNext
<1>4. CASE ~destroyed /\ frame.stale = FALSE /\ StartOperation(frame.kind, frame.call, connection, FALSE)
           /\ UNCHANGED <<connection, connTimer, forgotten>>
  <2>1. TopOf(frame, calls) = frame.call - 1 /\ frame.call - 1 < frame.call
    BY <1>1, <1>2, <1>4 DEF TopOf
  <2>2. /\ IInv /\ frame.kind \in Kinds /\ frame.call \in Nat /\ TopOf(frame, calls) < frame.call
        /\ calls' \in Nat /\ calls <= calls' /\ frame.call <= calls' /\ FALSE \in BOOLEAN
        /\ connection' = connection /\ connTimer' = connTimer /\ forgotten' = forgotten
        /\ frame.tail \in {"none", "execute"} /\ ~destroyed /\ destroyed' = destroyed
        /\ UNCHANGED <<now, skewed>> /\ callbacks' \subseteq callbacks
        /\ channel' \in {"off", "on", "compromised"}
        /\ connection \in Connection \cup {NoConnection}
    BY <1>1, <1>2, <1>4, <2>1
  <2>3. StartOperation(frame.kind, frame.call, connection, FALSE)
    BY <1>4
  <2> QED BY ONLY <2>2, <2>3, StartsNext
<1>5. CASE ~destroyed /\ StartFails(connection) /\ frame' = NoFrame
  <2>1. connection \in Remembered \cup {NoConnection}
    BY DEF Remembered
  <2> QED BY <1>1, <1>5, <2>1, StartFailsNext
<1> QED BY <1>2, <1>3, <1>4, <1>5 DEF ExecuteTail

LEMMA ExecuteNestedNext ==
  ASSUME IInv, NEW kind \in Kinds, ExecuteNested(kind)
  PROVE  IInv'
<1> USE DEF envVars
<1> DEFINE prior == IF NeedsExpiry THEN NoConnection ELSE connection
<1>1. /\ ~destroyed /\ destroyed' = destroyed /\ UNCHANGED <<now, skewed>>
      /\ callbacks' \subseteq callbacks /\ channel' \in {"off", "on", "compromised"}
      /\ calls \in Nat /\ prior \in Connection \cup {NoConnection}
      /\ TopOf(frame, calls) \in Int /\ TopOf(frame, calls) <= calls
  BY TopIs DEF ExecuteNested, IInv, EnvInv, ConnInv
<1>2. CASE /\ StartOperation(kind, calls + 1, prior, TRUE) /\ calls' = calls + 1
           /\ IF NeedsExpiry THEN ClearConnection ELSE UNCHANGED <<connection, connTimer>>
           /\ UNCHANGED forgotten
  <2>1. /\ IInv /\ kind \in Kinds /\ calls + 1 \in Nat /\ TopOf(frame, calls) < calls + 1
        /\ calls' \in Nat /\ calls <= calls' /\ calls + 1 <= calls' /\ TRUE \in BOOLEAN
        /\ forgotten' = forgotten
    BY <1>1, <1>2
  <2>2. /\ connection' = prior
        /\ \/ connection' = connection /\ connTimer' = connTimer
           \/ connection' = NoConnection /\ connTimer' = NoConnection
    BY <1>2 DEF ClearConnection
  <2>3. StartOperation(kind, calls + 1, prior, TRUE)
    BY <1>2
  <2> HIDE DEF prior
  <2> QED BY ONLY <1>1, <2>1, <2>2, <2>3, StartsNext
<1>3. CASE StartFails(prior) /\ frame' = MarkStale /\ UNCHANGED calls
  <2>1. prior \in Remembered \cup {NoConnection}
    BY DEF Remembered
  <2> HIDE DEF prior
  <2> QED BY <1>1, <1>3, <2>1, StartFailsNext
<1> QED BY <1>2, <1>3 DEF ExecuteNested

LEMMA DisconnectNext ==
  ASSUME IInv, Disconnect
  PROVE  IInv'
<1>1. /\ ~destroyed /\ destroyed' = destroyed /\ UNCHANGED <<calls, started>>
      /\ ClearConnection /\ Forget(connection) /\ Publish("dormant", NoConnection)
      /\ Becomes(RetireQuietly(Books, pending)) /\ pending' = 0
      /\ generation' = GenerationAfterRetire /\ frame' = MarkStale
      /\ UNCHANGED <<channel, envVars>>
  BY DEF Disconnect, startVars
<1>2. BookNext(NoConnection) /\ FrameInv'
  BY <1>1, StopNext
<1>3. BookInv' /\ PendingPrior' = NoConnection
  BY <1>1, <1>2, PriorNext
<1>4. ConnInv'
  BY <1>1, <1>3, ConnForgets DEF envVars
<1>5. EnvInv'
  BY <1>1, GenerationIs DEF IInv, EnvInv, envVars
<1> QED BY <1>2, <1>3, <1>4, <1>5 DEF IInv

LEMMA DestroyedNext ==
  ASSUME IInv, Destroy
  PROVE  IInv'
<1>1. /\ destroyed' = TRUE /\ UNCHANGED <<calls, started, channel, envVars>>
      /\ ClearConnection /\ Forget(connection) /\ Publish("error", NoConnection)
      /\ pending' = 0 /\ generation' = generation + 1
  BY DEF Destroy, startVars
<1>2. BookNext(NoConnection) /\ FrameInv'
  BY DestroyNext
<1>3. BookInv' /\ PendingPrior' = NoConnection
  BY <1>1, <1>2, PriorNext
<1>4. ConnInv'
  BY <1>1, <1>3, ConnForgets DEF envVars
<1>5. EnvInv'
  BY <1>1 DEF IInv, EnvInv, envVars
<1> QED BY <1>2, <1>3, <1>4, <1>5 DEF IInv

-----------------------------------------------------------------------------
(* The steps that leave the books alone.                                   *)
LEMMA BooksStay ==
  ASSUME IInv, UNCHANGED <<bookVars, started, pending, generation, destroyed>>,
         \/ frame' = frame /\ calls' = calls
         \/ /\ frame = NoFrame /\ calls' = calls + 1 /\ destroyed = FALSE
            /\ \E kind \in Kinds :
                 frame' = [tail |-> "execute", kind |-> kind, call |-> calls + 1, stale |-> FALSE]
  PROVE  BookInv' /\ FrameInv' /\ PendingPrior' = PendingPrior
<1>1. Books' = Books /\ PendingPrior' = PendingPrior
  BY DEF bookVars, Books, PendingPrior
<1>2. Tracked(Books, started, pending, LooseOf(frame), OwedOf(frame), destroyed,
              TopOf(frame, calls), generation, PendingPrior)
  BY DEF IInv, BookInv
<1>3. CASE frame' = frame /\ calls' = calls
  <2>1. BookInv'
    BY <1>1, <1>2, <1>3 DEF BookInv
  <2>2. FrameInv'
    BY <1>1, <1>3 DEF IInv, FrameInv, bookVars
  <2> QED BY <1>1, <2>1, <2>2
<1>4. CASE /\ frame = NoFrame /\ calls' = calls + 1 /\ destroyed = FALSE
           /\ \E kind \in Kinds :
                frame' = [tail |-> "execute", kind |-> kind, call |-> calls + 1, stale |-> FALSE]
  <2>1. PICK kind \in Kinds :
          frame' = [tail |-> "execute", kind |-> kind, call |-> calls + 1, stale |-> FALSE]
    BY <1>4
  <2>2. calls \in Nat /\ calls + 1 \in Nat /\ (calls + 1) - 1 = calls
    BY DEF IInv, EnvInv
  <2>3. frame' \in Frames /\ frame'.tail = "execute" /\ frame'.stale = FALSE
        /\ frame'.call = calls + 1
    BY <2>1, <2>2 DEF Frames
  <2>4. LooseOf(frame') = LooseOf(frame) /\ OwedOf(frame') = OwedOf(frame)
    BY <1>4, <2>3, FrameKinds, NoFrameIs
  <2>5. TopOf(frame', calls') = TopOf(frame, calls)
    BY <1>4, <2>2, <2>3, NoFrameIs DEF TopOf
  <2>6. BookInv'
    BY <1>1, <1>2, <2>4, <2>5 DEF BookInv
  <2>7. FrameInv'
    BY <1>4, <2>2, <2>3 DEF FrameInv
  <2> QED BY <1>1, <2>6, <2>7
<1> QED BY <1>3, <1>4

(* The connection has ended by the clock: so has what the current          *)
(* operation remembers, unless that was set back.                          *)
LEMMA ExpiredIs ==
  ASSUME IInv, NeedsExpiry \/ (connTimer # NoConnection /\ Due(connTimer.expires))
  PROVE  skewed \/ ~Unexpired(PendingPrior)
<1> SUFFICES ASSUME ~skewed, Unexpired(PendingPrior) PROVE FALSE
  OBVIOUS
<1>1. connTimer = PendingPrior /\ (connection # NoConnection => connTimer = connection)
  BY DEF IInv, ConnInv
<1>2. Unexpired(connTimer) /\ connTimer.expires > now
  BY <1>1 DEF Unexpired
<1>3. connTimer.expires \in Int /\ now \in Int
  <2>1. connTimer \in Connection \cup {NoConnection} /\ now \in Nat
    BY DEF IInv, ConnInv, EnvInv, Readings
  <2> QED BY <2>1, ConnectionsAre
<1>4. CASE NeedsExpiry
  BY <1>1, <1>2, <1>4 DEF NeedsExpiry
<1>5. CASE Due(connTimer.expires)
  BY <1>2, <1>3, <1>5 DEF Due
<1> QED BY <1>4, <1>5

LEMMA ExpireNext ==
  ASSUME IInv, ExpireConnection, skewed \/ ~Unexpired(PendingPrior),
         UNCHANGED <<started, pending, now, skewed>>, PendingPrior' = PendingPrior
  PROVE  ConnInv'
<1> DEFINE status == IF pending # 0 THEN "opening" ELSE "dormant"
<1>1. /\ connection' = NoConnection /\ connTimer' = NoConnection /\ forgotten' = forgotten
      /\ published' = [status |-> status, conn |-> NoConnection]
      /\ status \in {"dormant", "opening"} /\ SamePending
  BY DEF ExpireConnection, ClearConnection, Publish, SamePending
<1> HIDE DEF status
<1> QED BY <1>1, ConnClears

(* The timer of a connection that is another by now.                       *)
LEMMA TimerGone ==
  ASSUME IInv, connTimer # NoConnection, Due(connTimer.expires), connection # connTimer,
         connTimer' = NoConnection, UNCHANGED <<connection, published, forgotten>>,
         UNCHANGED <<started, pending, now, skewed>>, PendingPrior' = PendingPrior
  PROVE  ConnInv'
<1>1. skewed \/ ~Unexpired(PendingPrior)
  BY ExpiredIs
<1>2. skewed \/ connection = NoConnection
  BY DEF IInv, ConnInv
<1>3. skewed' \/ ~Unexpired(PendingPrior)'
  BY <1>1 DEF Unexpired
<1> QED BY <1>2, <1>3 DEF IInv, ConnInv, Remembered

(* Time passes, or is set back.                                            *)
LEMMA ConnAges ==
  ASSUME IInv, UNCHANGED <<connVars, started, pending>>, PendingPrior' = PendingPrior,
         now' \in Readings, skewed' = TRUE \/ (skewed' = skewed /\ now <= now')
  PROVE  ConnInv'
<1>1. skewed' \/ (~skewed' => ~skewed /\ (Unexpired(PendingPrior)' => Unexpired(PendingPrior)))
  <2>1. PendingPrior.expires \in Int /\ now \in Int /\ now' \in Int
    <3>1. now \in Nat /\ now' \in Nat
      BY DEF IInv, EnvInv, Readings
    <3> QED BY <3>1, PriorIs, ConnectionsAre
  <2> QED BY <2>1 DEF Unexpired
<1> QED BY <1>1 DEF IInv, ConnInv, connVars, Remembered

LEMMA ExpiringNext ==
  ASSUME IInv, \/ GetSnapshot \/ ConnectionTimer
               \/ \E kind \in Kinds : ExecuteExpiring(kind)
  PROVE  IInv'
<1>1. /\ UNCHANGED <<bookVars, started, pending, generation, destroyed, channel, envVars>>
      /\ \/ frame' = frame /\ calls' = calls
         \/ /\ frame = NoFrame /\ calls' = calls + 1 /\ destroyed = FALSE
            /\ \E kind \in Kinds :
                 frame' = [tail |-> "execute", kind |-> kind, call |-> calls + 1, stale |-> FALSE]
  <2>1. CASE GetSnapshot
    BY <2>1 DEF GetSnapshot, startVars
  <2>2. CASE ConnectionTimer
    BY <2>2 DEF ConnectionTimer, startVars
  <2>3. CASE \E kind \in Kinds : ExecuteExpiring(kind)
    BY <2>3 DEF ExecuteExpiring, Running, IInv, EnvInv
  <2> QED BY <2>1, <2>2, <2>3
<1>2. BookInv' /\ FrameInv' /\ PendingPrior' = PendingPrior
  BY <1>1, BooksStay
<1>3. EnvInv'
  BY <1>1 DEF IInv, EnvInv, envVars
<1>4. UNCHANGED <<started, pending, now, skewed>>
  BY <1>1 DEF envVars
<1>5. CASE ExpireConnection /\ (NeedsExpiry \/ (connTimer # NoConnection /\ Due(connTimer.expires)))
  <2>1. skewed \/ ~Unexpired(PendingPrior)
    BY <1>5, ExpiredIs
  <2>2. ConnInv'
    BY <1>2, <1>4, <1>5, <2>1, ExpireNext
  <2> QED BY <1>2, <1>3, <2>2 DEF IInv
<1>6. CASE /\ connTimer # NoConnection /\ Due(connTimer.expires) /\ connection # connTimer
           /\ connTimer' = NoConnection /\ UNCHANGED <<connection, published, forgotten>>
  <2>1. ConnInv'
    BY <1>2, <1>4, <1>6, TimerGone
  <2> QED BY <1>2, <1>3, <2>1 DEF IInv
<1> QED BY <1>5, <1>6 DEF GetSnapshot, ConnectionTimer, ExecuteExpiring

LEMMA WaitingNext ==
  ASSUME IInv, \/ ActivationFails \/ ClientTick \/ StepBack
               \/ \E p \in Ops, w \in BOOLEAN : CallbackStored(p, w)
  PROVE  IInv'
<1>1. /\ UNCHANGED <<bookVars, startVars, pending, generation, connVars, destroyed, frame>>
      /\ channel' \in {channel, "compromised"}
  BY DEF ActivationFails, ClientTick, StepBack, CallbackStored
<1>2. BookInv' /\ FrameInv' /\ PendingPrior' = PendingPrior
  BY <1>1, BooksStay DEF startVars
<1>3. now \in Nat /\ now \in Readings
  BY DEF IInv, EnvInv, Readings
<1>4. now' \in Readings /\ (skewed' = TRUE \/ (skewed' = skewed /\ now <= now'))
  <2>1. CASE ActivationFails \/ \E p \in Ops, w \in BOOLEAN : CallbackStored(p, w)
    BY <1>3, <2>1 DEF ActivationFails, CallbackStored, envVars
  <2>2. CASE ClientTick
    BY <1>3, <2>2, RelayClientAssumption DEF ClientTick, Readings
  <2>3. CASE StepBack
    BY <2>3 DEF StepBack
  <2> QED BY <2>1, <2>2, <2>3
<1>5. ConnInv'
  BY <1>1, <1>2, <1>4, ConnAges DEF startVars
<1>6. callbacks' \subseteq CallbackRecord
  <2>1. CASE UNCHANGED callbacks
    BY <2>1 DEF IInv, EnvInv
  <2>2. CASE \E p \in Ops, w \in BOOLEAN : CallbackStored(p, w)
    <3>1. PICK p \in Ops, w \in BOOLEAN :
            callbacks' = callbacks \cup {[op |-> p, expires |-> now + CallbackWindow, wellFormed |-> w]}
      BY <2>2 DEF CallbackStored
    <3>2. now + CallbackWindow \in Nat
      BY <1>3, RelayClientAssumption
    <3>3. [op |-> p, expires |-> now + CallbackWindow, wellFormed |-> w] \in CallbackRecord
      BY <3>2 DEF CallbackRecord
    <3> QED BY <3>1, <3>3 DEF IInv, EnvInv
  <2> QED BY <2>1, <2>2 DEF ActivationFails, ClientTick, StepBack, envVars
<1>7. skewed' \in BOOLEAN
  BY <1>4 DEF IInv, EnvInv
<1>8. EnvInv'
  BY <1>1, <1>4, <1>6, <1>7 DEF IInv, EnvInv, startVars
<1> QED BY <1>2, <1>5, <1>8 DEF IInv

LEMMA ClientStuttering ==
  ASSUME IInv, UNCHANGED clientVars
  PROVE  IInv'
<1>1. UNCHANGED <<bookVars, startVars, pending, generation, connVars, destroyed, channel, frame, envVars>>
  BY DEF clientVars
<1>2. BookInv' /\ FrameInv' /\ PendingPrior' = PendingPrior
  BY <1>1, BooksStay DEF startVars
<1>3. EnvInv'
  BY <1>1 DEF IInv, EnvInv, startVars, envVars
<1>4. ConnInv'
  BY <1>1, <1>2, ConnSame DEF SamePending, startVars, envVars
<1> QED BY <1>2, <1>3, <1>4 DEF IInv

-----------------------------------------------------------------------------
(* The theorems.                                                           *)
LEMMA ClientInitially ==
  ASSUME ClientInit
  PROVE  IInv
<1> USE DEF ClientInit
<1>1. EnvInv
  <2>1. 0 \in Readings
    BY RelayClientAssumption DEF Readings
  <2> QED BY <2>1 DEF EnvInv
<1>2. FrameInv
  BY NoFrameIs DEF FrameInv
<1>3. ConnInv
  <2>1. NoConnection.op = 0 /\ PendingPrior = NoConnection
    BY DEF NoConnection, PendingPrior
  <2>2. ~Unexpired(PendingPrior)
    BY <2>1 DEF Unexpired
  <2> QED BY <2>1, <2>2 DEF ConnInv, Remembered
<1>4. BookInv
  <2>1. /\ Range(<<>>) = {} /\ IsInjective(<<>>) /\ Len(<<>>) = 0 /\ <<>> \in Seq(Ops)
    BY EmptySeq DEF Range, IsInjective
  <2>2. Books \in BookSet
    BY <2>1 DEF Books, BookSet
  <2>3. Apart(Books, 0, 0, {})
    BY <2>1, BooksAre, RelayClientAssumption DEF Apart
  <2>4. Numbered(Books, 0, 0)
    BY BooksAre, RelayClientAssumption DEF Numbered, Ops
  <2>5. 1..0 = {}
    OBVIOUS
  <2>6. Ledger(Books, 0, 0, {}, {}, FALSE, 0, 0, PendingPrior)
    BY <2>2, <2>3, <2>4, <2>5 DEF Ledger
  <2>7. Len(Books.retired) <= MaxRetired
    BY <2>1, BooksAre, RelayClientAssumption
  <2> QED BY <2>6, <2>7, NoFrameIs DEF BookInv, Tracked
<1> QED BY <1>1, <1>2, <1>3, <1>4 DEF IInv

LEMMA ClientStep ==
  ASSUME IInv, [ClientNext]_clientVars
  PROVE  IInv'
<1>1. CASE Calls
  BY <1>1, ExecuteNext, ExpiringNext, ExecuteNestedNext, WaitingNext, DisconnectNext, DestroyedNext
     DEF Calls
<1>2. CASE Returns
  BY <1>2, ExecuteTailNext, RegisterTailNext, RetireFrameNext, CompleteFrameNext DEF Returns
<1>3. CASE Timers
  BY <1>3, OperationTimerNext, ActiveFailsNext, RetryTimerNext, ExpiringNext DEF Timers
<1>4. CASE LocalSteps
  BY <1>4, HashDoneNext, HashFailsNext, ConsumeCallbackNext, ActiveFailsNext, RegisterFailsNext,
     CancelAnsweredNext DEF LocalSteps, CancelFails
<1>5. CASE Answers
  <2>1. PICK p \in Ops :
          \/ RegisterRefused(p)
          \/ \E s \in CancelStatuses : CancelAnswered(p, s)
          \/ \E e \in Readings : \/ RegisterAccepted(p, e)
                                 \/ \E v \in {"connected", "disconnected"} : Completes(p, v, e)
          \/ \E w \in BOOLEAN : CallbackStored(p, w)
    BY <1>5 DEF Answers
  <2>2. CASE RegisterRefused(p)
    BY <2>2, RegisterFailsNext
  <2>3. CASE \E s \in CancelStatuses : CancelAnswered(p, s)
    BY <2>3, CancelAnsweredNext
  <2>4. CASE \E e \in Readings : RegisterAccepted(p, e)
    BY <2>4, RegisterAcceptedNext
  <2>5. CASE \E e \in Readings : \E v \in {"connected", "disconnected"} : Completes(p, v, e)
    BY <2>5, CompletesNext
  <2>6. CASE \E w \in BOOLEAN : CallbackStored(p, w)
    BY <2>6, WaitingNext
  <2> QED BY <2>1, <2>2, <2>3, <2>4, <2>5, <2>6
<1>6. CASE ClientTick \/ StepBack
  BY <1>6, WaitingNext
<1>7. CASE UNCHANGED clientVars
  BY <1>7, ClientStuttering
<1> QED BY <1>1, <1>2, <1>3, <1>4, <1>5, <1>6, <1>7 DEF ClientNext

LEMMA ClientInvariant == ClientSpec => []IInv
<1>1. ClientInit => IInv
  BY ClientInitially
<1>2. IInv /\ [ClientNext]_clientVars => IInv'
  BY ClientStep
<1> QED BY <1>1, <1>2, PTL DEF ClientSpec

LEMMA OperationIs ==
  ASSUME IInv, NEW p \in Ops, Exists(p)
  PROVE  /\ p \in 1..started
         /\ OpFacts(Books, p, pending, LooseOf(frame), OwedOf(frame), destroyed)
         /\ ops[p] \in Operation /\ Sound(ops[p])
         /\ p \in LooseOf(frame) <=> Suspended(p)
         /\ p \in OwedOf(frame) <=> Suspended(p) /\ frame.tail = "complete"
<1>1. p \in 1..started /\ ops[p] \in Operation /\ Sound(ops[p])
  BY StateIs
<1>2. OpFacts(Books, p, pending, LooseOf(frame), OwedOf(frame), destroyed)
  BY <1>1, StateIs DEF Ledger
<1> QED BY <1>1, <1>2 DEF LooseOf, OwedOf, Suspended

(* Type correctness of the client, and the connection accounted for: the   *)
(* page is shown the connection that is held, and while Date.now() moves   *)
(* forward what is held has the timer that ends it (#publish,              *)
(* #installConnection, #restorePriorConnection).                           *)
THEOREM ClientConnection == ClientSpec => []ConnectionIsAccountedFor
<1>1. ASSUME IInv PROVE ConnectionIsAccountedFor
  <2>1. pending \in 0..MaxOps /\ started \in 0..MaxOps
    BY <1>1, StateIs, RelayClientAssumption
  <2>2. outbox \subseteq Request /\ sent \subseteq Request /\ evicted \subseteq Ops
    BY <1>1, StateIs, BooksAre DEF BookSet
  <2>3. /\ calls \in Nat /\ generation \in Nat /\ destroyed \in BOOLEAN
        /\ channel \in {"off", "on", "compromised"} /\ callbacks \subseteq CallbackRecord
        /\ now \in Readings /\ skewed \in BOOLEAN /\ frame \in Frames
    BY <1>1 DEF IInv, EnvInv, FrameInv
  <2>4. /\ connection \in Connection \cup {NoConnection}
        /\ connTimer \in Connection \cup {NoConnection}
        /\ published \in [status : {"dormant", "opening", "connected", "error"},
                          conn : Connection \cup {NoConnection}]
        /\ forgotten \subseteq Connection
        /\ PublishedIsHeld /\ ConnectionIsTimed
    BY <1>1 DEF IInv, ConnInv, PublishedIsHeld, ConnectionIsTimed
  <2>5. ops \in [Ops -> Operation \cup {NoOperation}] /\ retired \in Seq(Ops) /\ IsInjective(retired)
    BY <1>1, StateIs
  <2> QED BY <2>1, <2>2, <2>3, <2>4, <2>5 DEF ConnectionIsAccountedFor, ClientTypeOK
<1> QED BY <1>1, ClientInvariant, PTL

(* The promise of every execute is settled once, not while its operation   *)
(* is active and no later than the step that ends it; and an execute that  *)
(* waited behind a publish never replaces what a listener started          *)
(* meanwhile (#retire, #complete, #destroyNow, #entryEpoch).               *)
THEOREM ClientSettles == ClientSpec => []CallsSettleInOrder
<1>1. ASSUME IInv PROVE CallsSettleInOrder
  <2>1. SettledExactlyOnce
    <3> SUFFICES ASSUME NEW p \in Ops, Exists(p)
                 PROVE  ops[p].settlements =
                          IF ops[p].active \/ (Suspended(p) /\ frame.tail = "complete") THEN 0 ELSE 1
      BY DEF SettledExactlyOnce
    <3> QED BY <1>1, OperationIs, BooksAre DEF OpFacts, OpInv
  <2>2. StartedInCallOrder
    <3> SUFFICES ASSUME NEW p \in Ops, NEW q \in Ops, p < q, Exists(q)
                 PROVE  ops[p].call < ops[q].call
      BY DEF StartedInCallOrder
    <3>1. q \in 1..started /\ started \in Nat
      BY <1>1, StateIs
    <3>2. p \in 1..started
      BY <3>1 DEF Ops
    <3> QED BY <1>1, <3>1, <3>2, StateIs, BooksAre DEF Ledger, Numbered
  <2> QED BY <2>1, <2>2 DEF CallsSettleInOrder
<1> QED BY <1>1, ClientInvariant, PTL

(* Cleanup is neither lost nor left undone: an operation that is not       *)
(* finished is the current one, in #retired or behind a publish, #retired  *)
(* keeps its limit, and no registration is left at the relay unless it was *)
(* refused, redeemed, cancelled or given up (#addRetired, #ensureCleanup,  *)
(* #finishCleanup).                                                        *)
THEOREM ClientCleansUp == ClientSpec => []CleanupIsDone
<1>1. ASSUME IInv PROVE CleanupIsDone
  <2>1. CleanupIsTracked
    <3>1. Len(retired) <= MaxRetired
      BY <1>1, StateIs
    <3>2. ASSUME NEW p \in Ops, Exists(p)
          PROVE  ~ops[p].cleanupFinished <=> p = pending \/ p \in Range(retired) \/ Suspended(p)
      BY <1>1, <3>2, OperationIs, BooksAre DEF OpFacts, OpInv, Place
    <3> QED BY <3>1, <3>2 DEF CleanupIsTracked
  <2>2. RegistrationsWithdrawn
    <3> SUFFICES ASSUME ~destroyed, NEW p \in Ops, Exists(p), ops[p].cleanupFinished,
                        Handed("register", p)
                 PROVE  \/ ops[p].outcome = "definitive-failure" \/ ops[p].resolved
                        \/ Handed("cancel", p) \/ p \in evicted
      BY DEF RegistrationsWithdrawn, Withdrawn
    <3> QED BY <1>1, OperationIs, BooksAre DEF OpFacts, OpInv, Handed, Reg, Can
  <2> QED BY <2>1, <2>2 DEF CleanupIsDone
<1> QED BY <1>1, ClientInvariant, PTL

(* A connection that was ended is never the connection again, and a code   *)
(* is redeemed once, though the poll, the storage event and the end of the *)
(* registration race for its record (disconnect, #complete, #consumeCallback). *)
THEOREM ClientSpends == ClientSpec => []SpentStaysSpent
<1>1. ASSUME IInv PROVE SpentStaysSpent
  <2>1. EndedStaysEnded
    BY <1>1 DEF IInv, ConnInv, Remembered, EndedStaysEnded
  <2>2. RedeemedOnce
    <3> SUFFICES ASSUME NEW p \in Ops, Exists(p) PROVE ops[p].redeems <= 1
      BY DEF RedeemedOnce
    <3> QED BY <1>1, OperationIs DEF Sound
  <2> QED BY <2>1, <2>2 DEF SpentStaysSpent
<1> QED BY <1>1, ClientInvariant, PTL
=============================================================================
