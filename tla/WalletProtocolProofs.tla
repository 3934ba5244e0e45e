------------------------ MODULE WalletProtocolProofs ------------------------
(***************************************************************************)
(* What the client concludes from an answer is true of the relay.          *)
(*                                                                         *)
(* Two things the client does matter to the relay: a registration leaves   *)
(* the client once, and only a refusal is recorded as a definitive         *)
(* failure.  `Follows' says so of the client's books before and after a    *)
(* step; the first part shows it of every operator on the books and then   *)
(* of every action, the second part adds the relay and the network.        *)
(***************************************************************************)
EXTENDS WalletProtocol, RelayClientProofs

-----------------------------------------------------------------------------
(* Books whose retired operations exist.                                   *)
Sane(b) ==
  /\ b \in BookSet /\ IsInjective(b.retired)
  /\ \A q \in Range(b.retired) : q \in Ops /\ b.ops[q] \in Operation

Definitive(b, q) == b.ops[q] # NoOperation /\ b.ops[q].outcome = "definitive-failure"

(* From b to c no registration is sent a second time and no outcome        *)
(* becomes a definitive failure.                                           *)
Follows(b, c) ==
  /\ Sane(c)
  /\ \A q \in Ops : b.ops[q] \in Operation => c.ops[q] \in Operation
  /\ b.sent \subseteq c.sent
  /\ \A q \in Ops : Reg(q) \in c.outbox =>
       Reg(q) \in b.outbox \/ (Reg(q) \notin b.sent /\ Reg(q) \in c.sent)
  /\ \A q \in Ops : Definitive(c, q) => Definitive(b, q)

LEMMA FollowsTwice ==
  ASSUME NEW b, NEW c, NEW d, Follows(b, c), Follows(c, d)
  PROVE  Follows(b, d)
<1>1. Sane(d) /\ b.sent \subseteq d.sent
  BY DEF Follows
<1>2. \A q \in Ops : b.ops[q] \in Operation => d.ops[q] \in Operation
  BY DEF Follows
<1>3. ASSUME NEW q \in Ops, Reg(q) \in d.outbox
      PROVE  Reg(q) \in b.outbox \/ (Reg(q) \notin b.sent /\ Reg(q) \in d.sent)
  BY <1>3 DEF Follows
<1>4. \A q \in Ops : Definitive(d, q) => Definitive(b, q)
  BY DEF Follows
<1> QED BY <1>1, <1>2, <1>3, <1>4 DEF Follows

LEMMA FollowsSame ==
  ASSUME NEW b, Sane(b)
  PROVE  Follows(b, b)
BY DEF Follows

(* An operation becomes o, which is not a definitive failure unless it was *)
(* one.                                                                    *)
LEMMA SetFollows ==
  ASSUME NEW b, Sane(b), NEW p \in Ops, NEW o \in Operation,
         o.outcome = "definitive-failure" => Definitive(b, p)
  PROVE  Follows(b, SetOp(b, p, o))
<1> DEFINE c == SetOp(b, p, o)
<1>1. /\ b \in BookSet /\ b.ops \in [Ops -> Operation \cup {NoOperation}]
      /\ c \in BookSet /\ c.ops = [b.ops EXCEPT ![p] = o]
      /\ c.retired = b.retired /\ c.outbox = b.outbox /\ c.sent = b.sent
  BY SetOpIs DEF Sane, BookSet
<1> HIDE DEF c
<1>2. c.ops[p] = o /\ \A q \in Ops : q # p => c.ops[q] = b.ops[q]
  BY <1>1
<1>3. Sane(c)
  BY <1>1, <1>2 DEF Sane
<1>4. \A q \in Ops : b.ops[q] \in Operation => c.ops[q] \in Operation
  BY <1>2
<1>5. \A q \in Ops : Definitive(c, q) => Definitive(b, q)
  BY <1>2 DEF Definitive
<1> QED BY <1>1, <1>3, <1>4, <1>5 DEF Follows, c

(* A request is handed to fetch; a registration for the first time.        *)
LEMMA SendFollows ==
  ASSUME NEW b, Sane(b), NEW p \in Ops, NEW type \in {"register", "redeem", "cancel"},
         type = "register" => Reg(p) \notin b.sent
  PROVE  Follows(b, Send(b, type, p)) /\ Send(b, type, p).ops = b.ops
<1> DEFINE d == Send(b, type, p)
<1>0. b \in BookSet
  BY DEF Sane
<1>1. /\ d \in BookSet /\ d.ops = b.ops /\ d.retired = b.retired
      /\ d.outbox = b.outbox \cup {[type |-> type, op |-> p]}
      /\ d.sent = b.sent \cup {[type |-> type, op |-> p]}
  <2>1. [type |-> type, op |-> p] \in Request
    BY DEF Request
  <2> QED BY <1>0, <2>1 DEF Send, BookSet
<1> HIDE DEF d
<1> DEFINE r == [type |-> type, op |-> p]
<1>2. \A q \in Ops : Reg(q) = r => type = "register" /\ q = p
  BY DEF Reg
<1>3. Sane(d)
  BY <1>1 DEF Sane
<1>4. ASSUME NEW q \in Ops, Reg(q) \in d.outbox
      PROVE  Reg(q) \in b.outbox \/ (Reg(q) \notin b.sent /\ Reg(q) \in d.sent)
  <2>1. CASE Reg(q) \in b.outbox
    BY <2>1
  <2>2. CASE Reg(q) = r
    <3>1. type = "register" /\ q = p
      BY <2>2, <1>2
    <3> QED BY <3>1, <2>2, <1>1
  <2> QED BY <2>1, <2>2, <1>1, <1>4
<1>5. \A q \in Ops : Definitive(d, q) => Definitive(b, q)
  BY <1>1 DEF Definitive
<1> QED BY <1>1, <1>3, <1>4, <1>5 DEF Follows, d

(* The end of a cleanup and of a promise keep an operation's outcome.      *)
LEMMA FinishedKeepsOutcome ==
  ASSUME NEW o \in Operation
  PROVE  Finished(o) \in Operation /\ Finished(o).outcome = o.outcome
<1>1. CASE o.cleanupFinished
  BY <1>1 DEF Finished
<1>2. CASE ~o.cleanupFinished
  <2> DEFINE h == [o EXCEPT !.cleanupFinished = TRUE, !.operationTimer = FALSE,
                            !.expiryTimer = FALSE, !.pollTimer = FALSE]
             f == [h EXCEPT !.task = "none", !.cleaner = "none", !.challenge = FALSE,
                            !.prior = NoConnection, !.expires = 0]
  <2>1. h \in Operation /\ h.outcome = o.outcome
    BY DEF Operation
  <2>2. Finished(o) = f
    BY <1>2 DEF Finished
  <2>3. 0 \in Readings
    BY RelayClientAssumption DEF Readings
  <2> HIDE DEF h
  <2>4. f \in Operation /\ f.outcome = h.outcome
    BY <2>1, <2>3 DEF Operation
  <2> QED BY <2>1, <2>2, <2>4
<1> QED BY <1>1, <1>2

LEMMA SettledKeepsOutcome ==
  ASSUME NEW o \in Operation, NEW ok \in BOOLEAN
  PROVE  Settled(o, ok) \in Operation /\ Settled(o, ok).outcome = o.outcome
<1> DEFINE r == (o.resolved \/ ok)
           n == o.settlements + 1
<1>1. r \in BOOLEAN
  OBVIOUS
<1>2. n \in Nat
  BY DEF Operation
<1>3. Settled(o, ok) = [o EXCEPT !.settlements = n, !.resolved = r]
  BY DEF Settled
<1> HIDE DEF r, n
<1> QED BY <1>1, <1>2, <1>3 DEF Operation

LEMMA DeactivatedKeepsOutcome ==
  ASSUME NEW o \in Operation
  PROVE  /\ Deactivated(o) \in Operation /\ Deactivated(o).outcome = o.outcome
<1> DEFINE task == IF o.phase = "redeeming" THEN "none" ELSE o.task
           m == [o EXCEPT !.active = FALSE, !.expiryTimer = FALSE, !.pollTimer = FALSE,
                          !.task = task]
<1>1. task \in {"none", "hash", "register", "redeem"}
  BY DEF Operation
<1>2. Deactivated(o) = Settled(m, FALSE)
  BY DEF Deactivated
<1> HIDE DEF task
<1>3. m \in Operation /\ m.outcome = o.outcome
  BY <1>1 DEF Operation
<1> HIDE DEF m
<1> QED BY <1>2, <1>3, SettledKeepsOutcome

-----------------------------------------------------------------------------
(* The operators on books.                                                 *)
LEMMA FinishFollows ==
  ASSUME NEW b, Sane(b), NEW p \in Ops, b.ops[p] \in Operation
  PROVE  Follows(b, FinishCleanup(b, p))
<1> DEFINE c == FinishCleanup(b, p)
           s == Without(b.retired, p)
           o == Finished(b.ops[p])
<1>1. /\ b \in BookSet /\ b.ops \in [Ops -> Operation \cup {NoOperation}]
      /\ b.retired \in Seq(Ops) /\ IsInjective(b.retired)
      /\ o \in Operation /\ o.outcome = b.ops[p].outcome
  BY FinishedKeepsOutcome DEF Sane, BookSet
<1>2. s \in Seq(Ops) /\ IsInjective(s) /\ Range(s) = Range(b.retired) \ {p}
  BY <1>1, WithoutRest
<1> HIDE DEF s, o
<1>3. /\ c \in BookSet /\ c.ops = [b.ops EXCEPT ![p] = o] /\ c.retired = s
      /\ c.outbox = b.outbox /\ c.sent = b.sent
  BY <1>1, <1>2 DEF FinishCleanup, BookSet, s, o
<1> HIDE DEF c
<1>4. c.ops[p] = o /\ \A q \in Ops : q # p => c.ops[q] = b.ops[q]
  BY <1>1, <1>3
<1>5. Sane(c)
  BY <1>1, <1>2, <1>3, <1>4 DEF Sane
<1>6. \A q \in Ops : b.ops[q] \in Operation => c.ops[q] \in Operation
  BY <1>1, <1>4
<1>7. \A q \in Ops : Definitive(c, q) => Definitive(b, q)
  BY <1>1, <1>4, BornAreApart DEF Definitive
<1> QED BY <1>3, <1>5, <1>6, <1>7 DEF Follows, c

LEMMA AddFollows ==
  ASSUME NEW b, Sane(b), NEW p \in Ops, b.ops[p] \in Operation
  PROVE  Follows(b, AddRetired(b, p))
<1> DEFINE c == AddRetired(b, p)
           a == [b EXCEPT !.retired = Append(b.retired, p)]
           old == Head(a.retired)
           f == FinishCleanup(a, old)
           e == [f EXCEPT !.evicted = @ \cup {old}]
<1>1. CASE b.ops[p].cleanupFinished \/ p \in Range(b.retired)
  <2>1. c = b
    BY <1>1 DEF AddRetired
  <2> QED BY <2>1, FollowsSame
<1>2. CASE ~(b.ops[p].cleanupFinished \/ p \in Range(b.retired))
  <2>1. b \in BookSet /\ b.retired \in Seq(Ops) /\ IsInjective(b.retired) /\ p \notin Range(b.retired)
    BY <1>2 DEF Sane, BookSet
  <2>2. /\ Append(b.retired, p) \in Seq(Ops) /\ IsInjective(Append(b.retired, p))
        /\ Range(Append(b.retired, p)) = Range(b.retired) \cup {p}
        /\ Head(Append(b.retired, p)) \in Range(Append(b.retired, p))
    BY <2>1, AppendFresh
  <2>3. /\ a \in BookSet /\ a.retired = Append(b.retired, p)
        /\ a.ops = b.ops /\ a.sent = b.sent /\ a.outbox = b.outbox
    BY <2>1, <2>2 DEF BookSet
  <2>4. c = IF Len(a.retired) <= MaxRetired THEN a ELSE e
    BY <1>2, <2>3 DEF AddRetired
  <2> HIDE DEF a, c
  <2>5. Sane(a)
    BY <2>2, <2>3 DEF Sane
  <2>6. Follows(b, a)
    BY <2>3, <2>5 DEF Follows, Definitive
  <2>7. old \in Ops /\ a.ops[old] \in Operation
    BY <2>2, <2>3, <2>5 DEF Sane
  <2> HIDE DEF old
  <2>8. Follows(a, f)
    BY <2>5, <2>7, FinishFollows
  <2> HIDE DEF f
  <2>9. /\ e \in BookSet /\ e.ops = f.ops /\ e.retired = f.retired
        /\ e.sent = f.sent /\ e.outbox = f.outbox
    BY <2>7, <2>8 DEF BookSet, Follows, Sane
  <2> HIDE DEF e
  <2>10. Follows(f, e)
    BY <2>8, <2>9 DEF Follows, Sane, Definitive
  <2>11. Follows(b, e)
    BY ONLY <2>6, <2>8, <2>10, FollowsTwice
  <2> QED BY <2>4, <2>6, <2>11 DEF c
<1> QED BY <1>1, <1>2

LEMMA CancelOnceFollows ==
  ASSUME NEW b, Sane(b), NEW p \in Ops, b.ops[p] \in Operation
  PROVE  Follows(b, CancelOnce(b, p))
<1>1. CASE ~b.ops[p].challenge
  <2>1. CancelOnce(b, p) = FinishCleanup(b, p)
    BY <1>1 DEF CancelOnce
  <2> QED BY <2>1, FinishFollows
<1>2. CASE b.ops[p].challenge
  <2> DEFINE d == Send(b, "cancel", p)
             k == [d.ops[p] EXCEPT !.cleaner = "cancel"]
  <2>1. Follows(b, d) /\ d.ops = b.ops
    BY SendFollows
  <2>2. CancelOnce(b, p) = SetOp(d, p, k)
    <3>1. d \in BookSet
      BY <2>1 DEF Follows, Sane
    <3> HIDE DEF d
    <3> QED BY <3>1, <1>2 DEF CancelOnce, SetOp, d
  <2> HIDE DEF d
  <2>3. k \in Operation /\ k.outcome = d.ops[p].outcome
    BY <2>1 DEF Operation
  <2>4. k.outcome = "definitive-failure" => Definitive(d, p)
    BY <2>1, <2>3, BornAreApart DEF Definitive
  <2>5. Sane(d)
    BY <2>1 DEF Follows
  <2> HIDE DEF k
  <2>6. Follows(d, SetOp(d, p, k))
    BY ONLY <2>3, <2>4, <2>5, SetFollows, p \in Ops
  <2>7. Follows(b, SetOp(d, p, k))
    BY ONLY <2>1, <2>6, FollowsTwice
  <2> QED BY <2>2, <2>7
<1> QED BY <1>1, <1>2

LEMMA EnsureFollows ==
  ASSUME NEW b, Sane(b), NEW p \in Ops, b.ops[p] \in Operation
  PROVE  Follows(b, EnsureCleanup(b, p))
<1>1. CASE b.ops[p].cleanupFinished \/ b.ops[p].cleanupStarted \/ destroyed
  <2>1. EnsureCleanup(b, p) = b
    BY <1>1 DEF EnsureCleanup
  <2> QED BY <2>1, FollowsSame
<1>2. CASE ~(b.ops[p].cleanupFinished \/ b.ops[p].cleanupStarted \/ destroyed)
  <2> DEFINE k == [b.ops[p] EXCEPT !.cleanupStarted = TRUE]
             d == SetOp(b, p, k)
             a == AddRetired(d, p)
  <2>1. EnsureCleanup(b, p) = CancelOnce(a, p)
    <3>1. [b EXCEPT !.ops[p].cleanupStarted = TRUE] = d
      BY DEF SetOp
    <3> QED BY <3>1, <1>2 DEF EnsureCleanup
  <2>2. k \in Operation /\ k.outcome = b.ops[p].outcome
    BY DEF Operation
  <2>3. k.outcome = "definitive-failure" => Definitive(b, p)
    BY <2>2, BornAreApart DEF Definitive
  <2> HIDE DEF k
  <2>4. Follows(b, d)
    BY <2>2, <2>3, SetFollows
  <2> HIDE DEF d
  <2>5. Sane(d) /\ d.ops[p] \in Operation
    BY <2>4 DEF Follows
  <2>6. Follows(d, a)
    BY <2>5, AddFollows
  <2> HIDE DEF a
  <2>7. Sane(a) /\ a.ops[p] \in Operation
    BY <2>5, <2>6 DEF Follows
  <2>8. Follows(a, CancelOnce(a, p))
    BY <2>7, CancelOnceFollows
  <2>9. Follows(b, CancelOnce(a, p))
    BY ONLY <2>4, <2>6, <2>8, FollowsTwice
  <2> QED BY <2>1, <2>9
<1> QED BY <1>1, <1>2

LEMMA TailFollows ==
  ASSUME NEW b, Sane(b), NEW p \in Ops, b.ops[p] \in Operation, NEW cleanup \in BOOLEAN
  PROVE  Follows(b, RetireTail(b, p, cleanup))
<1> DEFINE k == [b.ops[p] EXCEPT !.outcome = "not-started"]
           d == SetOp(b, p, k)
           a == AddRetired(b, p)
<1>1. RetireTail(b, p, cleanup) \in
        {FinishCleanup(b, p), FinishCleanup(d, p), a, EnsureCleanup(a, p)}
  <2>1. [b EXCEPT !.ops[p].outcome = "not-started"] = d
    BY DEF SetOp
  <2> QED BY <2>1 DEF RetireTail
<1>2. k \in Operation /\ k.outcome = "not-started"
  BY DEF Operation, Outcomes
<1> HIDE DEF k
<1>3. Follows(b, d)
  BY <1>2, SetFollows
<1> HIDE DEF d
<1>4. Sane(d) /\ d.ops[p] \in Operation
  BY <1>3 DEF Follows
<1>5. Follows(d, FinishCleanup(d, p))
  BY <1>4, FinishFollows
<1>6. Follows(b, FinishCleanup(d, p))
  BY ONLY <1>3, <1>5, FollowsTwice
<1>7. Follows(b, FinishCleanup(b, p))
  BY FinishFollows
<1>8. Follows(b, a)
  BY AddFollows
<1> HIDE DEF a
<1>9. Sane(a) /\ a.ops[p] \in Operation
  BY <1>8 DEF Follows
<1>10. Follows(a, EnsureCleanup(a, p))
  BY <1>9, EnsureFollows
<1>11. Follows(b, EnsureCleanup(a, p))
  BY ONLY <1>8, <1>10, FollowsTwice
<1> QED BY <1>1, <1>6, <1>7, <1>8, <1>11

LEMMA QuietFollows ==
  ASSUME NEW b, Sane(b), NEW p, p # 0 => p \in Ops /\ b.ops[p] \in Operation
  PROVE  Follows(b, RetireQuietly(b, p))
<1>1. CASE p = 0 \/ ~b.ops[p].active
  <2>1. RetireQuietly(b, p) = b
    BY <1>1 DEF RetireQuietly
  <2> QED BY <2>1, FollowsSame
<1>2. CASE ~(p = 0 \/ ~b.ops[p].active)
  <2> DEFINE k == Deactivated(b.ops[p])
             d == SetOp(b, p, k)
  <2>1. p \in Ops /\ b.ops[p] \in Operation
    BY <1>2
  <2>2. RetireQuietly(b, p) = RetireTail(d, p, TRUE)
    <3>1. [b EXCEPT !.ops[p] = Deactivated(@)] = d
      BY DEF SetOp
    <3> QED BY <3>1, <1>2 DEF RetireQuietly
  <2>3. k \in Operation /\ k.outcome = b.ops[p].outcome
    BY <2>1, DeactivatedKeepsOutcome
  <2>4. k.outcome = "definitive-failure" => Definitive(b, p)
    BY <2>1, <2>3, BornAreApart DEF Definitive
  <2> HIDE DEF k
  <2>5. Follows(b, d)
    BY <2>1, <2>3, <2>4, SetFollows
  <2> HIDE DEF d
  <2>6. Sane(d) /\ d.ops[p] \in Operation
    BY <2>1, <2>5 DEF Follows
  <2>7. Follows(d, RetireTail(d, p, TRUE))
    BY <2>1, <2>6, TailFollows
  <2>8. Follows(b, RetireTail(d, p, TRUE))
    BY ONLY <2>5, <2>7, FollowsTwice
  <2> QED BY <2>2, <2>8
<1> QED BY <1>1, <1>2

-----------------------------------------------------------------------------
(* The actions of the client.                                              *)
LEMMA StateSane ==
  ASSUME IInv
  PROVE  /\ Sane(Books) /\ Books.ops = ops
         /\ \A p \in Ops : Exists(p) => ops[p] \in Operation
         /\ pending # 0 => pending \in Ops /\ ops[pending] \in Operation
         /\ \A p : IsActive(p) => p = pending /\ p # 0
<1>1. \A p \in 1..started : p \in Ops /\ ops[p] \in Operation
  BY StateIs
<1>2. Range(retired) \subseteq 1..started
  BY StateIs
<1>3. Sane(Books)
  BY <1>1, <1>2, StateIs, BooksAre DEF Sane
<1> QED BY <1>1, <1>3, StateIs, BooksAre

LEMMA BecomesFollows ==
  ASSUME NEW b, NEW c, Follows(b, c), Becomes(c)
  PROVE  Follows(b, Books')
<1>1. Books' = c
  BY BecomesIs DEF Follows, Sane
<1> QED BY <1>1

LEMMA BooksFollow ==
  ASSUME IInv, UNCHANGED bookVars
  PROVE  Follows(Books, Books')
<1>1. Books' = Books
  BY DEF bookVars, Books
<1> QED BY <1>1, StateSane, FollowsSame

LEMMA FailActiveFollows ==
  ASSUME NEW b, Sane(b), NEW p \in Ops, b.ops[p] \in Operation, NEW cleanup,
         FailActive(b, p, cleanup)
  PROVE  Follows(b, Books')
<1> DEFINE k == Deactivated(b.ops[p])
           d == SetOp(b, p, k)
<1>1. Becomes(d)
  BY DEF FailActive, SetOp
<1>2. k \in Operation /\ k.outcome = b.ops[p].outcome
  BY DeactivatedKeepsOutcome
<1>3. k.outcome = "definitive-failure" => Definitive(b, p)
  BY <1>2, BornAreApart DEF Definitive
<1> HIDE DEF k
<1>4. Follows(b, d)
  BY <1>2, <1>3, SetFollows
<1> QED BY <1>1, <1>4, BecomesFollows

LEMMA FailsFollows ==
  ASSUME NEW b, Sane(b), NEW p \in Ops, b.ops[p] \in Operation, NEW cleanup \in BOOLEAN,
         Fails(b, p, cleanup)
  PROVE  Follows(b, Books')
<1>1. CASE IsActive(p)
  <2>1. FailActive(b, p, cleanup)
    BY <1>1 DEF Fails
  <2> QED BY <2>1, FailActiveFollows
<1>2. CASE ~IsActive(p)
  <2> DEFINE c == IF cleanup THEN EnsureCleanup(b, p) ELSE FinishCleanup(b, p)
  <2>1. Becomes(c)
    BY <1>2 DEF Fails
  <2>2. Follows(b, EnsureCleanup(b, p)) /\ Follows(b, FinishCleanup(b, p))
    BY EnsureFollows, FinishFollows
  <2>3. Follows(b, c)
    BY <2>2
  <2> HIDE DEF c
  <2> QED BY <2>1, <2>3, BecomesFollows
<1> QED BY <1>1, <1>2

(* One field of an operation that matters to nobody but the client.        *)
LEMMA ProgressFollows ==
  ASSUME IInv, NEW p \in Ops, Exists(p), NEW k \in Operation,
         k.outcome \in {ops[p].outcome, "ambiguous", "registered"}
  PROVE  Follows(Books, SetOp(Books, p, k)) /\ SetOp(Books, p, k).ops[p] = k
<1>1. Sane(Books) /\ Books.ops = ops /\ Books \in BookSet
  BY StateSane DEF Sane
<1>2. k.outcome = "definitive-failure" => Definitive(Books, p)
  BY <1>1 DEF Definitive, Exists
<1>3. SetOp(Books, p, k).ops[p] = k
  BY <1>1, SetOpIs
<1> QED BY <1>1, <1>2, <1>3, SetFollows

LEMMA ConsumeFollows ==
  ASSUME NEW b, Sane(b), NEW p \in Ops, b.ops[p] \in Operation, Consume(b, p)
  PROVE  Follows(b, Books')
<1>1. CASE FailActive(b, p, TRUE)
  BY <1>1, FailActiveFollows
<1>2. CASE Becomes([Send(b, "redeem", p) EXCEPT !.ops[p] = Redeeming(@)])
  <2> DEFINE d == Send(b, "redeem", p)
             o == d.ops[p]
             k == Redeeming(o)
  <2>1. Follows(b, d) /\ d.ops = b.ops
    BY SendFollows
  <2>2. Becomes(SetOp(d, p, k))
    BY <1>2 DEF SetOp
  <2> HIDE DEF d
  <2>3. o \in Operation /\ Sane(d)
    BY <2>1 DEF Follows
  <2>4. k \in Operation /\ k.outcome = o.outcome
    <3> HIDE DEF o
    <3> DEFINE n == o.redeems + 1
    <3>1. n \in Nat
      BY <2>3 DEF Operation
    <3> DEFINE h == [o EXCEPT !.phase = "redeeming", !.pollTimer = FALSE]
    <3>2. k = [h EXCEPT !.task = "redeem", !.redeems = n]
      BY <2>3 DEF Redeeming, Operation
    <3>3. h \in Operation /\ h.outcome = o.outcome
      BY <2>3 DEF Operation, Phases
    <3> HIDE DEF n, k, h
    <3> QED BY <3>1, <3>2, <3>3 DEF Operation
  <2>5. k.outcome = "definitive-failure" => Definitive(d, p)
    BY <2>3, <2>4, BornAreApart DEF Definitive
  <2> HIDE DEF k
  <2>6. Follows(d, SetOp(d, p, k))
    BY <2>3, <2>4, <2>5, SetFollows
  <2>7. Follows(b, SetOp(d, p, k))
    BY ONLY <2>1, <2>6, FollowsTwice
  <2> QED BY <2>2, <2>7, BecomesFollows
<1> QED BY <1>1, <1>2 DEF Consume

(* execute replaces the previous operation and installs a new one.         *)
LEMMA StartFollows ==
  ASSUME IInv, NEW kind \in Kinds, NEW call \in Nat, NEW prior \in Connection \cup {NoConnection},
         NEW nested \in BOOLEAN, StartOperation(kind, call, prior, nested)
  PROVE  Follows(Books, Books')
<1> DEFINE p == started + 1
           n == NewOperation(kind, call, prior, GenerationAfterRetire + 1)
           o == IF nested THEN Hashing(n) ELSE n
           b == RetireQuietly(Books, pending)
<1>1. Becomes([b EXCEPT !.ops[p] = o]) /\ MayStart
  BY DEF StartOperation
<1>2. o \in Operation /\ o.outcome = "none"
  <2>1. now \in Readings /\ GenerationAfterRetire + 1 \in Nat
    BY GenerationIs DEF IInv, EnvInv
  <2> QED BY <1>1, <2>1, NewOperationIs
<1>3. p \in Ops
  BY <1>1, StateIs, RelayClientAssumption DEF MayStart, Ops
<1>4. Follows(Books, b)
  BY StateSane, QuietFollows
<1>5. Becomes(SetOp(b, p, o))
  BY <1>1 DEF SetOp
<1> HIDE DEF b, o, p
<1>6. Follows(b, SetOp(b, p, o))
  BY <1>2, <1>3, <1>4, SetFollows DEF Follows
<1>7. Follows(Books, SetOp(b, p, o))
  BY ONLY <1>4, <1>6, FollowsTwice
<1> QED BY <1>5, <1>7, BecomesFollows

LEMMA StartFailsFollows ==
  ASSUME IInv, NEW prior, StartFails(prior)
  PROVE  Follows(Books, Books')
<1>1. Follows(Books, RetireQuietly(Books, pending))
  BY StateSane, QuietFollows
<1> QED BY <1>1, BecomesFollows DEF StartFails

LEMMA CallsFollow ==
  ASSUME IInv, Calls
  PROVE  Follows(Books, Books')
<1> USE DEF startVars, envVars
<1>1. connection \in Connection \cup {NoConnection} /\ calls \in Nat /\ calls + 1 \in Nat
  BY DEF IInv, ConnInv, EnvInv
<1>2. ASSUME NEW kind \in Kinds, Execute(kind) PROVE Follows(Books, Books')
  BY <1>1, <1>2, StartFollows, StartFailsFollows DEF Execute
<1>3. ASSUME NEW kind \in Kinds, ExecuteExpiring(kind) PROVE Follows(Books, Books')
  BY <1>3, BooksFollow DEF ExecuteExpiring
<1>4. ASSUME NEW kind \in Kinds, ExecuteNested(kind) PROVE Follows(Books, Books')
  <2> DEFINE prior == IF NeedsExpiry THEN NoConnection ELSE connection
  <2>1. StartOperation(kind, calls + 1, prior, TRUE) \/ StartFails(prior)
    BY <1>4 DEF ExecuteNested
  <2>2. prior \in Connection \cup {NoConnection}
    BY <1>1
  <2> HIDE DEF prior
  <2> QED BY <1>1, <2>1, <2>2, StartFollows, StartFailsFollows
<1>5. ASSUME ActivationFails \/ GetSnapshot PROVE Follows(Books, Books')
  BY <1>5, BooksFollow DEF ActivationFails, GetSnapshot
<1>6. ASSUME Disconnect PROVE Follows(Books, Books')
  <2>1. Follows(Books, RetireQuietly(Books, pending))
    BY StateSane, QuietFollows
  <2> QED BY <1>6, <2>1, BecomesFollows DEF Disconnect
<1>7. ASSUME Destroy PROVE Follows(Books, Books')
  <2> DEFINE cut == {q \in Ops : q = pending \/ q \in Range(retired)}
             withdrawn == {[type |-> "cancel", op |-> q] : q \in {r \in cut : ops[r].challenge}}
             rejected(q) == IF q = pending THEN Settled([ops[q] EXCEPT !.active = FALSE], FALSE)
                            ELSE ops[q]
             c == DestroyBooks
  <2>1. /\ c.ops = [q \in Ops |-> IF q \in cut THEN Finished(rejected(q)) ELSE ops[q]]
        /\ c.retired = <<>> /\ c.outbox = outbox \cup withdrawn
        /\ c.sent = sent \cup withdrawn
    BY DEF DestroyBooks
  <2>2. Books.ops = ops /\ Books.outbox = outbox /\ Books.sent = sent /\ Becomes(c)
    BY <1>7, BooksAre DEF Destroy
  <2>3. \A q \in Ops : Reg(q) \notin withdrawn
    BY DEF Reg
  <2>4. ASSUME NEW q \in cut
        PROVE  /\ ops[q] \in Operation /\ Finished(rejected(q)) \in Operation
               /\ Finished(rejected(q)).outcome = ops[q].outcome
    <3>1. q \in Ops /\ ops[q] \in Operation
      BY StateSane, StateIs DEF Sane
    <3>2. rejected(q) \in Operation /\ rejected(q).outcome = ops[q].outcome
      <4> DEFINE m == [ops[q] EXCEPT !.active = FALSE]
      <4>1. m \in Operation /\ m.outcome = ops[q].outcome
        BY <3>1 DEF Operation
      <4> HIDE DEF m
      <4>2. Settled(m, FALSE) \in Operation /\ Settled(m, FALSE).outcome = m.outcome
        BY <4>1, SettledKeepsOutcome
      <4> QED BY <3>1, <4>1, <4>2 DEF m
    <3> HIDE DEF rejected
    <3> QED BY <3>1, <3>2, FinishedKeepsOutcome
  <2>5. Tracked(Books, started, pending, LooseOf(frame), OwedOf(frame), destroyed,
                TopOf(frame, calls), generation, PendingPrior)
        /\ pending \notin OwedOf(frame)
    BY StateIs DEF IInv, BookInv
  <2>6. c \in BookSet
    <3>1. Tracked(c, started, 0, LooseOf(frame), OwedOf(frame), TRUE, TopOf(frame, calls),
                  generation, PendingPrior)
      BY ONLY <2>5, DestroyKeeps
    <3> QED BY <3>1 DEF Tracked, Ledger
  <2> HIDE DEF c, rejected, withdrawn, cut
  <2>7. \A q \in Ops : \/ c.ops[q] = ops[q]
                       \/ /\ ops[q] \in Operation /\ c.ops[q] \in Operation
                          /\ c.ops[q].outcome = ops[q].outcome
    BY <2>1, <2>4
  <2>8. Sane(c)
    <3>1. Range(<<>>) = {} /\ IsInjective(<<>>)
      BY EmptySeq DEF Range, IsInjective
    <3> QED BY <2>1, <2>6, <3>1 DEF Sane
  <2>9. \A q \in Ops : Definitive(c, q) => Definitive(Books, q)
    BY <2>2, <2>7, BornAreApart DEF Definitive
  <2>10. Follows(Books, c)
    BY <2>1, <2>2, <2>3, <2>7, <2>8, <2>9 DEF Follows
  <2> QED BY <2>2, <2>10, BecomesFollows
<1> QED BY <1>2, <1>3, <1>4, <1>5, <1>6, <1>7 DEF Calls

LEMMA ReturnsFollow ==
  ASSUME IInv, Returns
  PROVE  Follows(Books, Books')
<1> USE DEF startVars, envVars
<1>1. frame \in Frames
  BY DEF IInv, FrameInv
<1>2. frame.tail \in {"complete", "retire"} =>
        frame.op \in Ops /\ ops[frame.op] \in Operation /\ Exists(frame.op)
  BY StateIs DEF IInv, FrameInv
<1>3. CASE ExecuteTail
  <2>1. frame.kind \in Kinds /\ frame.call \in Nat /\ connection \in Connection \cup {NoConnection}
    BY <1>1, <1>3, FrameKinds DEF ExecuteTail, IInv, ConnInv
  <2>2. \/ UNCHANGED bookVars
        \/ StartOperation(frame.kind, frame.call, connection, FALSE)
        \/ StartFails(connection)
    BY <1>3 DEF ExecuteTail
  <2> QED BY <2>1, <2>2, BooksFollow, StartFollows, StartFailsFollows
<1>4. CASE RegisterTail
  <2> DEFINE p == frame.op
             k == Hashing(ops[p])
  <2>1. CASE IsActive(p)
    <3>1. p \in Ops /\ ops[p] \in Operation /\ Exists(p)
      BY <2>1, StateSane, BornAreApart DEF Exists
    <3>2. k \in Operation /\ k.outcome = ops[p].outcome
      BY <3>1 DEF Hashing, Operation
    <3>3. Becomes(SetOp(Books, p, k))
      BY <1>4, <2>1, BooksAre DEF RegisterTail, Becomes, SetOp
    <3> HIDE DEF k, p
    <3>4. Follows(Books, SetOp(Books, p, k))
      BY <3>1, <3>2, ProgressFollows
    <3> QED BY <3>3, <3>4, BecomesFollows
  <2>2. CASE ~IsActive(p)
    BY <1>4, <2>2, BooksFollow DEF RegisterTail, bookVars
  <2> QED BY <2>1, <2>2
<1>5. CASE RetireFrame
  <2>1. frame.op \in Ops /\ Books.ops[frame.op] \in Operation /\ frame.cleanup \in BOOLEAN
        /\ Sane(Books)
    BY <1>1, <1>2, <1>5, FrameKinds, StateSane DEF RetireFrame
  <2>2. CASE Becomes(RetireTail(Books, frame.op, frame.cleanup))
    BY <2>1, <2>2, TailFollows, BecomesFollows
  <2>3. CASE Becomes(FinishCleanup(Books, frame.op))
    BY <2>1, <2>3, FinishFollows, BecomesFollows
  <2>4. CASE Becomes(FinishCleanup(Send(Books, "cancel", frame.op), frame.op))
    <3> DEFINE d == Send(Books, "cancel", frame.op)
    <3>1. Follows(Books, d)
      BY <2>1, SendFollows
    <3> HIDE DEF d
    <3>2. Sane(d) /\ d.ops[frame.op] \in Operation
      BY <2>1, <3>1 DEF Follows
    <3>3. Follows(d, FinishCleanup(d, frame.op))
      BY <2>1, <3>2, FinishFollows
    <3>4. Follows(Books, FinishCleanup(d, frame.op))
      BY ONLY <3>1, <3>3, FollowsTwice
    <3> QED BY <2>4, <3>4, BecomesFollows DEF d
  <2> QED BY <1>5, <2>2, <2>3, <2>4 DEF RetireFrame, RetireDestroyed
<1>6. CASE CompleteFrame
  <2> DEFINE p == frame.op
             k == Settled(ops[p], TRUE)
             d == SetOp(Books, p, k)
  <2>1. p \in Ops /\ ops[p] \in Operation /\ Exists(p)
    BY <1>2, <1>6 DEF CompleteFrame
  <2>2. k \in Operation /\ k.outcome = ops[p].outcome
    BY <2>1, SettledKeepsOutcome
  <2>3. Becomes(FinishCleanup(d, p))
    BY <1>6, BooksAre DEF CompleteFrame, SetOp
  <2> HIDE DEF k, p
  <2>4. Follows(Books, d)
    BY <2>1, <2>2, ProgressFollows
  <2> HIDE DEF d
  <2>5. Sane(d) /\ d.ops[p] \in Operation
    BY <2>1, <2>4, StateSane DEF Follows
  <2>6. Follows(d, FinishCleanup(d, p))
    BY <2>1, <2>5, FinishFollows
  <2>7. Follows(Books, FinishCleanup(d, p))
    BY ONLY <2>4, <2>6, FollowsTwice
  <2> QED BY <2>3, <2>7, BecomesFollows
<1> QED BY <1>3, <1>4, <1>5, <1>6 DEF Returns

(* A registration is answered, refused or not.                             *)
LEMMA AnsweredIs ==
  ASSUME IInv, NEW p \in Ops, Exists(p),
         NEW outcome \in {"ambiguous", "definitive-failure", "registered"}
  PROVE  LET k == [ops[p] EXCEPT !.outcome = outcome, !.task = "none", !.operationTimer = FALSE]
         IN  /\ Answered(p, outcome) = SetOp(Books, p, k)
             /\ k \in Operation /\ k.outcome = outcome
<1> DEFINE k == [ops[p] EXCEPT !.outcome = outcome, !.task = "none", !.operationTimer = FALSE]
<1>1. ops[p] \in Operation
  BY StateSane
<1>2. Answered(p, outcome) = SetOp(Books, p, k)
  BY BooksAre DEF Answered, SetOp
<1>3. k \in Operation /\ k.outcome = outcome
  BY <1>1 DEF Operation, Outcomes
<1> QED BY <1>2, <1>3

LEMMA AnsweredFollows ==
  ASSUME IInv, NEW p \in Ops, Exists(p), NEW outcome \in {"ambiguous", "registered"}
  PROVE  LET b == Answered(p, outcome)
         IN  Follows(Books, b) /\ Sane(b) /\ b.ops[p] \in Operation
<1> DEFINE k == [ops[p] EXCEPT !.outcome = outcome, !.task = "none", !.operationTimer = FALSE]
           b == Answered(p, outcome)
<1>1. b = SetOp(Books, p, k) /\ k \in Operation /\ k.outcome = outcome
  BY AnsweredIs
<1> HIDE DEF b, k
<1>2. Follows(Books, b) /\ b.ops[p] = k
  BY <1>1, ProgressFollows
<1> QED BY <1>1, <1>2 DEF Follows, b

(* The operation's own progress, then the end of its activity.             *)
LEMMA ProgressFails ==
  ASSUME IInv, NEW p \in Ops, Exists(p), NEW k \in Operation, k.outcome = ops[p].outcome,
         NEW cleanup, FailActive(SetOp(Books, p, k), p, cleanup)
  PROVE  Follows(Books, Books')
<1> DEFINE b == SetOp(Books, p, k)
<1>1. Follows(Books, b) /\ b.ops[p] = k
  BY ProgressFollows
<1>2. Sane(b)
  BY <1>1 DEF Follows
<1> HIDE DEF b
<1>3. Follows(b, Books')
  BY <1>1, <1>2, FailActiveFollows DEF b
<1> QED BY ONLY <1>1, <1>3, FollowsTwice

LEMMA TimersFollow ==
  ASSUME IInv, Timers
  PROVE  Follows(Books, Books')
<1> USE DEF startVars, envVars
<1>1. ASSUME NEW p \in Ops, OperationTimer(p) PROVE Follows(Books, Books')
  <2> DEFINE k == [ops[p] EXCEPT !.operationTimer = FALSE, !.task = "none"]
  <2>1. Exists(p) /\ ops[p] \in Operation
    BY <1>1, StateSane DEF OperationTimer
  <2>2. CASE FailActive([Books EXCEPT !.ops[p] = [@ EXCEPT !.operationTimer = FALSE, !.task = "none"]],
                        p, FALSE)
    <3>1. FailActive(SetOp(Books, p, k), p, FALSE)
      BY <2>2, BooksAre DEF SetOp
    <3>2. k \in Operation /\ k.outcome = ops[p].outcome
      BY <2>1 DEF Operation
    <3> HIDE DEF k
    <3> QED BY <2>1, <3>1, <3>2, ProgressFails
  <2>3. CASE Fails(Answered(p, "ambiguous"), p, TRUE)
    <3> DEFINE b == Answered(p, "ambiguous")
    <3>1. Follows(Books, b) /\ Sane(b) /\ b.ops[p] \in Operation
      BY <2>1, AnsweredFollows
    <3> HIDE DEF b
    <3>2. Follows(b, Books')
      BY <2>3, <3>1, FailsFollows DEF b
    <3> QED BY ONLY <3>1, <3>2, FollowsTwice
  <2> QED BY <1>1, <2>2, <2>3 DEF OperationTimer
<1>2. ASSUME NEW p \in Ops, ExpiryTimer(p) PROVE Follows(Books, Books')
  BY <1>2, StateSane, FailActiveFollows DEF ExpiryTimer
<1>3. ASSUME NEW p \in Ops, RetryTimer(p) PROVE Follows(Books, Books')
  <2>1. Books.ops[p] \in Operation /\ Sane(Books)
    BY <1>3, StateSane DEF RetryTimer, Cleaning
  <2>2. Follows(Books, CancelOnce(Books, p)) /\ Follows(Books, FinishCleanup(Books, p))
    BY <2>1, CancelOnceFollows, FinishFollows
  <2>3. Becomes(CancelOnce(Books, p)) \/ Becomes(FinishCleanup(Books, p))
    BY <1>3 DEF RetryTimer
  <2> QED BY <2>2, <2>3, BecomesFollows
<1>4. ASSUME ConnectionTimer PROVE Follows(Books, Books')
  BY <1>4, BooksFollow DEF ConnectionTimer
<1> QED BY <1>1, <1>2, <1>3, <1>4 DEF Timers

(* #register sends its registration once.                                  *)
LEMMA HashDoneFollows ==
  ASSUME IInv, NEW p \in Ops, HashDone(p)
  PROVE  Follows(Books, Books')
<1> DEFINE d == Send(Books, "register", p)
           k == [ops[p] EXCEPT !.challenge = TRUE, !.phase = "registering", !.task = "register"]
<1>1. Exists(p) /\ ops[p] \in Operation /\ Sane(Books) /\ Books.ops = ops
  BY StateSane DEF HashDone, Awaits
<1>2. Reg(p) \notin Books.sent
  BY <1>1, OperationIs, BooksAre DEF OpFacts, OpInv, Sound, HashDone, Awaits
<1>3. Follows(Books, d) /\ d.ops = ops
  BY <1>1, <1>2, SendFollows
<1>4. Becomes(SetOp(d, p, k))
  BY <1>3 DEF HashDone, SetOp
<1>5. k \in Operation /\ k.outcome = ops[p].outcome
  <2> DEFINE h == [ops[p] EXCEPT !.challenge = TRUE]
  <2>1. h \in Operation /\ h.outcome = ops[p].outcome
    BY <1>1 DEF Operation
  <2>2. k = [h EXCEPT !.phase = "registering", !.task = "register"]
    BY <1>1 DEF Operation
  <2> HIDE DEF h, k
  <2> QED BY <2>1, <2>2 DEF Operation, Phases
<1>6. k.outcome = "definitive-failure" => Definitive(d, p)
  BY <1>1, <1>3, <1>5 DEF Definitive, Exists
<1> HIDE DEF d, k
<1>7. Follows(d, SetOp(d, p, k))
  BY <1>3, <1>5, <1>6, SetFollows DEF Follows
<1>8. Follows(Books, SetOp(d, p, k))
  BY ONLY <1>3, <1>7, FollowsTwice
<1> QED BY <1>4, <1>8, BecomesFollows

(* A cancel is answered, with whatever status.                             *)
LEMMA CancelAnsweredFollows ==
  ASSUME IInv, NEW p \in Ops, NEW s, CancelAnswered(p, s)
  PROVE  Follows(Books, Books')
<1> DEFINE k == [ops[p] EXCEPT !.cleaner = "backoff"]
<1>1. Exists(p) /\ ops[p] \in Operation /\ Sane(Books) /\ Books.ops = ops
  BY StateSane DEF CancelAnswered, Cleaning
<1>2. Becomes(FinishCleanup(Books, p)) \/ Becomes(SetOp(Books, p, k))
  BY <1>1 DEF CancelAnswered, SetOp
<1>3. k \in Operation /\ k.outcome = ops[p].outcome
  BY <1>1 DEF Operation
<1> HIDE DEF k
<1>4. Follows(Books, FinishCleanup(Books, p)) /\ Follows(Books, SetOp(Books, p, k))
  BY <1>1, <1>3, FinishFollows, ProgressFollows
<1> QED BY <1>2, <1>4, BecomesFollows

LEMMA LocalStepsFollow ==
  ASSUME IInv, LocalSteps
  PROVE  Follows(Books, Books')
<1> USE DEF startVars, envVars
<1>1. PICK p \in Ops :
        \/ HashDone(p) \/ HashFails(p) \/ ConsumeCallback(p) \/ StorageFails(p)
        \/ RegisterFails(p) \/ RedeemFails(p) \/ CancelFails(p)
  BY DEF LocalSteps
<1>2. Sane(Books) /\ Books.ops = ops
  BY StateSane
<1>3. CASE HashDone(p)
  BY <1>3, HashDoneFollows
<1>4. CASE HashFails(p) \/ RedeemFails(p)
  <2> DEFINE k == [ops[p] EXCEPT !.task = "none"]
  <2>1. Exists(p) /\ ops[p] \in Operation
    BY <1>4, StateSane DEF HashFails, RedeemFails, Awaits
  <2>2. FailActive(SetOp(Books, p, k), p, FALSE) \/ FailActive(SetOp(Books, p, k), p, TRUE)
    BY <1>4, <1>2 DEF HashFails, RedeemFails, SetOp
  <2>3. k \in Operation /\ k.outcome = ops[p].outcome
    BY <2>1 DEF Operation
  <2> HIDE DEF k
  <2> QED BY <2>1, <2>2, <2>3, ProgressFails
<1>5. CASE ConsumeCallback(p)
  <2>1. ops[p] \in Operation
    BY <1>5, StateSane DEF ConsumeCallback, Consumes
  <2> QED BY <1>2, <1>5, <2>1, ConsumeFollows DEF ConsumeCallback
<1>6. CASE StorageFails(p)
  <2>1. ops[p] \in Operation
    BY <1>6, StateSane DEF StorageFails, Consumes
  <2> QED BY <1>2, <1>6, <2>1, FailActiveFollows DEF StorageFails
<1>7. CASE RegisterFails(p)
  <2> DEFINE b == Answered(p, "ambiguous")
  <2>1. Exists(p) /\ Fails(b, p, TRUE)
    BY <1>7 DEF RegisterFails, Awaits
  <2>2. Follows(Books, b) /\ Sane(b) /\ b.ops[p] \in Operation
    BY <2>1, AnsweredFollows
  <2> HIDE DEF b
  <2>3. Follows(b, Books')
    BY <2>1, <2>2, FailsFollows
  <2> QED BY ONLY <2>2, <2>3, FollowsTwice
<1>8. CASE CancelFails(p)
  BY <1>8, CancelAnsweredFollows DEF CancelFails
<1> QED BY <1>1, <1>3, <1>4, <1>5, <1>6, <1>7, <1>8

LEMMA RegisterAcceptedFollows ==
  ASSUME IInv, NEW p \in Ops, NEW e \in Readings, RegisterAccepted(p, e)
  PROVE  Follows(Books, Books')
<1> DEFINE a == Answered(p, "registered")
           k == [a.ops[p] EXCEPT !.expires = e]
           b == SetOp(a, p, k)
           v == WaitingCallback(k)
           w == SetOp(b, p, v)
<1>1. Exists(p)
  BY DEF RegisterAccepted, Awaits
<1>2. Follows(Books, a) /\ Sane(a) /\ a.ops[p] \in Operation /\ a.ops[p].outcome = "registered"
  <2> DEFINE h == [ops[p] EXCEPT !.outcome = "registered", !.task = "none", !.operationTimer = FALSE]
  <2>1. a = SetOp(Books, p, h) /\ h \in Operation /\ h.outcome = "registered"
    BY <1>1, AnsweredIs
  <2>2. a.ops[p] = h
    <3> HIDE DEF h, a
    <3>1. Books \in BookSet
      BY StateSane DEF Sane
    <3> QED BY <2>1, <3>1, SetOpIs
  <2> HIDE DEF h, a
  <2> QED BY <1>1, <2>1, <2>2, AnsweredFollows DEF a
<1>3. \/ Consume(w, p) \/ Becomes(w) \/ Becomes(EnsureCleanup(b, p))
  <2>1. [Answered(p, "registered") EXCEPT !.ops[p].expires = e] = b
    BY DEF SetOp
  <2>2. b.ops[p] = k
    <3> HIDE DEF a
    <3>1. k \in Operation
      BY <1>2 DEF Operation
    <3> HIDE DEF k
    <3> QED BY <1>2, <3>1, SetOpIs DEF Sane
  <2>3. [b EXCEPT !.ops[p] = WaitingCallback(@)] = w
    <3> HIDE DEF k, a
    <3> QED BY <2>2 DEF SetOp
  <2> HIDE DEF b, w, a, k
  <2> QED BY <2>1, <2>3 DEF RegisterAccepted
<1> HIDE DEF a
<1>4. k \in Operation /\ k.outcome = "registered"
  BY <1>2 DEF Operation
<1> HIDE DEF k
<1>5. v \in Operation /\ v.outcome = "registered"
  BY <1>4 DEF WaitingCallback, Operation, Phases
<1> HIDE DEF v
<1>6. Follows(a, b) /\ b.ops[p] = k
  <2>1. a \in BookSet
    BY <1>2 DEF Sane
  <2> QED BY <1>2, <1>4, <2>1, SetFollows, SetOpIs
<1> HIDE DEF b
<1>7. Sane(b) /\ b.ops[p] \in Operation
  BY <1>4, <1>6 DEF Follows
<1>8. Follows(b, w) /\ w.ops[p] = v
  <2>1. b \in BookSet
    BY <1>7 DEF Sane
  <2> QED BY <1>5, <1>7, <2>1, SetFollows, SetOpIs
<1> HIDE DEF w
<1>9. Sane(w) /\ w.ops[p] \in Operation
  BY <1>5, <1>8 DEF Follows
<1>10. Follows(Books, w)
  BY ONLY <1>2, <1>6, <1>8, FollowsTwice
<1>11. CASE Consume(w, p)
  <2>1. Follows(w, Books')
    BY <1>9, <1>11, ConsumeFollows
  <2> QED BY ONLY <1>10, <2>1, FollowsTwice
<1>12. CASE Becomes(w)
  BY <1>10, <1>12, BecomesFollows
<1>13. CASE Becomes(EnsureCleanup(b, p))
  <2>1. Follows(b, EnsureCleanup(b, p))
    BY <1>7, EnsureFollows
  <2>2. Follows(Books, EnsureCleanup(b, p))
    BY ONLY <1>2, <1>6, <2>1, FollowsTwice
  <2> QED BY <1>13, <2>2, BecomesFollows
<1> QED BY <1>3, <1>11, <1>12, <1>13

LEMMA CompletesFollows ==
  ASSUME IInv, NEW p \in Ops, NEW v, NEW e, Completes(p, v, e)
  PROVE  Follows(Books, Books')
<1> DEFINE k == [ops[p] EXCEPT !.active = FALSE, !.expiryTimer = FALSE, !.pollTimer = FALSE,
                               !.task = "none"]
<1>1. Exists(p) /\ ops[p] \in Operation
  BY StateSane DEF Completes, Awaits
<1>2. Becomes(SetOp(Books, p, k))
  BY BooksAre DEF Completes, Becomes, SetOp
<1>3. k \in Operation /\ k.outcome = ops[p].outcome
  BY <1>1 DEF Operation
<1> HIDE DEF k
<1>4. Follows(Books, SetOp(Books, p, k))
  BY <1>1, <1>3, ProgressFollows
<1> QED BY <1>2, <1>4, BecomesFollows

(* Only a refusal makes a definitive failure, and of its own operation.    *)
LEMMA RefusedFollows ==
  ASSUME IInv, NEW p \in Ops, RegisterRefused(p)
  PROVE  /\ Books.sent \subseteq (Books').sent
         /\ \A q \in Ops : Reg(q) \in (Books').outbox =>
              Reg(q) \in Books.outbox \/ (Reg(q) \notin Books.sent /\ Reg(q) \in (Books').sent)
         /\ \A q \in Ops : q # p /\ Definitive(Books', q) => Definitive(Books, q)
<1> DEFINE k == [ops[p] EXCEPT !.outcome = "definitive-failure", !.task = "none",
                               !.operationTimer = FALSE]
           b == SetOp(Books, p, k)
<1>1. Exists(p)
  BY DEF RegisterRefused, Awaits
<1>2. Answered(p, "definitive-failure") = b /\ k \in Operation
  BY <1>1, AnsweredIs
<1>3. Fails(b, p, FALSE)
  BY <1>2 DEF RegisterRefused
<1> HIDE DEF k
<1>4. Sane(Books) /\ Books \in BookSet /\ Books.ops = ops
  BY StateSane DEF Sane
<1>5. /\ b \in BookSet /\ b.ops = [ops EXCEPT ![p] = k] /\ b.ops[p] = k
      /\ b.retired = Books.retired /\ b.outbox = Books.outbox /\ b.sent = Books.sent
  BY <1>2, <1>4, SetOpIs
<1> HIDE DEF b
<1>6. ops \in [Ops -> Operation \cup {NoOperation}]
  BY <1>4 DEF BookSet
<1>7. \A q \in Ops : q # p => b.ops[q] = ops[q]
  BY <1>5, <1>6
<1>8. Sane(b)
  BY <1>2, <1>4, <1>5, <1>7 DEF Sane
<1>9. Follows(b, Books')
  BY <1>2, <1>3, <1>5, <1>8, FailsFollows
<1>10. \A q \in Ops : q # p /\ Definitive(b, q) => Definitive(Books, q)
  BY <1>4, <1>7 DEF Definitive
<1> HIDE DEF Definitive
<1> QED BY <1>5, <1>9, <1>10 DEF Follows

-----------------------------------------------------------------------------
(* The client's invariant in the exchange.                                 *)
(*                                                                         *)
(* The relay takes requests off the wire, and this is all it does to the   *)
(* client.                                                                 *)
LEMMA OutboxShrinks ==
  ASSUME IInv, outbox' \subseteq outbox,
         UNCHANGED <<ops, retired, sent, evicted, startVars, pending, generation, connVars,
                     destroyed, channel, frame, envVars>>
  PROVE  IInv'
<1> USE DEF startVars
<1> DEFINE loose == LooseOf(frame)
           owed == OwedOf(frame)
           top == TopOf(frame, calls)
<1>1. /\ Ledger(Books, started, pending, loose, owed, destroyed, top, generation, PendingPrior)
      /\ Len(retired) <= MaxRetired
  BY StateIs
<1>2. PendingPrior' = PendingPrior
  BY DEF PendingPrior
<1>3. /\ (Books').ops = Books.ops /\ (Books').retired = Books.retired
      /\ (Books').sent = Books.sent /\ (Books').evicted = Books.evicted
      /\ (Books').outbox \subseteq Books.outbox
      /\ Books' = [Books EXCEPT !.outbox = outbox']
  BY DEF Books
<1>4. Books' \in BookSet
  <2>1. Books \in BookSet
    BY <1>1 DEF Ledger
  <2>2. outbox' \in SUBSET Request
    BY <2>1, BooksAre DEF BookSet
  <2> QED BY <1>3, <2>1, <2>2 DEF BookSet
<1>5. Apart(Books', started, pending, loose)
  BY <1>1, <1>3 DEF Ledger, Apart
<1>6. Numbered(Books', started, top)
  BY <1>1, <1>3 DEF Ledger, Numbered
<1>7. ASSUME NEW p \in 1..started PROVE OpFacts(Books', p, pending, loose, owed, destroyed)
  <2>1. OpFacts(Books, p, pending, loose, owed, destroyed)
    BY <1>1 DEF Ledger
  <2>2. Place(Books', p, pending, loose) = Place(Books, p, pending, loose)
    BY <1>3 DEF Place
  <2> QED BY <1>3, <2>1, <2>2 DEF OpFacts
<1>8. pending # 0 => (Books').ops[pending].generation = generation
                     /\ (Books').ops[pending].prior = PendingPrior
  BY <1>1, <1>3 DEF Ledger
<1>9. Ledger(Books', started, pending, loose, owed, destroyed, top, generation, PendingPrior)
  <2> HIDE DEF loose, owed, top
  <2> QED BY <1>4, <1>5, <1>6, <1>7, <1>8 DEF Ledger
<1>10. BookInv'
  BY <1>1, <1>2, <1>3, <1>9, BooksAre DEF BookInv, Tracked
<1>11. FrameInv'
  <2>1. frame.tail = "retire" => (Forgettable(Books', frame.op) <=> Forgettable(Books, frame.op))
    BY <1>3 DEF Forgettable
  <2> QED BY <2>1 DEF IInv, FrameInv
<1>12. EnvInv'
  BY DEF IInv, EnvInv, envVars
<1>13. ConnInv'
  BY <1>2, ConnSame DEF SamePending, envVars
<1> QED BY <1>10, <1>11, <1>12, <1>13 DEF IInv

(* An answer is read: the client's own step, with the answers the relay    *)
(* gives.  429 to a cancel is any status that is not final.                *)
LEMMA ReceivesKeeps ==
  ASSUME IInv, NEW p \in Ops, ClientReceives(p)
  PROVE  IInv'
<1>1. CASE \E e \in Readings : RegisterAccepted(p, e)
  BY <1>1, RegisterAcceptedNext
<1>2. CASE RegisterRefused(p)
  BY <1>2, RegisterFailsNext
<1>3. CASE \E v \in delivered[p], e \in Readings : Completes(p, v, e)
  BY <1>3, CompletesNext
<1>4. CASE RedeemFails(p)
  BY <1>4, ActiveFailsNext
<1>5. CASE \E s \in CancelStatuses \cup {429} : CancelAnswered(p, s)
  BY <1>5, CancelAnsweredNext
<1> QED BY <1>1, <1>2, <1>3, <1>4, <1>5 DEF ClientReceives

LEMMA ClientKept ==
  ASSUME IInv, [ProtocolNext]_protocolVars
  PROVE  IInv'
<1>1. CASE ClientSteps
  BY <1>1, ClientStep DEF ClientSteps, ClientNext
<1>2. CASE UNCHANGED clientVars
  BY <1>2, ClientStuttering
<1>3. ASSUME NEW p \in Ops, NEW type, Takes(type, p) PROVE IInv'
  BY <1>3, OutboxShrinks DEF Takes
<1>4. ASSUME NEW p \in Ops, CallbackPage(p) PROVE IInv'
  BY <1>4, WaitingNext DEF CallbackPage
<1>5. ASSUME NEW p \in Ops, ClientReceives(p) PROVE IInv'
  BY <1>5, ReceivesKeeps
<1>6. CASE UNCHANGED protocolVars
  BY <1>2, <1>6 DEF protocolVars
<1> QED BY <1>1, <1>2, <1>3, <1>4, <1>5, <1>6
        DEF ProtocolNext, RelayRegisters, RelayRedeems, RelayCancels, RelayDrops, WalletCompletes

-----------------------------------------------------------------------------
(* The relay and the network.  Two facts about an operation, once true,    *)
(* stay true: `Closed', because a ticket that was used is never opened     *)
(* again, and `Refused', because a registration leaves the client once.    *)
(* What the client concludes from an answer is one of the two.             *)
Closed(p) == p \in used /\ p \notin open /\ held[p] = {}

Refused(p) == Reg(p) \in sent /\ Reg(p) \notin outbox /\ p \notin used

(* An answer on its way says what is true when it arrives, late or not.    *)
Truthful(a) ==
  /\ a.type = "cancel" /\ a.status \in DoneStatuses => Closed(a.op)
  /\ a.type = "register" /\ a.status # 201 => Refused(a.op)

PInv ==
  /\ ProtocolTypeOK
  /\ \A p \in Ops : held[p] # {} => p \in used
  /\ \A p \in Ops : p \in used => Reg(p) \in sent
  /\ \A p \in Ops : Reg(p) \in outbox => Reg(p) \in sent /\ p \notin used
  /\ \A a \in answers : Truthful(a)
  /\ \A p \in settledAt : Closed(p)
  /\ \A p \in Ops : Definitive(Books, p) => Refused(p)

(* A step of the client's: it sends, reads answers, learns.                *)
LEMMA ClientKeeps ==
  ASSUME PInv, UNCHANGED <<used, open, held, delivered>>,
         Books.sent \subseteq (Books').sent,
         \A q \in Ops : Reg(q) \in (Books').outbox =>
           Reg(q) \in Books.outbox \/ (Reg(q) \notin Books.sent /\ Reg(q) \in (Books').sent),
         answers' \subseteq answers, returned' \subseteq Ops,
         settledAt' \subseteq Ops, \A p \in settledAt' : Closed(p),
         \A p \in Ops : Definitive(Books', p) => Definitive(Books, p) \/ Refused(p)
  PROVE  PInv'
<1>1. sent \subseteq sent'
  BY DEF Books
<1>2. \A q \in Ops : Reg(q) \in outbox' =>
        Reg(q) \in outbox \/ (Reg(q) \notin sent /\ Reg(q) \in sent')
  BY DEF Books
<1>3. ProtocolTypeOK'
  BY DEF PInv, ProtocolTypeOK
<1>4. \A p \in Ops : Closed(p) => Closed(p)'
  BY DEF Closed
<1>5. \A p \in Ops : Refused(p) => Refused(p)'
  BY <1>1, <1>2 DEF Refused
<1>6. ASSUME NEW a \in answers' PROVE Truthful(a)'
  <2>1. a \in Answer /\ Truthful(a)
    BY DEF PInv, ProtocolTypeOK
  <2>2. a.op \in Ops
    BY <2>1 DEF Answer
  <2> QED BY <1>4, <1>5, <2>1, <2>2 DEF Truthful
<1>7. \A p \in Ops : Definitive(Books', p) => Refused(p)'
  BY <1>5 DEF PInv
<1>8. \A p \in Ops : Reg(p) \in outbox' => Reg(p) \in sent' /\ p \notin used'
  BY <1>1, <1>2 DEF PInv
<1>9. \A p \in Ops : p \in used' => Reg(p) \in sent'
  BY <1>1 DEF PInv
<1>10. \A p \in settledAt' : Closed(p)'
  BY <1>4
<1>11. \A p \in Ops : held'[p] # {} => p \in used'
  BY DEF PInv
<1> HIDE DEF Closed, Refused, Definitive, Truthful
<1> QED BY <1>3, <1>6, <1>7, <1>8, <1>9, <1>10, <1>11 DEF PInv

(* A step that Follows sends no registration again and learns no refusal.  *)
LEMMA FollowingKeeps ==
  ASSUME PInv, Follows(Books, Books'), UNCHANGED <<used, open, held, delivered>>,
         answers' \subseteq answers, returned' \subseteq Ops,
         settledAt' \subseteq Ops, \A p \in settledAt' : Closed(p)
  PROVE  PInv'
<1>1. /\ Books.sent \subseteq (Books').sent
      /\ \A q \in Ops : Reg(q) \in (Books').outbox =>
           Reg(q) \in Books.outbox \/ (Reg(q) \notin Books.sent /\ Reg(q) \in (Books').sent)
      /\ \A q \in Ops : Definitive(Books', q) => Definitive(Books, q)
  BY DEF Follows
<1> QED BY <1>1, ClientKeeps

LEMMA ClientStepsKeep ==
  ASSUME IInv, PInv, ClientSteps
  PROVE  PInv'
<1>1. /\ UNCHANGED <<used, open, held, delivered>> /\ answers' = answers
      /\ returned' = returned /\ settledAt' = settledAt
  BY DEF ClientSteps, relayVars
<1>2. Follows(Books, Books')
  <2>1. CASE ClientTick \/ StepBack
    BY <2>1, BooksFollow DEF ClientTick, StepBack
  <2> QED BY <2>1, CallsFollow, ReturnsFollow, TimersFollow, LocalStepsFollow DEF ClientSteps
<1>3. returned \subseteq Ops /\ settledAt \subseteq Ops /\ \A p \in settledAt : Closed(p)
  BY DEF PInv, ProtocolTypeOK
<1> QED BY <1>1, <1>2, <1>3, FollowingKeeps

LEMMA CallbackPageKeeps ==
  ASSUME IInv, PInv, NEW p \in Ops, CallbackPage(p)
  PROVE  PInv'
<1>1. /\ UNCHANGED <<used, open, held, delivered>> /\ answers' = answers
      /\ returned' = returned \ {p} /\ settledAt' = settledAt /\ UNCHANGED bookVars
  BY DEF CallbackPage, CallbackStored, relayVars
<1>2. Follows(Books, Books')
  BY <1>1, BooksFollow
<1>3. returned \subseteq Ops /\ settledAt \subseteq Ops /\ \A q \in settledAt : Closed(q)
  BY DEF PInv, ProtocolTypeOK
<1> QED BY <1>1, <1>2, <1>3, FollowingKeeps

(* What the client concludes when it reads an answer is what the answer    *)
(* said.                                                                   *)
LEMMA ReceivesKeepsBeliefs ==
  ASSUME IInv, PInv, NEW p \in Ops, ClientReceives(p)
  PROVE  PInv'
<1>1. UNCHANGED <<used, open, held, delivered>> /\ returned' = returned
  BY DEF ClientReceives, relayVars
<1>2. returned \subseteq Ops /\ settledAt \subseteq Ops /\ \A q \in settledAt : Closed(q)
  BY DEF PInv, ProtocolTypeOK
<1>3. CASE \E status \in {200, 201, 410, 429}, type \in {"register", "redeem"} :
             /\ Receives(type, p, status) /\ UNCHANGED settledAt
             /\ \/ \E e \in Readings : RegisterAccepted(p, e)
                \/ \E v \in delivered[p], e \in Readings : Completes(p, v, e)
                \/ RedeemFails(p)
  <2>1. answers' \subseteq answers /\ settledAt' = settledAt
    BY <1>3 DEF Receives
  <2>2. Follows(Books, Books')
    <3>1. CASE RedeemFails(p)
      <4>1. LocalSteps
        BY <3>1 DEF LocalSteps
      <4> QED BY <4>1, LocalStepsFollow
    <3> QED BY <1>3, <3>1, RegisterAcceptedFollows, CompletesFollows
  <2> QED BY <1>1, <1>2, <2>1, <2>2, FollowingKeeps
<1>4. CASE Receives("register", p, 429) /\ RegisterRefused(p) /\ UNCHANGED settledAt
  <2>1. answers' \subseteq answers /\ settledAt' = settledAt
    BY <1>4 DEF Receives
  <2>2. Refused(p)
    <3> DEFINE a == [type |-> "register", op |-> p, status |-> 429]
    <3>1. a \in answers /\ a.type = "register" /\ a.op = p /\ a.status # 201
      BY <1>4 DEF Receives
    <3> HIDE DEF a
    <3> QED BY <3>1 DEF PInv, Truthful
  <2>3. /\ Books.sent \subseteq (Books').sent
        /\ \A q \in Ops : Reg(q) \in (Books').outbox =>
             Reg(q) \in Books.outbox \/ (Reg(q) \notin Books.sent /\ Reg(q) \in (Books').sent)
        /\ \A q \in Ops : q # p /\ Definitive(Books', q) => Definitive(Books, q)
    BY <1>4, RefusedFollows
  <2>4. \A q \in Ops : Definitive(Books', q) => Definitive(Books, q) \/ Refused(q)
    <3> HIDE DEF Definitive, Refused
    <3> QED BY <2>2, <2>3
  <2> QED BY <1>1, <1>2, <2>1, <2>3, <2>4, ClientKeeps
<1>5. CASE \E s \in CancelStatuses \cup {429} :
             /\ Receives("cancel", p, s) /\ CancelAnswered(p, s)
             /\ settledAt' = IF s \in DoneStatuses THEN settledAt \cup {p} ELSE settledAt
  <2>1. PICK s \in CancelStatuses \cup {429} :
          /\ Receives("cancel", p, s) /\ CancelAnswered(p, s)
          /\ settledAt' = IF s \in DoneStatuses THEN settledAt \cup {p} ELSE settledAt
    BY <1>5
  <2>2. answers' \subseteq answers
    BY <2>1 DEF Receives
  <2>3. s \in DoneStatuses => Closed(p)
    <3> DEFINE a == [type |-> "cancel", op |-> p, status |-> s]
    <3>1. a \in answers /\ a.type = "cancel" /\ a.op = p /\ a.status = s
      BY <2>1 DEF Receives
    <3> HIDE DEF a
    <3> QED BY <3>1 DEF PInv, Truthful
  <2>4. settledAt' \subseteq Ops /\ \A q \in settledAt' : Closed(q)
    BY <1>2, <2>1, <2>3
  <2>5. Follows(Books, Books')
    BY <2>1, CancelAnsweredFollows
  <2> QED BY <1>1, <1>2, <2>2, <2>4, <2>5, FollowingKeeps
<1> QED
  <2>1. CASE Receives("register", p, 201) /\ (\E e \in Readings : RegisterAccepted(p, e))
             /\ UNCHANGED settledAt
    BY <1>3, <2>1
  <2>2. CASE Receives("redeem", p, 200)
             /\ (\E v \in delivered[p], e \in Readings : Completes(p, v, e)) /\ UNCHANGED settledAt
    BY <1>3, <2>2
  <2>3. CASE (\E s \in {410, 429} : Receives("redeem", p, s)) /\ RedeemFails(p)
             /\ UNCHANGED settledAt
    BY <1>3, <2>3
  <2> QED BY <1>4, <1>5, <2>1, <2>2, <2>3 DEF ClientReceives

(* A step of the relay's, about ticket p: it opens the ticket only with    *)
(* its registration, fills only what was open and answers with the truth.  *)
LEMMA RelayKeeps ==
  ASSUME PInv, ProtocolTypeOK', NEW p \in Ops, UNCHANGED <<ops, sent, settledAt>>,
         outbox' \subseteq outbox, used \subseteq used',
         \A q \in Ops : q \in used' =>
           q \in used \/ (q = p /\ Reg(p) \in outbox /\ Reg(p) \notin outbox'),
         \A q \in used : q \in open' => q \in open,
         \A q \in Ops : held'[q] # {} => held[q] # {} \/ q \in open,
         \A a \in answers' : a \in answers \/ Truthful(a)'
  PROVE  PInv'
<1>1. \A q \in Ops : held[q] # {} \/ q \in open => q \in used
  BY DEF PInv, ProtocolTypeOK
<1>2. \A q \in Ops : Closed(q) => Closed(q)'
  BY DEF Closed
<1>3. \A q \in Ops : Refused(q) => Refused(q)'
  BY DEF Refused
<1>4. ASSUME NEW a \in answers' PROVE Truthful(a)'
  <2>1. CASE a \in answers
    <3>1. a \in Answer /\ Truthful(a)
      BY <2>1 DEF PInv, ProtocolTypeOK
    <3>2. a.op \in Ops
      BY <3>1 DEF Answer
    <3> HIDE DEF Closed, Refused
    <3> QED BY <1>2, <1>3, <3>1, <3>2 DEF Truthful
  <2> QED BY <2>1
<1>5. \A q \in Ops : Definitive(Books, q)' => Refused(q)'
  <2>1. \A q \in Ops : Definitive(Books, q)' <=> Definitive(Books, q)
    BY DEF Definitive, Books
  <2> QED BY <1>3, <2>1 DEF PInv
<1>6. \A q \in Ops : held'[q] # {} => q \in used'
  BY <1>1
<1>7. \A q \in Ops : q \in used' => Reg(q) \in sent'
  BY DEF PInv
<1>8. \A q \in Ops : Reg(q) \in outbox' => Reg(q) \in sent' /\ q \notin used'
  BY DEF PInv
<1>9. \A q \in settledAt' : Closed(q)'
  BY <1>2 DEF PInv, ProtocolTypeOK
<1> HIDE DEF Closed, Refused, Definitive, Truthful
<1> QED BY <1>4, <1>5, <1>6, <1>7, <1>8, <1>9 DEF PInv

(* What the exchange's own operations do, ticket by ticket.                *)
LEMMA DropsIs ==
  ASSUME ProtocolTypeOK, NEW p \in Ops, Relay!Drop({p})
  PROVE  /\ used' = used /\ delivered' = delivered /\ open' = open \ {p}
         /\ held' \in [Ops -> SUBSET Events] /\ held'[p] = {}
         /\ \A q \in Ops : held'[q] # {} => held[q] # {}
BY DEF ProtocolTypeOK, Relay!Drop, Relay!Kept

LEMMA OpensIs ==
  ASSUME ProtocolTypeOK, NEW p \in Ops, Relay!OpenTicket(p, {})
  PROVE  /\ p \notin used /\ used' = used \cup {p} /\ delivered' = delivered
         /\ open' = open \cup {p}
         /\ held' \in [Ops -> SUBSET Events] /\ \A q \in Ops : held'[q] = held[q]
BY DEF ProtocolTypeOK, Relay!OpenTicket, Relay!Kept

LEMMA FillsIs ==
  ASSUME ProtocolTypeOK, NEW p \in Ops, NEW v \in Events, Relay!FillTicket(p, v, {})
  PROVE  /\ p \in open /\ used' = used /\ delivered' = delivered /\ open' = open \ {p}
         /\ held' \in [Ops -> SUBSET Events]
         /\ \A q \in Ops : q # p => held'[q] = held[q]
BY DEF ProtocolTypeOK, Relay!FillTicket, Relay!Kept

LEMMA TakesIs ==
  ASSUME ProtocolTypeOK, NEW p \in Ops, Relay!TakeTicket(p, {})
  PROVE  /\ used' = used /\ open' = open
         /\ held' \in [Ops -> SUBSET Events] /\ delivered' \in [Ops -> SUBSET Events]
         /\ \A q \in Ops : held'[q] # {} => held[q] # {}
BY DEF ProtocolTypeOK, Relay!TakeTicket, Relay!Kept

(* The answer the relay puts on the wire.                                  *)
LEMMA RepliesIs ==
  ASSUME ProtocolTypeOK, NEW p \in Ops, NEW type \in {"register", "redeem", "cancel"},
         NEW status \in Nat, Replies(type, p, status),
         type = "cancel" /\ status \in DoneStatuses => Closed(p)',
         type = "register" /\ status # 201 => Refused(p)'
  PROVE  answers' \subseteq Answer /\ \A a \in answers' : a \in answers \/ Truthful(a)'
<1> DEFINE r == [type |-> type, op |-> p, status |-> status]
<1>1. r \in Answer /\ r.type = type /\ r.op = p /\ r.status = status
  BY DEF Answer
<1>2. answers' = answers \cup {r} /\ answers \subseteq Answer
  BY DEF Replies, ProtocolTypeOK
<1> HIDE DEF r
<1>3. Truthful(r)'
  BY <1>1 DEF Truthful
<1> QED BY <1>1, <1>2, <1>3

LEMMA RegistersKeeps ==
  ASSUME PInv, NEW p \in Ops, RelayRegisters(p)
  PROVE  PInv'
<1>1. /\ Reg(p) \in outbox /\ outbox' = outbox \ {Reg(p)}
      /\ UNCHANGED <<ops, sent, settledAt, returned>>
  BY DEF RelayRegisters, Takes, Reg
<1>2. ProtocolTypeOK /\ Reg(p) \in sent
  BY <1>1 DEF PInv
<1>3. CASE Relay!OpenTicket(p, {}) /\ Replies("register", p, 201)
  <2>1. /\ used' = used \cup {p} /\ delivered' = delivered /\ open' = open \cup {p} /\ p \notin used
        /\ held' \in [Ops -> SUBSET Events] /\ \A q \in Ops : held'[q] = held[q]
    BY <1>2, <1>3, OpensIs
  <2>2. answers' \subseteq Answer /\ \A a \in answers' : a \in answers \/ Truthful(a)'
    BY <1>2, <1>3, RepliesIs
  <2>3. ProtocolTypeOK'
    BY <1>1, <1>2, <2>1, <2>2 DEF ProtocolTypeOK
  <2> QED BY <1>1, <2>1, <2>2, <2>3, RelayKeeps
<1>4. CASE UNCHANGED relayVars /\ Replies("register", p, 429)
  <2>1. UNCHANGED <<used, open, held, delivered>>
    BY <1>4 DEF relayVars
  <2>2. Refused(p)'
    BY <1>1, <1>2, <2>1 DEF Refused, PInv
  <2>3. answers' \subseteq Answer /\ \A a \in answers' : a \in answers \/ Truthful(a)'
    <3> HIDE DEF Refused
    <3> QED BY <1>2, <1>4, <2>2, RepliesIs
  <2>4. ProtocolTypeOK'
    BY <1>1, <1>2, <2>1, <2>3 DEF ProtocolTypeOK
  <2> QED BY <1>1, <2>1, <2>3, <2>4, RelayKeeps
<1> QED BY <1>3, <1>4 DEF RelayRegisters

LEMMA RedeemsKeeps ==
  ASSUME PInv, NEW p \in Ops, RelayRedeems(p)
  PROVE  PInv'
<1>1. outbox' \subseteq outbox /\ UNCHANGED <<ops, sent, settledAt, returned>>
  BY DEF RelayRedeems, Takes
<1>2. ProtocolTypeOK
  BY DEF PInv
<1>3. /\ used' = used /\ open' = open
      /\ held' \in [Ops -> SUBSET Events] /\ delivered' \in [Ops -> SUBSET Events]
      /\ \A q \in Ops : held'[q] # {} => held[q] # {}
  <2>1. CASE Relay!TakeTicket(p, {})
    BY <1>2, <2>1, TakesIs
  <2>2. CASE UNCHANGED relayVars
    BY <1>2, <2>2 DEF relayVars, ProtocolTypeOK
  <2> QED BY <2>1, <2>2 DEF RelayRedeems
<1>4. PICK status \in {200, 410, 429} : Replies("redeem", p, status)
  BY DEF RelayRedeems
<1>5. answers' \subseteq Answer /\ \A a \in answers' : a \in answers \/ Truthful(a)'
  BY <1>2, <1>4, RepliesIs
<1>6. ProtocolTypeOK'
  BY <1>1, <1>2, <1>3, <1>5 DEF ProtocolTypeOK
<1> QED BY <1>1, <1>3, <1>5, <1>6, RelayKeeps

(* 204 says that the ticket was just dropped, 409 and 410 that it had been *)
(* used and is gone; 404 says nothing that lasts.                          *)
LEMMA CancelsKeeps ==
  ASSUME PInv, NEW p \in Ops, RelayCancels(p)
  PROVE  PInv'
<1>1. outbox' \subseteq outbox /\ UNCHANGED <<ops, sent, settledAt, returned>>
  BY DEF RelayCancels, Takes
<1>2. ProtocolTypeOK
  BY DEF PInv
<1>3. CASE (p \in open \/ held[p] # {}) /\ Relay!Drop({p}) /\ Replies("cancel", p, 204)
  <2>1. /\ used' = used /\ delivered' = delivered /\ open' = open \ {p}
        /\ held' \in [Ops -> SUBSET Events] /\ held'[p] = {}
        /\ \A q \in Ops : held'[q] # {} => held[q] # {}
    BY <1>2, <1>3, DropsIs
  <2>2. p \in used
    BY <1>3 DEF PInv, ProtocolTypeOK
  <2>3. Closed(p)'
    BY <2>1, <2>2 DEF Closed
  <2>4. answers' \subseteq Answer /\ \A a \in answers' : a \in answers \/ Truthful(a)'
    <3> HIDE DEF Closed
    <3> QED BY <1>2, <1>3, <2>3, RepliesIs
  <2>5. ProtocolTypeOK'
    BY <1>1, <1>2, <2>1, <2>4 DEF ProtocolTypeOK
  <2> QED BY <1>1, <2>1, <2>4, <2>5, RelayKeeps
<1>4. CASE /\ UNCHANGED relayVars
           /\ \E s \in {404, 409, 410, 429} :
                Replies("cancel", p, s) /\ (s \in {404, 429} \/ Closed(p))
  <2>1. UNCHANGED <<used, open, held, delivered>>
    BY <1>4 DEF relayVars
  <2>2. PICK s \in {404, 409, 410, 429} :
          Replies("cancel", p, s) /\ (s \in {404, 429} \/ Closed(p))
    BY <1>4
  <2>3. s \in DoneStatuses => Closed(p)'
    <3>1. s \in DoneStatuses => s \notin {404, 429}
      BY DEF DoneStatuses
    <3> QED BY <2>1, <2>2, <3>1 DEF Closed
  <2>4. answers' \subseteq Answer /\ \A a \in answers' : a \in answers \/ Truthful(a)'
    <3> HIDE DEF Closed
    <3> QED BY <1>2, <2>2, <2>3, RepliesIs
  <2>5. ProtocolTypeOK'
    BY <1>1, <1>2, <2>1, <2>4 DEF ProtocolTypeOK
  <2> QED BY <1>1, <2>1, <2>4, <2>5, RelayKeeps
<1> QED BY <1>3, <1>4 DEF RelayCancels, Closed

LEMMA DropsKeep ==
  ASSUME PInv, NEW p \in Ops, RelayDrops(p)
  PROVE  PInv'
<1>1. ProtocolTypeOK /\ Relay!Drop({p})
  BY DEF PInv, RelayDrops
<1>2. /\ used' = used /\ delivered' = delivered /\ open' = open \ {p}
      /\ held' \in [Ops -> SUBSET Events]
      /\ \A q \in Ops : held'[q] # {} => held[q] # {}
  BY <1>1, DropsIs
<1>3. UNCHANGED <<ops, sent, outbox, settledAt, returned, answers>>
  BY DEF RelayDrops, clientVars, bookVars
<1>4. ProtocolTypeOK'
  BY <1>1, <1>2, <1>3 DEF ProtocolTypeOK
<1> QED BY <1>2, <1>3, <1>4, RelayKeeps

LEMMA WalletKeeps ==
  ASSUME PInv, NEW p \in Ops, WalletCompletes(p)
  PROVE  PInv'
<1>1. PICK v \in Events : Relay!FillTicket(p, v, {})
  BY DEF WalletCompletes
<1>2. ProtocolTypeOK
  BY DEF PInv
<1>3. /\ p \in open /\ used' = used /\ delivered' = delivered /\ open' = open \ {p}
      /\ held' \in [Ops -> SUBSET Events]
      /\ \A q \in Ops : q # p => held'[q] = held[q]
  BY <1>1, <1>2, FillsIs
<1>4. /\ UNCHANGED <<ops, sent, outbox, settledAt, answers>>
      /\ returned' = returned \cup {p}
  BY DEF WalletCompletes, clientVars, bookVars
<1>5. ProtocolTypeOK'
  BY <1>2, <1>3, <1>4 DEF ProtocolTypeOK
<1> QED BY <1>3, <1>4, <1>5, RelayKeeps

-----------------------------------------------------------------------------
(* The theorem.                                                            *)
LEMMA ProtocolInitially ==
  ASSUME ProtocolInit
  PROVE  IInv /\ PInv
<1>1. IInv
  BY ClientInitially DEF ProtocolInit
<1>2. /\ used = {} /\ open = {} /\ held = [p \in Ops |-> {}] /\ delivered = [p \in Ops |-> {}]
      /\ answers = {} /\ returned = {} /\ settledAt = {} /\ outbox = {}
      /\ ops = [p \in Ops |-> NoOperation]
  BY DEF ProtocolInit, Relay!ExchangeInit, ClientInit
<1>3. \A p \in Ops : ~Definitive(Books, p)
  BY <1>2, BooksAre DEF Definitive
<1>4. ProtocolTypeOK
  BY <1>2 DEF ProtocolTypeOK
<1> HIDE DEF Definitive
<1> QED BY <1>1, <1>2, <1>3, <1>4 DEF PInv

LEMMA ProtocolStep ==
  ASSUME IInv, PInv, [ProtocolNext]_protocolVars
  PROVE  IInv' /\ PInv'
<1>1. CASE ClientSteps
  BY <1>1, ClientStepsKeep, ClientKept
<1>2. ASSUME NEW p \in Ops,
             \/ RelayRegisters(p) \/ RelayRedeems(p) \/ RelayCancels(p)
             \/ RelayDrops(p) \/ WalletCompletes(p)
      PROVE  PInv'
  BY <1>2, RegistersKeeps, RedeemsKeeps, CancelsKeeps, DropsKeep, WalletKeeps
<1>3. ASSUME NEW p \in Ops, CallbackPage(p) \/ ClientReceives(p) PROVE PInv'
  BY <1>3, CallbackPageKeeps, ReceivesKeepsBeliefs
<1>4. CASE UNCHANGED protocolVars
  <2>1. UNCHANGED <<used, open, held, delivered, answers, returned, settledAt, bookVars>>
    BY <1>4 DEF protocolVars, relayVars, clientVars
  <2>2. Follows(Books, Books')
    BY <2>1, BooksFollow
  <2>3. /\ answers' \subseteq answers /\ returned' \subseteq Ops
        /\ settledAt' \subseteq Ops /\ \A p \in settledAt' : Closed(p)
    BY <2>1 DEF PInv, ProtocolTypeOK
  <2>4. PInv'
    BY <2>1, <2>2, <2>3, FollowingKeeps
  <2> QED BY <2>4, ClientKept
<1>5. IInv'
  BY ClientKept
<1> QED BY <1>1, <1>2, <1>3, <1>4, <1>5 DEF ProtocolNext

(* What the client believes of the relay stays true, over a network that   *)
(* delays, drops and reorders: once a cancel was answered with a final     *)
(* status the relay holds nothing for the operation for ever, whatever     *)
(* registration or wallet page is still under way, and an operation        *)
(* recorded as refused was never opened and cannot be (#cancelOnce,        *)
(* #register).                                                             *)
THEOREM BeliefsSafe == ProtocolSpec => []BeliefsAreTrue
<1>1. ProtocolInit => IInv /\ PInv
  BY ProtocolInitially
<1>2. (IInv /\ PInv) /\ [ProtocolNext]_protocolVars => (IInv /\ PInv)'
  BY ProtocolStep
<1>3. PInv => BeliefsAreTrue
  <2> SUFFICES ASSUME PInv PROVE BeliefsAreTrue
    OBVIOUS
  <2>1. ProtocolTypeOK
    BY DEF PInv
  <2>2. SettledCancelIsFinal
    BY DEF PInv, SettledCancelIsFinal, Closed
  <2>3. DefinitiveIsDefinitive
    BY BooksAre DEF PInv, DefinitiveIsDefinitive, Definitive, Refused, Exists, Reg
  <2> QED BY <2>1, <2>2, <2>3 DEF BeliefsAreTrue
<1> QED BY <1>1, <1>2, <1>3, PTL DEF ProtocolSpec
=============================================================================
