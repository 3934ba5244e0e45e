----------------------------- MODULE RelayProofs -----------------------------
(***************************************************************************)
(* Proofs about the relay.  RelayStore for every value of its constants:   *)
(* the inductive invariant IInv, the safety properties it implies and the  *)
(* refinement of OneShotExchange.  RelayServer, for any number of requests *)
(* that wait for their bodies.  The rate limiter, for every number of      *)
(* keys, buckets and clock readings.                                       *)
(***************************************************************************)
EXTENDS RelayServer, RelayStoreRefinement, RateLimiter, FiniteSetTheorems, TLAPS

(***************************************************************************)
(* The store.                                                              *)
(***************************************************************************)

(* The table part of the invariant, for any table. *)
TableOK(tbl) ==
  /\ tbl \in [TransactionIds -> Row \cup {NoRow}]
  /\ \A t \in TransactionIds : RowOK(t, tbl[t])

-----------------------------------------------------------------------------
LEMMA TimesAreNat == Times \subseteq Nat
BY RelayStoreAssumption

(* A row is NoRow exactly when its status says absent. *)
LEMMA AbsentIsNoRow ==
  ASSUME NEW r \in Row \cup {NoRow}
  PROVE  /\ r.status = "absent" <=> r = NoRow
         /\ r # NoRow => r \in Row
BY DEF Row, NoRow, Live, Terminal

(* Scrubbing a row leaves a well-typed spent row, whatever it held. *)
LEMMA ScrubOK ==
  ASSUME NEW t \in TransactionIds, NEW r \in Row, NEW s \in Terminal
  PROVE  /\ Scrub(r, s) \in Row
         /\ RowOK(t, Scrub(r, s))
         /\ Scrub(r, s).status = s
         /\ Scrub(r, s) # NoRow
BY DEF Scrub, Row, RowOK, ColumnsOK, Live, Terminal, NoRow

(* The sweep of expired rows keeps the table part of the invariant and     *)
(* neither adds nor removes a row.                                         *)
LEMMA ExpireAllOK ==
  ASSUME NEW tbl, TableOK(tbl), NEW clk \in Nat
  PROVE  /\ TableOK(ExpireAll(tbl, clk))
         /\ Present(ExpireAll(tbl, clk)) = Present(tbl)
         /\ \A t \in TransactionIds :
              LET r == ExpireAll(tbl, clk)[t] IN
              /\ r.status \in Live => r = tbl[t] /\ clk < r.expiresAt
              /\ tbl[t].status \in Terminal \cup {"absent"} => r = tbl[t]
<1> DEFINE L == ExpireAll(tbl, clk)
<1>1. ASSUME NEW t \in TransactionIds
      PROVE  /\ L[t] \in Row \cup {NoRow}
             /\ RowOK(t, L[t])
             /\ L[t].status = "absent" <=> tbl[t].status = "absent"
             /\ L[t].status \in Live => L[t] = tbl[t] /\ clk < L[t].expiresAt
             /\ tbl[t].status \in Terminal \cup {"absent"} => L[t] = tbl[t]
  <2>1. tbl[t] \in Row \cup {NoRow} /\ RowOK(t, tbl[t])
    BY DEF TableOK
  <2>2. CASE tbl[t].status \in Live /\ tbl[t].expiresAt <= clk
    <3>1. L[t] = Scrub(tbl[t], "expired")
      BY <2>2 DEF ExpireAll
    <3>2. tbl[t] \in Row
      BY <2>1, <2>2 DEF NoRow, Live
    <3>3. L[t] \in Row /\ RowOK(t, L[t]) /\ L[t].status = "expired"
      BY <3>1, <3>2, ScrubOK DEF Terminal
    <3> QED
      BY <2>2, <3>3 DEF Live, Terminal
  <2>3. CASE ~(tbl[t].status \in Live /\ tbl[t].expiresAt <= clk)
    <3>1. L[t] = tbl[t]
      BY <2>3 DEF ExpireAll
    <3>2. tbl[t].status \in Live => tbl[t].expiresAt \in Nat
      BY <2>1 DEF Row, NoRow, Live
    <3> QED
      BY <2>1, <2>3, <3>1, <3>2, RelayStoreAssumption
  <2> QED
    BY <2>2, <2>3
<1>2. L = [t \in TransactionIds |-> L[t]]
  BY DEF ExpireAll
<1> QED
  BY <1>1, <1>2 DEF TableOK, Present

(* Pruning spent rows keeps the table part of the invariant, touches no    *)
(* live row, and only removes rows.                                        *)
LEMMA MakeRoomOK ==
  ASSUME NEW tbl, TableOK(tbl), NEW clk \in Times
  PROVE  /\ TableOK(MakeRoom(tbl, clk))
         /\ Present(MakeRoom(tbl, clk)) \subseteq Present(tbl)
         /\ \A t \in TransactionIds :
              LET r == MakeRoom(tbl, clk)[t] IN
              /\ r = tbl[t] \/ r = NoRow
              /\ tbl[t].status \in Live => r = tbl[t]
<1> DEFINE P == PruneSpent(tbl, clk)
<1>1. ASSUME NEW t \in TransactionIds
      PROVE  /\ P[t] = tbl[t] \/ P[t] = NoRow
             /\ tbl[t].status \in Live => P[t] = tbl[t]
             /\ P[t] \in Row \cup {NoRow}
             /\ RowOK(t, P[t])
             /\ P[t].status # "absent" => tbl[t].status # "absent"
  <2>1. tbl[t] \in Row \cup {NoRow} /\ RowOK(t, tbl[t])
    BY DEF TableOK
  <2>2. P[t] = IF tbl[t].status \in Terminal /\ tbl[t].expiresAt <= clk
                 THEN NoRow ELSE tbl[t]
    BY DEF PruneSpent
  <2>3. RowOK(t, NoRow) /\ NoRow.status = "absent"
    BY DEF RowOK, NoRow
  <2> QED
    BY <2>1, <2>2, <2>3 DEF Live, Terminal
<1>2. P = [t \in TransactionIds |-> P[t]]
  BY DEF PruneSpent
<1>3. TableOK(P) /\ Present(P) \subseteq Present(tbl)
  BY <1>1, <1>2 DEF TableOK, Present
<1>4. CASE Cardinality(Present(tbl)) >= MaximumRows
  BY <1>1, <1>3, <1>4 DEF MakeRoom
<1>5. CASE ~(Cardinality(Present(tbl)) >= MaximumRows)
  BY <1>5 DEF MakeRoom
<1> QED
  BY <1>4, <1>5

(* The rows present are a finite set, so they can be counted. *)
LEMMA PresentFinite ==
  ASSUME NEW tbl
  PROVE  /\ IsFiniteSet(Present(tbl))
         /\ Cardinality(Present(tbl)) \in Nat
BY RelayStoreAssumption, FS_Subset, FS_CardinalityType DEF Present

(* When only the table changes, the invariant is a matter of the table.    *)
LEMMA HistoryKept ==
  ASSUME IInv, TableOK(rows'), UNCHANGED <<serial, histVars>>,
         Cardinality(Present(rows')) <= MaximumRows
  PROVE  IInv'
<1>1. TypeOK'
  BY DEF IInv, TypeOK, TableOK, histVars
<1>2. \A t \in TransactionIds : RowOK(t, rows[t])'
  BY DEF TableOK, RowOK, histVars
<1>3. HistoryOK'
  BY DEF IInv, HistoryOK, histVars
<1>4. OneResultPerRegistration' /\ SingleRelease' /\ ReleaseFollowsRegistration'
  BY DEF IInv, OneResultPerRegistration, SingleRelease,
         ReleaseFollowsRegistration, histVars
<1>5. WithinCapacity'
  BY DEF WithinCapacity, Present
<1> QED
  BY <1>1, <1>2, <1>3, <1>4, <1>5 DEF IInv

(* After the sweep that every operation begins with, the table part still  *)
(* holds and no row was added.                                             *)
LEMMA SweptOK ==
  ASSUME IInv, NEW clk \in Nat
  PROVE  /\ TableOK(ExpireAll(rows, clk))
         /\ Cardinality(Present(ExpireAll(rows, clk))) <= MaximumRows
<1>1. TableOK(rows)
  BY DEF IInv, TypeOK, TableOK
<1> QED
  BY <1>1, ExpireAllOK DEF IInv, WithinCapacity

(* Replacing a live row by its scrubbed form keeps the table part.         *)
LEMMA ScrubRowOK ==
  ASSUME NEW tbl, TableOK(tbl), NEW id \in TransactionIds,
         NEW s \in Terminal, tbl[id].status \in Live
  PROVE  LET new == [tbl EXCEPT ![id] = Scrub(tbl[id], s)] IN
         /\ TableOK(new)
         /\ Present(new) = Present(tbl)
<1> DEFINE new == [tbl EXCEPT ![id] = Scrub(tbl[id], s)]
<1>1. tbl[id] \in Row
  BY DEF TableOK, NoRow, Live
<1>2. /\ Scrub(tbl[id], s) \in Row
      /\ RowOK(id, Scrub(tbl[id], s))
      /\ Scrub(tbl[id], s).status \in Terminal
  BY <1>1, ScrubOK
<1>3. TableOK(new)
  BY <1>2 DEF TableOK
<1>4. \A t \in TransactionIds : new[t].status = "absent" <=> tbl[t].status = "absent"
  BY <1>2 DEF TableOK, Live, Terminal
<1> QED
  BY <1>3, <1>4 DEF Present

LEMMA InitOK == ASSUME Init PROVE IInv
<1>1. TypeOK
  BY RelayStoreAssumption DEF Init, TypeOK, NeverReleased
<1>2. \A t \in TransactionIds : RowOK(t, rows[t])
  BY DEF Init, RowOK
<1>3. HistoryOK /\ OneResultPerRegistration /\ SingleRelease
      /\ ReleaseFollowsRegistration
  BY DEF Init, HistoryOK, OneResultPerRegistration, SingleRelease,
         ReleaseFollowsRegistration, NeverReleased
<1>4. Present(rows) = {}
  BY DEF Init, Present, NoRow
<1>5. WithinCapacity
  BY <1>4, FS_EmptySet, RelayStoreAssumption DEF WithinCapacity
<1> QED
  BY <1>1, <1>2, <1>3, <1>5 DEF IInv

LEMMA RestartOK == ASSUME IInv, Restart PROVE IInv'
<1>1. TableOK(rows')
  BY DEF Restart, TableOK, RowOK
<1>2. Present(rows') = {}
  BY DEF Restart, Present, NoRow
<1>3. Cardinality(Present(rows')) <= MaximumRows
  BY <1>2, FS_EmptySet, RelayStoreAssumption
<1> QED
  BY <1>1, <1>3, HistoryKept DEF Restart

LEMMA SweepOK ==
  ASSUME IInv, NEW clk \in Nat,
         rows' = ExpireAll(rows, clk), UNCHANGED <<serial, histVars>>
  PROVE  IInv'
BY SweptOK, HistoryKept

LEMMA CancelOK ==
  ASSUME IInv, NEW id \in TransactionIds, NEW body \in TransactionIds,
         NEW o \in Origins, NEW s \in StateValues, NEW h \in Challenges,
         NEW clk \in Times, Cancel(id, body, o, s, h, clk)
  PROVE  IInv'
<1> DEFINE live == ExpireAll(rows, clk)
<1>1. TableOK(live) /\ Cardinality(Present(live)) <= MaximumRows
  BY SweptOK, TimesAreNat
<1>2. CASE CancelKind(live, id, body, o, s, h) = "ok"
  <2>1. live[id].status \in Live
    <3>1. live[id] \in Row \cup {NoRow}
      BY <1>1 DEF TableOK
    <3> QED
      BY <1>2, <3>1, AbsentIsNoRow DEF CancelKind, Row, Live, Terminal
  <2>2. rows' = [live EXCEPT ![id] = Scrub(live[id], "cancelled")]
    BY <1>2 DEF Cancel
  <2>3. TableOK(rows') /\ Present(rows') = Present(live)
    BY <1>1, <2>1, <2>2, ScrubRowOK DEF Terminal
  <2> QED
    BY <1>1, <2>3, HistoryKept DEF Cancel
<1>3. CASE CancelKind(live, id, body, o, s, h) # "ok"
  BY <1>3, SweepOK, TimesAreNat DEF Cancel
<1> QED
  BY <1>2, <1>3

(* A live row's token was registered, so it is not the next value drawn.   *)
LEMMA LiveTokenDrawn ==
  ASSUME IInv, NEW tbl, TableOK(tbl), NEW t \in TransactionIds,
         tbl[t].status \in Live
  PROVE  /\ tbl[t] \in Row
         /\ tbl[t].token \in Serials
         /\ registered[tbl[t].token] # Null
         /\ tbl[t].token # serial + 1
<1>1. tbl[t] \in Row /\ tbl[t] # NoRow /\ RowOK(t, tbl[t])
  BY DEF TableOK, NoRow, Live
<1>2. tbl[t].token \in Serials
  BY <1>1 DEF Row, RowOK, ColumnsOK
<1>3. registered[tbl[t].token] =
        [id |-> t, origin |-> tbl[t].binding.origin, state |-> tbl[t].state,
         challenge |-> tbl[t].challenge, deadline |-> tbl[t].expiresAt]
  BY <1>1 DEF RowOK
<1>4. registered[tbl[t].token] \in Registration
  <2>1. /\ tbl[t].binding \in Bindings /\ tbl[t].state \in StateValues
        /\ tbl[t].challenge \in Challenges /\ tbl[t].expiresAt \in Nat
    BY <1>1 DEF Row
  <2> QED
    BY <1>3, <2>1 DEF Registration, Origins
<1>5. registered[tbl[t].token] # Null
  BY <1>4, NullAssumption
<1>6. tbl[t].token # serial + 1
  BY <1>2, <1>5 DEF IInv, HistoryOK, TypeOK, Serials
<1> QED
  BY <1>1, <1>2, <1>5, <1>6

LEMMA CreateOK ==
  ASSUME IInv, NEW id \in TransactionIds, NEW b \in Bindings,
         NEW s \in StateValues, NEW h \in Challenges, NEW q \in Requests,
         NEW clk \in Times, Create(id, b, s, h, q, clk)
  PROVE  IInv'
<1> DEFINE live == ExpireAll(rows, clk)
           room == MakeRoom(live, clk)
           new == [binding |-> b, state |-> s, challenge |-> h, request |-> q,
                   token |-> serial + 1, result |-> Null, code |-> Null,
                   status |-> "pending", expiresAt |-> clk + b.lifetime]
           reg == [id |-> id, origin |-> b.origin, state |-> s, challenge |-> h,
                   deadline |-> clk + b.lifetime]
           kind == CreateKind(live, id, clk)
<1>0. /\ serial \in Nat /\ MaxSerial \in Nat /\ serial < MaxSerial
      /\ serial' = serial + 1 /\ serial + 1 \in Serials
      /\ clk \in Nat /\ clk + b.lifetime \in Nat
  <2>1. /\ serial \in 0..MaxSerial /\ MaxSerial \in Nat
        /\ serial < MaxSerial /\ serial' = serial + 1
    BY RelayStoreAssumption DEF IInv, TypeOK, Create
  <2>2. clk \in Nat /\ b.lifetime \in Nat
    BY RelayStoreAssumption
  <2> QED
    BY <2>1, <2>2 DEF Serials
<1>1. TableOK(live) /\ Cardinality(Present(live)) <= MaximumRows
  BY SweptOK, TimesAreNat
<1>2. /\ TableOK(room) /\ Present(room) \subseteq Present(live)
      /\ \A t \in TransactionIds : room[t] = live[t] \/ room[t] = NoRow
  BY <1>1, MakeRoomOK
<1>3. Cardinality(Present(room)) <= MaximumRows
  BY <1>1, <1>2, FS_Subset, PresentFinite, RelayStoreAssumption
<1>4. UNCHANGED <<minted, released>>
  BY DEF Create
<1>5. \A k \in Serials : k > serial =>
        registered[k] = Null /\ minted[k] = Null /\ released[k] = NeverReleased
  BY DEF IInv, HistoryOK
<1>6. \A c \in Serials : minted[c] # Null =>
        minted[c].token \in Serials /\ minted[c].token # serial + 1
  BY <1>0, <1>5 DEF IInv, HistoryOK, TypeOK, Minting
<1>7. CASE kind # "ok"
  <2>1. UNCHANGED histVars
    <3>1. registered' = [registered EXCEPT ![serial + 1] = @]
      BY <1>7 DEF Create
    <3> QED
      BY <1>4, <3>1 DEF histVars, IInv, TypeOK
  <2>2. TableOK(rows') /\ Cardinality(Present(rows')) <= MaximumRows
    <3>1. rows' = live \/ rows' = room
      BY <1>7 DEF Create, CreateKind
    <3> QED
      BY <1>1, <1>2, <1>3, <3>1
  <2>3. TypeOK'
    BY <1>0, <2>1, <2>2 DEF IInv, TypeOK, TableOK, histVars, Serials
  <2>4. \A t \in TransactionIds : RowOK(t, rows[t])'
    BY <2>1, <2>2 DEF TableOK, RowOK, histVars
  <2>5. HistoryOK'
    BY <1>0, <2>1 DEF IInv, HistoryOK, histVars, Serials
  <2>6. OneResultPerRegistration' /\ SingleRelease' /\ ReleaseFollowsRegistration'
    BY <2>1 DEF IInv, OneResultPerRegistration, SingleRelease,
                ReleaseFollowsRegistration, histVars
  <2>7. WithinCapacity'
    BY <2>2 DEF WithinCapacity, Present
  <2> QED
    BY <2>3, <2>4, <2>5, <2>6, <2>7 DEF IInv
<1>8. CASE kind = "ok"
  <2>1. /\ live[id] = NoRow
        /\ Cardinality(Present(room)) < MaximumRows
    <3>1. Cardinality(Present(room)) \in Nat /\ MaximumRows \in Nat
      BY PresentFinite, RelayStoreAssumption
    <3>2. live[id] = NoRow /\ ~(Cardinality(Present(room)) >= MaximumRows)
      BY <1>8 DEF CreateKind
    <3> QED
      BY <3>1, <3>2
  <2>2. room[id] = NoRow
    BY <1>2, <2>1
  <2>3. rows' = [room EXCEPT ![id] = new] /\ registered' = [registered EXCEPT ![serial + 1] = reg]
    BY <1>8 DEF Create
  <2>4. new \in Row /\ reg \in Registration
    BY <1>0 DEF Row, Registration, Origins, Live
  <2>5. TypeOK'
    BY <1>0, <1>2, <1>4, <2>3, <2>4 DEF IInv, TypeOK, TableOK, Serials
  <2>6. ASSUME NEW t \in TransactionIds PROVE RowOK(t, rows[t])'
    <3>1. CASE t = id
      <4>1. rows'[t] = new
        BY <1>2, <2>3, <3>1 DEF TableOK
      <4>2. registered'[serial + 1] = reg
        BY <1>0, <2>3 DEF IInv, TypeOK
      <4>3. ColumnsOK(new)
        BY <1>0, RelayStoreAssumption DEF ColumnsOK, Live
      <4> QED
        BY <1>4, <1>6, <3>1, <4>1, <4>2, <4>3 DEF RowOK
    <3>2. CASE t # id
      <4>1. rows'[t] = room[t] /\ RowOK(t, room[t])
        BY <1>2, <2>3, <3>2 DEF TableOK
      <4>2. room[t].status \in Live => registered'[room[t].token] = registered[room[t].token]
        BY <1>2, <2>3, LiveTokenDrawn DEF IInv, TypeOK
      <4> QED
        BY <1>4, <4>1, <4>2 DEF RowOK
    <3> QED
      BY <3>1, <3>2
  <2>7. HistoryOK'
    <3>1. \A k \in Serials : k > serial' => registered'[k] = Null
      BY <1>0, <1>5, <2>3 DEF IInv, TypeOK, Serials
    <3>2. \A c \in Serials : minted'[c] # Null => registered'[minted'[c].token] # Null
      BY <1>4, <1>6, <2>3 DEF IInv, HistoryOK, TypeOK
    <3> QED
      BY <1>0, <1>4, <1>5, <3>1, <3>2 DEF HistoryOK, Serials
  <2>8. OneResultPerRegistration' /\ SingleRelease'
    BY <1>4 DEF IInv, OneResultPerRegistration, SingleRelease
  <2>9. ReleaseFollowsRegistration'
    BY <1>4, <1>6, <2>3 DEF IInv, TypeOK, ReleaseFollowsRegistration
  <2>10. WithinCapacity'
    <3>1. Present(rows') = Present(room) \cup {id}
      <4>1. new.status # "absent"
        OBVIOUS
      <4> QED
        BY <1>2, <2>3, <4>1 DEF Present, TableOK
    <3>2. id \notin Present(room)
      BY <2>2 DEF Present, NoRow
    <3>3. Cardinality(Present(rows')) = Cardinality(Present(room)) + 1
      BY <3>1, <3>2, FS_AddElement, PresentFinite
    <3>4. Cardinality(Present(room)) + 1 <= MaximumRows
      <4>1. Cardinality(Present(room)) \in Nat /\ MaximumRows \in Nat
        BY PresentFinite, RelayStoreAssumption
      <4> HIDE DEF room
      <4> QED
        BY <2>1, <4>1
    <3>5. Cardinality(Present(rows')) <= MaximumRows
      BY <3>3, <3>4
    <3> QED
      BY <3>5 DEF WithinCapacity, Present
  <2> QED
    BY <2>5, <2>6, <2>7, <2>8, <2>9, <2>10 DEF IInv
<1> QED
  BY <1>7, <1>8

(* What an accepted completion knows of the row. *)
LEMMA CompleteKindOK ==
  ASSUME NEW tbl, TableOK(tbl), NEW id \in TransactionIds, NEW k \in Serials,
         CompleteKind(tbl, id, k) = "ok"
  PROVE  tbl[id] \in Row /\ tbl[id].status = "pending" /\ tbl[id].token = k
<1>1. tbl[id] \in Row \cup {NoRow}
  BY DEF TableOK
<1>2. GetKind(tbl, id) = "ok" /\ tbl[id].token = k
  BY DEF CompleteKind
<1>3. /\ tbl[id] # NoRow
      /\ tbl[id].status \notin {"expired", "cancelled", "completed", "consumed"}
  BY <1>2 DEF GetKind
<1> QED
  BY <1>1, <1>2, <1>3 DEF Row, Live, Terminal

(* What an accepted redemption knows of the row. *)
LEMMA RedeemKindOK ==
  ASSUME NEW tbl, TableOK(tbl), NEW id \in TransactionIds, NEW o, NEW s,
         NEW c \in Serials, NEW h, RedeemKind(tbl, id, o, s, c, h) = "ok"
  PROVE  /\ tbl[id] \in Row /\ tbl[id].status = "completed"
         /\ tbl[id].binding.origin = o /\ tbl[id].state = s
         /\ tbl[id].code = c /\ tbl[id].challenge = h
<1>1. tbl[id] \in Row \cup {NoRow}
  BY DEF TableOK
<1>2. tbl[id] # NoRow
  BY DEF RedeemKind
<1>3. tbl[id].status \notin {"expired", "cancelled", "consumed", "pending"}
  BY <1>2 DEF RedeemKind
<1>4. tbl[id].status = "completed"
  BY <1>1, <1>2, <1>3 DEF Row, Live, Terminal
<1>5. /\ tbl[id].binding.origin = o /\ tbl[id].state = s
      /\ tbl[id].code = c /\ tbl[id].challenge = h
  BY <1>2, <1>3 DEF RedeemKind
<1> QED
  BY <1>1, <1>2, <1>4, <1>5

LEMMA CompleteOK ==
  ASSUME IInv, NEW id \in TransactionIds, NEW k \in Serials,
         NEW r \in Results, NEW clk \in Times, Complete(id, k, r, clk)
  PROVE  IInv'
<1> DEFINE live == ExpireAll(rows, clk)
           new == [live[id] EXCEPT !.result = r, !.code = serial + 1,
                                   !.status = "completed"]
           mint == [token |-> k, result |-> r]
<1>1. TableOK(live) /\ Cardinality(Present(live)) <= MaximumRows
  BY SweptOK, TimesAreNat
<1>2. CASE CompleteKind(live, id, k) # "ok"
  BY <1>2, SweepOK, TimesAreNat DEF Complete
<1>3. CASE CompleteKind(live, id, k) = "ok"
  <2>0. /\ serial \in Nat /\ MaxSerial \in Nat /\ serial < MaxSerial
        /\ serial' = serial + 1 /\ serial + 1 \in Serials
    <3>1. /\ serial \in 0..MaxSerial /\ MaxSerial \in Nat
          /\ serial < MaxSerial /\ serial' = serial + 1
      BY <1>3, RelayStoreAssumption DEF IInv, TypeOK, Complete
    <3> QED
      BY <3>1 DEF Serials
  <2>1. live[id] \in Row /\ live[id].status = "pending" /\ live[id].token = k
    BY <1>1, <1>3, CompleteKindOK
  <2>2. /\ rows' = [live EXCEPT ![id] = new]
        /\ minted' = [minted EXCEPT ![serial + 1] = mint]
        /\ UNCHANGED <<registered, released>>
    BY <1>1, <1>3 DEF Complete, TableOK
  <2>3. /\ new \in Row /\ new.status = "completed" /\ new.token = k
        /\ new.result = r /\ new.code = serial + 1
        /\ new.binding = live[id].binding /\ new.state = live[id].state
        /\ new.challenge = live[id].challenge
        /\ new.expiresAt = live[id].expiresAt /\ new.request = live[id].request
    BY <2>0, <2>1 DEF Row, Live
  <2>4. mint \in Minting
    BY DEF Minting
  <2>5. mint # Null
    BY <2>4, NullAssumption
  <2>6. /\ registered[k] # Null
        /\ RowOK(id, live[id])
        /\ \A c \in Serials : minted[c] # Null => minted[c].token # k
    <3>1. live[id].status \in Live /\ live[id] # NoRow
      BY <2>1 DEF Live, NoRow
    <3>2. registered[k] # Null
      BY <1>1, <2>1, <3>1, LiveTokenDrawn
    <3>3. RowOK(id, live[id])
      BY <1>1 DEF TableOK
    <3> QED
      BY <2>1, <3>1, <3>2, <3>3 DEF RowOK
  <2>7. minted[serial + 1] = Null /\ released[serial + 1] = NeverReleased
    BY <2>0 DEF IInv, HistoryOK
  <2>8. \A c \in Serials : minted'[c] = IF c = serial + 1 THEN mint ELSE minted[c]
    BY <2>2 DEF IInv, TypeOK
  <2>9. TypeOK'
    BY <1>1, <2>0, <2>2, <2>3, <2>4 DEF IInv, TypeOK, TableOK, Serials
  <2>10. ASSUME NEW t \in TransactionIds PROVE RowOK(t, rows[t])'
    <3>1. CASE t = id
      <4>1. rows'[t] = new
        BY <1>1, <2>2, <3>1 DEF TableOK
      <4>2. ColumnsOK(new)
        BY <2>0, <2>1, <2>3, <2>6, RelayStoreAssumption DEF RowOK, ColumnsOK, Live, NoRow
      <4>3. registered[k] = [id |-> t, origin |-> new.binding.origin,
                             state |-> new.state, challenge |-> new.challenge,
                             deadline |-> new.expiresAt]
        BY <2>1, <2>3, <2>6, <3>1 DEF RowOK, Live, NoRow
      <4>4. minted'[serial + 1] = mint
        BY <2>0, <2>8
      <4> QED
        BY <2>2, <2>3, <2>7, <4>1, <4>2, <4>3, <4>4 DEF RowOK
    <3>2. CASE t # id
      <4>1. rows'[t] = live[t] /\ RowOK(t, live[t])
        BY <1>1, <2>2, <3>2 DEF TableOK
      <4>2. live[t].status \in Live => live[t] \in Row /\ live[t] # NoRow
        BY <1>1, LiveTokenDrawn DEF NoRow, Live
      <4>3. ASSUME live[t].status = "completed"
            PROVE  minted'[live[t].code] = minted[live[t].code]
        <5>1. live[t].code \in Serials
          BY <4>1, <4>2, <4>3 DEF Row, RowOK, ColumnsOK, Live
        <5>2. minted[live[t].code] = [token |-> live[t].token, result |-> live[t].result]
          BY <4>1, <4>2, <4>3 DEF RowOK, Live
        <5>3. [token |-> live[t].token, result |-> live[t].result] \in Minting
          BY <4>1, <4>2, <4>3 DEF Row, RowOK, ColumnsOK, Live, Minting
        <5> QED
          BY <2>7, <2>8, <5>1, <5>2, <5>3, NullAssumption
      <4>4. ASSUME live[t].status = "pending"
            PROVE  live[t].token # k
        <5>1. registered[live[t].token].id = t
          BY <4>1, <4>2, <4>4 DEF RowOK, Live
        <5>2. registered[k].id = id
          BY <2>1, <2>6 DEF RowOK, Live, NoRow
        <5> QED
          BY <3>2, <5>1, <5>2
      <4>5. ASSUME live[t].status = "pending"
            PROVE  \A c \in Serials : minted'[c] # Null => minted'[c].token # live[t].token
        <5>1. \A c \in Serials : minted[c] # Null => minted[c].token # live[t].token
          BY <4>1, <4>2, <4>5 DEF RowOK, Live
        <5>2. mint.token = k
          OBVIOUS
        <5> QED
          BY <2>8, <4>4, <4>5, <5>1, <5>2
      <4> HIDE DEF live
      <4> QED
        BY <2>2, <4>1, <4>3, <4>5 DEF RowOK
    <3> QED
      BY <3>1, <3>2
  <2>11. HistoryOK'
    BY <2>0, <2>2, <2>6, <2>8 DEF IInv, HistoryOK, Serials
  <2>12. OneResultPerRegistration'
    BY <2>6, <2>8 DEF IInv, OneResultPerRegistration
  <2>13. SingleRelease'
    BY <2>2 DEF IInv, SingleRelease
  <2>14. ReleaseFollowsRegistration'
    <3>1. \A c \in Serials : released[c].count > 0 => c # serial + 1
      BY <2>7 DEF NeverReleased
    <3> QED
      BY <2>2, <2>8, <3>1 DEF IInv, ReleaseFollowsRegistration
  <2>15. WithinCapacity'
    <3>1. Present(rows') = Present(live)
      BY <1>1, <2>1, <2>2, <2>3 DEF Present, TableOK
    <3> QED
      BY <1>1, <3>1 DEF WithinCapacity, Present
  <2> QED
    BY <2>9, <2>10, <2>11, <2>12, <2>13, <2>14, <2>15 DEF IInv
<1> QED
  BY <1>2, <1>3

LEMMA RedeemOK ==
  ASSUME IInv, NEW id \in TransactionIds, NEW o \in Origins,
         NEW s \in StateValues, NEW c \in Serials, NEW h \in Challenges,
         NEW clk \in Times, Redeem(id, o, s, c, h, clk)
  PROVE  IInv'
<1> DEFINE live == ExpireAll(rows, clk)
           rel == [count |-> released[c].count + 1, id |-> id, origin |-> o,
                   state |-> s, challenge |-> h, result |-> live[id].result,
                   at |-> clk]
<1>1. TableOK(live) /\ Cardinality(Present(live)) <= MaximumRows
  BY SweptOK, TimesAreNat
<1>2. CASE RedeemKind(live, id, o, s, c, h) # "ok"
  BY <1>2, SweepOK, TimesAreNat DEF Redeem
<1>3. CASE RedeemKind(live, id, o, s, c, h) = "ok"
  <2>1. /\ live[id] \in Row /\ live[id].status = "completed"
        /\ live[id].binding.origin = o /\ live[id].state = s
        /\ live[id].code = c /\ live[id].challenge = h
    BY <1>1, <1>3, RedeemKindOK
  <2>2. /\ rows' = [live EXCEPT ![id] = Scrub(live[id], "consumed")]
        /\ released' = [released EXCEPT ![c] = rel]
        /\ UNCHANGED <<serial, registered, minted>>
    BY <1>3 DEF Redeem
  <2>3. TableOK(rows') /\ Present(rows') = Present(live)
    BY <1>1, <2>1, <2>2, ScrubRowOK DEF Live, Terminal
  <2>4. RowOK(id, live[id]) /\ live[id] # NoRow
    BY <1>1, <2>1 DEF TableOK, NoRow
  <2>5. /\ minted[c] = [token |-> live[id].token, result |-> live[id].result]
        /\ released[c] = NeverReleased
        /\ registered[live[id].token] =
             [id |-> id, origin |-> o, state |-> s, challenge |-> h,
              deadline |-> live[id].expiresAt]
    BY <2>1, <2>4 DEF RowOK, Live
  <2>6. live[id].result \in Results /\ live[id].token \in Serials
    BY <2>1, <2>4 DEF RowOK, ColumnsOK, Row, Live
  <2>7. clk < live[id].expiresAt
    <3>1. TableOK(rows)
      BY DEF IInv, TypeOK, TableOK
    <3> QED
      BY <2>1, <3>1, ExpireAllOK, TimesAreNat DEF Live
  <2>8. rel.count = 1 /\ rel \in Release
    BY <2>5, <2>6 DEF Release, NeverReleased
  <2>9. \A d \in Serials : released'[d] = IF d = c THEN rel ELSE released[d]
    BY <2>2 DEF IInv, TypeOK
  <2>10. TypeOK'
    BY <2>2, <2>3, <2>8 DEF IInv, TypeOK, TableOK
  <2>11. ASSUME NEW t \in TransactionIds PROVE RowOK(t, rows[t])'
    <3>1. RowOK(t, rows'[t])
      BY <2>3 DEF TableOK
    <3>2. ASSUME rows'[t].status = "completed"
          PROVE  rows'[t].code # c /\ rows'[t].code \in Serials
      <4>1. t # id
        BY <1>1, <2>1, <2>2, <3>2, ScrubOK DEF TableOK, Terminal
      <4>2. rows'[t] = live[t]
        BY <1>1, <2>2, <4>1 DEF TableOK
      <4>3. RowOK(t, live[t]) /\ live[t] \in Row /\ live[t] # NoRow
        BY <1>1, <3>2, <4>2 DEF TableOK, NoRow
      <4>4. live[t].code \in Serials
        BY <3>2, <4>2, <4>3 DEF Row, RowOK, ColumnsOK
      <4>5. /\ minted[live[t].code] = [token |-> live[t].token, result |-> live[t].result]
            /\ registered[live[t].token].id = t
        BY <3>2, <4>2, <4>3 DEF RowOK, Live
      <4>6. minted[c].token = live[id].token /\ registered[live[id].token].id = id
        BY <2>5
      <4>7. live[t].code = c => live[t].token = live[id].token
        BY <4>5, <4>6
      <4> QED
        BY <4>1, <4>2, <4>4, <4>5, <4>6, <4>7
    <3> QED
      BY <2>2, <2>9, <3>1, <3>2 DEF RowOK
  <2>12. HistoryOK'
    <3>1. minted[c] # Null
      <4>1. minted[c] \in Minting
        BY <2>5, <2>6 DEF Minting
      <4> QED
        BY <4>1, NullAssumption
    <3>2. ~(c > serial)
      BY <3>1 DEF IInv, HistoryOK
    <3> QED
      BY <2>2, <2>9, <3>2 DEF IInv, HistoryOK
  <2>13. OneResultPerRegistration'
    BY <2>2 DEF IInv, OneResultPerRegistration
  <2>14. SingleRelease'
    BY <2>8, <2>9 DEF IInv, SingleRelease
  <2>15. ReleaseFollowsRegistration'
    <3>1. ASSUME NEW d \in Serials, released'[d].count > 0, d # c
          PROVE  released'[d] = released[d]
      BY <2>9, <3>1
    <3>2. /\ minted[c] # Null /\ registered[minted[c].token] # Null
          /\ minted[c].token = live[id].token /\ minted[c].result = live[id].result
      <4>1. minted[c] \in Minting
        BY <2>5, <2>6 DEF Minting
      <4>2. minted[c] # Null
        BY <4>1, NullAssumption
      <4> QED
        BY <2>5, <4>2 DEF IInv, HistoryOK
    <3> QED
      BY <2>2, <2>5, <2>7, <2>9, <3>1, <3>2 DEF IInv, ReleaseFollowsRegistration
  <2>16. WithinCapacity'
    BY <1>1, <2>3 DEF WithinCapacity, Present
  <2> QED
    BY <2>10, <2>11, <2>12, <2>13, <2>14, <2>15, <2>16 DEF IInv
<1> QED
  BY <1>2, <1>3

-----------------------------------------------------------------------------
(* Every step of the store, and every step of its environment that leaves  *)
(* it alone, preserves the inductive invariant.                            *)
LEMMA NextOK == ASSUME IInv, [Next]_storeVars PROVE IInv'
<1>1. CASE UNCHANGED storeVars
  <2>1. TableOK(rows') /\ Cardinality(Present(rows')) <= MaximumRows
    BY <1>1 DEF storeVars, IInv, TypeOK, TableOK, WithinCapacity
  <2> QED
    BY <1>1, <2>1, HistoryKept DEF storeVars, histVars
<1>2. ASSUME NEW id \in TransactionIds, NEW b \in Bindings, NEW s \in StateValues,
             NEW h \in Challenges, NEW q \in Requests, NEW clk \in Times,
             Create(id, b, s, h, q, clk)
      PROVE  IInv'
  BY <1>2, CreateOK
<1>3. ASSUME NEW id \in TransactionIds, NEW clk \in Times, Get(id, clk)
      PROVE  IInv'
  BY <1>3, SweepOK, TimesAreNat DEF Get
<1>4. ASSUME NEW clk \in Times, Expire(clk) PROVE IInv'
  BY <1>4, SweepOK, TimesAreNat DEF Expire
<1>5. ASSUME NEW id \in TransactionIds, NEW k \in Serials, NEW r \in Results,
             NEW clk \in Times, Complete(id, k, r, clk)
      PROVE  IInv'
  BY <1>5, CompleteOK
<1>6. ASSUME NEW id \in TransactionIds, NEW o \in Origins, NEW s \in StateValues,
             NEW c \in Serials, NEW h \in Challenges, NEW clk \in Times,
             Redeem(id, o, s, c, h, clk)
      PROVE  IInv'
  BY <1>6, RedeemOK
<1>7. ASSUME NEW id \in TransactionIds, NEW body \in TransactionIds,
             NEW o \in Origins, NEW s \in StateValues, NEW h \in Challenges,
             NEW clk \in Times, Cancel(id, body, o, s, h, clk)
      PROVE  IInv'
  BY <1>7, CancelOK
<1>8. CASE Restart
  BY <1>8, RestartOK
<1> QED
  BY <1>1, <1>2, <1>3, <1>4, <1>5, <1>6, <1>7, <1>8 DEF Next

(* The inductive invariant holds in every reachable state of the store.    *)
THEOREM StoreInvariant == Spec => []IInv
<1>1. Init => IInv
  BY InitOK
<1>2. IInv /\ [Next]_storeVars => IInv'
  BY NextOK
<1> QED
  BY <1>1, <1>2, PTL DEF Spec

(* Columns keep their types (store.ts, the CREATE TABLE statement).        *)
THEOREM StoreTypes == Spec => []TypeOK
<1>1. IInv => TypeOK
  BY DEF IInv
<1> QED
  BY <1>1, StoreInvariant, PTL

(* A spent row keeps no secret, a pending row no result (the SET clauses   *)
(* of #expireAll, complete, redeem and cancel).                            *)
THEOREM StoreColumns == Spec => []ColumnsMatchStatus
<1>1. IInv => ColumnsMatchStatus
  <2> SUFFICES ASSUME IInv, NEW t \in Present(rows) PROVE ColumnsOK(rows[t])
    BY DEF ColumnsMatchStatus
  <2>1. RowOK(t, rows[t]) /\ rows[t] # NoRow
    BY DEF IInv, Present, NoRow
  <2> QED
    BY <2>1 DEF RowOK
<1> QED
  BY <1>1, StoreInvariant, PTL

(* redeem releases the result behind a code at most once, and complete     *)
(* takes one result per registration, for any number of clients, rows and  *)
(* clock steps.                                                            *)
THEOREM StoreRelease == Spec => [](SingleRelease /\ OneResultPerRegistration)
<1>1. IInv => SingleRelease /\ OneResultPerRegistration
  BY DEF IInv
<1> QED
  BY <1>1, StoreInvariant, PTL

(* redeem gives a result out only as it was registered: to the registering *)
(* origin, state and challenge, before the deadline.                       *)
THEOREM StoreReleaseFollows == Spec => []ReleaseFollowsRegistration
<1>1. IInv => ReleaseFollowsRegistration
  BY DEF IInv
<1> QED
  BY <1>1, StoreInvariant, PTL

(* create never lets the table outgrow maximumRows.                        *)
THEOREM StoreCapacity == Spec => []WithinCapacity
<1>1. IInv => WithinCapacity
  BY DEF IInv
<1> QED
  BY <1>1, StoreInvariant, PTL

-----------------------------------------------------------------------------
(* What the methods do to the live rows.                                   *)

(* Rows that survive a sweep, and a sweep followed by pruning, unchanged.  *)
LEMMA SweptLive ==
  ASSUME IInv, NEW clk \in Times, NEW t \in TransactionIds
  PROVE  LET live == ExpireAll(rows, clk)
             room == MakeRoom(live, clk)
         IN  /\ live[t].status \in Live => live[t] = rows[t]
             /\ room[t].status \in Live => room[t] = rows[t]
<1>0. TableOK(rows)
  BY DEF IInv, TypeOK, TableOK
<1>1. /\ TableOK(ExpireAll(rows, clk))
      /\ ExpireAll(rows, clk)[t].status \in Live => ExpireAll(rows, clk)[t] = rows[t]
  BY <1>0, ExpireAllOK, TimesAreNat
<1>2. \/ MakeRoom(ExpireAll(rows, clk), clk)[t] = ExpireAll(rows, clk)[t]
      \/ MakeRoom(ExpireAll(rows, clk), clk)[t] = NoRow
  BY <1>1, MakeRoomOK
<1> QED
  BY <1>1, <1>2 DEF NoRow, Live

(* No row comes to life or changes while it is alive.                      *)
OnlyEnds == \A t \in TransactionIds : rows'[t].status \in Live => rows'[t] = rows[t]

(* The sweep only ends rows.                                               *)
LEMMA SweepEnds ==
  ASSUME IInv, NEW w \in Nat, rows' = ExpireAll(rows, w)
  PROVE  OnlyEnds /\ \A t \in TransactionIds : rows'[t].status \in Live => w < rows'[t].expiresAt
<1>1. TableOK(rows)
  BY DEF IInv, TypeOK, TableOK
<1> QED BY <1>1, ExpireAllOK DEF OnlyEnds

LEMMA CreateRows ==
  ASSUME IInv, NEW id \in TransactionIds, NEW b \in Bindings,
         NEW st \in StateValues, NEW h \in Challenges, NEW q \in Requests,
         NEW w \in Times, Create(id, b, st, h, q, w)
  PROVE  \A t \in TransactionIds : rows'[t].status \in Live =>
           \/ rows'[t] = rows[t]
           \/ /\ t = id /\ CreateKind(ExpireAll(rows, w), id, w) = "ok"
              /\ rows'[t].status = "pending" /\ rows'[t].token = serial + 1
              /\ rows'[t].expiresAt = w + b.lifetime /\ rows'[t].binding = b
<1> DEFINE live == ExpireAll(rows, w)
           room == MakeRoom(live, w)
           new == [binding |-> b, state |-> st, challenge |-> h, request |-> q,
                   token |-> serial + 1, result |-> Null, code |-> Null,
                   status |-> "pending", expiresAt |-> w + b.lifetime]
<1>1. \A t \in TransactionIds : /\ live[t].status \in Live => live[t] = rows[t]
                                /\ room[t].status \in Live => room[t] = rows[t]
  BY SweptLive
<1>2. CASE CreateKind(live, id, w) = "ok"
  <2>1. rows' = [room EXCEPT ![id] = new]
    BY <1>2 DEF Create
  <2>2. TableOK(room)
    BY SweptOK, TimesAreNat, MakeRoomOK
  <2>3. rows'[id] = new /\ \A t \in TransactionIds : t # id => rows'[t] = room[t]
    BY <2>1, <2>2 DEF TableOK
  <2> QED BY <1>1, <1>2, <2>3
<1>3. CASE CreateKind(live, id, w) # "ok"
  <2>1. rows' = live \/ rows' = room
    BY <1>3 DEF Create, CreateKind
  <2> QED BY <1>1, <2>1
<1> QED BY <1>2, <1>3

LEMMA CompleteRows ==
  ASSUME IInv, NEW id \in TransactionIds, NEW k \in Serials, NEW r \in Results, NEW w \in Times,
         Complete(id, k, r, w)
  PROVE  \A t \in TransactionIds : rows'[t].status \in Live =>
           \/ rows'[t] = rows[t]
           \/ /\ t = id /\ rows[t].status = "pending" /\ rows[t].token = k
              /\ rows'[t] = [rows[t] EXCEPT !.result = r, !.code = serial + 1, !.status = "completed"]
              /\ rows[t] \in Row
<1> DEFINE live == ExpireAll(rows, w)
           new == [live[id] EXCEPT !.result = r, !.code = serial + 1, !.status = "completed"]
<1>1. \A t \in TransactionIds : live[t].status \in Live => live[t] = rows[t]
  BY SweptLive
<1>2. TableOK(live)
  BY SweptOK, TimesAreNat
<1>3. CASE CompleteKind(live, id, k) = "ok"
  <2>1. live[id] \in Row /\ live[id].status = "pending" /\ live[id].token = k /\ live[id] = rows[id]
    BY <1>1, <1>2, <1>3, CompleteKindOK DEF Live
  <2>2. rows' = [live EXCEPT ![id] = new]
    BY <1>2, <1>3 DEF Complete, TableOK
  <2>3. rows'[id] = new /\ \A t \in TransactionIds : t # id => rows'[t] = live[t]
    BY <1>2, <2>2 DEF TableOK
  <2> QED BY <1>1, <2>1, <2>3
<1>4. CASE CompleteKind(live, id, k) # "ok"
  BY <1>1, <1>4 DEF Complete
<1> QED BY <1>3, <1>4

(* A live row that is scrubbed is no longer live, so nothing else is left. *)
LEMMA SpendEnds ==
  ASSUME IInv, NEW id \in TransactionIds, NEW w \in Times, NEW s \in Terminal,
         LET live == ExpireAll(rows, w)
         IN  rows' = live \/ (live[id] \in Row /\ rows' = [live EXCEPT ![id] = Scrub(live[id], s)])
  PROVE  OnlyEnds
<1> DEFINE live == ExpireAll(rows, w)
<1>1. \A t \in TransactionIds : live[t].status \in Live => live[t] = rows[t]
  BY SweptLive
<1>2. TableOK(live)
  BY SweptOK, TimesAreNat
<1>3. CASE rows' = live
  BY <1>1, <1>3 DEF OnlyEnds
<1>4. CASE live[id] \in Row /\ rows' = [live EXCEPT ![id] = Scrub(live[id], s)]
  <2>1. rows'[id].status \notin Live /\ \A t \in TransactionIds : t # id => rows'[t] = live[t]
    BY <1>2, <1>4, ScrubOK DEF TableOK, Live, Terminal
  <2> QED BY <1>1, <2>1 DEF OnlyEnds
<1> QED BY <1>3, <1>4

LEMMA RedeemRows ==
  ASSUME IInv, NEW id \in TransactionIds, NEW o \in Origins, NEW st \in StateValues,
         NEW c \in Serials, NEW h \in Challenges, NEW w \in Times, Redeem(id, o, st, c, h, w)
  PROVE  OnlyEnds /\ UNCHANGED serial
<1>1. TableOK(ExpireAll(rows, w))
  BY SweptOK, TimesAreNat
<1>2. RedeemKind(ExpireAll(rows, w), id, o, st, c, h) = "ok" => ExpireAll(rows, w)[id] \in Row
  BY <1>1, RedeemKindOK
<1> QED BY <1>2, SpendEnds DEF Redeem, Terminal

LEMMA CancelRows ==
  ASSUME IInv, NEW id \in TransactionIds, NEW body \in TransactionIds, NEW o \in Origins,
         NEW st \in StateValues, NEW h \in Challenges, NEW w \in Times, Cancel(id, body, o, st, h, w)
  PROVE  OnlyEnds /\ UNCHANGED serial
<1> DEFINE live == ExpireAll(rows, w)
<1>1. TableOK(live)
  BY SweptOK, TimesAreNat
<1>2. CancelKind(live, id, body, o, st, h) = "ok" => live[id] \in Row
  BY <1>1 DEF CancelKind, TableOK
<1> QED BY <1>2, SpendEnds DEF Cancel, Terminal

-----------------------------------------------------------------------------
(* When the table is full of rows, a prune that makes no room removed none.*)
LEMMA FullKeepsAll ==
  ASSUME IInv, NEW clk \in Times, NEW t \in TransactionIds,
         rows[t].status \in Terminal,
         MakeRoom(ExpireAll(rows, clk), clk)[t] = NoRow
  PROVE  /\ Cardinality(Present(MakeRoom(ExpireAll(rows, clk), clk))) < MaximumRows
         /\ rows[t].expiresAt <= clk
<1> DEFINE live == ExpireAll(rows, clk)
           room == MakeRoom(live, clk)
<1>1. /\ TableOK(live) /\ live[t] = rows[t]
      /\ Cardinality(Present(live)) <= MaximumRows
  <2>1. TableOK(rows)
    BY DEF IInv, TypeOK, TableOK
  <2> QED BY <2>1, ExpireAllOK, SweptOK, TimesAreNat
<1>2. t \in Present(live) /\ t \notin Present(room) /\ Present(room) \subseteq Present(live)
  BY <1>1, MakeRoomOK DEF Present, NoRow, Terminal
<1>3. Cardinality(Present(room)) < Cardinality(Present(live))
  BY <1>2, PresentFinite, FS_Subset
<1>4. Cardinality(Present(room)) \in Nat /\ Cardinality(Present(live)) \in Nat
  BY PresentFinite
<1>5. rows[t].expiresAt <= clk
  <2>1. room[t] # live[t]
    BY <1>1 DEF NoRow, Terminal
  <2>2. room = PruneSpent(live, clk)
    BY <2>1 DEF MakeRoom
  <2> QED BY <1>1, <2>1, <2>2 DEF PruneSpent
<1> QED
  BY <1>1, <1>3, <1>4, <1>5, RelayStoreAssumption

(* What one step may do to an id that is spent or gone.                    *)
HeldStep(t) ==
  rows[t].status \in Terminal =>
    \/ rows'[t] = rows[t]
    \/ /\ rows'[t] = NoRow
       /\ \/ Present(rows') = {}
          \/ \E u \in TransactionIds : RegisteredAfter(u, rows[t].expiresAt)

RevivedStep(t) ==
  (rows[t].status \notin Live /\ rows'[t].status \in Live) => RegisteredAfter(t, 0)

LEMMA CreateHolds ==
  ASSUME IInv, NEW t \in TransactionIds, NEW id \in TransactionIds, NEW b \in Bindings,
         NEW st \in StateValues, NEW h \in Challenges, NEW q \in Requests,
         NEW w \in Times, Create(id, b, st, h, q, w)
  PROVE  HeldStep(t) /\ RevivedStep(t)
<1> DEFINE live == ExpireAll(rows, w)
           room == MakeRoom(live, w)
           new == [binding |-> b, state |-> st, challenge |-> h, request |-> q,
                   token |-> serial + 1, result |-> Null, code |-> Null,
                   status |-> "pending", expiresAt |-> w + b.lifetime]
<1>0. w \in Nat /\ b.lifetime \in Nat
  BY RelayStoreAssumption
<1>1. TableOK(live) /\ TableOK(room) /\ Cardinality(Present(room)) \in Nat
  BY SweptOK, TimesAreNat, MakeRoomOK, PresentFinite
<1>2. RevivedStep(t)
  <2> SUFFICES ASSUME rows[t].status \notin Live, rows'[t].status \in Live
               PROVE  RegisteredAfter(t, 0)
    BY DEF RevivedStep
  <2>1. /\ rows'[t].status = "pending" /\ rows'[t].token = serial + 1
        /\ rows'[t].expiresAt = w + b.lifetime /\ rows'[t].binding = b
    BY CreateRows
  <2> QED BY <1>0, <2>1 DEF RegisteredAfter
<1>3. HeldStep(t)
  <2> SUFFICES ASSUME rows[t].status \in Terminal, rows'[t] # rows[t]
               PROVE  /\ rows'[t] = NoRow
                      /\ \E u \in TransactionIds : RegisteredAfter(u, rows[t].expiresAt)
    BY DEF HeldStep
  <2>1. live[t] = rows[t] /\ (room[t] = rows[t] \/ room[t] = NoRow) /\ live[t] # NoRow
    <3>1. TableOK(rows)
      BY DEF IInv, TypeOK, TableOK
    <3>2. live[t] = rows[t]
      BY <3>1, ExpireAllOK, TimesAreNat
    <3> QED BY <1>1, <3>2, MakeRoomOK DEF NoRow, Terminal
  <2>2. CASE CreateKind(live, id, w) = "ok"
    <3>1. rows' = [room EXCEPT ![id] = new] /\ id # t
      BY <2>1, <2>2 DEF Create, CreateKind
    <3>2. rows'[t] = room[t] /\ rows'[id] = new
      BY <1>1, <3>1 DEF TableOK
    <3>3. room[t] = NoRow
      BY <2>1, <3>2
    <3>4. rows[t].expiresAt <= w
      BY <3>3, FullKeepsAll
    <3>5. /\ rows'[id].status = "pending" /\ rows'[id].token = serial + 1
          /\ rows'[id].expiresAt = w + b.lifetime /\ rows'[id].binding = b
      BY <3>2
    <3>6. rows[t].expiresAt \in Nat
      BY <2>1 DEF IInv, TypeOK, Row, NoRow
    <3>7. rows[t].expiresAt + b.lifetime <= w + b.lifetime
      BY ONLY <1>0, <3>4, <3>6
    <3>8. RegisteredAfter(id, rows[t].expiresAt)
      BY <3>5, <3>7 DEF RegisteredAfter
    <3> QED BY <3>2, <3>3, <3>8
  <2>3. CASE CreateKind(live, id, w) = "conflict"
    BY <2>1, <2>3 DEF Create
  <2>4. CASE CreateKind(live, id, w) = "full"
    <3>1. rows' = room /\ Cardinality(Present(room)) >= MaximumRows
      BY <2>4 DEF Create, CreateKind
    <3>2. room[t] = NoRow
      BY <2>1, <3>1
    <3>3. Cardinality(Present(room)) < MaximumRows
      BY <3>2, FullKeepsAll
    <3> QED BY <1>1, <3>1, <3>3, RelayStoreAssumption
  <2> QED BY <2>2, <2>3, <2>4 DEF CreateKind
<1> QED BY <1>2, <1>3

(* A spent row stays as it is, until the process starts again or create    *)
(* prunes it at or past its own deadline, and no operation but create      *)
(* brings an id to life.                                                   *)
THEOREM SpentStaySpent == Spec => SpentIdsStaySpent
<1>1. ASSUME IInv, [Next]_storeVars, NEW t \in TransactionIds
      PROVE  HeldStep(t) /\ RevivedStep(t)
  <2>1. TableOK(rows)
    BY <1>1 DEF IInv, TypeOK, TableOK
  <2>2. ASSUME NEW clk \in Times, rows[t].status \in Terminal
        PROVE  ExpireAll(rows, clk)[t] = rows[t] /\ TableOK(ExpireAll(rows, clk))
    BY <2>1, <2>2, ExpireAllOK, TimesAreNat
  <2>3. CASE UNCHANGED storeVars
    BY <2>3 DEF storeVars, HeldStep, RevivedStep
  <2>4. ASSUME NEW id \in TransactionIds, NEW b \in Bindings, NEW s \in StateValues,
               NEW h \in Challenges, NEW q \in Requests, NEW clk \in Times,
               Create(id, b, s, h, q, clk)
        PROVE  HeldStep(t) /\ RevivedStep(t)
    BY <1>1, <2>4, CreateHolds
  <2>5. ASSUME NEW clk \in Times, rows' = ExpireAll(rows, clk)
        PROVE  HeldStep(t) /\ RevivedStep(t)
    <3>1. HeldStep(t)
      BY <2>2, <2>5 DEF HeldStep
    <3>2. OnlyEnds
      BY <1>1, <2>5, SweepEnds, TimesAreNat
    <3> QED BY <3>1, <3>2 DEF OnlyEnds, RevivedStep
  <2>6. ASSUME NEW id \in TransactionIds, NEW k \in Serials, NEW r \in Results,
               NEW clk \in Times, Complete(id, k, r, clk)
        PROVE  HeldStep(t) /\ RevivedStep(t)
    <3> DEFINE live == ExpireAll(rows, clk)
    <3>1. HeldStep(t)
      <4> SUFFICES ASSUME rows[t].status \in Terminal PROVE rows'[t] = rows[t]
        BY DEF HeldStep
      <4>1. CASE CompleteKind(live, id, k) = "ok"
        <5>1. t # id
          BY <2>2, <4>1, CompleteKindOK DEF Terminal
        <5> QED
          BY <2>2, <2>6, <4>1, <5>1 DEF Complete, TableOK
      <4>2. CASE CompleteKind(live, id, k) # "ok"
        BY <2>2, <2>6, <4>2 DEF Complete
      <4> QED
        BY <4>1, <4>2
    <3>2. rows'[t].status \in Live => rows[t].status \in Live
      BY <1>1, <2>6, CompleteRows DEF Live
    <3> QED BY <3>1, <3>2 DEF RevivedStep
  <2>7. ASSUME NEW id \in TransactionIds, NEW o \in Origins, NEW s \in StateValues,
               NEW c \in Serials, NEW h \in Challenges, NEW clk \in Times,
               Redeem(id, o, s, c, h, clk)
        PROVE  HeldStep(t) /\ RevivedStep(t)
    <3> DEFINE live == ExpireAll(rows, clk)
    <3>1. HeldStep(t)
      <4> SUFFICES ASSUME rows[t].status \in Terminal PROVE rows'[t] = rows[t]
        BY DEF HeldStep
      <4>1. CASE RedeemKind(live, id, o, s, c, h) = "ok"
        <5>1. t # id
          BY <2>2, <4>1, RedeemKindOK DEF Terminal
        <5> QED
          BY <2>2, <2>7, <4>1, <5>1 DEF Redeem, TableOK
      <4>2. CASE RedeemKind(live, id, o, s, c, h) # "ok"
        BY <2>2, <2>7, <4>2 DEF Redeem
      <4> QED
        BY <4>1, <4>2
    <3>2. OnlyEnds
      BY <1>1, <2>7, RedeemRows
    <3> QED BY <3>1, <3>2 DEF OnlyEnds, RevivedStep
  <2>8. ASSUME NEW id \in TransactionIds, NEW body \in TransactionIds,
               NEW o \in Origins, NEW s \in StateValues, NEW h \in Challenges,
               NEW clk \in Times, Cancel(id, body, o, s, h, clk)
        PROVE  HeldStep(t) /\ RevivedStep(t)
    <3> DEFINE live == ExpireAll(rows, clk)
    <3>1. HeldStep(t)
      <4> SUFFICES ASSUME rows[t].status \in Terminal PROVE rows'[t] = rows[t]
        BY DEF HeldStep
      <4>1. CASE CancelKind(live, id, body, o, s, h) = "ok"
        <5>1. live[id] # NoRow
          BY <4>1 DEF CancelKind
        <5>2. live[id].status \notin {"expired", "cancelled", "consumed"}
          BY <4>1, <5>1 DEF CancelKind
        <5>3. t # id
          BY <2>2, <5>2 DEF Terminal
        <5> QED
          BY <2>2, <2>8, <4>1, <5>3 DEF Cancel, TableOK
      <4>2. CASE CancelKind(live, id, body, o, s, h) # "ok"
        BY <2>2, <2>8, <4>2 DEF Cancel
      <4> QED
        BY <4>1, <4>2
    <3>2. OnlyEnds
      BY <1>1, <2>8, CancelRows
    <3> QED BY <3>1, <3>2 DEF OnlyEnds, RevivedStep
  <2>9. CASE Restart
    <3>1. Present(rows') = {} /\ rows'[t] = NoRow
      BY <2>9 DEF Restart, Present, NoRow
    <3> QED BY <3>1 DEF HeldStep, RevivedStep, Live, NoRow
  <2> QED
    BY <1>1, <2>3, <2>4, <2>5, <2>6, <2>7, <2>8, <2>9 DEF Next, Get, Expire
<1>2. IInv /\ [Next]_storeVars =>
        [\A t \in TransactionIds : HeldStep(t) /\ RevivedStep(t)]_storeVars
  BY <1>1
<1>3. (\A t \in TransactionIds : HeldStep(t) /\ RevivedStep(t)) =>
        \A t \in TransactionIds :
          /\ rows[t].status \in Terminal =>
               \/ rows'[t] = rows[t]
               \/ /\ rows'[t] = NoRow
                  /\ \/ Present(rows') = {}
                     \/ \E u \in TransactionIds : RegisteredAfter(u, rows[t].expiresAt)
          /\ (rows[t].status \notin Live /\ rows'[t].status \in Live) =>
               RegisteredAfter(t, 0)
  BY DEF HeldStep, RevivedStep
<1> QED
  BY <1>2, <1>3, StoreInvariant, PTL DEF Spec, SpentIdsStaySpent

-----------------------------------------------------------------------------
(* The refinement.  A table whose live rows are all rows of the present    *)
(* one is the present exchange with some tickets dropped: those of no live *)
(* row of it.                                                              *)

Dropped(tbl) == {k \in Serials :
                   ~ \E t \in TransactionIds : tbl[t].status \in Live /\ tbl[t].token = k}

(* Two live rows never share a token. *)
LEMMA LiveTokensDiffer ==
  ASSUME IInv, NEW tbl, TableOK(tbl),
         NEW t \in TransactionIds, NEW u \in TransactionIds,
         tbl[t].status \in Live, tbl[u].status \in Live, tbl[t].token = tbl[u].token
  PROVE  t = u
<1>1. ASSUME NEW v \in TransactionIds, tbl[v].status \in Live
      PROVE  registered[tbl[v].token].id = v
  <2>1. tbl[v] # NoRow /\ RowOK(v, tbl[v])
    BY <1>1 DEF TableOK, NoRow, Live
  <2>2. registered[tbl[v].token] =
          [id |-> v, origin |-> tbl[v].binding.origin, state |-> tbl[v].state,
           challenge |-> tbl[v].challenge, deadline |-> tbl[v].expiresAt]
    BY <1>1, <2>1 DEF RowOK
  <2> QED
    BY <2>2
<1> QED
  BY <1>1

LEMMA SweepDrops ==
  ASSUME IInv, NEW tbl, TableOK(tbl),
         \A t \in TransactionIds : tbl[t].status \in Live => tbl[t] = rows[t]
  PROVE  /\ OpenIn(tbl) = openBar \ Dropped(tbl)
         /\ HeldIn(tbl) = [k \in Serials |-> Exchange!Kept(k, Dropped(tbl))]
<1> DEFINE D == Dropped(tbl)
<1>0. TableOK(rows)
  BY DEF IInv, TypeOK, TableOK
<1>1. ASSUME NEW t \in TransactionIds, rows[t].status \in Live,
             rows[t].token \in Serials \ D
      PROVE  tbl[t] = rows[t]
  <2>1. PICK u \in TransactionIds : tbl[u].status \in Live /\ tbl[u].token = rows[t].token
    BY <1>1 DEF Dropped
  <2>2. rows[u] = tbl[u]
    BY <2>1
  <2>3. t = u
    BY <1>0, <1>1, <2>1, <2>2, LiveTokensDiffer
  <2> QED
    BY <2>2, <2>3
<1>2. OpenIn(tbl) = openBar \ D
  BY <1>1 DEF OpenIn, openBar, Dropped, Live
<1>3. ASSUME NEW k \in Serials PROVE HeldIn(tbl)[k] = Exchange!Kept(k, D)
  <2>1. CASE k \in D
    <3>1. HeldIn(tbl)[k] = {}
      BY <2>1 DEF HeldIn, Dropped, Live
    <3> QED
      BY <2>1, <3>1 DEF Exchange!Kept
  <2>2. CASE k \notin D
    <3>1. \A t \in TransactionIds :
            (tbl[t].status = "completed" /\ tbl[t].token = k)
              <=> (rows[t].status = "completed" /\ rows[t].token = k)
      BY <1>1, <2>2 DEF Live
    <3>2. \A t \in TransactionIds : tbl[t].status = "completed" => tbl[t].result = rows[t].result
      BY DEF Live
    <3>3. HeldIn(tbl)[k] = heldBar[k]
      BY <3>1, <3>2 DEF heldBar, HeldIn
    <3> QED
      BY <2>2, <3>3 DEF Exchange!Kept
  <2> QED
    BY <2>1, <2>2
<1> QED
  BY <1>2, <1>3 DEF HeldIn

(* A step that keeps the history and revives no row drops tickets.         *)
LEMMA DropStep ==
  ASSUME IInv, TableOK(rows'), UNCHANGED <<serial, histVars>>,
         \A t \in TransactionIds : rows'[t].status \in Live => rows'[t] = rows[t]
  PROVE  Exchange!Drop(Dropped(rows'))
<1>1. /\ OpenIn(rows') = openBar \ Dropped(rows')
      /\ HeldIn(rows') = [k \in Serials |-> Exchange!Kept(k, Dropped(rows'))]
  BY SweepDrops
<1>2. usedBar' = usedBar /\ deliveredBar' = deliveredBar
  BY DEF usedBar, deliveredBar, CodesOf, histVars
<1>3. openBar' = OpenIn(rows') /\ heldBar' = HeldIn(rows')
  BY DEF openBar, heldBar, OpenIn, HeldIn
<1> QED
  BY <1>1, <1>2, <1>3 DEF Exchange!Drop

LEMMA CreateStep ==
  ASSUME IInv, NEW id \in TransactionIds, NEW b \in Bindings,
         NEW s \in StateValues, NEW h \in Challenges, NEW q \in Requests,
         NEW clk \in Times, Create(id, b, s, h, q, clk)
  PROVE  Exchange!ExchangeNext
<1> DEFINE live == ExpireAll(rows, clk)
           room == MakeRoom(live, clk)
           k == serial + 1
           new == [binding |-> b, state |-> s, challenge |-> h, request |-> q,
                   token |-> k, result |-> Null, code |-> Null,
                   status |-> "pending", expiresAt |-> clk + b.lifetime]
           reg == [id |-> id, origin |-> b.origin, state |-> s, challenge |-> h,
                   deadline |-> clk + b.lifetime]
           kind == CreateKind(live, id, clk)
<1>0. k \in Serials /\ registered[k] = Null /\ clk + b.lifetime \in Nat
  <2>1. serial \in 0..MaxSerial /\ MaxSerial \in Nat /\ serial < MaxSerial
    BY RelayStoreAssumption DEF IInv, TypeOK, Create
  <2>2. k \in Serials /\ k > serial
    BY <2>1 DEF Serials
  <2>3. clk \in Nat /\ b.lifetime \in Nat
    BY RelayStoreAssumption
  <2> QED
    BY <2>2, <2>3 DEF IInv, HistoryOK
<1>1. TableOK(live) /\ TableOK(room)
  BY SweptOK, TimesAreNat, MakeRoomOK
<1>2. \A t \in TransactionIds :
        /\ live[t].status \in Live => live[t] = rows[t]
        /\ room[t].status \in Live => room[t] = rows[t]
  BY SweptLive
<1>3. CASE kind # "ok"
  <2>1. rows' = live \/ rows' = room
    BY <1>3 DEF Create, CreateKind
  <2>2. UNCHANGED histVars
    <3>1. registered' = [registered EXCEPT ![serial + 1] = @] /\ UNCHANGED <<minted, released>>
      BY <1>3 DEF Create
    <3> QED
      BY <3>1 DEF histVars, IInv, TypeOK
  <2>3. PICK tbl : tbl = rows'
    OBVIOUS
  <2>4. /\ OpenIn(tbl) = openBar \ Dropped(tbl)
        /\ HeldIn(tbl) = [j \in Serials |-> Exchange!Kept(j, Dropped(tbl))]
    BY <1>1, <1>2, <2>1, <2>3, SweepDrops
  <2>5. usedBar' = usedBar /\ deliveredBar' = deliveredBar
    BY <2>2 DEF usedBar, deliveredBar, CodesOf, histVars
  <2>6. openBar' = OpenIn(tbl) /\ heldBar' = HeldIn(tbl)
    BY <2>3 DEF openBar, heldBar, OpenIn, HeldIn
  <2>7. Exchange!Drop(Dropped(tbl))
    BY <2>4, <2>5, <2>6 DEF Exchange!Drop
  <2> QED
    BY <2>7 DEF Exchange!ExchangeNext, Dropped
<1>4. CASE kind = "ok"
  <2>1. /\ rows' = [room EXCEPT ![id] = new]
        /\ registered' = [registered EXCEPT ![k] = reg]
        /\ UNCHANGED <<minted, released>>
    BY <1>4 DEF Create
  <2>2. room[id] = NoRow
    <3>1. live[id] = NoRow
      BY <1>4 DEF CreateKind
    <3> QED
      BY <1>1, <3>1, MakeRoomOK
  <2>3. reg # Null
    <3>1. reg \in Registration
      BY <1>0 DEF Registration, Origins
    <3> QED
      BY <3>1, NullAssumption
  <2>4. k \notin usedBar /\ usedBar' = usedBar \cup {k}
    BY <1>0, <2>1, <2>3 DEF usedBar, IInv, TypeOK
  <2>5. \A t \in TransactionIds : rows'[t] = IF t = id THEN new ELSE room[t]
    BY <1>1, <2>1 DEF TableOK
  <2>6. new.status = "pending" /\ new.token = k
    OBVIOUS
  <2>7. room[id].status = "absent"
    BY <2>2 DEF NoRow
  <2> HIDE DEF new, room, k
  <2>8. openBar' = OpenIn(room) \cup {k}
    BY <1>0, <2>5, <2>6, <2>7 DEF openBar, OpenIn
  <2>9. heldBar' = HeldIn(room)
    <3>1. \A t \in TransactionIds :
            /\ rows'[t].status = "completed" <=> room[t].status = "completed"
            /\ room[t].status = "completed" => rows'[t] = room[t]
      BY <2>5, <2>6, <2>7
    <3>2. \A j \in Serials : heldBar'[j] = HeldIn(room)[j]
      BY <3>1 DEF heldBar, HeldIn
    <3> QED
      BY <3>2 DEF heldBar, HeldIn
  <2>10. /\ OpenIn(room) = openBar \ Dropped(room)
         /\ HeldIn(room) = [j \in Serials |-> Exchange!Kept(j, Dropped(room))]
    BY <1>1, <1>2, SweepDrops
  <2>11. deliveredBar' = deliveredBar
    BY <2>1 DEF deliveredBar, CodesOf
  <2>12. Exchange!OpenTicket(k, Dropped(room))
    BY <2>4, <2>8, <2>9, <2>10, <2>11 DEF Exchange!OpenTicket
  <2> QED
    BY <1>0, <2>12 DEF Exchange!ExchangeNext, Dropped
<1> QED
  BY <1>3, <1>4

(* An operation that was refused only swept. *)
LEMMA SweepStep ==
  ASSUME IInv, NEW clk \in Times,
         rows' = ExpireAll(rows, clk), UNCHANGED <<serial, histVars>>
  PROVE  Exchange!ExchangeNext
<1>1. TableOK(rows')
  BY SweptOK, TimesAreNat
<1>2. \A t \in TransactionIds : rows'[t].status \in Live => rows'[t] = rows[t]
  BY SweptLive
<1>3. Exchange!Drop(Dropped(rows'))
  BY <1>1, <1>2, DropStep
<1> QED
  BY <1>3 DEF Exchange!ExchangeNext, Dropped

LEMMA CancelStep ==
  ASSUME IInv, NEW id \in TransactionIds, NEW body \in TransactionIds,
         NEW o \in Origins, NEW s \in StateValues, NEW h \in Challenges,
         NEW clk \in Times, Cancel(id, body, o, s, h, clk)
  PROVE  Exchange!ExchangeNext
<1> DEFINE live == ExpireAll(rows, clk)
<1>1. TableOK(live)
  BY SweptOK, TimesAreNat
<1>2. CASE CancelKind(live, id, body, o, s, h) # "ok"
  BY <1>2, SweepStep DEF Cancel
<1>3. CASE CancelKind(live, id, body, o, s, h) = "ok"
  <2>1. live[id] # NoRow /\ live[id] \in Row
    BY <1>1, <1>3 DEF CancelKind, TableOK
  <2>2. live[id].status \notin {"expired", "cancelled", "consumed"}
    BY <1>3, <2>1 DEF CancelKind
  <2>3. live[id].status \in Live
    BY <2>1, <2>2 DEF Row, Live, Terminal
  <2>4. rows' = [live EXCEPT ![id] = Scrub(live[id], "cancelled")]
    BY <1>3 DEF Cancel
  <2>5. TableOK(rows')
    BY <1>1, <2>3, <2>4, ScrubRowOK DEF Terminal
  <2>6. Scrub(live[id], "cancelled").status = "cancelled"
    BY <2>1, ScrubOK DEF Terminal
  <2>7. \A t \in TransactionIds : rows'[t].status \in Live => rows'[t] = rows[t]
    BY <1>1, <2>4, <2>6, SweptLive DEF TableOK, Live
  <2>8. Exchange!Drop(Dropped(rows'))
    BY <2>5, <2>7, DropStep DEF Cancel
  <2> QED
    BY <2>8 DEF Exchange!ExchangeNext, Dropped
<1> QED
  BY <1>2, <1>3

LEMMA RestartStep == ASSUME IInv, Restart PROVE Exchange!ExchangeNext
<1>1. TableOK(rows')
  BY DEF Restart, TableOK, RowOK
<1>2. \A t \in TransactionIds : rows'[t].status \in Live => rows'[t] = rows[t]
  BY DEF Restart, NoRow, Live
<1>3. Exchange!Drop(Dropped(rows'))
  BY <1>1, <1>2, DropStep DEF Restart
<1> QED
  BY <1>3 DEF Exchange!ExchangeNext, Dropped

LEMMA CompleteStep ==
  ASSUME IInv, NEW id \in TransactionIds, NEW k \in Serials,
         NEW r \in Results, NEW clk \in Times, Complete(id, k, r, clk)
  PROVE  Exchange!ExchangeNext
<1> DEFINE live == ExpireAll(rows, clk)
           new == [live[id] EXCEPT !.result = r, !.code = serial + 1,
                                   !.status = "completed"]
           mint == [token |-> k, result |-> r]
<1>1. TableOK(live)
  BY SweptOK, TimesAreNat
<1>2. CASE CompleteKind(live, id, k) # "ok"
  BY <1>2, SweepStep DEF Complete
<1>3. CASE CompleteKind(live, id, k) = "ok"
  <2>1. live[id] \in Row /\ live[id].status = "pending" /\ live[id].token = k
    BY <1>1, <1>3, CompleteKindOK
  <2>2. /\ rows' = [live EXCEPT ![id] = new]
        /\ minted' = [minted EXCEPT ![serial + 1] = mint]
        /\ UNCHANGED <<registered, released>>
    BY <1>1, <1>3 DEF Complete, TableOK
  <2>3. new.status = "completed" /\ new.token = k /\ new.result = r
    BY <2>1 DEF Row
  <2>4. \A t \in TransactionIds : rows'[t] = IF t = id THEN new ELSE live[t]
    BY <1>1, <2>2 DEF TableOK
  <2>5. \A t \in TransactionIds : live[t].status \in Live /\ live[t].token = k => t = id
    BY <1>1, <2>1, LiveTokensDiffer DEF Live
  <2>6. /\ OpenIn(live) = openBar \ Dropped(live)
        /\ HeldIn(live) = [j \in Serials |-> Exchange!Kept(j, Dropped(live))]
    BY <1>1, SweptLive, SweepDrops
  <2> HIDE DEF new, live, mint
  <2>7. k \in OpenIn(live) /\ openBar' = OpenIn(live) \ {k}
    BY <2>1, <2>3, <2>4, <2>5 DEF openBar, OpenIn, Live
  <2>8. heldBar' = [j \in Serials |-> IF j = k THEN {r} ELSE HeldIn(live)[j]]
    <3>1. heldBar'[k] = {r}
      <4>1. \A t \in TransactionIds :
              (rows'[t].status = "completed" /\ rows'[t].token = k) <=> t = id
        BY <2>3, <2>4, <2>5 DEF Live
      <4>2. rows'[id].result = r
        BY <2>3, <2>4
      <4> QED
        BY <4>1, <4>2 DEF heldBar, HeldIn
    <3>2. ASSUME NEW j \in Serials, j # k PROVE heldBar'[j] = HeldIn(live)[j]
      <4>1. \A t \in TransactionIds :
              /\ (rows'[t].status = "completed" /\ rows'[t].token = j)
                   <=> (live[t].status = "completed" /\ live[t].token = j)
              /\ live[t].status = "completed" => rows'[t] = live[t]
        BY <2>1, <2>3, <2>4, <3>2
      <4> QED
        BY <4>1 DEF heldBar, HeldIn
    <3> QED
      BY <3>1, <3>2 DEF heldBar, HeldIn
  <2>9. usedBar' = usedBar
    BY <2>2 DEF usedBar
  <2>10. deliveredBar' = deliveredBar
    <3>1. serial + 1 \in Serials /\ released[serial + 1] = NeverReleased
      <4>1. serial \in 0..MaxSerial /\ MaxSerial \in Nat /\ serial < MaxSerial
        BY <1>3, RelayStoreAssumption DEF IInv, TypeOK, Complete, live
      <4>2. serial + 1 \in Serials /\ serial + 1 > serial
        BY <4>1 DEF Serials
      <4> QED
        BY <4>2 DEF IInv, HistoryOK
    <3>2. \A c \in Serials : released[c].count > 0 => minted'[c] = minted[c]
      BY <2>2, <3>1 DEF IInv, TypeOK, NeverReleased
    <3>3. ASSUME NEW j \in Serials
          PROVE  {d \in CodesOf(j)' : released'[d].count > 0}
                   = {d \in CodesOf(j) : released[d].count > 0}
      BY <2>2, <3>2 DEF CodesOf
    <3> QED
      BY <2>2, <3>3 DEF deliveredBar
  <2>11. Exchange!FillTicket(k, r, Dropped(live))
    <3>1. heldBar' = [j \in Serials |-> IF j = k THEN {r}
                                        ELSE Exchange!Kept(j, Dropped(live))]
      BY <2>6, <2>8
    <3>2. UNCHANGED <<usedBar, deliveredBar>>
      BY <2>9, <2>10
    <3> QED
      BY <2>6, <2>7, <3>1, <3>2 DEF Exchange!FillTicket
  <2> QED
    BY <2>11 DEF Exchange!ExchangeNext, Dropped
<1> QED
  BY <1>2, <1>3

LEMMA RedeemStep ==
  ASSUME IInv, NEW id \in TransactionIds, NEW o \in Origins,
         NEW s \in StateValues, NEW c \in Serials, NEW h \in Challenges,
         NEW clk \in Times, Redeem(id, o, s, c, h, clk)
  PROVE  Exchange!ExchangeNext
<1> DEFINE live == ExpireAll(rows, clk)
           k == live[id].token
           rel == [count |-> released[c].count + 1, id |-> id, origin |-> o,
                   state |-> s, challenge |-> h, result |-> live[id].result,
                   at |-> clk]
<1>1. TableOK(live)
  BY SweptOK, TimesAreNat
<1>2. CASE RedeemKind(live, id, o, s, c, h) # "ok"
  BY <1>2, SweepStep DEF Redeem
<1>3. CASE RedeemKind(live, id, o, s, c, h) = "ok"
  <2>1. live[id] \in Row /\ live[id].status = "completed" /\ live[id].code = c
    BY <1>1, <1>3, RedeemKindOK
  <2>2. /\ rows' = [live EXCEPT ![id] = Scrub(live[id], "consumed")]
        /\ released' = [released EXCEPT ![c] = rel]
        /\ UNCHANGED <<registered, minted>>
    BY <1>3 DEF Redeem
  <2>3. Scrub(live[id], "consumed").status = "consumed"
    BY <2>1, ScrubOK DEF Terminal
  <2>4. \A t \in TransactionIds :
          rows'[t] = IF t = id THEN Scrub(live[id], "consumed") ELSE live[t]
    BY <1>1, <2>2 DEF TableOK
  <2>5. RowOK(id, live[id]) /\ live[id] # NoRow
    BY <1>1, <2>1 DEF TableOK, NoRow
  <2>6. /\ minted[c] = [token |-> k, result |-> live[id].result]
        /\ released[c] = NeverReleased
    BY <2>1, <2>5 DEF RowOK, Live
  <2>7. k \in Serials /\ live[id].result \in Results
    BY <2>1, <2>5 DEF RowOK, ColumnsOK, Row, Live
  <2>8. minted[c] # Null
    <3>1. minted[c] \in Minting
      BY <2>6, <2>7 DEF Minting
    <3> QED
      BY <3>1, NullAssumption
  <2>9. CodesOf(k) = {c}
    BY <2>6, <2>8 DEF CodesOf, IInv, OneResultPerRegistration
  <2>10. \A t \in TransactionIds : live[t].status \in Live /\ live[t].token = k => t = id
    BY <1>1, <2>1, LiveTokensDiffer DEF Live
  <2>11. /\ OpenIn(live) = openBar \ Dropped(live)
         /\ HeldIn(live) = [j \in Serials |-> Exchange!Kept(j, Dropped(live))]
    BY <1>1, SweptLive, SweepDrops
  <2>12. rel.count > 0 /\ rel.result = live[id].result
    BY <2>6 DEF NeverReleased
  <2>13. \A j \in Serials : CodesOf(j)' = CodesOf(j)
    BY <2>2 DEF CodesOf
  <2> HIDE DEF live, k, rel
  <2>14. k \notin Dropped(live)
    BY <2>1 DEF Dropped, Live, k
  <2>15. HeldIn(live)[k] = {live[id].result}
    <3>1. \A t \in TransactionIds :
            (live[t].status = "completed" /\ live[t].token = k) <=> t = id
      BY <2>1, <2>10 DEF Live, k
    <3> QED
      BY <2>7, <3>1 DEF HeldIn
  <2>16. heldBar[k] = {live[id].result}
    BY <2>7, <2>11, <2>14, <2>15 DEF Exchange!Kept
  <2>17. deliveredBar[k] = {}
    BY <2>6, <2>7, <2>9 DEF deliveredBar, NeverReleased
  <2>18. deliveredBar' = [deliveredBar EXCEPT ![k] = heldBar[k]]
    <3>1. \A d \in Serials : released'[d] = IF d = c THEN rel ELSE released[d]
      BY <2>2 DEF IInv, TypeOK
    <3>2. deliveredBar'[k] = {live[id].result}
      <4>1. {d \in CodesOf(k) : released'[d].count > 0} = {c}
        BY <2>9, <2>12, <3>1
      <4>2. released'[c].result = live[id].result
        BY <2>12, <3>1
      <4> QED
        BY <2>7, <2>13, <4>1, <4>2 DEF deliveredBar
    <3>3. ASSUME NEW j \in Serials, j # k PROVE deliveredBar'[j] = deliveredBar[j]
      <4>1. c \notin CodesOf(j)
        BY <2>6, <3>3 DEF CodesOf
      <4>2. \A d \in CodesOf(j) : released'[d] = released[d]
        BY <3>1, <4>1 DEF CodesOf
      <4>3. {d \in CodesOf(j) : released'[d].count > 0}
              = {d \in CodesOf(j) : released[d].count > 0}
        BY <4>2
      <4> QED
        BY <2>13, <4>2, <4>3 DEF deliveredBar
    <3> QED
      BY <2>16, <3>2, <3>3 DEF deliveredBar
  <2>19. openBar' = OpenIn(live)
    BY <2>1, <2>3, <2>4 DEF openBar, OpenIn
  <2>20. heldBar' = [j \in Serials |-> IF j = k THEN {} ELSE HeldIn(live)[j]]
    <3>1. heldBar'[k] = {}
      <4>1. \A t \in TransactionIds : ~(rows'[t].status = "completed" /\ rows'[t].token = k)
        BY <2>3, <2>4, <2>10 DEF Live
      <4> QED
        BY <2>7, <4>1 DEF heldBar, HeldIn
    <3>2. ASSUME NEW j \in Serials, j # k PROVE heldBar'[j] = HeldIn(live)[j]
      <4>1. \A t \in TransactionIds :
              (rows'[t].status = "completed" /\ rows'[t].token = j)
                <=> (live[t].status = "completed" /\ live[t].token = j)
        BY <2>3, <2>4, <3>2 DEF k
      <4>2. \A t \in TransactionIds : rows'[t].status = "completed" => rows'[t] = live[t]
        BY <2>3, <2>4
      <4> QED
        BY <4>1, <4>2 DEF heldBar, HeldIn
    <3> QED
      BY <3>1, <3>2 DEF heldBar, HeldIn
  <2>21. usedBar' = usedBar
    BY <2>2 DEF usedBar
  <2>22. Exchange!TakeTicket(k, Dropped(live))
    <3>1. heldBar' = [j \in Serials |-> IF j = k THEN {}
                                        ELSE Exchange!Kept(j, Dropped(live))]
      BY <2>11, <2>20
    <3> QED
      BY <2>11, <2>14, <2>16, <2>17, <2>18, <2>19, <2>21, <3>1 DEF Exchange!TakeTicket
  <2> QED
    BY <2>7, <2>22 DEF Exchange!ExchangeNext, Dropped
<1> QED
  BY <1>2, <1>3

(* The store implements the one-shot exchange, for every set of ids,       *)
(* bindings, results and clock readings and every table size.              *)
THEOREM StoreImplementsExchange == Spec => ImplementsOneShotExchange
<1>1. Init => Exchange!ExchangeInit
  <2> SUFFICES ASSUME Init PROVE Exchange!ExchangeInit
    OBVIOUS
  <2>1. usedBar = {}
    BY DEF Init, usedBar
  <2>2. openBar = {} /\ heldBar = [k \in Serials |-> {}]
    BY DEF Init, openBar, heldBar, OpenIn, HeldIn, NoRow
  <2>3. deliveredBar = [k \in Serials |-> {}]
    BY DEF Init, deliveredBar, CodesOf
  <2> QED
    BY <2>1, <2>2, <2>3 DEF Exchange!ExchangeInit
<1>2. IInv /\ [Next]_storeVars => [Exchange!ExchangeNext]_(Exchange!exchangeVars)
  <2> SUFFICES ASSUME IInv, [Next]_storeVars
               PROVE  [Exchange!ExchangeNext]_(Exchange!exchangeVars)
    OBVIOUS
  <2>1. CASE UNCHANGED storeVars
    <3>1. usedBar' = usedBar /\ openBar' = openBar /\ heldBar' = heldBar
          /\ deliveredBar' = deliveredBar
      BY <2>1 DEF storeVars, usedBar, openBar, heldBar, deliveredBar,
                  OpenIn, HeldIn, CodesOf
    <3> QED
      BY <3>1 DEF Exchange!exchangeVars
  <2>2. CASE Next
    BY <2>2, CreateStep, SweepStep, CompleteStep, RedeemStep, CancelStep,
       RestartStep DEF Next, Get, Expire
  <2> QED
    BY <2>1, <2>2
<1> QED
  BY <1>1, <1>2, StoreInvariant, PTL DEF Spec, ImplementsOneShotExchange,
     Exchange!ExchangeSpec

(***************************************************************************)
(* The handlers.                                                           *)
(***************************************************************************)

(* A POST result that waits for its body knows the row its id named when   *)
(* it came.  While a live row of that id holds a token drawn before that,  *)
(* it is the row the handler saw: an id that was registered again meanwhile*)
(* has a token drawn later.                                                *)
SeenOK(s) ==
  /\ slots[s].drawn \in 0..serial
  /\ (/\ rows[slots[s].id].status \in Live
      /\ rows[slots[s].id].token <= slots[s].drawn) =>
        slots[s].seen # NoRow /\ slots[s].seen.binding = rows[slots[s].id].binding

SeenInv == \A s \in Slots : slots[s].op = "result" => SeenOK(s)

ServerInv ==
  /\ IInv /\ ServerTypeOK
  /\ TimersCoverLiveRows /\ SeenInv

(* A suspended handler is of one kind, its op.                             *)
LEMMA RequestOf ==
  ASSUME ServerTypeOK, NEW s \in Slots
  PROVE  /\ slots[s].op = "create" => slots[s] \in CreateRequest
         /\ slots[s].op = "result" => slots[s] \in ResultRequest
         /\ slots[s].op = "cancel" => slots[s] \in CancelRequest
         /\ slots[s].op = "redeem" => slots[s] \in RedeemRequest
BY DEF ServerTypeOK, CreateRequest, ResultRequest, CancelRequest, RedeemRequest, Idle

LEMMA ServerInitOK == ServerInit => ServerInv
<1> SUFFICES ASSUME ServerInit PROVE ServerInv
  OBVIOUS
<1>1. IInv
  BY InitOK DEF ServerInit
<1>2. ServerTypeOK
  BY RelayServerAssumption DEF ServerInit, ServerTypeOK
<1>3. \A t \in TransactionIds : rows[t].status = "absent"
  BY DEF ServerInit, Init, NoRow
<1>4. \A s \in Slots : slots[s].op = "idle"
  BY DEF ServerInit, Idle
<1> QED BY <1>1, <1>2, <1>3, <1>4 DEF ServerInv, TimersCoverLiveRows, SeenInv, Live

(* A step that at most ends rows and handlers: every claim about a live    *)
(* row or a waiting handler is one that held before it.                    *)
LEMMA EndsOK ==
  ASSUME ServerInv, IInv', ServerTypeOK', TimersCoverLiveRows', OnlyEnds, UNCHANGED serial,
         \A s \in Slots : slots'[s] \in {slots[s], Idle}
  PROVE  ServerInv'
<1>1. SeenInv'
  <2> SUFFICES ASSUME NEW s \in Slots, slots'[s].op = "result" PROVE SeenOK(s)'
    BY DEF SeenInv
  <2>1. slots'[s] = slots[s]
    BY DEF Idle
  <2>2. slots[s] \in ResultRequest
    BY <2>1, RequestOf DEF ServerInv
  <2>3. slots[s].id \in TransactionIds
    BY <2>2 DEF ResultRequest
  <2> QED BY <2>1, <2>3 DEF ServerInv, SeenInv, SeenOK, OnlyEnds
<1> QED BY <1>1 DEF ServerInv

(* Rows that only end stay covered by the timers there are.                *)
LEMMA CoveredOK ==
  ASSUME TimersCoverLiveRows, OnlyEnds, timers \subseteq timers', phase' # "down" => phase # "down"
  PROVE  TimersCoverLiveRows'
BY DEF TimersCoverLiveRows, OnlyEnds

LEMMA FreeOK ==
  ASSUME ServerTypeOK, NEW s \in Slots, Free(s), UNCHANGED <<wall, uptime, phase>>,
         timers' \subseteq Timer
  PROVE  ServerTypeOK' /\ \A u \in Slots : slots'[u] \in {slots[u], Idle}
BY DEF ServerTypeOK, Free

-----------------------------------------------------------------------------
(* One lemma per handler step.                                             *)

LEMMA ArrivesOK ==
  ASSUME ServerInv, NEW s \in Slots,
         ArriveCreate(s) \/ ArriveCancel(s) \/ ArriveRedeem(s) \/ ArriveResult(s)
  PROVE  ServerInv'
<1>0. /\ rows \in [TransactionIds -> Row \cup {NoRow}]
      /\ serial \in 0..MaxSerial /\ serial \in Nat
  BY RelayStoreAssumption DEF ServerInv, IInv, TypeOK
<1>1. PICK req : /\ Suspend(s, req)
                 /\ req \in CreateRequest \cup ResultRequest \cup CancelRequest \cup RedeemRequest
                 /\ req.op = "result" => req.drawn = serial /\ req.seen = rows[req.id]
                                         /\ req.id \in TransactionIds
  <2>1. CASE ArriveCreate(s)
    BY <2>1 DEF ArriveCreate, CreateRequest
  <2>2. CASE ArriveResult(s)
    BY <1>0, <2>2 DEF ArriveResult, ResultRequest, Seen
  <2>3. CASE ArriveCancel(s)
    BY <2>3 DEF ArriveCancel, CancelRequest
  <2>4. CASE ArriveRedeem(s)
    BY <2>4 DEF ArriveRedeem, RedeemRequest
  <2> QED BY <2>1, <2>2, <2>3, <2>4
<1>2. UNCHANGED storeVars
  BY <1>1 DEF Suspend
<1>3. ServerTypeOK'
  BY <1>1 DEF Suspend, ServerInv, ServerTypeOK
<1>4. IInv'
  BY <1>2, NextOK DEF ServerInv
<1>5. UNCHANGED <<rows, serial, timers, phase>>
  BY <1>1 DEF Suspend, storeVars
<1>6. TimersCoverLiveRows'
  BY <1>5 DEF ServerInv, TimersCoverLiveRows
<1>7. slots'[s] = req /\ \A u \in Slots : u # s => slots'[u] = slots[u]
  BY <1>1 DEF Suspend, ServerInv, ServerTypeOK
<1>8. SeenInv'
  <2> SUFFICES ASSUME NEW u \in Slots, slots'[u].op = "result" PROVE SeenOK(u)'
    BY DEF SeenInv
  <2>1. CASE u # s
    BY <1>5, <1>7, <2>1 DEF ServerInv, SeenInv, SeenOK
  <2>2. CASE u = s
    <3>1. slots'[u].drawn = serial /\ slots'[u].seen = rows[slots'[u].id]
      BY <1>1, <1>7, <2>2
    <3> QED BY <1>0, <1>5, <3>1 DEF SeenOK, NoRow, Live
  <2> QED BY <2>1, <2>2
<1> QED BY <1>3, <1>4, <1>6, <1>8 DEF ServerInv

LEMMA FinishCreateOK ==
  ASSUME ServerInv, NEW s \in Slots, FinishCreate(s)
  PROVE  ServerInv'
<1>0. PICK id \in TransactionIds, b \in Bindings, st \in StateValues, h \in Challenges,
           q \in Requests :
        /\ Create(id, b, st, h, q, wall)
        /\ timers' = IF CreateKind(ExpireAll(rows, wall), id, wall) = "ok"
                       THEN timers \cup {[due      |-> uptime + b.lifetime,
                                          deadline |-> wall + b.lifetime]}
                       ELSE timers
  BY DEF FinishCreate
<1> DEFINE ok == CreateKind(ExpireAll(rows, wall), id, wall) = "ok"
           tm == [due |-> uptime + b.lifetime, deadline |-> wall + b.lifetime]
<1>1. /\ wall \in Times /\ IInv /\ Free(s) /\ UNCHANGED <<wall, uptime, phase>>
      /\ timers' = IF ok THEN timers \cup {tm} ELSE timers
  BY <1>0 DEF ServerInv, ServerTypeOK, FinishCreate
<1>3. IInv'
  BY <1>0, <1>1, CreateOK
<1>4. tm \in Timer
  <2>1. b.lifetime \in Nat /\ wall \in Nat
    BY <1>1, RelayStoreAssumption
  <2>2. uptime \in Nat
    BY RelayServerAssumption DEF ServerInv, ServerTypeOK
  <2> QED BY <2>1, <2>2 DEF Timer
<1>5. timers' \subseteq Timer
  BY <1>1, <1>4 DEF ServerInv, ServerTypeOK
<1>6. ServerTypeOK' /\ \A u \in Slots : slots'[u] \in {slots[u], Idle}
  BY <1>1, <1>5, FreeOK DEF ServerInv
<1>7. \A t \in TransactionIds : rows'[t].status \in Live =>
         \/ rows'[t] = rows[t]
         \/ ok /\ rows'[t].status = "pending" /\ rows'[t].token = serial + 1
            /\ rows'[t].expiresAt = tm.deadline
  BY <1>0, <1>1, CreateRows
<1>8. serial' = serial + 1 /\ serial \in Nat
  BY <1>0, <1>1, RelayStoreAssumption DEF Create, IInv, TypeOK
<1> HIDE DEF tm, ok
<1>10. TimersCoverLiveRows'
  BY <1>1, <1>7 DEF ServerInv, TimersCoverLiveRows
<1>11. SeenInv'
  <2> SUFFICES ASSUME NEW u \in Slots, slots'[u].op = "result" PROVE SeenOK(u)'
    BY DEF SeenInv
  <2>1. slots'[u] = slots[u] /\ slots[u] \in ResultRequest
    BY <1>6, RequestOf DEF Idle, ServerInv
  <2>2. slots[u].id \in TransactionIds
    BY <2>1 DEF ResultRequest
  <2>3. SeenOK(u)
    BY <2>1 DEF ServerInv, SeenInv
  <2>4. slots[u].drawn \in 0..serial' /\ ~(serial + 1 <= slots[u].drawn)
    BY <1>8, <2>3 DEF SeenOK
  <2> QED BY <1>7, <2>1, <2>2, <2>3, <2>4 DEF SeenOK
<1> QED BY <1>3, <1>6, <1>10, <1>11 DEF ServerInv

(* The row a posted result completes: the one its token names, otherwise   *)
(* unchanged, under a code minted for that token.                          *)
LEMMA CompletesOne ==
  ASSUME IInv, NEW id \in TransactionIds, NEW k \in Serials, NEW r \in Results,
         NEW w \in Times, Complete(id, k, r, w)
  PROVE  \A t \in TransactionIds : rows'[t].status \in Live =>
           \/ rows'[t] = rows[t]
           \/ /\ t = id /\ rows[t].status \in Live /\ rows[t].token = k
              /\ rows'[t].result = r /\ rows'[t].token = rows[t].token
              /\ rows'[t].binding = rows[t].binding
              /\ rows'[t].expiresAt = rows[t].expiresAt
              /\ minted'[rows'[t].code].token = k
<1> SUFFICES ASSUME NEW t \in TransactionIds, rows'[t].status \in Live, rows'[t] # rows[t]
             PROVE  /\ t = id /\ rows[t].status \in Live /\ rows[t].token = k
                    /\ rows'[t].result = r /\ rows'[t].token = rows[t].token
                    /\ rows'[t].binding = rows[t].binding
                    /\ rows'[t].expiresAt = rows[t].expiresAt
                    /\ minted'[rows'[t].code].token = k
  OBVIOUS
<1>0. \A u \in TransactionIds : rows'[u].status \in Live =>
         \/ rows'[u] = rows[u]
         \/ /\ u = id /\ rows[u].status = "pending" /\ rows[u].token = k
            /\ rows'[u] = [rows[u] EXCEPT !.result = r, !.code = serial + 1,
                                          !.status = "completed"]
            /\ rows[u] \in Row
  BY CompleteRows
<1>1. /\ t = id /\ rows[t].status = "pending" /\ rows[t].token = k /\ rows[t] \in Row
      /\ rows'[t] = [rows[t] EXCEPT !.result = r, !.code = serial + 1, !.status = "completed"]
  BY <1>0
<1>2. ASSUME NEW row \in Row
      PROVE  LET c == [row EXCEPT !.result = r, !.code = serial + 1, !.status = "completed"]
             IN  /\ c.result = r /\ c.token = row.token /\ c.code = serial + 1
                 /\ c.binding = row.binding /\ c.expiresAt = row.expiresAt
  BY DEF Row
<1>3. minted'[serial + 1].token = k
  <2>1. CompleteKind(ExpireAll(rows, w), id, k) = "ok"
    <3>1. ASSUME rows' = ExpireAll(rows, w) PROVE FALSE
      BY <3>1, SweptLive
    <3> QED BY <3>1 DEF Complete
  <2>2. serial + 1 \in Serials
    <3>1. serial \in 0..MaxSerial /\ MaxSerial \in Nat /\ serial < MaxSerial
      BY <2>1, RelayStoreAssumption DEF IInv, TypeOK, Complete
    <3> QED BY <3>1 DEF Serials
  <2>3. minted' = [minted EXCEPT ![serial + 1] = [token |-> k, result |-> r]]
    BY <2>1 DEF Complete
  <2> QED BY <2>2, <2>3 DEF IInv, TypeOK
<1> QED BY <1>1, <1>2, <1>3 DEF Live

LEMMA FinishResultOK ==
  ASSUME ServerInv, NEW s \in Slots, FinishResult(s)
  PROVE  ServerInv'
<1>0. slots[s] \in ResultRequest /\ wall \in Times /\ IInv /\ 1..serial \subseteq Serials
  <2>1. serial \in 0..MaxSerial /\ MaxSerial \in Nat
    BY RelayStoreAssumption DEF ServerInv, IInv, TypeOK
  <2> QED BY <2>1, RequestOf DEF ServerInv, ServerTypeOK, FinishResult, Serials
<1>1. PICK k \in 1..serial, r \in Results : Complete(slots[s].id, k, r, wall)
  BY DEF FinishResult
<1>2. slots[s].id \in TransactionIds /\ k \in Serials
  BY <1>0 DEF ResultRequest
<1>3. IInv'
  BY <1>0, <1>1, <1>2, CompleteOK
<1>4. ServerTypeOK' /\ \A u \in Slots : slots'[u] \in {slots[u], Idle}
  BY FreeOK DEF ServerInv, ServerTypeOK, FinishResult
<1>5. \A t \in TransactionIds : rows'[t].status \in Live =>
         \/ rows'[t] = rows[t]
         \/ /\ rows[t].status \in Live /\ rows'[t].token = rows[t].token
            /\ rows'[t].binding = rows[t].binding /\ rows'[t].expiresAt = rows[t].expiresAt
  BY <1>0, <1>1, <1>2, CompletesOne
<1>6. TimersCoverLiveRows'
  BY <1>5 DEF ServerInv, TimersCoverLiveRows, FinishResult
<1>7. SeenInv'
  <2> SUFFICES ASSUME NEW u \in Slots, slots'[u].op = "result" PROVE SeenOK(u)'
    BY DEF SeenInv
  <2>1. slots'[u] = slots[u] /\ slots[u] \in ResultRequest
    BY <1>4, RequestOf DEF Idle, ServerInv
  <2>2. slots[u].id \in TransactionIds /\ SeenOK(u)
    BY <2>1 DEF ResultRequest, ServerInv, SeenInv
  <2>3. serial' \in {serial, serial + 1} /\ serial \in Nat
    BY <1>0, <1>1, RelayStoreAssumption DEF Complete, IInv, TypeOK
  <2>4. slots[u].drawn \in 0..serial'
    BY <2>2, <2>3 DEF SeenOK
  <2> QED BY <1>5, <2>1, <2>2, <2>4 DEF SeenOK
<1> QED BY <1>3, <1>4, <1>6, <1>7 DEF ServerInv

LEMMA FinishSpendsOK ==
  ASSUME ServerInv, NEW s \in Slots, FinishRedeem(s) \/ FinishCancel(s)
  PROVE  ServerInv'
<1>1. Free(s) /\ UNCHANGED <<wall, uptime, phase, timers>> /\ IInv /\ wall \in Times
  BY DEF FinishRedeem, FinishCancel, ServerInv, ServerTypeOK
<1>2. ServerTypeOK' /\ \A u \in Slots : slots'[u] \in {slots[u], Idle}
  BY <1>1, FreeOK DEF ServerInv, ServerTypeOK
<1>3. IInv' /\ OnlyEnds /\ UNCHANGED serial
  <2>1. CASE FinishRedeem(s)
    <3>1. 1..serial \subseteq Serials
      <4>1. serial \in 0..MaxSerial /\ MaxSerial \in Nat
        BY <1>1, RelayStoreAssumption DEF IInv, TypeOK
      <4> QED BY <4>1 DEF Serials
    <3>2. PICK id \in TransactionIds, o \in Origins, st \in StateValues, h \in Challenges,
               c \in Serials : Redeem(id, o, st, c, h, wall)
      BY <2>1, <3>1 DEF FinishRedeem
    <3> QED BY <1>1, <3>2, RedeemOK, RedeemRows
  <2>2. CASE FinishCancel(s)
    <3>1. slots[s].id \in TransactionIds
      BY <2>2, RequestOf DEF FinishCancel, ServerInv, CancelRequest
    <3>2. PICK body \in TransactionIds, o \in Origins, st \in StateValues, h \in Challenges :
            Cancel(slots[s].id, body, o, st, h, wall)
      BY <2>2 DEF FinishCancel
    <3> QED BY <1>1, <3>1, <3>2, CancelOK, CancelRows
  <2> QED BY <2>1, <2>2
<1>4. TimersCoverLiveRows'
  BY <1>1, <1>3, CoveredOK DEF ServerInv
<1> QED BY <1>2, <1>3, <1>4, EndsOK

LEMMA SweepingOK ==
  ASSUME ServerInv, NEW id \in TransactionIds, GetTransaction(id)
  PROVE  ServerInv'
<1>1. rows' = ExpireAll(rows, wall) /\ UNCHANGED <<serial, histVars, serverVars>> /\ wall \in Nat
  BY TimesAreNat DEF GetTransaction, Get, ServerInv, ServerTypeOK
<1>2. IInv' /\ OnlyEnds
  BY <1>1, SweepOK, SweepEnds DEF ServerInv
<1>3. ServerTypeOK' /\ \A u \in Slots : slots'[u] \in {slots[u], Idle}
  BY <1>1 DEF ServerInv, ServerTypeOK, serverVars
<1>4. TimersCoverLiveRows'
  BY <1>1, <1>2, CoveredOK DEF ServerInv, serverVars
<1> QED BY <1>1, <1>2, <1>3, <1>4, EndsOK

(* The timer's sweep ends every row it stood for, so the timer is not      *)
(* missed, whatever the wall clock reads.                                  *)
LEMMA TimerFiresOK ==
  ASSUME ServerInv, NEW tm \in timers, TimerFires(tm)
  PROVE  ServerInv'
<1> DEFINE w == MaxOf(wall, tm.deadline)
<1>1. wall \in Nat /\ tm.deadline \in Nat
  BY TimesAreNat DEF ServerInv, ServerTypeOK, Timer
<1>2. w \in Nat /\ tm.deadline <= w
  BY <1>1 DEF MaxOf
<1>3. /\ rows' = ExpireAll(rows, w) /\ timers' = timers \ {tm}
      /\ UNCHANGED <<serial, histVars, slots, wall, uptime, phase>>
  BY DEF TimerFires, Expire
<1> HIDE DEF w
<1>4. IInv' /\ OnlyEnds /\ \A t \in TransactionIds : rows'[t].status \in Live => w < rows'[t].expiresAt
  BY <1>2, <1>3, SweepOK, SweepEnds DEF ServerInv
<1>5. \A t \in TransactionIds : rows'[t].status \in Live => rows'[t].expiresAt # tm.deadline
  <2>1. \A t \in TransactionIds : rows'[t].status \in Live => rows'[t].expiresAt \in Nat
    BY <1>4 DEF IInv, TypeOK, Row, NoRow, Live
  <2> QED BY <1>1, <1>2, <1>4, <2>1
<1>6. TimersCoverLiveRows'
  BY <1>3, <1>4, <1>5 DEF ServerInv, TimersCoverLiveRows, OnlyEnds
<1>7. ServerTypeOK' /\ \A u \in Slots : slots'[u] \in {slots[u], Idle}
  BY <1>3 DEF ServerInv, ServerTypeOK
<1> QED BY <1>3, <1>4, <1>6, <1>7, EndsOK

LEMMA QuietOK ==
  ASSUME ServerInv,
         \/ \E s \in Slots : Reject(s)
         \/ Tick \/ SetWall \/ Stop \/ Closed \/ Crash \/ UNCHANGED vars
  PROVE  ServerInv'
<1>1. UNCHANGED storeVars
  BY DEF Reject, Tick, SetWall, Stop, Closed, Crash, vars
<1>2. IInv' /\ OnlyEnds /\ UNCHANGED serial
  BY <1>1, NextOK DEF ServerInv, OnlyEnds, storeVars
<1>3. /\ \A u \in Slots : slots'[u] \in {slots[u], Idle}
      /\ slots' \in [Slots -> CreateRequest \cup ResultRequest \cup CancelRequest
                                \cup RedeemRequest \cup {Idle}]
  BY DEF Reject, Free, Tick, SetWall, Stop, Closed, Crash, vars, serverVars, ServerInv, ServerTypeOK
<1>4. wall' \in Times /\ timers' \subseteq Timer /\ phase' \in {"up", "closing", "down"}
  BY DEF Reject, Tick, SetWall, Stop, Closed, Crash, vars, serverVars, ServerInv, ServerTypeOK
<1>5. uptime' \in 0..MaxUptime
  BY RelayServerAssumption DEF Reject, Tick, SetWall, Stop, Closed, Crash, vars, serverVars, ServerInv, ServerTypeOK
<1>6. ServerTypeOK'
  BY <1>3, <1>4, <1>5 DEF ServerTypeOK
<1>7. phase' # "down" => phase # "down" /\ timers' = timers
  BY DEF Reject, Tick, SetWall, Stop, Closed, Crash, vars, serverVars, ServerInv, ServerTypeOK
<1>8. TimersCoverLiveRows'
  BY <1>2, <1>7 DEF ServerInv, TimersCoverLiveRows, OnlyEnds
<1> QED BY <1>2, <1>3, <1>6, <1>8, EndsOK

LEMMA StartOK ==
  ASSUME ServerInv, Start
  PROVE  ServerInv'
<1>1. IInv'
  BY RestartOK DEF Start, ServerInv
<1>2. \A t \in TransactionIds : rows'[t].status = "absent"
  BY DEF Start, Restart, NoRow
<1>3. OnlyEnds /\ TimersCoverLiveRows'
  BY <1>2 DEF OnlyEnds, TimersCoverLiveRows, Live
<1>4. UNCHANGED <<serial, slots>> /\ ServerTypeOK'
  BY DEF Start, Restart, ServerInv, ServerTypeOK
<1> QED BY <1>1, <1>3, <1>4, EndsOK

(* Whatever waits for a body, fires, stops or dies, the table keeps the    *)
(* invariant the store was proved to have: the handlers and the timers     *)
(* call its methods as its clients may.                                    *)
THEOREM ServerInvariant == ServerSpec => []ServerInv
<1>1. ServerInv /\ [ServerNext]_vars => ServerInv'
  BY ArrivesOK, FinishCreateOK, FinishResultOK, FinishSpendsOK, SweepingOK, TimerFiresOK, QuietOK,
     StartOK DEF ServerNext
<1> QED BY <1>1, ServerInitOK, PTL DEF ServerSpec

(* POST result picks its parser from the row it saw before the await, and  *)
(* yet a result posted under a token drawn before its request came is one  *)
(* of the operation of the row it completes.                               *)
THEOREM ServerResultFits == ServerSpec => ResultFitsOperation
<1> DEFINE Fits(s, t) ==
      (/\ slots[s].op = "result" /\ slots'[s] = Idle
       /\ rows[t].status # "completed" /\ rows'[t].status = "completed"
       /\ minted'[rows'[t].code].token <= slots[s].drawn) =>
         rows'[t].result.operation = rows'[t].binding.operation
<1>1. ASSUME ServerInv, [ServerNext]_vars, NEW s \in Slots, NEW t \in TransactionIds,
             slots[s].op = "result", slots'[s] = Idle,
             rows[t].status # "completed", rows'[t].status = "completed",
             minted'[rows'[t].code].token <= slots[s].drawn
      PROVE  rows'[t].result.operation = rows'[t].binding.operation
  <2>1. slots'[s] # slots[s] /\ rows'[t] # rows[t]
    BY <1>1 DEF Idle
  <2>2. ASSUME NEW u \in Slots, u # s, Free(u) PROVE FALSE
    BY <1>1, <2>1, <2>2 DEF Free, ServerInv, ServerTypeOK
  <2>3. ASSUME NEW u \in Slots, NEW req, Suspend(u, req) PROVE FALSE
    BY <1>1, <2>1, <2>3 DEF Suspend, storeVars
  <2>4. FinishResult(s)
    <3>1. CASE \E u \in Slots : Reject(u) \/ FinishCreate(u) \/ FinishResult(u)
                                \/ FinishCancel(u) \/ FinishRedeem(u)
      <4>1. PICK u \in Slots : Reject(u) \/ FinishCreate(u) \/ FinishResult(u)
                                \/ FinishCancel(u) \/ FinishRedeem(u)
        BY <3>1
      <4>2. u = s
        BY <2>2, <4>1 DEF Reject, FinishCreate, FinishResult, FinishCancel, FinishRedeem
      <4>3. ~Reject(s)
        BY <2>1 DEF Reject, storeVars
      <4> QED BY <1>1, <4>1, <4>2, <4>3 DEF FinishCreate, FinishCancel, FinishRedeem
    <3>2. CASE \E u \in Slots : ArriveCreate(u) \/ ArriveResult(u) \/ ArriveCancel(u)
                                \/ ArriveRedeem(u)
      BY <2>3, <3>2 DEF ArriveCreate, ArriveResult, ArriveCancel, ArriveRedeem
    <3>3. CASE (\E id \in TransactionIds : GetTransaction(id)) \/ (\E tm \in timers : TimerFires(tm))
               \/ Tick \/ SetWall \/ Stop \/ Closed \/ Crash \/ Start \/ UNCHANGED vars
      BY <2>1, <3>3 DEF GetTransaction, TimerFires, Tick, SetWall, Stop, Closed, Crash, Start,
         vars, serverVars, storeVars
    <3> QED BY <1>1, <3>1, <3>2, <3>3 DEF ServerNext
  <2>5. slots[s] \in ResultRequest /\ wall \in Times /\ IInv /\ 1..serial \subseteq Serials
        /\ SeenOK(s)
    <3>1. serial \in 0..MaxSerial /\ MaxSerial \in Nat
      BY <1>1, RelayStoreAssumption DEF ServerInv, IInv, TypeOK
    <3> QED BY <1>1, <3>1, RequestOf DEF ServerInv, ServerTypeOK, SeenInv, Serials
  <2>6. PICK k \in 1..serial, r \in Results :
          Complete(slots[s].id, k, r, wall) /\ r.operation = slots[s].seen.binding.operation
    BY <2>4 DEF FinishResult
  <2>7. slots[s].id \in TransactionIds /\ k \in Serials
    BY <2>5 DEF ResultRequest
  <2>8. /\ t = slots[s].id /\ rows[t].status \in Live /\ rows[t].token = k
        /\ rows'[t].result = r /\ rows'[t].binding = rows[t].binding
        /\ minted'[rows'[t].code].token = k
    BY <1>1, <2>1, <2>5, <2>6, <2>7, CompletesOne DEF Live
  <2>9. slots[s].seen.binding = rows[t].binding
    BY <1>1, <2>5, <2>8 DEF SeenOK
  <2> QED BY <2>6, <2>8, <2>9
<1>2. ServerInv /\ [ServerNext]_vars =>
        [\A s \in Slots, t \in TransactionIds : Fits(s, t)]_vars
  BY <1>1
<1> QED BY <1>2, ServerInvariant, PTL DEF ServerSpec, ResultFitsOperation

(* While the process runs, a timer is armed for the deadline of every row  *)
(* that still holds secrets (scheduleExpiry and the callbacks it arms).    *)
THEOREM ServerTimesRows == ServerSpec => []LiveRowsAreTimed
<1>1. ServerInv => LiveRowsAreTimed
  BY DEF ServerInv, LiveRowsAreTimed
<1> QED BY <1>1, ServerInvariant, PTL

(***************************************************************************)
(* The rate limiter.                                                       *)
(***************************************************************************)

LimiterInv == LimiterTypeOK /\ MapBounded /\ CountsBounded

(* What is left after the sweep is part of the map, and no larger.         *)
LEMMA SweptKeysOK ==
  ASSUME LimiterInv, NEW key \in Keys
  PROVE  /\ Swept(key) \subseteq DOMAIN buckets
         /\ IsFiniteSet(Swept(key))
         /\ Cardinality(Swept(key)) \in Nat
         /\ Cardinality(Swept(key)) <= MaxBuckets
<1>1. Swept(key) \subseteq DOMAIN buckets
  BY DEF Swept, LiveKeys
<1>2. IsFiniteSet(DOMAIN buckets) /\ Cardinality(DOMAIN buckets) <= MaxBuckets
  BY DEF LimiterInv, MapBounded
<1>3. /\ IsFiniteSet(Swept(key))
      /\ Cardinality(Swept(key)) <= Cardinality(DOMAIN buckets)
  BY <1>1, <1>2, FS_Subset
<1>4. Cardinality(Swept(key)) \in Nat /\ Cardinality(DOMAIN buckets) \in Nat
  BY <1>2, <1>3, FS_CardinalityType
<1> QED
  BY <1>1, <1>2, <1>3, <1>4, RateLimiterAssumption

LEMMA AdmitOK ==
  ASSUME LimiterTypeOK, NEW key \in Keys, Admit(key)
  PROVE  through' \in [Keys -> [0..MaxNow -> Nat]] /\ refused' \subseteq Keys
<1>1. through[key] \in [0..MaxNow -> Nat] /\ now \in 0..MaxNow
  BY DEF LimiterTypeOK
<1>2. [t \in 0..MaxNow |-> IF t < now THEN through[key][t] ELSE through[key][t] + 1]
        \in [0..MaxNow -> Nat]
  <2>1. ASSUME NEW f \in [0..MaxNow -> Nat], NEW t \in 0..MaxNow
        PROVE  (IF t < now THEN f[t] ELSE f[t] + 1) \in Nat
    <3>1. f[t] \in Nat
      OBVIOUS
    <3> QED  BY <3>1
  <2> QED  BY <1>1, <2>1
<1>3. through' = [through EXCEPT ![key] =
                    [t \in 0..MaxNow |-> IF t < now THEN through[key][t] ELSE through[key][t] + 1]]
  BY DEF Admit, LimiterTypeOK
<1> QED
  BY <1>2, <1>3 DEF LimiterTypeOK, Admit

(* Every call of take, and the passing of time, preserves the bounds.      *)
LEMMA LimiterStep == ASSUME LimiterInv, [LimiterNext]_limiterVars PROVE LimiterInv'
<1>0. /\ now \in 0..MaxNow /\ now \in Nat /\ MaxNow \in Nat
      /\ DOMAIN buckets \subseteq Keys
      /\ \A k \in DOMAIN buckets : /\ buckets[k] \in Bucket
                                   /\ buckets[k].count <= MaxRequests[k]
                                   /\ buckets[k].startedAt <= now
                                   /\ MaxRequests[k] \in Nat \ {0}
  BY RateLimiterAssumption DEF LimiterInv, LimiterTypeOK, CountsBounded
<1>1. CASE UNCHANGED limiterVars
  BY <1>1 DEF limiterVars, LimiterInv, LimiterTypeOK, MapBounded, CountsBounded
<1>2. CASE LimiterTick
  <2>1. now' \in 0..MaxNow /\ now < now'
    BY <1>0, <1>2 DEF LimiterTick
  <2>2. \A k \in DOMAIN buckets : buckets[k].startedAt <= now'
    BY <1>0, <2>1 DEF Bucket
  <2> QED
    BY <1>2, <2>1, <2>2 DEF LimiterTick, LimiterInv, LimiterTypeOK, MapBounded, CountsBounded
<1>3. ASSUME NEW key \in Keys, TakeInWindow(key) PROVE LimiterInv'
  <2>1. /\ DOMAIN buckets' = DOMAIN buckets
        /\ \A k \in DOMAIN buckets :
             buckets'[k] = IF k = key THEN [buckets[k] EXCEPT !.count = @ + 1]
                                      ELSE buckets[k]
        /\ buckets' = [k \in DOMAIN buckets |-> buckets'[k]]
    BY <1>3 DEF TakeInWindow, LimiterInv, LimiterTypeOK
  <2>2. \A k \in DOMAIN buckets : /\ buckets'[k] \in Bucket
                                  /\ buckets'[k].count <= MaxRequests[k]
                                  /\ buckets'[k].startedAt <= now
    BY <1>0, <1>3, <2>1 DEF TakeInWindow, Bucket
  <2> QED
    BY <1>0, <1>3, <2>1, <2>2, AdmitOK
       DEF TakeInWindow, LimiterInv, LimiterTypeOK, MapBounded, CountsBounded
<1>4. ASSUME NEW key \in Keys, TakeAfterWindow(key) PROVE LimiterInv'
  <2>1. /\ DOMAIN buckets' = DOMAIN buckets
        /\ \A k \in DOMAIN buckets :
             buckets'[k] = IF k = key THEN [count |-> 1, startedAt |-> now]
                                      ELSE buckets[k]
        /\ buckets' = [k \in DOMAIN buckets |-> buckets'[k]]
    BY <1>4 DEF TakeAfterWindow, LimiterInv, LimiterTypeOK
  <2>2. \A k \in DOMAIN buckets : /\ buckets'[k] \in Bucket
                                  /\ buckets'[k].count <= MaxRequests[k]
                                  /\ buckets'[k].startedAt <= now
    BY <1>0, <1>4, <2>1 DEF Bucket
  <2> QED
    BY <1>0, <1>4, <2>1, <2>2, AdmitOK
       DEF TakeAfterWindow, LimiterInv, LimiterTypeOK, MapBounded, CountsBounded
<1>5. ASSUME NEW key \in Keys, TakeNew(key) PROVE LimiterInv'
  <2> DEFINE S == Swept(key)
  <2>1. /\ S \subseteq DOMAIN buckets /\ IsFiniteSet(S) /\ Cardinality(S) \in Nat
        /\ Cardinality(S) < MaxBuckets /\ key \notin S
    BY <1>5, SweptKeysOK DEF TakeNew
  <2>2. /\ DOMAIN buckets' = S \cup {key}
        /\ \A k \in S \cup {key} :
             buckets'[k] = IF k = key THEN [count |-> 1, startedAt |-> now]
                                      ELSE buckets[k]
        /\ buckets' = [k \in S \cup {key} |-> buckets'[k]]
    BY <1>5 DEF TakeNew
  <2>3. \A k \in S \cup {key} : /\ buckets'[k] \in Bucket
                                /\ buckets'[k].count <= MaxRequests[k]
                                /\ buckets'[k].startedAt <= now
    <3>1. MaxRequests[key] >= 1
      BY RateLimiterAssumption
    <3> QED
      BY <1>0, <2>1, <2>2, <3>1 DEF Bucket
  <2>4. IsFiniteSet(S \cup {key}) /\ Cardinality(S \cup {key}) = Cardinality(S) + 1
    BY <2>1, FS_AddElement
  <2>5. MapBounded'
    BY <2>1, <2>2, <2>4, RateLimiterAssumption DEF MapBounded
  <2>6. now' = now /\ Admit(key)
    BY <1>5 DEF TakeNew
  <2>7. LimiterTypeOK'
    <3>1. buckets' \in [DOMAIN buckets' -> Bucket] /\ DOMAIN buckets' \subseteq Keys
      BY <1>0, <2>1, <2>2, <2>3
    <3> QED
      BY <1>0, <2>6, <3>1, AdmitOK DEF LimiterInv, LimiterTypeOK
  <2> QED
    BY <2>2, <2>3, <2>5, <2>6, <2>7 DEF LimiterInv, CountsBounded
<1>6. ASSUME NEW key \in Keys, RefuseNew(key) PROVE LimiterInv'
  <2> DEFINE S == Swept(key)
  <2>1. S \subseteq DOMAIN buckets /\ IsFiniteSet(S) /\ Cardinality(S) <= MaxBuckets
    BY SweptKeysOK
  <2>2. /\ buckets' = [k \in S |-> buckets[k]] /\ UNCHANGED <<now, through>>
        /\ refused' = refused \cup {key}
    BY <1>6 DEF RefuseNew, Refuse
  <2> HIDE DEF S
  <2> QED
    BY <1>0, <2>1, <2>2 DEF LimiterInv, LimiterTypeOK, MapBounded, CountsBounded
<1>7. ASSUME NEW key \in Keys, RefuseInWindow(key) PROVE LimiterInv'
  BY <1>7 DEF RefuseInWindow, Refuse, LimiterInv, LimiterTypeOK, MapBounded, CountsBounded
<1> QED
  BY <1>1, <1>2, <1>3, <1>4, <1>5, <1>6, <1>7 DEF LimiterNext, Take

LEMMA LimiterStarts == LimiterInit => LimiterInv
<1> SUFFICES ASSUME LimiterInit PROVE LimiterInv
  OBVIOUS
<1>1. DOMAIN buckets = {}
  BY DEF LimiterInit
<1>2. IsFiniteSet(DOMAIN buckets) /\ Cardinality(DOMAIN buckets) = 0
  BY <1>1, FS_EmptySet
<1>3. buckets \in [DOMAIN buckets -> Bucket]
  BY <1>1 DEF LimiterInit
<1>4. /\ now \in 0..MaxNow /\ through \in [Keys -> [0..MaxNow -> Nat]]
      /\ refused \subseteq Keys
  BY RateLimiterAssumption DEF LimiterInit
<1> QED
  BY <1>1, <1>2, <1>3, <1>4, RateLimiterAssumption
     DEF LimiterInv, LimiterTypeOK, MapBounded, CountsBounded

(* While the clock stands, a call of take leaves every running bucket in   *)
(* the map and every used-up one used up.                                  *)
LEMMA RunningStays ==
  ASSUME LimiterInv, LimiterInv', NEW key \in Keys, Take(key)
  PROVE  /\ LiveKeys \subseteq LiveKeys'
         /\ \A k \in LiveKeys : buckets[k].count >= MaxRequests[k] => buckets'[k] = buckets[k]
         /\ IsFiniteSet(LiveKeys')
         /\ Cardinality(LiveKeys) \in Nat /\ Cardinality(LiveKeys') \in Nat
         /\ Cardinality(LiveKeys) <= Cardinality(LiveKeys')
<1>0. /\ now \in Nat /\ DOMAIN buckets \subseteq Keys
      /\ \A k \in DOMAIN buckets : buckets[k] \in Bucket /\ MaxRequests[k] \in Nat
      /\ Window \in Nat \ {0}
      /\ buckets = [k \in DOMAIN buckets |-> buckets[k]]
  BY RateLimiterAssumption DEF LimiterInv, LimiterTypeOK
<1>1. /\ LiveKeys \subseteq LiveKeys'
      /\ \A k \in LiveKeys : buckets[k].count >= MaxRequests[k] => buckets'[k] = buckets[k]
  <2>1. CASE TakeInWindow(key)
    <3>1. /\ DOMAIN buckets' = DOMAIN buckets
          /\ \A k \in DOMAIN buckets :
               /\ buckets'[k].startedAt = buckets[k].startedAt
               /\ k # key => buckets'[k] = buckets[k]
      BY <1>0, <2>1 DEF TakeInWindow, Bucket
    <3>2. now' = now /\ ~(buckets[key].count >= MaxRequests[key])
      BY <1>0, <2>1 DEF TakeInWindow, Bucket
    <3> QED
      BY <3>1, <3>2 DEF LiveKeys, Running
  <2>2. CASE RefuseInWindow(key)
    BY <2>2 DEF RefuseInWindow, LiveKeys, Running
  <2>3. CASE TakeAfterWindow(key)
    <3>1. /\ DOMAIN buckets' = DOMAIN buckets /\ now' = now
          /\ \A k \in DOMAIN buckets : k # key => buckets'[k] = buckets[k]
          /\ key \notin LiveKeys
      BY <1>0, <2>3 DEF TakeAfterWindow, LiveKeys
    <3> QED
      BY <3>1 DEF LiveKeys, Running
  <2>4. ASSUME TakeNew(key) \/ RefuseNew(key)
        PROVE  /\ LiveKeys \subseteq LiveKeys'
               /\ \A k \in LiveKeys : buckets'[k] = buckets[k]
    <3>1. LiveKeys \subseteq Swept(key) /\ key \notin LiveKeys
      BY <2>4 DEF Swept, LiveKeys, TakeNew, RefuseNew
    <3>2. /\ now' = now /\ Swept(key) \subseteq DOMAIN buckets'
          /\ \A k \in Swept(key) : k # key => buckets'[k] = buckets[k]
      BY <2>4 DEF TakeNew, RefuseNew
    <3> QED
      BY <3>1, <3>2 DEF LiveKeys, Running
  <2> QED
    BY <2>1, <2>2, <2>3, <2>4 DEF Take
<1>2. IsFiniteSet(DOMAIN buckets')
  BY DEF LimiterInv, MapBounded
<1>3. LiveKeys' \subseteq DOMAIN buckets'
  BY DEF LiveKeys
<1>4. IsFiniteSet(LiveKeys')
  BY <1>2, <1>3, FS_Subset
<1> QED
  BY <1>1, <1>4, FS_Subset, FS_CardinalityType

(* The map of buckets never outgrows maxBuckets and no bucket counts past  *)
(* its key's maximum, for any keys, limits and window.                     *)
THEOREM LimiterBounds == LimiterSpec => [](MapBounded /\ CountsBounded)
<1>1. LimiterInit => LimiterInv
  BY LimiterStarts
<1>2. LimiterInv /\ [LimiterNext]_limiterVars => LimiterInv'
  BY LimiterStep
<1>3. LimiterInv => MapBounded /\ CountsBounded
  BY DEF LimiterInv
<1> QED
  BY <1>1, <1>2, <1>3, PTL DEF LimiterSpec

(* No key is refused but for its own used-up window or a map full of       *)
(* running ones, for any keys, limits and window.                          *)
THEOREM LimiterRefusals == LimiterSpec => []RefusedOnlyWhenFull
<1>1. LimiterInit => LimiterInv /\ RefusedOnlyWhenFull
  BY LimiterStarts DEF LimiterInit, RefusedOnlyWhenFull
<1>2. ASSUME LimiterInv, RefusedOnlyWhenFull, [LimiterNext]_limiterVars
      PROVE  LimiterInv' /\ RefusedOnlyWhenFull'
  <2>1. LimiterInv'
    BY <1>2, LimiterStep
  <2>2. ASSUME UNCHANGED limiterVars PROVE RefusedOnlyWhenFull'
    BY <1>2, <2>2 DEF limiterVars, RefusedOnlyWhenFull, LiveKeys, Running
  <2>3. ASSUME LimiterTick PROVE RefusedOnlyWhenFull'
    BY <2>3 DEF LimiterTick, RefusedOnlyWhenFull
  <2>4. ASSUME NEW key \in Keys, Take(key) PROVE RefusedOnlyWhenFull'
    <3>1. /\ LiveKeys \subseteq LiveKeys'
          /\ \A k \in LiveKeys : buckets[k].count >= MaxRequests[k] => buckets'[k] = buckets[k]
          /\ Cardinality(LiveKeys) \in Nat /\ Cardinality(LiveKeys') \in Nat
          /\ Cardinality(LiveKeys) <= Cardinality(LiveKeys')
      BY <1>2, <2>1, <2>4, RunningStays
    <3>2. \A k \in refused :
            \/ k \in LiveKeys' /\ buckets'[k].count >= MaxRequests[k]
            \/ Cardinality(LiveKeys') >= MaxBuckets
      BY <1>2, <3>1, RateLimiterAssumption DEF RefusedOnlyWhenFull
    <3>3. CASE RefuseInWindow(key)
      <4>1. key \in LiveKeys /\ buckets[key].count >= MaxRequests[key]
        BY <3>3 DEF RefuseInWindow, LiveKeys
      <4>2. refused' = refused \cup {key}
        BY <3>3 DEF RefuseInWindow, Refuse
      <4> QED
        BY <3>1, <3>2, <4>1, <4>2 DEF RefusedOnlyWhenFull
    <3>4. CASE RefuseNew(key)
      <4>1. Cardinality(Swept(key)) >= MaxBuckets /\ key \notin DOMAIN buckets
        BY <3>4 DEF RefuseNew
      <4>2. Cardinality(DOMAIN buckets) \in Nat /\ MaxBuckets \in Nat
        BY <1>2, FS_CardinalityType, RateLimiterAssumption DEF LimiterInv, MapBounded
      <4>3. Swept(key) = LiveKeys
        BY <4>1, <4>2 DEF Swept
      <4>4. refused' = refused \cup {key}
        BY <3>4 DEF RefuseNew, Refuse
      <4>5. Cardinality(LiveKeys') >= MaxBuckets
        BY <3>1, <4>1, <4>2, <4>3
      <4> QED
        BY <3>2, <4>4, <4>5 DEF RefusedOnlyWhenFull
    <3>5. CASE TakeInWindow(key) \/ TakeAfterWindow(key) \/ TakeNew(key)
      <4>1. refused' = refused
        BY <3>5 DEF TakeInWindow, TakeAfterWindow, TakeNew, Admit
      <4> QED
        BY <3>2, <4>1 DEF RefusedOnlyWhenFull
    <3> QED
      BY <2>4, <3>3, <3>4, <3>5 DEF Take
  <2> QED
    BY <1>2, <2>1, <2>2, <2>3, <2>4 DEF LimiterNext
<1> QED
  BY <1>1, <1>2, PTL DEF LimiterSpec

-----------------------------------------------------------------------------
(* How much a key gets through.  The invariant, key by key.                *)

(* Nothing is counted ahead of the clock: at and after now the history of  *)
(* a key says what it got through so far.                                  *)
ThroughOK(k) ==
  /\ \A t, u \in 0..MaxNow : t <= u => through[k][t] <= through[k][u]
  /\ \A t \in now..MaxNow : through[k][t] = through[k][now]

(* A key's bucket counts all that got through since its window began, and  *)
(* that was before the window's end; in the length of a window before it   *)
(* the key got at most its maximum.                                        *)
BucketCounts(k) ==
  LET s == buckets[k].startedAt IN
  /\ through[k][now] - Before(k, s) = buckets[k].count
  /\ \A t \in 0..MaxNow : t >= s + Window - 1 => through[k][t] = through[k][now]
  /\ \A t \in 0..s : s - t < Window => Before(k, s) - Before(k, t) <= MaxRequests[k]

(* A key without a bucket got nothing through at this reading, and at most *)
(* its maximum in the length of a window that ends here: a sweep takes     *)
(* only buckets whose window has run out.                                  *)
NoBucketCounts(k) ==
  /\ Before(k, now) = through[k][now]
  /\ \A t \in 0..now : now - t < Window => through[k][now] - Before(k, t) <= MaxRequests[k]

Twice(k) ==
  \A t, u \in 0..MaxNow :
    t <= u /\ u - t < Window => through[k][u] - Before(k, t) <= 2 * MaxRequests[k]

KeyOK(k) ==
  /\ ThroughOK(k)
  /\ k \in DOMAIN buckets => BucketCounts(k)
  /\ k \notin DOMAIN buckets => NoBucketCounts(k)
  /\ Twice(k)

WindowInv == LimiterInv /\ \A k \in Keys : KeyOK(k)

(* What the history and the bounds say of a key, as numbers.               *)
LEMMA Numbers ==
  ASSUME LimiterInv, NEW k \in Keys
  PROVE  /\ now \in 0..MaxNow /\ now \in Nat /\ MaxNow \in Nat /\ Window \in Nat \ {0}
         /\ MaxRequests[k] \in Nat \ {0}
         /\ \A t \in 0..MaxNow : through[k][t] \in Nat /\ Before(k, t) \in Nat
         /\ k \in DOMAIN buckets => /\ buckets[k].startedAt \in 0..now
                                    /\ buckets[k].count \in Nat \ {0}
                                    /\ buckets[k].count <= MaxRequests[k]
<1>1. /\ now \in 0..MaxNow /\ now \in Nat /\ MaxNow \in Nat /\ Window \in Nat \ {0}
      /\ MaxRequests[k] \in Nat \ {0}
  BY RateLimiterAssumption DEF LimiterInv, LimiterTypeOK
<1>2. \A t \in 0..MaxNow : through[k][t] \in Nat
  BY DEF LimiterInv, LimiterTypeOK
<1>3. \A t \in 0..MaxNow : Before(k, t) \in Nat
  <2> SUFFICES ASSUME NEW t \in 0..MaxNow PROVE Before(k, t) \in Nat
    OBVIOUS
  <2>1. t # 0 => t - 1 \in 0..MaxNow
    BY <1>1
  <2> QED  BY <1>2, <2>1 DEF Before
<1>4. k \in DOMAIN buckets => /\ buckets[k].startedAt \in 0..now
                             /\ buckets[k].count \in Nat \ {0}
                             /\ buckets[k].count <= MaxRequests[k]
  BY <1>1 DEF LimiterInv, LimiterTypeOK, CountsBounded, Bucket
<1> QED  BY <1>1, <1>2, <1>3, <1>4

(* What is before a reading is not more than up to it, and grows.          *)
LEMMA BeforeGrows ==
  ASSUME LimiterInv, NEW k \in Keys, ThroughOK(k)
  PROVE  /\ \A t, u \in 0..MaxNow : t <= u => /\ Before(k, t) <= Before(k, u)
                                             /\ Before(k, t) <= through[k][u]
         /\ \A t, u \in 0..MaxNow : t > u => Before(k, t) >= through[k][u]
<1>1. MaxNow \in Nat /\ \A t \in 0..MaxNow : through[k][t] \in Nat
  BY Numbers
<1> SUFFICES ASSUME NEW t \in 0..MaxNow, NEW u \in 0..MaxNow
             PROVE  /\ t <= u => /\ Before(k, t) <= Before(k, u)
                                 /\ Before(k, t) <= through[k][u]
                    /\ t > u => Before(k, t) >= through[k][u]
  OBVIOUS
<1>2. /\ t # 0 => t - 1 \in 0..MaxNow
      /\ u # 0 => u - 1 \in 0..MaxNow
  BY <1>1
<1>3. /\ t <= u /\ t # 0 => /\ through[k][t - 1] <= through[k][u - 1]
                            /\ through[k][t - 1] <= through[k][u]
      /\ t > u => through[k][t - 1] >= through[k][u]
  BY <1>1, <1>2 DEF ThroughOK
<1> QED  BY <1>1, <1>2, <1>3 DEF Before

-----------------------------------------------------------------------------
(* The clock moves. *)
LEMMA TickKey ==
  ASSUME LimiterInv, LimiterInv', NEW k \in Keys, KeyOK(k), LimiterTick
  PROVE  KeyOK(k)'
<1>1. /\ now' = now + 1 /\ now' \in 0..MaxNow
      /\ buckets' = buckets /\ through' = through
      /\ \A t : Before(k, t)' = Before(k, t)
  BY Numbers DEF LimiterTick, Before
<1>2. through[k][now'] = through[k][now] /\ ThroughOK(k)'
  <2>1. through[k][now'] = through[k][now]
    BY <1>1, Numbers DEF KeyOK, ThroughOK
  <2> QED  BY <1>1, <2>1, Numbers DEF KeyOK, ThroughOK
<1>3. CASE k \in DOMAIN buckets
  BY <1>1, <1>2, <1>3 DEF KeyOK, BucketCounts, Twice
<1>4. CASE k \notin DOMAIN buckets
  <2>1. Before(k, now') = through[k][now]
    BY <1>1, Numbers DEF Before
  <2>2. \A t \in 0..now' : now' - t < Window => through[k][now] - Before(k, t) <= MaxRequests[k]
    <3> SUFFICES ASSUME NEW t \in 0..now', now' - t < Window
                 PROVE  through[k][now] - Before(k, t) <= MaxRequests[k]
      OBVIOUS
    <3>1. CASE t = now'
      BY <2>1, <3>1, Numbers
    <3>2. CASE t # now'
      <4>1. t \in 0..now /\ now - t < Window
        BY <1>1, <3>2, Numbers
      <4> QED  BY <1>4, <4>1 DEF KeyOK, NoBucketCounts
    <3> QED  BY <3>1, <3>2
  <2> QED  BY <1>1, <1>2, <1>4, <2>1, <2>2 DEF KeyOK, NoBucketCounts, Twice
<1> QED  BY <1>3, <1>4

(* Another key's call, or a refusal, leaves a key and its bucket alone.    *)
LEMMA UntouchedKey ==
  ASSUME LimiterInv, NEW k \in Keys, KeyOK(k), now' = now, through'[k] = through[k],
         (k \in DOMAIN buckets') <=> (k \in DOMAIN buckets),
         k \in DOMAIN buckets => buckets'[k] = buckets[k]
  PROVE  KeyOK(k)'
<1>1. \A t : Before(k, t)' = Before(k, t)
  BY DEF Before
<1>2. ThroughOK(k)' /\ Twice(k)'
  BY <1>1 DEF KeyOK, ThroughOK, Twice
<1>3. k \in DOMAIN buckets => BucketCounts(k)'
  BY <1>1 DEF KeyOK, BucketCounts
<1>4. k \notin DOMAIN buckets => NoBucketCounts(k)'
  BY <1>1 DEF KeyOK, NoBucketCounts
<1> QED  BY <1>2, <1>3, <1>4 DEF KeyOK

(* A bucket whose window has run out says what a key without one has:      *)
(* nothing got through at this reading, and at most the maximum in the     *)
(* length of a window before it.                                           *)
LEMMA RunOut ==
  ASSUME LimiterInv, NEW k \in Keys, KeyOK(k), k \in DOMAIN buckets, ~ Running(buckets[k])
  PROVE  NoBucketCounts(k)
<1> DEFINE s == buckets[k].startedAt
<1>1. s \in 0..now /\ s + Window <= now /\ now # 0 /\ now - 1 \in 0..MaxNow
  BY Numbers DEF Running
<1>2. through[k][now - 1] = through[k][now]
  BY <1>1, Numbers DEF KeyOK, BucketCounts
<1>3. Before(k, now) = through[k][now]
  BY <1>1, <1>2 DEF Before
<1>4. ASSUME NEW t \in 0..now, now - t < Window
      PROVE  through[k][now] - Before(k, t) <= MaxRequests[k]
  <2>1. s <= t /\ t \in 0..MaxNow /\ s \in 0..MaxNow
    BY <1>1, <1>4, Numbers
  <2>2. Before(k, s) <= Before(k, t)
    BY <2>1, BeforeGrows DEF KeyOK
  <2>3. through[k][now] - Before(k, s) = buckets[k].count
    BY DEF KeyOK, BucketCounts
  <2> HIDE DEF s
  <2> QED  BY <2>1, <2>2, <2>3, Numbers
<1> QED  BY <1>3, <1>4 DEF NoBucketCounts

LEMMA SweptKey ==
  ASSUME LimiterInv, NEW k \in Keys, KeyOK(k), now' = now, through'[k] = through[k],
         k \in DOMAIN buckets, ~ Running(buckets[k]), k \notin DOMAIN buckets'
  PROVE  KeyOK(k)'
<1>1. \A t : Before(k, t)' = Before(k, t)
  BY DEF Before
<1>2. ThroughOK(k)' /\ Twice(k)'
  BY <1>1 DEF KeyOK, ThroughOK, Twice
<1>3. NoBucketCounts(k)'
  BY <1>1, RunOut DEF NoBucketCounts
<1> QED  BY <1>2, <1>3 DEF KeyOK

-----------------------------------------------------------------------------
(* What a request that is let through changes of the history.              *)
LEMMA AdmitKey ==
  ASSUME LimiterInv, NEW k \in Keys, Admit(k), now' = now
  PROVE  /\ \A t \in 0..MaxNow :
              through'[k][t] = IF t < now THEN through[k][t] ELSE through[k][t] + 1
         /\ \A t \in 0..MaxNow : Before(k, t)' = IF t <= now THEN Before(k, t) ELSE Before(k, t) + 1
         /\ \A j \in Keys \ {k} : through'[j] = through[j]
<1>1. through' = [through EXCEPT ![k] =
                    [t \in 0..MaxNow |-> IF t < now THEN through[k][t] ELSE through[k][t] + 1]]
  BY DEF Admit, LimiterInv, LimiterTypeOK
<1>2. \A t \in 0..MaxNow : through'[k][t] = IF t < now THEN through[k][t] ELSE through[k][t] + 1
  BY <1>1 DEF LimiterInv, LimiterTypeOK
<1>3. ASSUME NEW t \in 0..MaxNow
      PROVE  Before(k, t)' = IF t <= now THEN Before(k, t) ELSE Before(k, t) + 1
  <2>1. CASE t = 0
    BY <2>1, Numbers DEF Before
  <2>2. CASE t # 0
    <3>1. t - 1 \in 0..MaxNow /\ (t - 1 < now <=> t <= now)
      BY <2>2, Numbers
    <3> QED  BY <1>2, <2>2, <3>1 DEF Before
  <2> QED  BY <2>1, <2>2
<1>4. \A j \in Keys \ {k} : through'[j] = through[j]
  BY <1>1 DEF LimiterInv, LimiterTypeOK
<1> QED  BY <1>2, <1>3, <1>4

(* A request is let through and counted since s, at most the maximum,      *)
(* while the length of a window before s holds at most the maximum: no     *)
(* stretch then holds more than twice it.                                  *)
LEMMA CountedKey ==
  ASSUME LimiterInv, NEW k \in Keys, ThroughOK(k), Twice(k), Admit(k), now' = now,
         NEW s \in 0..now, now - s < Window,
         k \in DOMAIN buckets', buckets'[k].startedAt = s,
         buckets'[k].count = through[k][now] - Before(k, s) + 1,
         buckets'[k].count <= MaxRequests[k],
         \A t \in 0..s : s - t < Window => Before(k, s) - Before(k, t) <= MaxRequests[k]
  PROVE  KeyOK(k)'
<1>0. /\ now \in 0..MaxNow /\ now \in Nat /\ MaxNow \in Nat /\ Window \in Nat \ {0}
      /\ MaxRequests[k] \in Nat \ {0}
      /\ \A t \in 0..MaxNow : through[k][t] \in Nat /\ Before(k, t) \in Nat
  BY Numbers
<1>1. /\ \A t \in 0..MaxNow :
           through'[k][t] = IF t < now THEN through[k][t] ELSE through[k][t] + 1
      /\ \A t \in 0..MaxNow : Before(k, t)' = IF t <= now THEN Before(k, t) ELSE Before(k, t) + 1
  BY AdmitKey
<1>2. /\ \A t, u \in 0..MaxNow : t <= u => through[k][t] <= through[k][u]
      /\ \A t \in now..MaxNow : through[k][t] = through[k][now]
  BY DEF ThroughOK
<1>3. /\ \A t, u \in 0..MaxNow : t <= u => through'[k][t] <= through'[k][u]
      /\ \A t \in now..MaxNow : through'[k][t] = through'[k][now]
  BY <1>0, <1>1, <1>2
<1>4. /\ through'[k][now] - Before(k, s)' = buckets'[k].count
      /\ \A t \in 0..MaxNow : t >= s + Window - 1 => through'[k][t] = through'[k][now]
      /\ \A t \in 0..s : s - t < Window => Before(k, s)' - Before(k, t)' <= MaxRequests[k]
  BY <1>0, <1>1, <1>3
<1>5. ASSUME NEW t \in 0..MaxNow, NEW u \in 0..MaxNow, t <= u, u - t < Window
      PROVE  through'[k][u] - Before(k, t)' <= 2 * MaxRequests[k]
  <2>0. through[k][u] - Before(k, t) <= 2 * MaxRequests[k]
    BY <1>5 DEF Twice
  <2>1. CASE u < now
    BY <1>0, <1>1, <1>5, <2>0, <2>1
  <2>2. CASE t > now
    BY <1>0, <1>1, <1>5, <2>0, <2>2
  <2>3. CASE t <= now /\ now <= u
    <3>1. through'[k][u] = through[k][now] + 1 /\ Before(k, t)' = Before(k, t)
      BY <1>0, <1>1, <1>2, <2>3
    <3>2. through[k][now] - Before(k, s) + 1 <= MaxRequests[k]
      OBVIOUS
    <3>3. CASE t >= s
      <4>1. Before(k, s) <= Before(k, t)
        BY <1>0, <3>3, BeforeGrows
      <4> QED  BY <1>0, <3>1, <3>2, <4>1
    <3>4. CASE t < s
      <4>1. t \in 0..s /\ s - t < Window
        BY <1>0, <1>5, <2>3, <3>4
      <4>2. Before(k, s) - Before(k, t) <= MaxRequests[k]
        BY <4>1
      <4> QED  BY <1>0, <3>1, <3>2, <4>2
    <3> QED  BY <1>0, <3>3, <3>4
  <2> QED  BY <1>0, <2>1, <2>2, <2>3
<1>6. ThroughOK(k)'
  BY <1>3 DEF ThroughOK
<1>7. BucketCounts(k)'
  BY <1>4 DEF BucketCounts
<1>8. Twice(k)'
  BY <1>5 DEF Twice
<1> QED  BY <1>6, <1>7, <1>8 DEF KeyOK

(* A bucket that begins now, when nothing got through at this reading.     *)
LEMMA BegunKey ==
  ASSUME LimiterInv, NEW k \in Keys, KeyOK(k), NoBucketCounts(k), Admit(k), now' = now,
         k \in DOMAIN buckets', buckets'[k] = [count |-> 1, startedAt |-> now]
  PROVE  KeyOK(k)'
<1>1. now \in 0..now /\ now - now < Window
  BY Numbers
<1>2. /\ buckets'[k].startedAt = now
      /\ buckets'[k].count = through[k][now] - Before(k, now) + 1
      /\ buckets'[k].count <= MaxRequests[k]
  BY Numbers DEF NoBucketCounts
<1>3. \A t \in 0..now : now - t < Window => Before(k, now) - Before(k, t) <= MaxRequests[k]
  BY DEF NoBucketCounts
<1> QED  BY <1>1, <1>2, <1>3, CountedKey DEF KeyOK

LEMMA WindowStep == ASSUME WindowInv, [LimiterNext]_limiterVars PROVE WindowInv'
<1>0. LimiterInv /\ LimiterInv'
  BY LimiterStep DEF WindowInv
<1> SUFFICES ASSUME NEW k \in Keys PROVE KeyOK(k)'
  BY <1>0 DEF WindowInv
<1>1. KeyOK(k)
  BY DEF WindowInv
<1>2. CASE UNCHANGED limiterVars
  BY <1>0, <1>1, <1>2, UntouchedKey DEF limiterVars
<1>3. CASE LimiterTick
  BY <1>0, <1>1, <1>3, TickKey
<1>4. ASSUME NEW key \in Keys, RefuseInWindow(key) PROVE KeyOK(k)'
  BY <1>0, <1>1, <1>4, UntouchedKey DEF RefuseInWindow, Refuse
<1>5. ASSUME NEW key \in Keys, TakeInWindow(key) PROVE KeyOK(k)'
  <2>1. /\ key \in DOMAIN buckets /\ Running(buckets[key]) /\ Admit(key) /\ now' = now
        /\ buckets[key].count < MaxRequests[key]
        /\ DOMAIN buckets' = DOMAIN buckets
        /\ \A j \in DOMAIN buckets : j # key => buckets'[j] = buckets[j]
        /\ buckets'[key] = [buckets[key] EXCEPT !.count = @ + 1]
    BY <1>5 DEF TakeInWindow
  <2>2. CASE k # key
    BY <1>0, <1>1, <1>5, <2>1, <2>2, AdmitKey, UntouchedKey
  <2>3. CASE k = key
    <3> DEFINE s == buckets[k].startedAt
    <3>1. s \in 0..now /\ now - s < Window
      BY <1>0, <2>1, <2>3, Numbers DEF Running
    <3>2. buckets[k] \in Bucket
      BY <1>0, <2>1, <2>3 DEF LimiterInv, LimiterTypeOK
    <3>3. buckets'[k].startedAt = s /\ buckets'[k].count = buckets[k].count + 1
      BY <2>1, <2>3, <3>2 DEF Bucket
    <3>4. /\ through[k][now] - Before(k, s) = buckets[k].count
          /\ \A t \in 0..s : s - t < Window => Before(k, s) - Before(k, t) <= MaxRequests[k]
          /\ ThroughOK(k) /\ Twice(k)
      BY <1>1, <2>1, <2>3 DEF KeyOK, BucketCounts
    <3>5. buckets'[k].count <= MaxRequests[k]
      BY <1>0, <2>1, <2>3, <3>3, Numbers
    <3>6. buckets'[k].count = through[k][now] - Before(k, s) + 1
      BY <3>3, <3>4
    <3> HIDE DEF s
    <3> QED  BY <1>0, <2>1, <2>3, <3>1, <3>3, <3>4, <3>5, <3>6, CountedKey
  <2> QED  BY <2>2, <2>3
<1>6. ASSUME NEW key \in Keys, TakeAfterWindow(key) PROVE KeyOK(k)'
  <2>1. /\ key \in DOMAIN buckets /\ ~ Running(buckets[key]) /\ Admit(key) /\ now' = now
        /\ DOMAIN buckets' = DOMAIN buckets
        /\ \A j \in DOMAIN buckets : j # key => buckets'[j] = buckets[j]
        /\ buckets'[key] = [count |-> 1, startedAt |-> now]
    BY <1>6 DEF TakeAfterWindow
  <2>2. CASE k # key
    BY <1>0, <1>1, <1>6, <2>1, <2>2, AdmitKey, UntouchedKey
  <2>3. CASE k = key
    BY <1>0, <1>1, <2>1, <2>3, RunOut, BegunKey
  <2> QED  BY <2>2, <2>3
<1>7. ASSUME NEW key \in Keys, TakeNew(key) PROVE KeyOK(k)'
  <2>1. /\ key \notin DOMAIN buckets /\ Admit(key) /\ now' = now
        /\ DOMAIN buckets' = Swept(key) \cup {key}
        /\ \A j \in Swept(key) : j # key => buckets'[j] = buckets[j]
        /\ buckets'[key] = [count |-> 1, startedAt |-> now]
    BY <1>7 DEF TakeNew
  <2>2. Swept(key) \subseteq DOMAIN buckets
    BY <1>0, <1>7, SweptKeysOK
  <2>3. CASE k = key
    <3>1. NoBucketCounts(k)
      BY <1>1, <2>1, <2>3 DEF KeyOK
    <3> QED  BY <1>0, <1>1, <2>1, <2>3, <3>1, BegunKey
  <2>4. CASE k # key
    <3>1. through'[k] = through[k]
      BY <1>0, <1>7, <2>1, <2>4, AdmitKey
    <3>2. CASE k \in DOMAIN buckets /\ k \notin Swept(key)
      <4>1. ~ Running(buckets[k])
        BY <3>2 DEF Swept, LiveKeys
      <4> QED  BY <1>0, <1>1, <2>1, <2>4, <3>1, <3>2, <4>1, SweptKey
    <3>3. CASE k \in DOMAIN buckets <=> k \in Swept(key)
      BY <1>0, <1>1, <2>1, <2>4, <3>1, <3>3, UntouchedKey
    <3> QED  BY <2>2, <3>2, <3>3
  <2> QED  BY <2>3, <2>4
<1>8. ASSUME NEW key \in Keys, RefuseNew(key) PROVE KeyOK(k)'
  <2>1. /\ now' = now /\ through' = through
        /\ DOMAIN buckets' = Swept(key)
        /\ \A j \in Swept(key) : buckets'[j] = buckets[j]
    BY <1>8 DEF RefuseNew, Refuse
  <2>2. Swept(key) \subseteq DOMAIN buckets
    BY <1>0, <1>8, SweptKeysOK
  <2>3. CASE k \in DOMAIN buckets /\ k \notin Swept(key)
    <3>1. ~ Running(buckets[k])
      BY <2>3 DEF Swept, LiveKeys
    <3> QED  BY <1>0, <1>1, <2>1, <2>3, <3>1, SweptKey
  <2>4. CASE k \in DOMAIN buckets <=> k \in Swept(key)
    BY <1>0, <1>1, <2>1, <2>4, UntouchedKey
  <2> QED  BY <2>2, <2>3, <2>4
<1> QED  BY <1>2, <1>3, <1>4, <1>5, <1>6, <1>7, <1>8 DEF LimiterNext, Take

LEMMA WindowStarts == LimiterInit => WindowInv
<1> SUFFICES ASSUME LimiterInit, NEW k \in Keys PROVE KeyOK(k)
  BY LimiterStarts DEF WindowInv
<1>1. LimiterInv /\ DOMAIN buckets = {} /\ \A t \in 0..MaxNow : through[k][t] = 0
  BY LimiterStarts DEF LimiterInit
<1>2. /\ now = 0 /\ MaxNow \in Nat /\ Window \in Nat \ {0} /\ MaxRequests[k] \in Nat \ {0}
  BY <1>1, Numbers DEF LimiterInit
<1>3. \A t \in 0..MaxNow : Before(k, t) = 0
  <2> SUFFICES ASSUME NEW t \in 0..MaxNow PROVE Before(k, t) = 0
    OBVIOUS
  <2>1. t # 0 => t - 1 \in 0..MaxNow
    BY <1>2
  <2> QED  BY <1>1, <2>1 DEF Before
<1> QED  BY <1>1, <1>2, <1>3 DEF KeyOK, ThroughOK, NoBucketCounts, Twice

(* However the clock moves, buckets run out and a full map is swept: the   *)
(* map keeps its bound, and no key gets more than twice its maximum        *)
(* through in any stretch of one window's length.                          *)
THEOREM LimiterLimits == LimiterSpec => []LimitsHold
<1>1. WindowInv => LimitsHold
  BY DEF WindowInv, LimiterInv, KeyOK, Twice, LimitsHold, AtMostTwiceTheMaximum
<1>2. WindowInv /\ [LimiterNext]_limiterVars => WindowInv'
  BY WindowStep
<1> QED  BY WindowStarts, <1>1, <1>2, PTL DEF LimiterSpec
=============================================================================
