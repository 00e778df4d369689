------------------------ MODULE OfficialRevisionsProofs ------------------------
(***************************************************************************)
(* Proofs about OfficialRevisions, for any records, tolerance and number   *)
(* of batches: numbering, the current row, availability dates, the as-of   *)
(* query, and that history is only appended to.                            *)
(***************************************************************************)
EXTENDS OfficialRevisions, Sequences, TLAPS

\* The time of availability is at reception or within the tolerance after it.
LEMMA InformationTimeBounds ==
    ASSUME NEW r \in Records
    PROVE  /\ r.key \in Keys /\ r.value \in Values
           /\ r.firstSeen \in Nat \ {0} /\ InformationTime(r) \in Nat \ {0}
           /\ r.firstSeen <= InformationTime(r)
           /\ InformationTime(r) <= r.firstSeen + Tolerance
           /\ Flagged(r) \in BOOLEAN
<1>1. /\ r.key \in Keys /\ r.value \in Values
      /\ r.firstSeen \in Nat \ {0} /\ r.updated \in Nat /\ Tolerance \in Nat
  BY RecordsAssumption
<1>. QED BY <1>1 DEF InformationTime, Flagged

\* What is known of a current row.
LEMMA RowFields ==
    ASSUME TypeOK, NEW k \in Keys
    PROVE  /\ CurrentRevision(k) \in Nat
           /\ observations[k] # NoRow => observations[k] \in RowType
           /\ observations[k] # NoRow <=> CurrentRevision(k) # 0
           /\ observations[k] # NoRow => CurrentRevision(k) = observations[k].current
  BY DEF TypeOK, RowType, CurrentRevision

Inv == TypeOK /\ RevisionsNumbered /\ RowIsLatestRevision /\ NeverBackdated

LEMMA InitInv == Init => Inv
  BY DEF Init, Inv, TypeOK, RevisionsNumbered, RowIsLatestRevision, NeverBackdated,
         CurrentRevision

\* What appending a record does: a row and a revision that were not there.
LEMMA Appended ==
    ASSUME Inv, NEW r \in batch, AppendRevision(r)
    PROVE  LET k   == r.key
               n   == CurrentRevision(k) + 1
               row == [current |-> n, value |-> r.value, firstSeen |-> FirstSeen(r),
                       info |-> InformationTime(r)]
           IN  /\ r \in Records /\ k \in Keys /\ n \in Nat \ {0}
               /\ row \in RowType /\ row # NoRow
               /\ Revision(r, n) \in RevisionType
               /\ \A v \in revisions : v.key = k => v.number < n
               /\ observations' = [observations EXCEPT ![k] = row]
               /\ revisions' = revisions \cup {Revision(r, n)}
<1> DEFINE k   == r.key
           n   == CurrentRevision(k) + 1
           row == [current |-> n, value |-> r.value, firstSeen |-> FirstSeen(r),
                   info |-> InformationTime(r)]
<1>1. r \in Records
  BY DEF Inv, TypeOK
<1>2. k \in Keys /\ n \in Nat \ {0} /\ CurrentRevision(k) \in Nat
  BY <1>1, InformationTimeBounds, RowFields DEF Inv
<1>3. FirstSeen(r) \in Nat \ {0}
  BY <1>1, <1>2, InformationTimeBounds, RowFields DEF FirstSeen, RowType, Inv
<1>4. row \in RowType /\ row # NoRow
  BY <1>1, <1>2, <1>3, InformationTimeBounds, NoRowAssumption DEF RowType
<1>5. Revision(r, n) \in RevisionType
  BY <1>1, <1>2, InformationTimeBounds DEF Revision, RevisionType
<1>6. ASSUME NEW v \in revisions, v.key = k PROVE v.number < n
  <2>1. v.number \in Nat
    BY DEF Inv, TypeOK, RevisionType
  <2>2. v.number <= CurrentRevision(k)
    BY <1>2, <1>6, RowFields DEF Inv, RevisionsNumbered
  <2>. QED BY <1>2, <2>1, <2>2
<1>7. ~ \E v \in RevisionsOf(k) : v.number = Revision(r, n).number
  <2>1. \A v \in revisions : v.number \in Nat
    BY DEF Inv, TypeOK, RevisionType
  <2>. QED BY <1>2, <1>6, <2>1 DEF RevisionsOf, Revision
<1>8. Upsert(k, row, Revision(r, n))
  BY DEF AppendRevision
<1>9. /\ observations' = [observations EXCEPT ![k] = row]
      /\ revisions' = revisions \cup {Revision(r, n)}
  BY <1>7, <1>8 DEF Upsert
<1> HIDE DEF n, row, k
<1>10. /\ r \in Records /\ k \in Keys /\ n \in Nat \ {0}
       /\ row \in RowType /\ row # NoRow
       /\ Revision(r, n) \in RevisionType
       /\ \A v \in revisions : v.key = k => v.number < n
       /\ observations' = [observations EXCEPT ![k] = row]
       /\ revisions' = revisions \cup {Revision(r, n)}
  BY <1>1, <1>2, <1>4, <1>5, <1>6, <1>9
<1>. QED BY <1>10 DEF n, row, k

LEMMA AppendInv ==
    ASSUME Inv, NEW r \in batch, AppendRevision(r)
    PROVE  Inv'
<1> DEFINE k   == r.key
           n   == CurrentRevision(k) + 1
           row == [current |-> n, value |-> r.value, firstSeen |-> FirstSeen(r),
                   info |-> InformationTime(r)]
           new == Revision(r, n)
<1>1. /\ r \in Records /\ k \in Keys /\ n \in Nat \ {0}
      /\ row \in RowType /\ row # NoRow /\ new \in RevisionType
      /\ \A v \in revisions : v.key = k => v.number < n
      /\ observations' = [observations EXCEPT ![k] = row]
      /\ revisions' = revisions \cup {new}
  BY Appended
<1>2. /\ new.key = k /\ new.number = n /\ new.value = r.value
      /\ new.firstSeen = r.firstSeen /\ new.info = InformationTime(r)
      /\ row.current = n /\ row.value = r.value /\ row.info = InformationTime(r)
  BY DEF Revision
<1>3. /\ row.firstSeen = FirstSeen(r)
      /\ n = CurrentRevision(k) + 1
  OBVIOUS
<1>4. /\ batch' \subseteq batch /\ UNCHANGED <<batches, earlier>>
      /\ late' \subseteq late \cup {k}
  BY DEF AppendRevision
<1>5. observations'[k] = row /\ \A j \in Keys \ {k} : observations'[j] = observations[j]
  BY <1>1 DEF Inv, TypeOK
<1> HIDE DEF n, row, new, k
<1>6. TypeOK'
  BY <1>1, <1>4 DEF Inv, TypeOK
<1>7. \A v \in revisions : v.key \in Keys /\ v.number \in Nat
  BY DEF Inv, TypeOK, RevisionType
<1>8. RevisionsNumbered'
  <2>1. ASSUME NEW v \in revisions'
        PROVE  observations'[v.key] # NoRow /\ v.number <= observations'[v.key].current
    BY <1>1, <1>2, <1>5, <1>7 DEF Inv, RevisionsNumbered
  <2>2. ASSUME NEW v \in revisions', NEW w \in revisions', v.key = w.key,
               v.number = w.number
        PROVE  v = w
    BY <1>1, <1>2, <1>7, <2>2 DEF Inv, RevisionsNumbered
  <2>3. ASSUME NEW j \in Keys, NEW m \in 1 .. CurrentRevision(j)'
        PROVE  \E v \in revisions' : v.key = j /\ v.number = m
    <3>1. CASE j = k /\ m = n
      BY <1>1, <1>2, <3>1
    <3>2. CASE ~(j = k /\ m = n)
      <4>1. j = k => CurrentRevision(j)' = n
        BY <1>1, <1>2, <1>5 DEF CurrentRevision
      <4>2. j # k => CurrentRevision(j)' = CurrentRevision(j)
        BY <1>5 DEF CurrentRevision
      <4>3. CurrentRevision(k) \in Nat
        BY <1>1, RowFields DEF Inv
      <4>4. m \in 1 .. CurrentRevision(j)
        BY <1>3, <3>2, <4>1, <4>2, <4>3
      <4>. QED BY <1>1, <4>4 DEF Inv, RevisionsNumbered
    <3>. QED BY <3>1, <3>2
  <2>. QED BY <2>1, <2>2, <2>3 DEF RevisionsNumbered
<1>9. RowIsLatestRevision'
  <2> SUFFICES ASSUME NEW v \in revisions'
               PROVE  /\ v.number = observations'[v.key].current =>
                            /\ v.value = observations'[v.key].value
                            /\ v.info = observations'[v.key].info
                      /\ v.number = 1 => v.firstSeen = observations'[v.key].firstSeen
    BY DEF RowIsLatestRevision
  <2>1. CASE v \in revisions /\ v.key # k
    BY <1>5, <1>7, <2>1 DEF Inv, RowIsLatestRevision
  <2>2. CASE v \in revisions /\ v.key = k
    <3>1. v.number < n /\ observations[k] # NoRow
      BY <1>1, <2>2 DEF Inv, RevisionsNumbered
    <3>2. row.firstSeen = observations[k].firstSeen
      BY <1>3, <3>1 DEF FirstSeen, k
    <3>. QED BY <1>1, <1>2, <1>5, <1>7, <2>2, <3>1, <3>2
             DEF Inv, RowIsLatestRevision
  <2>3. CASE v = new
    <3>1. n = 1 => observations[k] = NoRow
      BY <1>1, <1>3, RowFields DEF Inv
    <3>2. n = 1 => row.firstSeen = r.firstSeen
      BY <1>3, <3>1 DEF FirstSeen, k
    <3>. QED BY <1>2, <1>5, <2>3, <3>2
  <2>. QED BY <1>1, <2>1, <2>2, <2>3
<1>10. NeverBackdated'
  BY <1>1, <1>2, InformationTimeBounds DEF Inv, NeverBackdated
<1>. QED BY <1>6, <1>8, <1>9, <1>10 DEF Inv

LEMMA NextInv ==
    ASSUME Inv, [Next]_vars
    PROVE  Inv'
<1>1. ASSUME batch' \subseteq Records, batches' \in Nat, earlier' \subseteq revisions',
             UNCHANGED <<observations, revisions, late>>
      PROVE  Inv'
  BY <1>1 DEF Inv, TypeOK, RevisionsNumbered, RowIsLatestRevision, NeverBackdated,
              CurrentRevision
<1>2. CASE StartBatch
  BY <1>1, <1>2 DEF StartBatch, Inv, TypeOK
<1>3. ASSUME NEW r \in batch, SkipRecord(r) PROVE Inv'
  BY <1>1, <1>3 DEF SkipRecord, Inv, TypeOK
<1>4. ASSUME NEW r \in batch, AppendRevision(r) PROVE Inv'
  BY <1>4, AppendInv
<1>5. CASE UNCHANGED vars
  BY <1>1, <1>5 DEF vars, Inv, TypeOK
<1>. QED BY <1>2, <1>3, <1>4, <1>5 DEF Next

\* Types, and the agreement of the current rows with the revisions behind them.
LEMMA InvHolds == Spec => []Inv
<1>. QED BY InitInv, NextInv, PTL DEF Spec

\* Every table keeps its rows' type.
THEOREM TypesHold == Spec => []TypeOK
<1>1. Inv => TypeOK
  BY DEF Inv
<1>. QED BY <1>1, InvHolds, PTL

\* Revisions are numbered from 1 to the current one without gap or repetition,
\* whatever is published and in whatever order.
THEOREM NumberingHolds == Spec => []RevisionsNumbered
<1>1. Inv => RevisionsNumbered
  BY DEF Inv
<1>. QED BY <1>1, InvHolds, PTL

\* The current row carries the value of the latest revision and the date the
\* key was first seen.
THEOREM RowHolds == Spec => []RowIsLatestRevision
<1>1. Inv => RowIsLatestRevision
  BY DEF Inv
<1>. QED BY <1>1, InvHolds, PTL

\* No source date makes a value available before it was seen, or later than the
\* tolerance allows.
THEOREM AvailabilityHolds == Spec => []NeverBackdated
<1>1. Inv => NeverBackdated
  BY DEF Inv
<1>. QED BY <1>1, InvHolds, PTL

\* No step changes or removes a revision.
THEOREM HistoryGrows == Spec => HistoryAppendOnly
<1>1. Inv /\ [Next]_vars => [revisions \subseteq revisions']_vars
  BY DEF Next, StartBatch, SkipRecord, AppendRevision, Upsert, vars
<1>. QED BY <1>1, InvHolds, PTL DEF Spec, HistoryAppendOnly

-----------------------------------------------------------------------------
(* The current row and the as-of query. *)

\* A row became available last of its revisions, unless a late batch revised it.
RowsAreLast ==
    \A v \in revisions : v.key \notin late => v.info <= observations[v.key].info

\* What this batch appended became available no later than what it still holds.
BatchInOrder ==
    \A v \in revisions \ earlier, q \in batch :
        v.key = q.key => v.info <= InformationTime(q)

AsOfInv == Inv /\ RowsAreLast /\ BatchInOrder

LEMMA InitAsOf == Init => AsOfInv
  BY InitInv DEF Init, AsOfInv, RowsAreLast, BatchInOrder

LEMMA AppendAsOf ==
    ASSUME AsOfInv, NEW r \in batch, AppendRevision(r)
    PROVE  RowsAreLast' /\ BatchInOrder'
<1> DEFINE k == r.key
           n == CurrentRevision(k) + 1
           row == [current |-> n, value |-> r.value, firstSeen |-> FirstSeen(r),
                   info |-> InformationTime(r)]
           new == Revision(r, n)
<1>1. /\ r \in Records /\ k \in Keys /\ new \in RevisionType
      /\ observations' = [observations EXCEPT ![k] = row]
      /\ revisions' = revisions \cup {new}
  BY Appended DEF AsOfInv
<1>2. new.key = k /\ new.info = InformationTime(r) /\ row.info = InformationTime(r)
  BY DEF Revision
<1>3. observations'[k] = row /\ \A j \in Keys \ {k} : observations'[j] = observations[j]
  BY <1>1 DEF AsOfInv, Inv, TypeOK
<1>4. /\ batch' \subseteq batch /\ earlier' = earlier /\ late \subseteq late'
      /\ k \notin late' => \A v \in earlier : v.key = k => ~(v.info > InformationTime(r))
  BY DEF AppendRevision
<1>5. \A q \in batch : r.key = q.key => InformationTime(r) <= InformationTime(q)
  <2> SUFFICES ASSUME NEW q \in batch, r.key = q.key
               PROVE  InformationTime(r) <= InformationTime(q)
    OBVIOUS
  <2>1. /\ r.key \in Nat
        /\ InformationTime(r) \in Nat /\ InformationTime(q) \in Nat
    BY <1>1, InformationTimeBounds, RecordsAssumption DEF AsOfInv, Inv, TypeOK
  <2>2. Before(r, q)
    BY DEF AppendRevision, Taken
  <2>. QED BY <2>1, <2>2 DEF Before
<1> HIDE DEF n, row, new, k
<1>6. \A v \in revisions : v.key \in Keys /\ v.info \in Nat
  BY DEF AsOfInv, Inv, TypeOK, RevisionType
<1>7. InformationTime(r) \in Nat
  BY <1>1, InformationTimeBounds
<1>8. \A v \in revisions : v.key = k /\ k \notin late' => v.info <= InformationTime(r)
  <2> SUFFICES ASSUME NEW v \in revisions, v.key = k, k \notin late'
               PROVE  v.info <= InformationTime(r)
    OBVIOUS
  <2>1. CASE v \in earlier
    BY <1>4, <1>6, <1>7, <2>1
  <2>2. CASE v \notin earlier
    BY <2>2 DEF AsOfInv, BatchInOrder, k
  <2>. QED BY <2>1, <2>2
<1>9. RowsAreLast'
  BY <1>1, <1>2, <1>3, <1>4, <1>6, <1>7, <1>8 DEF AsOfInv, RowsAreLast
<1>10. BatchInOrder'
  BY <1>1, <1>2, <1>4, <1>5 DEF AsOfInv, BatchInOrder, InformationTime, k
<1>. QED BY <1>9, <1>10

LEMMA NextAsOf ==
    ASSUME AsOfInv, [Next]_vars
    PROVE  AsOfInv'
<1>1. Inv'
  BY NextInv DEF AsOfInv
<1>2. CASE StartBatch
  BY <1>1, <1>2 DEF StartBatch, AsOfInv, RowsAreLast, BatchInOrder
<1>3. ASSUME NEW r \in batch, SkipRecord(r) PROVE AsOfInv'
  BY <1>1, <1>3 DEF SkipRecord, AsOfInv, RowsAreLast, BatchInOrder, InformationTime
<1>4. ASSUME NEW r \in batch, AppendRevision(r) PROVE AsOfInv'
  BY <1>1, <1>4, AppendAsOf DEF AsOfInv
<1>5. CASE UNCHANGED vars
  BY <1>1, <1>5 DEF vars, AsOfInv, RowsAreLast, BatchInOrder, InformationTime
<1>. QED BY <1>2, <1>3, <1>4, <1>5 DEF Next

\* Whatever the order within a batch, the current row is what the as-of query
\* finds, except for a key that a late batch revised.
THEOREM CurrentIsAsOf == Spec => []CurrentMatchesAsOf
<1>1. AsOfInv => CurrentMatchesAsOf
  <2> SUFFICES ASSUME AsOfInv, NEW k \in Keys \ late, observations[k] # NoRow,
                      NEW t \in {v.info : v \in RevisionsOf(k)},
                      t >= observations[k].info, NEW v \in AsOf(k, t)
               PROVE  v.number = observations[k].current
    BY DEF CurrentMatchesAsOf
  <2>1. /\ observations[k] \in RowType
        /\ CurrentRevision(k) = observations[k].current /\ CurrentRevision(k) \in Nat \ {0}
    BY RowFields DEF AsOfInv, Inv
  <2>2. PICK w \in revisions : w.key = k /\ w.number = observations[k].current
    BY <2>1 DEF AsOfInv, Inv, RevisionsNumbered
  <2>3. w.info = observations[k].info
    BY <2>2 DEF AsOfInv, Inv, RowIsLatestRevision
  <2>4. v \in revisions /\ v.key = k
    BY DEF AsOf, RevisionsOf
  <2>5. v.info <= observations[k].info /\ v.number <= observations[k].current
    BY <2>4 DEF AsOfInv, Inv, RowsAreLast, RevisionsNumbered
  <2>6. t \in Nat /\ v.info \in Nat /\ v.number \in Nat /\ observations[k].info \in Nat
        /\ observations[k].current \in Nat
    BY <2>1, <2>4 DEF AsOfInv, Inv, TypeOK, RevisionType, RowType, RevisionsOf
  <2>7. w.info < v.info \/ (w.info = v.info /\ w.number <= v.number)
    BY <2>2, <2>3, <2>6 DEF AsOf, RevisionsOf
  <2>. QED BY <2>2, <2>3, <2>5, <2>6, <2>7
<1>. QED BY <1>1, InitAsOf, NextAsOf, PTL DEF Spec

-----------------------------------------------------------------------------
(* The tables implement the promised history. *)

ValueAt(k, n) == (CHOOSE v \in RevisionsOf(k) : v.number = n).value
HistoryOf(k) == [n \in 1 .. CurrentRevision(k) |-> ValueAt(k, n)]

\* The history a key is mapped to, read off the revisions.
LEMMA HistoryValues ==
    ASSUME Inv, NEW k \in Keys
    PROVE  /\ HistoryOf(k) \in Seq(Values)
           /\ Len(HistoryOf(k)) = CurrentRevision(k)
           /\ \A n \in 1 .. CurrentRevision(k) :
                 \E v \in RevisionsOf(k) : v.number = n /\ HistoryOf(k)[n] = v.value
<1>1. CurrentRevision(k) \in Nat
  BY RowFields DEF Inv
<1>2. ASSUME NEW n \in 1 .. CurrentRevision(k)
      PROVE  \E v \in RevisionsOf(k) : v.number = n /\ ValueAt(k, n) = v.value
  <2>1. \E v \in RevisionsOf(k) : v.number = n
    BY DEF Inv, RevisionsNumbered, RevisionsOf
  <2>. QED BY <2>1 DEF ValueAt
<1>3. \A v \in RevisionsOf(k) : v.value \in Values
  BY DEF RevisionsOf, Inv, TypeOK, RevisionType
<1>. QED BY <1>1, <1>2, <1>3 DEF HistoryOf

\* A revision that stays keeps its place in the history.
LEMMA SameValue ==
    ASSUME Inv, Inv', revisions \subseteq revisions',
           NEW k \in Keys, NEW n \in 1 .. CurrentRevision(k)
    PROVE  ValueAt(k, n)' = ValueAt(k, n)
<1>1. PICK v \in RevisionsOf(k) : v.number = n
  BY DEF Inv, RevisionsNumbered, RevisionsOf
<1>2. \A w \in RevisionsOf(k) : w.number = n => w = v
  BY <1>1 DEF Inv, RevisionsNumbered, RevisionsOf
<1>3. v \in RevisionsOf(k)' /\ \A w \in RevisionsOf(k)' : w.number = n => w = v
  BY <1>1 DEF Inv, RevisionsNumbered, RevisionsOf
<1>4. ValueAt(k, n) = v.value
  BY <1>1, <1>2 DEF ValueAt
<1>5. ValueAt(k, n)' = v.value
  BY <1>1, <1>3 DEF ValueAt
<1>. QED BY <1>4, <1>5

\* Appending a record extends the history of its key, and of no other.
LEMMA AppendRevises ==
    ASSUME Inv, Inv', NEW r \in batch, AppendRevision(r)
    PROVE  \E k \in Keys, v \in Values : History!Revise(k, v)
<1> DEFINE k == r.key
           n == CurrentRevision(k) + 1
           row == [current |-> n, value |-> r.value, firstSeen |-> FirstSeen(r),
                   info |-> InformationTime(r)]
           new == Revision(r, n)
<1>1. /\ r \in Records /\ k \in Keys /\ n \in Nat \ {0}
      /\ row # NoRow
      /\ \A v \in revisions : v.key = k => v.number < n
      /\ observations' = [observations EXCEPT ![k] = row]
      /\ revisions' = revisions \cup {new}
  BY Appended
<1>2. /\ row.current = n /\ new.key = k /\ new.number = n /\ new.value = r.value
      /\ n = CurrentRevision(k) + 1
  BY DEF Revision
<1>3. r.value \in Values /\ CurrentRevision(k) \in Nat
  BY <1>1, InformationTimeBounds, RowFields DEF Inv
<1>4. \A i \in DOMAIN HistoryOf(k) : HistoryOf(k)[i] # r.value
  <2>1. \A v \in RevisionsOf(k) : v.value # r.value
    BY DEF AppendRevision, Known
  <2>2. DOMAIN HistoryOf(k) = 1 .. CurrentRevision(k)
    BY DEF HistoryOf
  <2>. QED BY <1>1, <2>1, <2>2, HistoryValues
<1> HIDE DEF n, row, new, k
<1>5. /\ CurrentRevision(k)' = n
      /\ \A j \in Keys \ {k} : CurrentRevision(j)' = CurrentRevision(j)
  BY <1>1, <1>2 DEF Inv, TypeOK, CurrentRevision
<1>6. \A j \in Keys : \A m \in 1 .. CurrentRevision(j) : ValueAt(j, m)' = ValueAt(j, m)
  BY <1>1, SameValue
<1>7. ASSUME NEW m, m = n PROVE ValueAt(k, m)' = r.value
  <2>1. new \in RevisionsOf(k)' /\ \A w \in RevisionsOf(k)' : w.number = n => w = new
    BY <1>1, <1>2 DEF RevisionsOf, Inv, TypeOK, RevisionType
  <2>2. (CHOOSE w \in RevisionsOf(k)' : w.number = m) = new
    BY <1>2, <1>7, <2>1
  <2>. QED BY <1>2, <2>2 DEF ValueAt
<1>8. HistoryOf(k)' = Append(HistoryOf(k), r.value)
  <2>1. HistoryOf(k)' = [m \in 1 .. n |->
                            IF m = n THEN r.value ELSE HistoryOf(k)[m]]
    <3>1. HistoryOf(k)' = [m \in 1 .. n |-> ValueAt(k, m)']
      BY <1>5 DEF HistoryOf
    <3>2. \A m \in 1 .. n : m # n => m \in 1 .. CurrentRevision(k)
      BY <1>2, <1>3
    <3>3. \A m \in 1 .. n : ValueAt(k, m)' =
             IF m = n THEN r.value ELSE HistoryOf(k)[m]
      BY <1>1, <1>6, <1>7, <3>2 DEF HistoryOf
    <3>. QED BY <3>1, <3>3
  <2>2. HistoryOf(k) \in Seq(Values) /\ Len(HistoryOf(k)) = CurrentRevision(k)
    BY <1>1, HistoryValues
  <2>. QED BY <1>2, <1>3, <2>1, <2>2
<1>9. \A j \in Keys \ {k} : HistoryOf(j)' = HistoryOf(j)
  BY <1>5, <1>6 DEF HistoryOf
<1>10. History!Revise(k, r.value)
  <2>1. [j \in Keys |-> HistoryOf(j)]' =
           [[j \in Keys |-> HistoryOf(j)] EXCEPT ![k] = Append(@, r.value)]
    BY <1>1, <1>8, <1>9
  <2>. QED BY <1>1, <1>4, <2>1 DEF History!Revise, HistoryOf, ValueAt
<1>. QED BY <1>1, <1>3, <1>10

\* The mapped history depends on the rows and the revisions only.
LEMMA NextRevises ==
    ASSUME Inv, Inv', [Next]_vars
    PROVE  [History!Next]_([k \in Keys |-> HistoryOf(k)])
<1>1. ASSUME UNCHANGED <<observations, revisions>>
      PROVE  UNCHANGED [k \in Keys |-> HistoryOf(k)]
  BY <1>1 DEF HistoryOf, ValueAt, CurrentRevision, RevisionsOf
<1>2. CASE StartBatch \/ UNCHANGED vars \/ \E r \in batch : SkipRecord(r)
  BY <1>1, <1>2 DEF StartBatch, SkipRecord, vars
<1>3. ASSUME NEW r \in batch, AppendRevision(r) PROVE History!Next
  BY <1>3, AppendRevises DEF History!Next
<1>. QED BY <1>2, <1>3 DEF Next

\* The two tables implement a history per key that only grows at its end and in
\* which no value occurs twice.
THEOREM Refinement == Spec => HistorySpec
<1>1. Init => History!Init
  BY DEF Init, History!Init, CurrentRevision
<1>2. Inv /\ Inv' /\ [Next]_vars => [History!Next]_([k \in Keys |-> HistoryOf(k)])
  BY NextRevises
<1>3. Inv /\ Inv' /\ [Next]_vars =>
         [History!Next]_([k \in Keys |-> [n \in 1 .. CurrentRevision(k) |->
                            (CHOOSE v \in RevisionsOf(k) : v.number = n).value]])
  BY <1>2 DEF HistoryOf, ValueAt
<1>. QED BY <1>1, <1>3, InvHolds, PTL DEF Spec, HistorySpec, History!Spec
-----------------------------------------------------------------------------
(* What the runs check, put together. *)

\* Row and revisions of every key are one history, numbered without a gap and
\* never backdated.
THEOREM RevisionsHold == Spec => []RevisionsSound
<1>1. RevisionsNumbered /\ RowIsLatestRevision /\ NeverBackdated => RevisionsSound
  BY DEF RevisionsSound
<1>. QED BY <1>1, NumberingHolds, RowHolds, AvailabilityHolds, PTL

\* The tables implement the promised history, of which nothing is rewritten.
THEOREM HistoryHolds == Spec => HistoryKept
<1>. QED BY HistoryGrows, Refinement DEF HistoryKept
=============================================================================
