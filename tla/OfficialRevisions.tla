---------------------------- MODULE OfficialRevisions ----------------------------
(***************************************************************************)
(* The revision history of official observations,                          *)
(* application/services/official_data.py.  A batch of observation records  *)
(* is sorted and taken one record at a time: a value not seen before for   *)
(* its business key becomes the next revision and the current value.       *)
(***************************************************************************)
EXTENDS Integers, FiniteSets

CONSTANTS
    Keys,        \* observation business keys, numbered in sorting order
    Values,      \* observed values
    Records,     \* the records the sources may publish
    Tolerance,   \* how far ahead of its reception a source may date an update
    NoRow,       \* a key never observed
    MaxBatches   \* bound on the batches ingested

\* updated = 0 stands for a missing source_updated_at.
ASSUME RecordsAssumption ==
    /\ Keys \subseteq Nat
    /\ Values \subseteq Int
    /\ Records \subseteq [key : Keys, value : Values,
                          firstSeen : Nat \ {0}, updated : Nat]
    /\ Tolerance \in Nat /\ MaxBatches \in Nat

ASSUME NoRowAssumption ==
    NoRow \notin [current : Nat, value : Values, firstSeen : Nat, info : Nat]

VARIABLES
    observations,   \* official_observations: the current row of a key
    revisions,      \* official_observation_revisions
    batch,          \* records of the running batch not yet taken
    batches,        \* batches started
    earlier,        \* history: the revisions of the batches before
    late            \* history: keys of which a batch brought a revision dated
                    \* before one of an earlier batch

vars == <<observations, revisions, batch, batches, earlier, late>>

Init ==
    /\ observations = [k \in Keys |-> NoRow]
    /\ revisions = {} /\ batch = {} /\ batches = 0
    /\ earlier = {} /\ late = {}

-----------------------------------------------------------------------------
\* Mutant: a missing source date is not told from a date.
InformationTimeOfMissing(r) ==
    IF r.updated > r.firstSeen + Tolerance THEN r.firstSeen ELSE r.updated

\* information_available_at: never before the record was seen; a source date
\* too far in the future is flagged and ignored.
InformationTime(r) ==
    IF r.updated = 0 \/ r.updated > r.firstSeen + Tolerance \/ r.updated < r.firstSeen
    THEN r.firstSeen ELSE r.updated

Flagged(r) == r.updated = 0 \/ r.updated > r.firstSeen + Tolerance

\* Mutant: the batch is sorted by key and value only.
BeforeByValue(r, q) == r.key < q.key \/ (r.key = q.key /\ r.value <= q.value)

\* _record_order_key: by key, by information time, by value.
Before(r, q) ==
    \/ r.key < q.key
    \/ r.key = q.key /\ \/ InformationTime(r) < InformationTime(q)
                        \/ InformationTime(r) = InformationTime(q) /\ r.value <= q.value

Taken(r) == r \in batch /\ \A q \in batch : Before(r, q)

RevisionsOf(k) == {v \in revisions : v.key = k}
CurrentRevision(k) == IF observations[k] = NoRow THEN 0 ELSE observations[k].current

\* Mutant: the revision is numbered after the value it replaces.
CurrentRevisionStuck(k) == IF observations[k] = NoRow THEN 0 ELSE 1

\* Mutant: only the current value counts as known.
KnownCurrent(r) == observations[r.key] # NoRow /\ observations[r.key].value = r.value

\* The current value again, or any value the key ever had.
Known(r) == \E v \in RevisionsOf(r.key) : v.value = r.value

-----------------------------------------------------------------------------
StartBatch ==
    /\ batch = {} /\ batches < MaxBatches
    /\ batches' = batches + 1
    /\ \E some \in (SUBSET Records) \ {{}} : batch' = some
    /\ earlier' = revisions
    /\ UNCHANGED <<observations, revisions, late>>

\* The record is counted as unchanged.
SkipRecord(r) ==
    /\ Taken(r) /\ Known(r)
    /\ batch' = batch \ {r}
    /\ UNCHANGED <<observations, revisions, batches, earlier, late>>

Revision(r, n) ==
    [key |-> r.key, number |-> n, value |-> r.value, firstSeen |-> r.firstSeen,
     info |-> InformationTime(r), flagged |-> Flagged(r)]

\* Mutant: a new revision replaces the one before it.
UpsertReplacing(k, row, revision) ==
    /\ observations' = [observations EXCEPT ![k] = row]
    /\ revisions' = (revisions \ {v \in revisions : v.key = k /\ v.info = revision.info})
                        \cup {revision}

\* upsert_official_observation: the row is overwritten; a revision that already
\* has the number is kept.
Upsert(k, row, revision) ==
    /\ observations' = [observations EXCEPT ![k] = row]
    /\ revisions' = IF \E v \in RevisionsOf(k) : v.number = revision.number
                    THEN revisions ELSE revisions \cup {revision}

FirstSeen(r) ==
    IF observations[r.key] = NoRow THEN r.firstSeen ELSE observations[r.key].firstSeen

AppendRevision(r) ==
    /\ Taken(r) /\ ~Known(r)
    /\ batch' = batch \ {r}
    /\ LET n == CurrentRevision(r.key) + 1
       IN  Upsert(r.key, [current |-> n, value |-> r.value, firstSeen |-> FirstSeen(r),
                          info |-> InformationTime(r)], Revision(r, n))
    /\ late' = IF \E v \in earlier : v.key = r.key /\ v.info > InformationTime(r)
               THEN late \cup {r.key} ELSE late
    /\ UNCHANGED <<batches, earlier>>

Next ==
    \/ StartBatch
    \/ \E r \in batch : SkipRecord(r) \/ AppendRevision(r)

Spec == Init /\ [][Next]_vars

-----------------------------------------------------------------------------
\* official_observation_as_of: of the revisions available at time t, the one
\* that became available last, the higher number breaking ties.
AsOf(k, t) ==
    {v \in RevisionsOf(k) :
        /\ v.info <= t
        /\ \A w \in RevisionsOf(k) : w.info <= t =>
              w.info < v.info \/ (w.info = v.info /\ w.number <= v.number)}

-----------------------------------------------------------------------------
(* Properties. *)

RowType == [current : Nat \ {0}, value : Values,
            firstSeen : Nat \ {0}, info : Nat \ {0}]
RevisionType == [key : Keys, number : Nat \ {0}, value : Values,
                 firstSeen : Nat \ {0}, info : Nat \ {0}, flagged : BOOLEAN]

\* Every variable holds rows of its table.
TypeOK ==
    /\ observations \in [Keys -> RowType \cup {NoRow}]
    /\ revisions \subseteq RevisionType
    /\ batch \subseteq Records
    /\ batches \in Nat
    /\ earlier \subseteq revisions
    /\ late \subseteq Keys

\* The revisions of a key are numbered without a gap from 1 to the current one,
\* and no two have the same number: the number comes from the current row, the
\* revisions are another table.
RevisionsNumbered ==
    /\ \A v \in revisions : /\ observations[v.key] # NoRow
                           /\ v.number <= observations[v.key].current
    /\ \A v, w \in revisions : v.key = w.key /\ v.number = w.number => v = w
    /\ \A k \in Keys : \A n \in 1 .. CurrentRevision(k) :
          \E v \in revisions : v.key = k /\ v.number = n

\* "The current observation row points to the latest revision", and keeps the
\* date the key was first seen.
RowIsLatestRevision ==
    \A v \in revisions :
        LET row == observations[v.key]
        IN  /\ v.number = row.current => v.value = row.value /\ v.info = row.info
            /\ v.number = 1 => v.firstSeen = row.firstSeen

\* "Source timestamp does not backdate availability": nothing is available
\* before it was seen, or later than the tolerance allows.
NeverBackdated ==
    \A v \in revisions : /\ v.firstSeen <= v.info
                        /\ v.info <= v.firstSeen + Tolerance

\* Row and revisions of a key, which two tables keep, stay one history: numbered
\* without a gap, the row its last entry, and nothing in it backdated.
RevisionsSound == RevisionsNumbered /\ RowIsLatestRevision /\ NeverBackdated

\* "Previous revisions remain queryable": none is changed or removed.
HistoryAppendOnly == [][revisions \subseteq revisions']_vars

\* The two ways to ask for the present value agree, whatever the order of the
\* records in a batch, as long as no batch brought a revision dated before one
\* of an earlier batch: asked at the row's time or later, the as-of query finds
\* the current revision.
CurrentMatchesAsOf ==
    \A k \in Keys \ late : observations[k] # NoRow =>
        \A t \in {v.info : v \in RevisionsOf(k)} : t >= observations[k].info =>
            \A v \in AsOf(k, t) : v.number = observations[k].current

\* What the policy says of a changed value: it appends revision n + 1.  A value
\* the key had before does not, and the row keeps the value that was replaced.
ChangedValueAppends ==
    [][\A r \in batch :
          SkipRecord(r) => observations[r.key].value = r.value]_vars

\* The tables implement the promised history.
History == INSTANCE RevisionHistory WITH history <-
    [k \in Keys |-> [n \in 1 .. CurrentRevision(k) |->
        (CHOOSE v \in RevisionsOf(k) : v.number = n).value]]

HistorySpec == History!Spec

\* That history only grows, with all that its revisions say of themselves.
HistoryKept == HistoryAppendOnly /\ HistorySpec
=============================================================================
