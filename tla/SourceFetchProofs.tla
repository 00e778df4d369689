--------------------------- MODULE SourceFetchProofs ---------------------------
(***************************************************************************)
(* Proofs about SourceFetch, for any processes, sources, intervals and     *)
(* bounds: a stored entity tag never runs ahead of the stored records,     *)
(* what a command did is stored together or not at all, and a dry run      *)
(* stores nothing. While one process runs commands, a row also agrees with *)
(* the log, downloads keep their interval, and none is repeated.           *)
(***************************************************************************)
EXTENDS SourceFetch, FiniteSetTheorems, WellFoundedInduction, TLAPS

-----------------------------------------------------------------------------
(* Types. *)

Items == Sources \X (1 .. MaxVersion)
Replies == [version : 0 .. MaxVersion, tagged : BOOLEAN, known : BOOLEAN]
Busy == {"request", "file", "ingest", "write"}
Outcomes == {"success", "no_change", "failed", "policy_blocked", "blocked"}

\* The rows, entries and records of an open transaction.
TransactionTypeOK ==
    /\ added \in [Processes -> SUBSET Items]
    /\ DOMAIN written = Processes
    /\ \A p \in Processes : \A s \in DOMAIN written[p] :
          s \in Sources /\ written[p][s] \in Rows
    /\ noted \in [Processes -> Seq(Entries)]

\* What a process remembers of the source it is at.
SessionTypeOK ==
    /\ snapshot \in [Processes -> Rows]
    /\ reply \in [Processes -> Replies]
    /\ DOMAIN attempt = Processes
    /\ \A p \in Processes :
          /\ stage[p] \in Busy => Current(p) \in Sources
          /\ stage[p] = "ingest" => reply[p].version # 0
          /\ stage[p] = "write" =>
                /\ attempt[p].row \in Rows /\ attempt[p].base \in Rows \cup {NoRow}
                /\ attempt[p].entry \in Entries
                /\ attempt[p].base # NoRow => rows[Current(p)] # NoRow

TypesInv == TypeOK /\ TransactionTypeOK /\ SessionTypeOK

LEMMA FreshRowType == FreshRow \in Rows /\ FreshRow.etag = 0
  BY BoundsAssumption DEF FreshRow, Rows

LEMMA StateOfType ==
    ASSUME TypeOK, NEW s \in Sources
    PROVE  StateOf(s) \in Rows
  BY FreshRowType DEF StateOf, TypeOK

LEMMA InitTypes == Init => TypesInv
<1> SUFFICES ASSUME Init PROVE TypesInv
  OBVIOUS
<1>1. TypeOK
  BY BoundsAssumption DEF Init, TypeOK
<1>2. TransactionTypeOK
  BY DEF Init, TransactionTypeOK
<1>3. SessionTypeOK
  BY FreshRowType, BoundsAssumption DEF Init, SessionTypeOK, NoReply, Replies, Busy
<1>. QED BY <1>1, <1>2, <1>3 DEF TypesInv

\* Clearing a process.
LEMMA ClearTypes ==
    ASSUME TypesInv, NEW p \in Processes, Clear(p),
           rows' \in [Sources -> Rows \cup {NoRow}], ingested' \subseteq Items,
           \A s \in Sources : rows[s] # NoRow => rows'[s] # NoRow,
           log' \in Seq(Entries)
    PROVE  TypesInv'
<1>1. TypeOK'
  <2>1. UNCHANGED <<version, enabled, clock, commands>>
    BY DEF Clear, world
  <2>2. /\ stage' = [stage EXCEPT ![p] = "idle"]
        /\ todo' = [todo EXCEPT ![p] = {}]
        /\ dry' = [dry EXCEPT ![p] = FALSE]
        /\ tries' = [tries EXCEPT ![p] = 0]
        /\ holder' = [s \in Sources |-> IF holder[s] = p THEN Nobody ELSE holder[s]]
    BY DEF Clear, Move
  <2>3. holder' \in [Sources -> Processes \cup {Nobody}]
    BY <2>2 DEF TypesInv, TypeOK
  <2>4. dry' \in [Processes -> BOOLEAN]
    BY <2>2, Zenon DEF TypesInv, TypeOK
  <2>. QED BY <2>1, <2>2, <2>3, <2>4, BoundsAssumption DEF TypesInv, TypeOK, Items
<1>2. TransactionTypeOK'
  BY DEF TypesInv, TransactionTypeOK, Clear
<1>3. SessionTypeOK'
  BY FreshRowType, BoundsAssumption
     DEF TypesInv, TypeOK, SessionTypeOK, Clear, NoReply, Replies, Busy, Move, Current
<1>. QED BY <1>1, <1>2, <1>3 DEF TypesInv

\* Sending the row and the entry of an attempt to be written.
LEMMA AttemptTypes ==
    ASSUME TypesInv, NEW p \in Processes, Current(p) \in Sources,
           NEW row \in Rows,
           NEW outcome \in Outcomes,
           UNCHANGED <<reply, snapshot, tries, todo, dry>>,
           Attempt(p, row, outcome), Move(p, "write"),
           added' \in [Processes -> SUBSET Items],
           UNCHANGED <<world, db, written, noted, holder>>
    PROVE  TypesInv'
<1>1. TypeOK'
  BY DEF TypesInv, TypeOK, Move, world, db
<1>2. TransactionTypeOK'
  BY DEF TypesInv, TransactionTypeOK
<1>3. attempt'[p].row \in Rows /\ attempt'[p].base \in Rows \cup {NoRow}
  BY DEF TypesInv, TypeOK, SessionTypeOK, Attempt
<1>4. attempt'[p].entry \in Entries
  BY DEF TypesInv, TypeOK, SessionTypeOK, Attempt, Entries, Replies, Outcomes
<1>5. attempt'[p].base = rows[Current(p)]
  BY DEF TypesInv, SessionTypeOK, Attempt
<1>6. \A q \in Processes \ {p} : attempt'[q] = attempt[q] /\ stage'[q] = stage[q]
  BY DEF TypesInv, TypeOK, SessionTypeOK, Attempt, Move
<1>7. DOMAIN attempt' = Processes /\ stage'[p] = "write"
  BY DEF TypesInv, TypeOK, SessionTypeOK, Attempt, Move
<1>8. SessionTypeOK'
  BY <1>3, <1>4, <1>5, <1>6, <1>7
     DEF TypesInv, TypeOK, SessionTypeOK, Current, db, Busy
<1>. QED BY <1>1, <1>2, <1>8 DEF TypesInv

\* Going on to the next source.
LEMMA NextSourceTypes ==
    ASSUME TypesInv, NEW p \in Processes, NextSource(p), TransactionTypeOK',
           holder' \in [Sources -> Processes \cup {Nobody}],
           UNCHANGED <<world, db>>
    PROVE  TypesInv'
<1>1. todo' \in [Processes -> SUBSET Sources] /\ \A q \in Processes \ {p} : todo'[q] = todo[q]
  BY DEF TypesInv, TypeOK, NextSource
<1>2. tries' \in [Processes -> 0 .. MaxRetries]
  BY BoundsAssumption DEF TypesInv, TypeOK, NextSource
<1>3. TypeOK'
  BY <1>1, <1>2 DEF TypesInv, TypeOK, NextSource, Move, world, db
<1>4. /\ snapshot' \in [Processes -> Rows] /\ reply' \in [Processes -> Replies]
      /\ DOMAIN attempt' = Processes /\ stage'[p] = "select"
  BY FreshRowType, BoundsAssumption
     DEF TypesInv, TypeOK, SessionTypeOK, NextSource, NoReply, Replies, Move
<1>5. \A q \in Processes \ {p} :
         stage'[q] = stage[q] /\ reply'[q] = reply[q] /\ attempt'[q] = attempt[q]
  BY DEF TypesInv, TypeOK, SessionTypeOK, NextSource, Move
<1>6. SessionTypeOK'
  BY <1>1, <1>4, <1>5 DEF TypesInv, SessionTypeOK, Current, Busy, db
<1>. QED BY <1>3, <1>6 DEF TypesInv

\* Taking a column from the stored row keeps a row a row.
LEMMA MergeType ==
    ASSUME NEW row \in Rows, NEW base, NEW stored \in Rows
    PROVE  /\ Merge(row, base, stored) \in Rows
           /\ Merge(row, base, stored).etag \in {row.etag, stored.etag}
<1>1. CASE base = NoRow
  BY <1>1 DEF Merge, Rows
<1>2. CASE base # NoRow
  <2>1. DOMAIN row = {"etag", "nextAllowed", "failures", "health"}
    BY DEF Rows
  <2>2. Merge(row, base, stored) =
           [etag |-> IF row.etag = base.etag THEN stored.etag ELSE row.etag,
            nextAllowed |-> IF row.nextAllowed = base.nextAllowed
                            THEN stored.nextAllowed ELSE row.nextAllowed,
            failures |-> IF row.failures = base.failures
                         THEN stored.failures ELSE row.failures,
            health |-> IF row.health = base.health THEN stored.health ELSE row.health]
    BY <1>2, <2>1 DEF Merge
  <2>. QED BY <2>2 DEF Rows
<1>. QED BY <1>1, <1>2

LEMMA CommitTypes ==
    ASSUME TypesInv, NEW p \in Processes, CommitWork(p), Clear(p)
    PROVE  TypesInv'
<1>1. /\ rows' \in [Sources -> Rows \cup {NoRow}]
      /\ \A s \in Sources : rows[s] # NoRow => rows'[s] # NoRow
  BY NoRowAssumption, BoundsAssumption
     DEF TypesInv, TypeOK, TransactionTypeOK, CommitWork, Rows
<1>2. ingested' \subseteq Items
  BY DEF TypesInv, TypeOK, TransactionTypeOK, CommitWork, Items
<1>3. log' \in Seq(Entries)
  BY DEF TypesInv, TypeOK, TransactionTypeOK, CommitWork
<1>. QED BY <1>1, <1>2, <1>3, ClearTypes

LEMMA RollbackTypes ==
    ASSUME TypesInv, NEW p \in Processes, Rollback(p)
    PROVE  TypesInv'
  BY ClearTypes DEF TypesInv, TypeOK, Rollback, db, Items

\* The rows the service wants stored.
LEMMA WantedRowTypes ==
    ASSUME NEW row \in Rows, clock \in Nat
    PROVE  /\ \A category : FailedRow(row, category) \in Rows
                            /\ FailedRow(row, category).etag = row.etag
           /\ NoChangeRow(row) \in Rows /\ NoChangeRow(row).etag = row.etag
           /\ \A s \in Sources, r \in Replies :
                 /\ SuccessRow(row, s, r) \in Rows
                 /\ SuccessRow(row, s, r).etag \in {r.version, row.etag}
<1>1. ASSUME NEW category
      PROVE  FailedRow(row, category) \in Rows /\ FailedRow(row, category).etag = row.etag
  <2> DEFINE counted == [row EXCEPT !.failures = @ + 1]
             health == IF category \in {"rate_limited", "policy_blocked"}
                       THEN "blocked" ELSE "failing"
  <2>1. counted \in Rows /\ counted.etag = row.etag
    BY DEF Rows
  <2>2. health \in {"blocked", "failing"}
    OBVIOUS
  <2>3. FailedRow(row, category) = [counted EXCEPT !.health = health]
    BY DEF FailedRow
  <2> HIDE DEF counted, health
  <2>. QED BY <2>1, <2>2, <2>3 DEF Rows
<1>2. NoChangeRow(row) \in Rows /\ NoChangeRow(row).etag = row.etag
  BY DEF NoChangeRow, Rows
<1>3. ASSUME NEW s \in Sources, NEW r \in Replies
      PROVE  /\ SuccessRow(row, s, r) \in Rows
             /\ SuccessRow(row, s, r).etag \in {r.version, row.etag}
  <2>1. MinInterval[s] \in Nat
    BY SourcesAssumption
  <2>. QED BY <2>1 DEF SuccessRow, Rows, Replies
<1>. QED BY <1>1, <1>2, <1>3

LEMMA StartTypes ==
    ASSUME TypesInv, NEW p \in Processes, Start(p)
    PROVE  TypesInv'
<1>1. PICK chosen \in Selections, isDry \in BOOLEAN :
         /\ todo' = [todo EXCEPT ![p] = chosen]
         /\ dry' = [dry EXCEPT ![p] = isDry]
  BY DEF Start
<1>2. chosen \subseteq Sources
  BY DEF TypesInv, TypeOK, Selections, Sources
<1>3. todo' \in [Processes -> SUBSET Sources] /\ dry' \in [Processes -> BOOLEAN]
  BY <1>1, <1>2, Zenon DEF TypesInv, TypeOK
<1>4. \A q \in Processes \ {p} : todo'[q] = todo[q] /\ stage'[q] = stage[q]
  BY <1>1 DEF TypesInv, TypeOK, Start, Move
<1>5. stage' \in [Processes -> {"idle", "select", "request", "file", "ingest", "write"}]
      /\ stage'[p] = "select"
  BY DEF TypesInv, TypeOK, Start, Move
<1>6. commands' \in 0 .. MaxCommands
  BY BoundsAssumption DEF TypesInv, TypeOK, Start
<1>7. UNCHANGED <<version, enabled, clock, rows, ingested, log, snapshot, tries, reply,
                  attempt, added, written, noted, holder>>
  BY DEF Start, db, transaction
<1>8. TypeOK'
  BY <1>3, <1>5, <1>6, <1>7 DEF TypesInv, TypeOK
<1>9. TransactionTypeOK'
  BY <1>7 DEF TypesInv, TransactionTypeOK
<1>10. SessionTypeOK'
  BY <1>4, <1>5, <1>7 DEF TypesInv, SessionTypeOK, Current, Busy
<1>. QED BY <1>8, <1>9, <1>10 DEF TypesInv

LEMMA ReadStateTypes ==
    ASSUME TypesInv, NEW p \in Processes, ReadState(p)
    PROVE  TypesInv'
<1>1. Current(p) \in Sources
  BY DEF TypesInv, TypeOK, ReadState, Runnable
<1>2. snapshot' \in [Processes -> Rows]
  BY <1>1, StateOfType DEF TypesInv, SessionTypeOK, ReadState
<1>3. UNCHANGED <<version, enabled, clock, commands, rows, ingested, log, todo, dry, tries,
                  reply, attempt, added, written, noted, holder>>
  BY DEF ReadState, world, db, transaction
<1>4. stage' \in [Processes -> {"idle", "select", "request", "file", "ingest", "write"}]
      /\ stage'[p] \in {"request", "file"}
      /\ \A q \in Processes \ {p} : stage'[q] = stage[q]
  BY DEF TypesInv, TypeOK, ReadState, Move
<1>5. TypeOK'
  BY <1>3, <1>4 DEF TypesInv, TypeOK
<1>6. TransactionTypeOK'
  BY <1>3 DEF TypesInv, TransactionTypeOK
<1>7. SessionTypeOK'
  BY <1>1, <1>2, <1>3, <1>4 DEF TypesInv, SessionTypeOK, Current, Busy
<1>. QED BY <1>5, <1>6, <1>7 DEF TypesInv

LEMMA ReceiveTypes ==
    ASSUME TypesInv, NEW p \in Processes, Receive(p)
    PROVE  TypesInv'
<1>1. Current(p) \in Sources
  BY DEF TypesInv, SessionTypeOK, Receive, Busy
<1>2. version[Current(p)] \in 1 .. MaxVersion
  BY <1>1 DEF TypesInv, TypeOK
<1>3. reply' \in [Processes -> Replies] /\ reply'[p].version # 0
      /\ \A q \in Processes \ {p} : reply'[q] = reply[q]
  <2> DEFINE known == <<Current(p), version[Current(p)]>> \in ingested
  <2>1. PICK tagged \in BOOLEAN :
           reply' = [reply EXCEPT ![p] = [version |-> version[Current(p)],
                                          tagged |-> tagged, known |-> known]]
    BY DEF Receive
  <2>2. known \in BOOLEAN
    OBVIOUS
  <2> HIDE DEF known
  <2>3. [version |-> version[Current(p)], tagged |-> tagged, known |-> known] \in Replies
    BY <1>2, <2>2 DEF Replies
  <2>. QED BY <1>2, <2>1, <2>3 DEF TypesInv, SessionTypeOK
<1>4. UNCHANGED <<version, enabled, clock, commands, rows, ingested, log, todo, dry, tries,
                  snapshot, attempt, added, written, noted, holder>>
  BY DEF Receive, world, db, transaction
<1>5. stage' \in [Processes -> {"idle", "select", "request", "file", "ingest", "write"}]
      /\ stage'[p] = "ingest"
      /\ \A q \in Processes \ {p} : stage'[q] = stage[q]
  BY DEF TypesInv, TypeOK, Receive, Move
<1>6. TypeOK'
  BY <1>4, <1>5 DEF TypesInv, TypeOK
<1>7. TransactionTypeOK'
  BY <1>4 DEF TypesInv, TransactionTypeOK
<1>8. SessionTypeOK'
  BY <1>1, <1>3, <1>4, <1>5 DEF TypesInv, SessionTypeOK, Current, Busy
<1>. QED BY <1>6, <1>7, <1>8 DEF TypesInv

LEMMA IngestTypes ==
    ASSUME TypesInv, NEW p \in Processes, Ingest(p)
    PROVE  TypesInv'
<1>1. Current(p) \in Sources /\ reply[p].version \in 1 .. MaxVersion
  BY BoundsAssumption DEF TypesInv, SessionTypeOK, Ingest, Busy, Replies
<1>2. added' \in [Processes -> SUBSET Items]
  BY <1>1 DEF TypesInv, TransactionTypeOK, Ingest, Items
<1>3. clock \in Nat /\ snapshot[p] \in Rows /\ reply[p] \in Replies
  BY BoundsAssumption DEF TypesInv, TypeOK, SessionTypeOK
<1>4. SuccessRow(snapshot[p], Current(p), reply[p]) \in Rows
  BY <1>1, <1>3, WantedRowTypes
<1>5. UNCHANGED <<reply, snapshot, tries, todo, dry>> /\ Move(p, "write")
      /\ Attempt(p, SuccessRow(snapshot[p], Current(p), reply[p]), "success")
      /\ UNCHANGED <<world, db, written, noted, holder>>
  BY DEF Ingest
<1>6. "success" \in Outcomes
  BY DEF Outcomes
<1>. QED BY <1>1, <1>2, <1>4, <1>5, <1>6, AttemptTypes

\* The three actions that send an attempt without ingesting.
LEMMA PlainAttemptTypes ==
    ASSUME TypesInv, NEW p \in Processes,
           Blocked(p) \/ FailFetch(p) \/ NotModified(p)
    PROVE  TypesInv'
<1>1. Current(p) \in Sources
  BY DEF TypesInv, TypeOK, SessionTypeOK, Blocked, FailFetch, NotModified, Runnable, Busy
<1>2. clock \in Nat /\ snapshot[p] \in Rows /\ StateOf(Current(p)) \in Rows
  BY <1>1, StateOfType, BoundsAssumption DEF TypesInv, TypeOK, SessionTypeOK
<1>3. /\ UNCHANGED <<reply, snapshot, tries, todo, dry>> /\ Move(p, "write")
      /\ UNCHANGED <<world, db, added, written, noted, holder>>
  BY DEF Blocked, FailFetch, NotModified, transaction
<1>4. PICK row \in Rows, outcome \in Outcomes :
         Attempt(p, row, outcome)
  BY <1>2, WantedRowTypes, FailingAssumption DEF Blocked, FailFetch, NotModified, Outcomes
<1>5. added' \in [Processes -> SUBSET Items]
  BY <1>3 DEF TypesInv, TransactionTypeOK
<1>. QED BY <1>1, <1>3, <1>4, <1>5, AttemptTypes

LEMMA WriteTypes ==
    ASSUME TypesInv, NEW p \in Processes, Write(p)
    PROVE  TypesInv'
<1> DEFINE s == Current(p)
           a == attempt[p]
<1>1. /\ s \in Sources /\ a.row \in Rows /\ a.base \in Rows \cup {NoRow}
      /\ a.entry \in Entries
      /\ a.base # NoRow => rows[s] # NoRow
  BY DEF TypesInv, SessionTypeOK, Write, Busy
<1>2. rows[s] \in Rows \cup {NoRow}
  BY <1>1 DEF TypesInv, TypeOK
<1>3. Merge(a.row, a.base, rows[s]) \in Rows
  <2>1. CASE a.base = NoRow
    BY <1>1, <2>1 DEF Merge
  <2>2. CASE a.base # NoRow
    <3>1. a.row \in Rows /\ rows[s] \in Rows
      BY <1>1, <1>2, <2>2
    <3> HIDE DEF s, a
    <3>. QED BY <3>1, MergeType
  <2>. QED BY <2>1, <2>2
<1>4. /\ written' = [written EXCEPT ![p] =
             [t \in DOMAIN @ \cup {s} |->
                 IF t = s THEN Merge(a.row, a.base, rows[s]) ELSE @[t]]]
      /\ noted' = [noted EXCEPT ![p] = Append(@, a.entry)]
      /\ holder' = [holder EXCEPT ![s] = p]
      /\ NextSource(p) /\ UNCHANGED <<world, db, added>>
  BY DEF Write
<1>5. DOMAIN written' = Processes
      /\ \A q \in Processes : \A t \in DOMAIN written'[q] :
            t \in Sources /\ written'[q][t] \in Rows
  <2> HIDE DEF s, a
  <2>. QED BY <1>1, <1>3, <1>4 DEF TypesInv, TransactionTypeOK
<1>6. noted' \in [Processes -> Seq(Entries)]
  <2>1. noted[p] \in Seq(Entries) /\ a.entry \in Entries
    BY <1>1 DEF TypesInv, TransactionTypeOK
  <2>2. Append(noted[p], a.entry) \in Seq(Entries)
    BY <2>1
  <2>3. noted' = [noted EXCEPT ![p] = Append(noted[p], a.entry)]
    BY <1>4
  <2> HIDE DEF s, a
  <2>. QED BY <2>2, <2>3 DEF TypesInv, TransactionTypeOK
<1>7. holder' \in [Sources -> Processes \cup {Nobody}]
  BY <1>1, <1>4 DEF TypesInv, TypeOK
<1>8. TransactionTypeOK'
  BY <1>4, <1>5, <1>6 DEF TypesInv, TransactionTypeOK
<1>. QED BY <1>4, <1>7, <1>8, NextSourceTypes

LEMMA SkipWriteTypes ==
    ASSUME TypesInv, NEW p \in Processes, SkipWrite(p)
    PROVE  TypesInv'
<1>1. NextSource(p) /\ UNCHANGED <<world, db, added, written, noted, holder>>
  BY DEF SkipWrite, transaction
<1>. QED BY <1>1, NextSourceTypes DEF TypesInv, TypeOK, TransactionTypeOK

LEMMA RetryTypes ==
    ASSUME TypesInv, NEW p \in Processes, Retry(p)
    PROVE  TypesInv'
<1>1. tries' \in [Processes -> 0 .. MaxRetries]
  BY BoundsAssumption DEF TypesInv, TypeOK, Retry
<1>2. UNCHANGED <<version, enabled, clock, commands, rows, ingested, log, stage, todo, dry,
                  snapshot, reply, attempt, added, written, noted, holder>>
  BY DEF Retry, world, db, transaction
<1>. QED BY <1>1, <1>2 DEF TypesInv, TypeOK, TransactionTypeOK, SessionTypeOK, Current

\* The steps of the world around the commands.
LEMMA WorldTypes ==
    ASSUME TypesInv, Tick \/ \E s \in Sources : Publish(s) \/ Suspend(s)
    PROVE  TypesInv'
<1>1. UNCHANGED <<commands, rows, ingested, log, stage, todo, dry, snapshot, tries, reply,
                  attempt, added, written, noted, holder>>
  BY DEF Tick, Publish, Suspend, db, session, transaction
<1> DEFINE Ranges == /\ version' \in [Sources -> 1 .. MaxVersion]
                     /\ enabled' \subseteq Sources
                     /\ clock' \in 1 .. MaxTime
<1>2. Ranges
  <2>1. CASE Tick
    BY <2>1, BoundsAssumption DEF Tick, TypesInv, TypeOK
  <2>2. ASSUME NEW s \in Sources, Publish(s)
        PROVE  Ranges
    BY <2>2, BoundsAssumption DEF Publish, TypesInv, TypeOK
  <2>3. ASSUME NEW s \in Sources, Suspend(s)
        PROVE  Ranges
    BY <2>3 DEF Suspend, TypesInv, TypeOK
  <2>. QED BY <2>1, <2>2, <2>3
<1>. QED BY <1>1, <1>2 DEF TypesInv, TypeOK, TransactionTypeOK, SessionTypeOK, Current

LEMMA NextTypes == TypesInv /\ [Next]_vars => TypesInv'
<1> SUFFICES ASSUME TypesInv, [Next]_vars PROVE TypesInv'
  OBVIOUS
<1>1. ASSUME NEW p \in Processes, Start(p) PROVE TypesInv'
  BY <1>1, StartTypes
<1>2. ASSUME NEW p \in Processes, Advance(p) PROVE TypesInv'
  <2>1. CASE Finish(p) \/ RefuseSource(p)
    BY <2>1, CommitTypes DEF Finish, RefuseSource
  <2>2. CASE WriteConflict(p) \/ IngestConflict(p)
    BY <2>2, RollbackTypes DEF WriteConflict, IngestConflict
  <2>3. CASE SkipWrite(p) \/ Write(p)
    BY <2>3, SkipWriteTypes, WriteTypes
  <2>4. CASE Blocked(p) \/ FailFetch(p) \/ NotModified(p)
    BY <2>4, PlainAttemptTypes
  <2>5. CASE ReadState(p) \/ Retry(p) \/ Receive(p) \/ Ingest(p)
    BY <2>5, ReadStateTypes, RetryTypes, ReceiveTypes, IngestTypes
  <2>. QED BY <1>2, <2>1, <2>2, <2>3, <2>4, <2>5 DEF Advance
<1>3. ASSUME NEW p \in Processes, Crash(p) PROVE TypesInv'
  BY <1>3, RollbackTypes DEF Crash
<1>4. CASE Tick \/ \E s \in Sources : Publish(s) \/ Suspend(s)
  BY <1>4, WorldTypes
<1>5. CASE UNCHANGED vars
  BY <1>5 DEF vars, world, db, session, transaction, TypesInv, TypeOK,
              TransactionTypeOK, SessionTypeOK, Current
<1>. QED BY <1>1, <1>2, <1>3, <1>4, <1>5 DEF Next

\* Every variable of a fetch stays in its range: the type invariant the runs
\* check, for any number of processes, sources, retries and commands.
THEOREM TypesHold == Spec => []TypeOK
<1>1. Spec => []TypesInv
  BY InitTypes, NextTypes, PTL DEF Spec
<1>2. TypesInv => TypeOK
  BY DEF TypesInv
<1>. QED BY <1>1, <1>2, PTL

-----------------------------------------------------------------------------
(* A step of one process leaves the others as they are. *)

Kept(q) ==
    /\ stage'[q] = stage[q] /\ todo'[q] = todo[q] /\ dry'[q] = dry[q]
    /\ snapshot'[q] = snapshot[q] /\ attempt'[q] = attempt[q]
    /\ added'[q] = added[q] /\ written'[q] = written[q] /\ noted'[q] = noted[q]

Step(p) == Start(p) \/ Advance(p) \/ Crash(p)

LEMMA OthersKept ==
    ASSUME TypesInv, NEW p \in Processes, Step(p), NEW q \in Processes \ {p}
    PROVE  Kept(q)
<1> USE DEF TypesInv, TypeOK, TransactionTypeOK, SessionTypeOK, Kept
<1>1. ASSUME Clear(p), UNCHANGED db \/ CommitWork(p) PROVE Kept(q)
  BY <1>1 DEF Clear, Move
<1>2. ASSUME NextSource(p), UNCHANGED added, UNCHANGED <<written, noted>> \/ Write(p)
      PROVE  Kept(q)
  BY <1>2 DEF NextSource, Move, Write
<1>3. CASE Start(p)
  BY <1>3 DEF Start, Move, transaction
<1>4. CASE Finish(p) \/ RefuseSource(p) \/ WriteConflict(p) \/ IngestConflict(p) \/ Crash(p)
  BY <1>1, <1>4 DEF Finish, RefuseSource, WriteConflict, IngestConflict, Crash, Rollback
<1>5. CASE SkipWrite(p) \/ Write(p)
  BY <1>2, <1>5 DEF SkipWrite, Write, transaction
<1>6. CASE Blocked(p) \/ FailFetch(p) \/ NotModified(p)
  BY <1>6 DEF Blocked, FailFetch, NotModified, Attempt, Move, transaction
<1>7. CASE ReadState(p) \/ Retry(p) \/ Receive(p)
  BY <1>7 DEF ReadState, Retry, Receive, Move, transaction
<1>8. CASE Ingest(p)
  BY <1>8 DEF Ingest, Attempt, Move
<1>. QED BY <1>3, <1>4, <1>5, <1>6, <1>7, <1>8 DEF Step, Advance

\* The world moves on without touching a command or the database.
LEMMA WorldKeeps ==
    ASSUME Tick \/ \E s \in Sources : Publish(s) \/ Suspend(s)
    PROVE  UNCHANGED <<db, session, transaction>>
  BY DEF Tick, Publish, Suspend

-----------------------------------------------------------------------------
(* Dry runs. *)

\* A process that runs dry, or runs nothing, has an empty transaction.
Empty(p) == added[p] = {} /\ DOMAIN written[p] = {} /\ noted[p] = <<>>
DryInv == \A p \in Processes : dry[p] \/ stage[p] = "idle" => Empty(p)

LEMMA DryStep ==
    ASSUME TypesInv, DryInv, NEW p \in Processes, Step(p)
    PROVE  dry'[p] \/ stage'[p] = "idle" => Empty(p)'
<1> USE DEF TypesInv, TypeOK, TransactionTypeOK, SessionTypeOK, DryInv, Empty
<1>1. CASE Finish(p) \/ RefuseSource(p) \/ WriteConflict(p) \/ IngestConflict(p) \/ Crash(p)
  <2>1. Clear(p)
    BY <1>1 DEF Finish, RefuseSource, WriteConflict, IngestConflict, Crash, Rollback
  <2>. QED BY <2>1 DEF Clear
<1>2. CASE Start(p)
  <2>1. stage[p] = "idle" /\ UNCHANGED <<added, written, noted>>
    BY <1>2 DEF Start, transaction
  <2>. QED BY <2>1
<1>3. CASE SkipWrite(p)
  <2>1. UNCHANGED <<dry, added, written, noted>> /\ dry[p]
    BY <1>3 DEF SkipWrite, NextSource, transaction
  <2>. QED BY <2>1
<1>4. CASE Write(p)
  <2>1. ~dry'[p] /\ stage'[p] = "select"
    BY <1>4 DEF Write, NextSource, Move
  <2>. QED BY <2>1
<1>5. CASE Blocked(p) \/ FailFetch(p) \/ NotModified(p) \/ ReadState(p) \/ Retry(p) \/ Receive(p)
  <2>1. UNCHANGED <<dry, added, written, noted>> /\ stage[p] # "idle" /\ stage'[p] # "idle"
    BY <1>5 DEF Blocked, FailFetch, NotModified, ReadState, Retry, Receive, Move, Runnable,
                transaction
  <2>. QED BY <2>1
<1>6. CASE Ingest(p)
  <2>1. UNCHANGED <<dry, written, noted>> /\ stage'[p] = "write" /\ (dry[p] => added' = added)
    BY <1>6 DEF Ingest, Move
  <2>. QED BY <2>1
<1>. QED BY <1>1, <1>2, <1>3, <1>4, <1>5, <1>6 DEF Step, Advance

LEMMA DryNext == TypesInv /\ DryInv /\ [Next]_vars => DryInv'
<1> SUFFICES ASSUME TypesInv, DryInv, [Next]_vars PROVE DryInv'
  OBVIOUS
<1>1. ASSUME NEW p \in Processes, Step(p) PROVE DryInv'
  <2>1. dry'[p] \/ stage'[p] = "idle" => Empty(p)'
    BY <1>1, DryStep
  <2>2. \A q \in Processes \ {p} : Kept(q)
    BY <1>1, OthersKept
  <2>. QED BY <2>1, <2>2 DEF DryInv, Kept, Empty
<1>2. CASE Tick \/ \E s \in Sources : Publish(s) \/ Suspend(s)
  BY <1>2, WorldKeeps DEF DryInv, Empty, session, transaction
<1>3. CASE UNCHANGED vars
  BY <1>3 DEF DryInv, Empty, vars, session, transaction
<1>. QED BY <1>1, <1>2, <1>3 DEF Next, Step

\* Committing an empty transaction stores what was stored.
LEMMA EmptyCommit ==
    ASSUME TypesInv, NEW p \in Processes, Empty(p), CommitWork(p)
    PROVE  UNCHANGED db
<1>1. rows' = rows
  BY DEF TypesInv, TypeOK, Empty, CommitWork
<1>2. ingested' = ingested
  BY DEF Empty, CommitWork
<1>3. log' = log
  BY DEF TypesInv, TypeOK, Empty, CommitWork
<1>. QED BY <1>1, <1>2, <1>3 DEF db

LEMMA DryChange ==
    ASSUME TypesInv, DryInv, [Next]_vars, NEW p \in Processes, dry[p], ~dry'[p]
    PROVE  UNCHANGED db
<1>1. ASSUME NEW q \in Processes, Step(q) PROVE UNCHANGED db
  <2>1. q = p
    BY <1>1, OthersKept DEF Kept
  <2>2. Empty(p)
    BY DEF DryInv
  <2>3. CASE Finish(q) \/ RefuseSource(q)
    BY <2>1, <2>2, <2>3, EmptyCommit DEF Finish, RefuseSource
  <2>4. CASE ~(Finish(q) \/ RefuseSource(q))
    BY <1>1, <2>4 DEF Step, Advance, Start, Crash, Rollback, SkipWrite, Write, WriteConflict,
                      Blocked, ReadState, Retry, FailFetch, NotModified, Receive, Ingest,
                      IngestConflict, db
  <2>. QED BY <2>3, <2>4
<1>2. CASE Tick \/ \E s \in Sources : Publish(s) \/ Suspend(s)
  BY <1>2, WorldKeeps
<1>3. CASE UNCHANGED vars
  BY <1>3 DEF vars
<1>. QED BY <1>1, <1>2, <1>3 DEF Next, Step

\* A dry run stores nothing, whatever the other processes store meanwhile: at
\* the step that ends one, rows, records and log stay as they are.
THEOREM DryRunsStoreNothing == Spec => DryRunLeavesNoTrace
<1>1. Init => TypesInv /\ DryInv
  BY InitTypes DEF Init, DryInv, Empty
<1>2. TypesInv /\ DryInv /\ [Next]_vars => (TypesInv /\ DryInv)'
  BY NextTypes, DryNext
<1>3. TypesInv /\ DryInv /\ [Next]_vars
        => [\A p \in Processes : dry[p] /\ ~dry'[p] => UNCHANGED db]_vars
  BY DryChange
<1>. QED BY <1>1, <1>2, <1>3, PTL DEF Spec, DryRunLeavesNoTrace

-----------------------------------------------------------------------------
(* Entity tags. *)

Backed(s, etag, items) == etag # 0 => <<s, etag>> \in items

\* The tag a process read is that of stored records; the one it is about to
\* write, or has written, is that of records stored or added by it.
ProcessTags(p) ==
    /\ stage[p] \in {"request", "file", "ingest"} =>
          Backed(Current(p), snapshot[p].etag, ingested)
    /\ stage[p] = "write" /\ ~dry[p] =>
          Backed(Current(p), attempt[p].row.etag, ingested \cup added[p])
    /\ \A s \in DOMAIN written[p] :
          Backed(s, written[p][s].etag, ingested \cup added[p])

TagsInv == ValidatorNeverAhead /\ \A p \in Processes : ProcessTags(p)

LEMMA IngestedGrows ==
    ASSUME NEW p \in Processes, Step(p)
    PROVE  ingested \subseteq ingested'
<1>1. CASE Finish(p) \/ RefuseSource(p)
  BY <1>1 DEF Finish, RefuseSource, CommitWork
<1>2. CASE ~(Finish(p) \/ RefuseSource(p))
  BY <1>2 DEF Step, Advance, Start, Crash, Rollback, SkipWrite, Write, WriteConflict,
              Blocked, ReadState, Retry, FailFetch, NotModified, Receive, Ingest,
              IngestConflict, db
<1>. QED BY <1>1, <1>2

LEMMA TagsKept ==
    ASSUME NEW q \in Processes, ProcessTags(q), Kept(q), ingested \subseteq ingested'
    PROVE  ProcessTags(q)'
  BY DEF ProcessTags, Kept, Current, Backed

\* The tag of the state a source has, if any, is backed.
LEMMA StateOfBacked ==
    ASSUME ValidatorNeverAhead, NEW s \in Sources
    PROVE  Backed(s, StateOf(s).etag, ingested)
  BY FreshRowType DEF ValidatorNeverAhead, StateOf, Backed

LEMMA TagsCommit ==
    ASSUME TypesInv, TagsInv, NEW p \in Processes, CommitWork(p), Clear(p)
    PROVE  ValidatorNeverAhead' /\ ProcessTags(p)'
<1>1. ValidatorNeverAhead'
  BY DEF TagsInv, ValidatorNeverAhead, ProcessTags, Backed, CommitWork
<1>2. ProcessTags(p)'
  BY DEF TypesInv, TypeOK, TransactionTypeOK, Clear, Move, ProcessTags
<1>. QED BY <1>1, <1>2

LEMMA TagsRollback ==
    ASSUME TypesInv, TagsInv, NEW p \in Processes, Rollback(p)
    PROVE  ValidatorNeverAhead' /\ ProcessTags(p)'
<1>1. ValidatorNeverAhead'
  BY DEF TagsInv, ValidatorNeverAhead, Rollback, db
<1>2. ProcessTags(p)'
  BY DEF TypesInv, TypeOK, TransactionTypeOK, Rollback, Clear, Move, ProcessTags
<1>. QED BY <1>1, <1>2

\* Sending an attempt whose row has a backed tag.
LEMMA TagsAttempt ==
    ASSUME TypesInv, TagsInv, NEW p \in Processes, NEW row \in Rows, NEW outcome \in Outcomes,
           UNCHANGED <<reply, snapshot, tries, todo, dry>>,
           Attempt(p, row, outcome), Move(p, "write"),
           added[p] \subseteq added'[p],
           UNCHANGED <<world, db, written, noted, holder>>,
           ~dry[p] => Backed(Current(p), row.etag, ingested \cup added'[p])
    PROVE  ValidatorNeverAhead' /\ ProcessTags(p)'
<1>1. ValidatorNeverAhead'
  BY DEF TagsInv, ValidatorNeverAhead, db
<1>2. attempt'[p].row = row /\ stage'[p] = "write"
  BY DEF TypesInv, TypeOK, SessionTypeOK, Attempt, Move
<1>3. ingested' = ingested /\ written' = written /\ dry' = dry /\ todo' = todo
  BY DEF db
<1>4. ProcessTags(p)'
  BY <1>2, <1>3 DEF TagsInv, ProcessTags, Current, Backed
<1>. QED BY <1>1, <1>4

LEMMA TagsWrite ==
    ASSUME TypesInv, TagsInv, NEW p \in Processes, Write(p)
    PROVE  ValidatorNeverAhead' /\ ProcessTags(p)'
<1> DEFINE s == Current(p)
           a == attempt[p]
           stored == Merge(a.row, a.base, rows[s])
<1>1. /\ s \in Sources /\ a.row \in Rows
      /\ a.base # NoRow => rows[s] \in Rows
      /\ Backed(s, a.row.etag, ingested \cup added[p])
  BY DEF TypesInv, TypeOK, SessionTypeOK, Write, Busy, TagsInv, ProcessTags
<1>2. rows[s] \in Rows => Backed(s, rows[s].etag, ingested)
  BY <1>1, NoRowAssumption, BoundsAssumption
     DEF TagsInv, ValidatorNeverAhead, Backed, Rows
<1>3. stored.etag \in {a.row.etag} \cup {r.etag : r \in {rows[s]} \cap Rows}
  <2>1. CASE a.base = NoRow
    BY <2>1 DEF Merge
  <2>2. CASE a.base # NoRow
    <3>1. a.row \in Rows /\ rows[s] \in Rows
      BY <1>1, <2>2
    <3>2. stored.etag \in {a.row.etag, rows[s].etag}
      <4> HIDE DEF s, a
      <4>. QED BY <3>1, MergeType
    <3> HIDE DEF s, a, stored
    <3>. QED BY <3>1, <3>2
  <2>. QED BY <2>1, <2>2
<1>4. Backed(s, stored.etag, ingested \cup added[p])
  <2> HIDE DEF s, a, stored
  <2>. QED BY <1>1, <1>2, <1>3 DEF Backed
<1>5. /\ written'[p] = [t \in DOMAIN written[p] \cup {s} |->
                          IF t = s THEN stored ELSE written[p][t]]
      /\ added' = added /\ rows' = rows /\ ingested' = ingested /\ stage'[p] = "select"
  BY DEF TypesInv, TypeOK, TransactionTypeOK, Write, NextSource, Move, db
<1>6. ProcessTags(p)'
  <2> HIDE DEF s, a, stored
  <2>. QED BY <1>4, <1>5 DEF TagsInv, ProcessTags
<1>7. ValidatorNeverAhead'
  BY <1>5 DEF TagsInv, ValidatorNeverAhead
<1>. QED BY <1>6, <1>7

LEMMA TagsStep ==
    ASSUME TypesInv, TagsInv, NEW p \in Processes, Step(p)
    PROVE  ValidatorNeverAhead' /\ ProcessTags(p)'
<1>1. CASE Finish(p) \/ RefuseSource(p)
  BY <1>1, TagsCommit DEF Finish, RefuseSource
<1>2. CASE WriteConflict(p) \/ IngestConflict(p) \/ Crash(p)
  BY <1>2, TagsRollback DEF WriteConflict, IngestConflict, Crash
<1>3. CASE Write(p)
  BY <1>3, TagsWrite
<1>4. CASE Start(p) \/ SkipWrite(p)
  <2>1. UNCHANGED <<db, transaction>> /\ stage'[p] = "select"
    BY <1>4 DEF TypesInv, TypeOK, Start, SkipWrite, NextSource, Move
  <2>. QED BY <2>1 DEF TagsInv, ValidatorNeverAhead, ProcessTags, db, transaction
<1>5. CASE ReadState(p)
  <2>1. Current(p) \in Sources
    BY <1>5 DEF TypesInv, TypeOK, ReadState, Runnable
  <2>2. UNCHANGED <<db, transaction, todo>> /\ stage'[p] \in {"request", "file"}
        /\ snapshot'[p] = StateOf(Current(p))
    BY <1>5 DEF TypesInv, TypeOK, SessionTypeOK, ReadState, Move
  <2>3. Backed(Current(p), StateOf(Current(p)).etag, ingested)
    BY <2>1, StateOfBacked DEF TagsInv
  <2>. QED BY <2>2, <2>3 DEF TagsInv, ValidatorNeverAhead, ProcessTags, db, transaction, Current
<1>6. CASE Retry(p) \/ Receive(p)
  <2>1. UNCHANGED <<db, transaction, todo, snapshot>>
        /\ stage[p] \in {"request", "file"} /\ stage'[p] \in {"request", "ingest"}
    BY <1>6 DEF TypesInv, TypeOK, Retry, Receive, Move
  <2>. QED BY <2>1 DEF TagsInv, ValidatorNeverAhead, ProcessTags, db, transaction, Current
<1>7. CASE Blocked(p) \/ FailFetch(p) \/ NotModified(p)
  <2>1. Current(p) \in Sources
    BY <1>7 DEF TypesInv, TypeOK, SessionTypeOK, Blocked, FailFetch, NotModified, Runnable, Busy
  <2>2. clock \in Nat /\ snapshot[p] \in Rows /\ StateOf(Current(p)) \in Rows
    BY <2>1, StateOfType, BoundsAssumption DEF TypesInv, TypeOK, SessionTypeOK
  <2>3. PICK row \in Rows, outcome \in Outcomes :
           /\ Attempt(p, row, outcome)
           /\ \/ row.etag = StateOf(Current(p)).etag
              \/ stage[p] \in {"request", "file"} /\ row.etag = snapshot[p].etag
    BY <1>7, <2>2, WantedRowTypes, FailingAssumption
       DEF Blocked, FailFetch, NotModified, Outcomes
  <2>4. Backed(Current(p), row.etag, ingested)
    BY <2>1, <2>3, StateOfBacked DEF TagsInv, ProcessTags
  <2>5. /\ UNCHANGED <<reply, snapshot, tries, todo, dry>> /\ Move(p, "write")
        /\ UNCHANGED <<world, db, added, written, noted, holder>>
    BY <1>7 DEF Blocked, FailFetch, NotModified, transaction
  <2>6. ~dry[p] => Backed(Current(p), row.etag, ingested \cup added'[p])
    BY <2>4 DEF Backed
  <2>. QED BY <2>3, <2>5, <2>6, TagsAttempt
<1>8. CASE Ingest(p)
  <2> DEFINE row == SuccessRow(snapshot[p], Current(p), reply[p])
  <2>1. clock \in Nat /\ snapshot[p] \in Rows /\ reply[p] \in Replies /\ Current(p) \in Sources
    BY <1>8, BoundsAssumption DEF TypesInv, TypeOK, SessionTypeOK, Ingest, Busy
  <2>2. row \in Rows /\ row.etag \in {reply[p].version, snapshot[p].etag}
    BY <2>1, WantedRowTypes
  <2>3. Backed(Current(p), snapshot[p].etag, ingested)
    BY <1>8 DEF TagsInv, ProcessTags, Ingest
  <2>4. /\ added[p] \subseteq added'[p]
        /\ ~dry[p] => <<Current(p), reply[p].version>> \in ingested \cup added'[p]
    BY <1>8 DEF TypesInv, TransactionTypeOK, Ingest
  <2>5. ~dry[p] => Backed(Current(p), row.etag, ingested \cup added'[p])
    <3> HIDE DEF row
    <3>. QED BY <2>2, <2>3, <2>4 DEF Backed
  <2>6. /\ UNCHANGED <<reply, snapshot, tries, todo, dry>> /\ Move(p, "write")
        /\ Attempt(p, row, "success")
        /\ UNCHANGED <<world, db, written, noted, holder>>
    BY <1>8 DEF Ingest
  <2>7. "success" \in Outcomes
    BY DEF Outcomes
  <2>. QED BY <2>2, <2>4, <2>5, <2>6, <2>7, TagsAttempt
<1>. QED BY <1>1, <1>2, <1>3, <1>4, <1>5, <1>6, <1>7, <1>8 DEF Step, Advance

LEMMA TagsNext == TypesInv /\ TagsInv /\ [Next]_vars => TagsInv'
<1> SUFFICES ASSUME TypesInv, TagsInv, [Next]_vars PROVE TagsInv'
  OBVIOUS
<1>1. ASSUME NEW p \in Processes, Step(p) PROVE TagsInv'
  <2>1. ValidatorNeverAhead' /\ ProcessTags(p)'
    BY <1>1, TagsStep
  <2>2. ASSUME NEW q \in Processes \ {p} PROVE ProcessTags(q)'
    BY <1>1, OthersKept, IngestedGrows, TagsKept DEF TagsInv
  <2>. QED BY <2>1, <2>2 DEF TagsInv
<1>2. CASE Tick \/ \E s \in Sources : Publish(s) \/ Suspend(s)
  BY <1>2, WorldKeeps
     DEF TagsInv, ValidatorNeverAhead, ProcessTags, Current, db, session, transaction
<1>3. CASE UNCHANGED vars
  BY <1>3
     DEF TagsInv, ValidatorNeverAhead, ProcessTags, Current, db, session, transaction, vars
<1>. QED BY <1>1, <1>2, <1>3 DEF Next, Step

\* A stored entity tag is that of a version whose records are stored, for any
\* number of processes fetching a source at the same time: no server is ever
\* asked whether something changed that was never stored.
THEOREM TagsNeverAhead == Spec => []ValidatorNeverAhead
<1>1. Init => TypesInv /\ TagsInv
  BY InitTypes DEF Init, TagsInv, ValidatorNeverAhead, ProcessTags
<1>2. TypesInv /\ TagsInv /\ [Next]_vars => (TypesInv /\ TagsInv)'
  BY NextTypes, TagsNext
<1>3. TagsInv => ValidatorNeverAhead
  BY DEF TagsInv
<1>. QED BY <1>1, <1>2, <1>3, PTL DEF Spec

-----------------------------------------------------------------------------
(* Records, rows and attempts go together. *)

Pairs == Sources \X (0 .. MaxVersion)

\* A sequence of entries has a success with an item; an entry of a source.
Logged(item, entries) ==
    \E i \in DOMAIN entries :
        entries[i].outcome = "success" /\ <<entries[i].source, entries[i].version>> = item
Mentioned(s, entries) == \E i \in DOMAIN entries : entries[i].source = s

LEMMA LoggedConcat ==
    ASSUME NEW item, NEW s, NEW one \in Seq(Entries), NEW two \in Seq(Entries)
    PROVE  /\ Logged(item, one \o two) <=> Logged(item, one) \/ Logged(item, two)
           /\ Mentioned(s, one \o two) <=> Mentioned(s, one) \/ Mentioned(s, two)
<1> DEFINE both == one \o two
<1>1. /\ DOMAIN both = 1 .. Len(one) + Len(two)
      /\ DOMAIN one = 1 .. Len(one) /\ DOMAIN two = 1 .. Len(two)
      /\ Len(one) \in Nat /\ Len(two) \in Nat
      /\ \A i \in DOMAIN both :
            both[i] = IF i <= Len(one) THEN one[i] ELSE two[i - Len(one)]
  OBVIOUS
<1>2. \A i \in DOMAIN one : i \in DOMAIN both /\ both[i] = one[i]
  BY <1>1
<1>3. \A i \in DOMAIN two : i + Len(one) \in DOMAIN both /\ both[i + Len(one)] = two[i]
  BY <1>1
<1>4. \A i \in DOMAIN both :
         \/ i \in DOMAIN one /\ both[i] = one[i]
         \/ i - Len(one) \in DOMAIN two /\ both[i] = two[i - Len(one)]
  BY <1>1
<1> HIDE DEF both
<1>5. Logged(item, both) <=> Logged(item, one) \/ Logged(item, two)
  BY <1>2, <1>3, <1>4 DEF Logged
<1>6. Mentioned(s, both) <=> Mentioned(s, one) \/ Mentioned(s, two)
  BY <1>2, <1>3, <1>4 DEF Mentioned
<1>. QED BY <1>5, <1>6 DEF both

LEMMA LoggedAppend ==
    ASSUME NEW entries \in Seq(Entries), NEW e \in Entries
    PROVE  /\ \A item : Logged(item, Append(entries, e)) <=>
                 \/ Logged(item, entries)
                 \/ e.outcome = "success" /\ <<e.source, e.version>> = item
           /\ \A s : Mentioned(s, Append(entries, e)) <=> Mentioned(s, entries) \/ e.source = s
<1> DEFINE longer == Append(entries, e)
           last == Len(entries) + 1
<1>1. /\ DOMAIN longer = DOMAIN entries \cup {last}
      /\ longer[last] = e
      /\ \A i \in DOMAIN entries : longer[i] = entries[i]
  OBVIOUS
<1> HIDE DEF longer, last
<1>2. \A item : Logged(item, longer) <=>
        \/ Logged(item, entries)
        \/ e.outcome = "success" /\ <<e.source, e.version>> = item
  BY <1>1 DEF Logged
<1>3. \A s : Mentioned(s, longer) <=> Mentioned(s, entries) \/ e.source = s
  BY <1>1 DEF Mentioned
<1>. QED BY <1>2, <1>3 DEF longer

\* The attempt a process is about to write is the success that added an item.
Sending(p, item) ==
    /\ stage[p] = "write" /\ ~dry[p]
    /\ attempt[p].entry.outcome = "success"
    /\ <<attempt[p].entry.source, attempt[p].entry.version>> = item

StoredTogether ==
    /\ \A item \in Pairs : item \in ingested <=> Logged(item, log)
    /\ \A s \in Sources : rows[s] # NoRow <=> Mentioned(s, log)

ProcessTogether(p) ==
    /\ \A item \in Pairs :
          /\ Logged(item, noted[p]) \/ Sending(p, item) => item \in ingested \cup added[p]
          /\ item \in added[p] => Logged(item, noted[p]) \/ Sending(p, item)
    /\ \A s \in Sources : s \in DOMAIN written[p] <=> Mentioned(s, noted[p])
    /\ stage[p] = "write" => attempt[p].entry.source = Current(p)

TogetherInv == StoredTogether /\ \A p \in Processes : ProcessTogether(p)

LEMMA TogetherKept ==
    ASSUME NEW q \in Processes, ProcessTogether(q), Kept(q), ingested \subseteq ingested'
    PROVE  ProcessTogether(q)'
  BY DEF ProcessTogether, Kept, Current, Sending

LEMMA TogetherClear ==
    ASSUME TypesInv, NEW p \in Processes, Clear(p)
    PROVE  ProcessTogether(p)'
<1>1. added'[p] = {} /\ DOMAIN written'[p] = {} /\ noted'[p] = <<>> /\ stage'[p] = "idle"
  BY DEF TypesInv, TypeOK, TransactionTypeOK, Clear, Move
<1>. QED BY <1>1 DEF ProcessTogether, Sending, Logged, Mentioned

LEMMA TogetherCommit ==
    ASSUME TypesInv, TogetherInv, NEW p \in Processes, CommitWork(p), stage[p] = "select"
    PROVE  StoredTogether'
<1>1. log' = log \o noted[p] /\ log \in Seq(Entries) /\ noted[p] \in Seq(Entries)
  BY DEF TypesInv, TypeOK, TransactionTypeOK, CommitWork
<1>2. ASSUME NEW item \in Pairs PROVE item \in ingested' <=> Logged(item, log')
  <2>1. Logged(item, log') <=> Logged(item, log) \/ Logged(item, noted[p])
    BY <1>1, LoggedConcat
  <2>2. ~Sending(p, item)
    BY DEF Sending
  <2>. QED BY <2>1, <2>2 DEF TogetherInv, StoredTogether, ProcessTogether, CommitWork
<1>3. ASSUME NEW s \in Sources PROVE rows'[s] # NoRow <=> Mentioned(s, log')
  <2>1. Mentioned(s, log') <=> Mentioned(s, log) \/ Mentioned(s, noted[p])
    BY <1>1, LoggedConcat
  <2>2. rows'[s] = IF s \in DOMAIN written[p] THEN written[p][s] ELSE rows[s]
    BY DEF CommitWork
  <2>3. s \in DOMAIN written[p] => written[p][s] # NoRow
    BY NoRowAssumption, BoundsAssumption DEF TypesInv, TransactionTypeOK, Rows
  <2>4. (s \in DOMAIN written[p] <=> Mentioned(s, noted[p])) /\ (rows[s] # NoRow <=> Mentioned(s, log))
    BY DEF TogetherInv, StoredTogether, ProcessTogether
  <2>. QED BY <2>1, <2>2, <2>3, <2>4
<1>. QED BY <1>2, <1>3 DEF StoredTogether

\* Sending an attempt of a source: a success has its item stored or added.
LEMMA TogetherAttempt ==
    ASSUME TypesInv, TogetherInv, NEW p \in Processes, NEW row \in Rows,
           NEW outcome \in Outcomes, stage[p] # "write",
           UNCHANGED <<reply, snapshot, tries, todo, dry>>,
           Attempt(p, row, outcome), Move(p, "write"),
           UNCHANGED <<world, db, written, noted, holder>>,
           \/ outcome # "success" /\ added' = added
           \/ /\ outcome = "success"
              /\ added'[p] = IF dry[p] THEN added[p] ELSE
                    added[p] \cup ({<<Current(p), reply[p].version>>} \ ingested)
    PROVE  StoredTogether' /\ ProcessTogether(p)'
<1> DEFINE it == <<Current(p), reply[p].version>>
<1>1. StoredTogether'
  BY DEF TogetherInv, StoredTogether, db
<1>2. /\ attempt'[p].entry.source = Current(p)
      /\ attempt'[p].entry.version = reply[p].version
      /\ attempt'[p].entry.outcome = outcome
      /\ stage'[p] = "write"
  BY DEF TypesInv, TypeOK, SessionTypeOK, Attempt, Move
<1>3. UNCHANGED <<ingested, written, noted, dry, todo>>
  BY DEF db
<1>4. \A item \in Pairs : ~Sending(p, item)
                       /\ (Sending(p, item)' <=> ~dry[p] /\ outcome = "success" /\ it = item)
  BY <1>2, <1>3 DEF Sending
<1>5. ASSUME NEW item \in Pairs
      PROVE  /\ Logged(item, noted[p])' \/ Sending(p, item)' => item \in ingested' \cup added'[p]
             /\ item \in added'[p] => Logged(item, noted[p])' \/ Sending(p, item)'
  <2>1. Logged(item, noted[p])' <=> Logged(item, noted[p])
    BY <1>3
  <2>2. /\ Logged(item, noted[p]) => item \in ingested \cup added[p]
        /\ item \in added[p] => Logged(item, noted[p])
    BY <1>4 DEF TogetherInv, ProcessTogether
  <2> HIDE DEF it
  <2>3. CASE outcome # "success" /\ added' = added
    BY <1>3, <1>4, <2>1, <2>2, <2>3
  <2>4. CASE outcome = "success" /\ added'[p] = IF dry[p] THEN added[p]
                                                ELSE added[p] \cup ({it} \ ingested)
    BY <1>3, <1>4, <2>1, <2>2, <2>4
  <2>. QED BY <2>3, <2>4 DEF it
<1>6. \A s \in Sources : s \in DOMAIN written'[p] <=> Mentioned(s, noted'[p])
  BY <1>3 DEF TogetherInv, ProcessTogether
<1>7. attempt'[p].entry.source = Current(p)'
  BY <1>2, <1>3 DEF Current
<1>8. ProcessTogether(p)'
  BY <1>5, <1>6, <1>7 DEF ProcessTogether
<1>. QED BY <1>1, <1>8

LEMMA TogetherWrite ==
    ASSUME TypesInv, TogetherInv, NEW p \in Processes, Write(p)
    PROVE  StoredTogether' /\ ProcessTogether(p)'
<1> DEFINE e == attempt[p].entry
<1>1. /\ e \in Entries /\ e.source = Current(p) /\ noted[p] \in Seq(Entries)
      /\ stage[p] = "write" /\ ~dry[p]
  BY DEF TypesInv, SessionTypeOK, TransactionTypeOK, TogetherInv, ProcessTogether, Write
<1>2. /\ noted'[p] = Append(noted[p], e) /\ added' = added /\ ingested' = ingested
      /\ DOMAIN written'[p] = DOMAIN written[p] \cup {Current(p)}
      /\ stage'[p] = "select"
  BY DEF TypesInv, TypeOK, TransactionTypeOK, Write, NextSource, Move, db
<1>3. StoredTogether'
  BY DEF TogetherInv, StoredTogether, Write, db
<1>4. ASSUME NEW item \in Pairs
      PROVE  Logged(item, noted'[p]) <=> Logged(item, noted[p]) \/ Sending(p, item)
  <2> HIDE DEF e
  <2>1. Logged(item, noted'[p]) <=>
           \/ Logged(item, noted[p])
           \/ e.outcome = "success" /\ <<e.source, e.version>> = item
    BY <1>1, <1>2, LoggedAppend
  <2>. QED BY <1>1, <2>1 DEF Sending, e
<1>5. ASSUME NEW s \in Sources
      PROVE  Mentioned(s, noted'[p]) <=> Mentioned(s, noted[p]) \/ Current(p) = s
  <2> HIDE DEF e
  <2>. QED BY <1>1, <1>2, LoggedAppend
<1>6. \A item \in Pairs : ~Sending(p, item)'
  BY <1>2 DEF Sending
<1>7. ProcessTogether(p)'
  BY <1>2, <1>4, <1>5, <1>6 DEF TogetherInv, ProcessTogether
<1>. QED BY <1>3, <1>7

LEMMA TogetherStep ==
    ASSUME TypesInv, TogetherInv, NEW p \in Processes, Step(p)
    PROVE  StoredTogether' /\ ProcessTogether(p)'
<1>1. CASE Finish(p) \/ RefuseSource(p)
  BY <1>1, TogetherCommit, TogetherClear DEF Finish, RefuseSource
<1>2. CASE WriteConflict(p) \/ IngestConflict(p) \/ Crash(p)
  <2>1. Clear(p) /\ UNCHANGED db
    BY <1>2 DEF WriteConflict, IngestConflict, Crash, Rollback
  <2>. QED BY <2>1, TogetherClear DEF TogetherInv, StoredTogether, db
<1>3. CASE Write(p)
  BY <1>3, TogetherWrite
<1>4. CASE Start(p) \/ SkipWrite(p) \/ ReadState(p) \/ Retry(p) \/ Receive(p)
  <2>1. UNCHANGED <<db, transaction>> /\ stage'[p] # "write"
    BY <1>4 DEF TypesInv, TypeOK, Start, SkipWrite, NextSource, ReadState, Retry, Receive, Move
  <2>2. \A item \in Pairs : ~Sending(p, item)
    BY <1>4 DEF Sending, Start, SkipWrite, ReadState, Retry, Receive, Runnable
  <2>3. \A item \in Pairs : ~Sending(p, item)'
    BY <2>1 DEF Sending
  <2>. QED BY <2>1, <2>2, <2>3
           DEF TogetherInv, StoredTogether, ProcessTogether, db, transaction
<1>5. CASE Blocked(p) \/ FailFetch(p) \/ NotModified(p)
  <2>1. Current(p) \in Sources
    BY <1>5 DEF TypesInv, TypeOK, SessionTypeOK, Blocked, FailFetch, NotModified, Runnable, Busy
  <2>2. clock \in Nat /\ snapshot[p] \in Rows /\ StateOf(Current(p)) \in Rows
    BY <2>1, StateOfType, BoundsAssumption DEF TypesInv, TypeOK, SessionTypeOK
  <2>3. PICK row \in Rows, outcome \in Outcomes :
           Attempt(p, row, outcome) /\ outcome # "success"
    BY <1>5, <2>2, WantedRowTypes, FailingAssumption
       DEF Blocked, FailFetch, NotModified, Outcomes
  <2>4. /\ UNCHANGED <<reply, snapshot, tries, todo, dry>> /\ Move(p, "write")
        /\ UNCHANGED <<world, db, added, written, noted, holder>> /\ stage[p] # "write"
    BY <1>5 DEF Blocked, FailFetch, NotModified, Runnable, transaction
  <2>. QED BY <2>3, <2>4, TogetherAttempt
<1>6. CASE Ingest(p)
  <2> DEFINE row == SuccessRow(snapshot[p], Current(p), reply[p])
  <2>1. clock \in Nat /\ snapshot[p] \in Rows /\ reply[p] \in Replies /\ Current(p) \in Sources
    BY <1>6, BoundsAssumption DEF TypesInv, TypeOK, SessionTypeOK, Ingest, Busy
  <2>2. row \in Rows
    BY <2>1, WantedRowTypes
  <2>3. added'[p] = IF dry[p] THEN added[p] ELSE
                      added[p] \cup ({<<Current(p), reply[p].version>>} \ ingested)
    BY <1>6 DEF TypesInv, TransactionTypeOK, Ingest
  <2>4. /\ UNCHANGED <<reply, snapshot, tries, todo, dry>> /\ Move(p, "write")
        /\ Attempt(p, row, "success") /\ stage[p] # "write"
        /\ UNCHANGED <<world, db, written, noted, holder>>
    BY <1>6 DEF Ingest
  <2>5. "success" \in Outcomes
    BY DEF Outcomes
  <2>. QED BY <2>2, <2>3, <2>4, <2>5, TogetherAttempt
<1>. QED BY <1>1, <1>2, <1>3, <1>4, <1>5, <1>6 DEF Step, Advance

LEMMA TogetherNext == TypesInv /\ TogetherInv /\ [Next]_vars => TogetherInv'
<1> SUFFICES ASSUME TypesInv, TogetherInv, [Next]_vars PROVE TogetherInv'
  OBVIOUS
<1>1. ASSUME NEW p \in Processes, Step(p) PROVE TogetherInv'
  <2>1. StoredTogether' /\ ProcessTogether(p)'
    BY <1>1, TogetherStep
  <2>2. ASSUME NEW q \in Processes \ {p} PROVE ProcessTogether(q)'
    BY <1>1, OthersKept, IngestedGrows, TogetherKept DEF TogetherInv
  <2>. QED BY <2>1, <2>2 DEF TogetherInv
<1>2. CASE (Tick \/ \E s \in Sources : Publish(s) \/ Suspend(s)) \/ UNCHANGED vars
  <2>1. UNCHANGED <<db, session, transaction>>
    BY <1>2, WorldKeeps DEF vars
  <2>. QED BY <2>1 DEF TogetherInv, StoredTogether, ProcessTogether, Sending, Current, db,
                       session, transaction
<1>. QED BY <1>1, <1>2 DEF Next, Step

\* Records, fetch states and attempts are committed together or not at all:
\* what is stored is what the stored attempts say was stored.
THEOREM OutcomesStayTogether == Spec => []OutcomesAreAtomic
<1>1. Init => TypesInv /\ TogetherInv
  BY InitTypes
     DEF Init, TogetherInv, StoredTogether, ProcessTogether, Sending, Logged, Mentioned
<1>2. TypesInv /\ TogetherInv /\ [Next]_vars => (TypesInv /\ TogetherInv)'
  BY NextTypes, TogetherNext
<1>3. TypesInv /\ TogetherInv => OutcomesAreAtomic
  <2> SUFFICES ASSUME TypesInv, TogetherInv PROVE OutcomesAreAtomic
    OBVIOUS
  <2>1. ingested \subseteq Pairs
    BY BoundsAssumption DEF TypesInv, TypeOK, Pairs
  <2>2. \A i \in DOMAIN log : <<log[i].source, log[i].version>> \in Pairs
    <3>1. ASSUME NEW i \in DOMAIN log PROVE log[i] \in Entries
      BY <3>1 DEF TypesInv, TypeOK
    <3>. QED BY <3>1 DEF Entries, Pairs
  <2>3. \A item \in Pairs : item \in ingested <=> Logged(item, log)
    BY DEF TogetherInv, StoredTogether
  <2>4. ingested = {<<log[i].source, log[i].version>> :
                       i \in {j \in DOMAIN log : log[j].outcome = "success"}}
    BY <2>1, <2>2, <2>3 DEF Logged
  <2>5. \A s \in Sources : rows[s] # NoRow <=> \E i \in DOMAIN log : log[i].source = s
    BY DEF TogetherInv, StoredTogether, Mentioned
  <2>. QED BY <2>4, <2>5 DEF OutcomesAreAtomic
<1>. QED BY <1>1, <1>2, <1>3, PTL DEF Spec

-----------------------------------------------------------------------------
(* One process at a time: the log accounts for the rows.                   *)

OneProcess == \A p, q \in Processes : p = q

\* By t the minimum interval has passed since every download of a source, and
\* version v has not come with its tag yet.
Ripe(s, t) == \A i \in Successes(s) : log[i].at + MinInterval[s] <= t
Unseen(s, v) == \A i \in Successes(s) : log[i].tagged => log[i].version < v

\* What a fetch makes of the stored row.
RowAfter(s, old, entry, row) ==
    /\ row \in Rows
    /\ entry.outcome \in {"success", "no_change"} => row.failures = 0 /\ row.health = "healthy"
    /\ entry.outcome \notin {"success", "no_change"} =>
          /\ row.failures = old.failures + 1
          /\ row.nextAllowed = old.nextAllowed
          /\ row.health = IF entry.outcome = "failed" THEN "failing" ELSE "blocked"
    /\ entry.outcome = "success" /\ entry.tagged => row.etag = entry.version
    /\ ~(entry.outcome = "success" /\ entry.tagged) => row.etag = old.etag
    /\ entry.outcome = "success" =>
          row.nextAllowed = IF MinInterval[s] = 0 THEN 0 ELSE entry.at + MinInterval[s]

\* An entry that is to follow those of the log, with its row.
Follows(s, entry, row) ==
    /\ entry.source = s /\ entry.at <= clock
    /\ RowAfter(s, StateOf(s), entry, row)
    /\ s \in Network /\ entry.outcome \in {"success", "no_change"} => Ripe(s, entry.at)
    /\ s \in Network /\ entry.outcome = "success" =>
          Unseen(s, entry.version) /\ entry.version <= version[s]

RowCounts(s) ==
    rows[s] # NoRow =>
        /\ rows[s].failures = Cardinality(Failures(s))
        /\ rows[s].health = CASE log[Max(Attempts(s))].outcome \in {"blocked", "policy_blocked"}
                                    -> "blocked"
                              [] log[Max(Attempts(s))].outcome = "failed" -> "failing"
                              [] OTHER -> "healthy"

\* The interval since a download has passed or the row says so; a version that
\* came with its tag is an old one or the row has the tag.
DownloadsKnown(s) ==
    \A i \in Successes(s) :
        /\ log[i].at + MinInterval[s] <= clock \/ log[i].at + MinInterval[s] <= rows[s].nextAllowed
        /\ log[i].version <= version[s]
        /\ log[i].tagged => log[i].version < version[s] \/ rows[s].etag = log[i].version

DownloadsApart(s) ==
    \A i, j \in Successes(s) : i < j =>
        /\ log[j].at - log[i].at >= MinInterval[s]
        /\ log[i].tagged => log[j].version # log[i].version

SourceInv(s) ==
    RowCounts(s) /\ (s \in Network => DownloadsKnown(s) /\ DownloadsApart(s))

\* What a process has not committed follows the log, once for each source.
TransactionFollows(p) ==
    /\ \A k \in DOMAIN noted[p] :
          LET s == noted[p][k].source IN
          /\ s \in DOMAIN written[p] /\ Follows(s, noted[p][k], written[p][s])
    /\ \A k, l \in DOMAIN noted[p] : noted[p][k].source = noted[p][l].source => k = l
    /\ todo[p] \cap DOMAIN written[p] = {}

SessionFollows(p) ==
    LET s == Current(p) IN
    /\ stage[p] \in Busy => s \in todo[p]
    /\ stage[p] = "file" => s \in Exports
    /\ stage[p] \in {"request", "file", "ingest"} =>
          snapshot[p] = StateOf(s) /\ (s \in Network => Ripe(s, clock))
    /\ stage[p] = "ingest" /\ s \in Network =>
          Unseen(s, reply[p].version) /\ reply[p].version <= version[s]
    /\ stage[p] = "write" =>
          attempt[p].base = rows[s] /\ Follows(s, attempt[p].entry, attempt[p].row)

SequentialInv ==
    /\ \A s \in Sources : SourceInv(s)
    /\ \A p \in Processes : TransactionFollows(p) /\ SessionFollows(p)

\* Of some numbers one is the least.
LEMMA SmallestNumber ==
    \A T \in SUBSET Nat : T # {} => \E n \in T : \A m \in T : n <= m
<1> DEFINE Less == {q \in Nat \X Nat : q[1] < q[2]}
<1>1. IsWellFoundedOn(Less, Nat)
  BY NatLessThanWellFounded DEF OpToRel
<1>2. SUFFICES ASSUME NEW T \in SUBSET Nat, T # {}
               PROVE  \E n \in T : \A m \in T : n <= m
  OBVIOUS
<1>3. PICK n \in T : \A m \in T : ~ (<<m, n>> \in Less)
  <2> HIDE DEF Less
  <2>. QED BY <1>1, <1>2, WFMin
<1>4. \A m \in T : ~ (m < n)
  BY <1>3
<1>5. \A m \in T : n <= m
  BY <1>4
<1>. QED BY <1>5

LEMMA CurrentIsOfTodo ==
    ASSUME TypesInv, NEW p \in Processes, todo[p] # {}
    PROVE  Current(p) \in todo[p]
<1>1. todo[p] \in SUBSET Nat
  BY SourcesAssumption DEF TypesInv, TypeOK
<1>2. \E n \in todo[p] : \A m \in todo[p] : n <= m
  BY <1>1, SmallestNumber
<1>. QED BY <1>2 DEF Current, Min

\* Positions of the log.
LEMMA PositionsOf ==
    ASSUME TypesInv, NEW s \in Sources
    PROVE  /\ DOMAIN log = 1 .. Len(log) /\ Len(log) \in Nat
           /\ \A i \in DOMAIN log : /\ log[i] \in Entries /\ log[i].at \in Nat
                                    /\ log[i].version \in Nat /\ log[i].outcome \in Outcomes
           /\ Attempts(s) \subseteq 1 .. Len(log) /\ Failures(s) \subseteq Attempts(s)
           /\ Successes(s) \subseteq Attempts(s)
           /\ IsFiniteSet(Failures(s)) /\ MinInterval[s] \in Nat
<1>1. log \in Seq(Entries)
  BY DEF TypesInv, TypeOK
<1>2. DOMAIN log = 1 .. Len(log) /\ Len(log) \in Nat
  BY <1>1
<1>3. \A i \in DOMAIN log : log[i] \in Entries
  BY <1>1
<1>4. \A e \in Entries : e.at \in Nat /\ e.version \in Nat /\ e.outcome \in Outcomes
  BY BoundsAssumption DEF Entries, Outcomes
<1>5. Attempts(s) \subseteq 1 .. Len(log) /\ Failures(s) \subseteq Attempts(s)
      /\ Successes(s) \subseteq Attempts(s)
  BY <1>2 DEF Attempts, Failures, Successes
<1>6. IsFiniteSet(Failures(s))
  <2>1. IsFiniteSet(1 .. Len(log))
    BY <1>2, FS_Interval
  <2>2. Failures(s) \in SUBSET (1 .. Len(log))
    BY <1>5
  <2>. QED BY <2>1, <2>2, FS_Subset
<1>. QED BY <1>2, <1>3, <1>4, <1>5, <1>6, SourcesAssumption

\* A row that is there has attempts, and the other way round.
LEMMA RowHasAttempts ==
    ASSUME TogetherInv, NEW s \in Sources
    PROVE  rows[s] # NoRow <=> Attempts(s) # {}
  BY DEF TogetherInv, StoredTogether, Mentioned, Attempts

-----------------------------------------------------------------------------
(* What the world and the steps of a command leave as it was.              *)

LEMMA SequentialWorld ==
    ASSUME TypesInv, SequentialInv,
           Tick \/ (\E s \in Sources : Publish(s) \/ Suspend(s)) \/ UNCHANGED vars
    PROVE  SequentialInv'
<1>1. UNCHANGED <<db, session, transaction>>
  BY WorldKeeps DEF vars
<1>2. UNCHANGED <<rows, log, stage, todo, snapshot, reply, attempt, written, noted>>
  BY <1>1 DEF db, session, transaction
<1>3. clock <= clock' /\ clock \in Int /\ clock' \in Int
  BY BoundsAssumption DEF Tick, Publish, Suspend, vars, world, TypesInv, TypeOK
<1>4. \A s \in Sources : version[s] <= version'[s] /\ version[s] \in Int /\ version'[s] \in Int
  BY BoundsAssumption DEF Tick, Publish, Suspend, vars, world, TypesInv, TypeOK
<1>5. ASSUME NEW s \in Sources
      PROVE  /\ Attempts(s)' = Attempts(s) /\ Failures(s)' = Failures(s)
             /\ Successes(s)' = Successes(s) /\ StateOf(s)' = StateOf(s)
             /\ \A t : Ripe(s, t)' = Ripe(s, t)
             /\ \A v : Unseen(s, v)' = Unseen(s, v)
  BY <1>2 DEF Attempts, Failures, Answered, Successes, StateOf, Ripe, Unseen
<1>6. ASSUME NEW s \in Sources PROVE SourceInv(s)'
  <2>1. SourceInv(s)
    BY DEF SequentialInv
  <2>2. RowCounts(s)'
    BY <1>2, <1>5, <2>1 DEF SourceInv, RowCounts
  <2>3. s \in Network => DownloadsApart(s)'
    BY <1>2, <1>5, <2>1 DEF SourceInv, DownloadsApart
  <2>4. s \in Network => DownloadsKnown(s)'
    <3> SUFFICES ASSUME s \in Network, NEW i \in Successes(s)
                 PROVE  /\ \/ log[i].at + MinInterval[s] <= clock'
                           \/ log[i].at + MinInterval[s] <= rows[s].nextAllowed
                        /\ log[i].version <= version'[s]
                        /\ log[i].tagged =>
                              log[i].version < version'[s] \/ rows[s].etag = log[i].version
      BY <1>2, <1>5 DEF DownloadsKnown
    <3>1. i \in DOMAIN log /\ log[i].at + MinInterval[s] \in Int /\ log[i].version \in Int
      BY PositionsOf
    <3>. QED BY <1>3, <1>4, <2>1, <3>1 DEF SourceInv, DownloadsKnown
  <2>. QED BY <2>2, <2>3, <2>4 DEF SourceInv
<1>7. ASSUME NEW s \in Sources, NEW entry \in Entries, NEW row, Follows(s, entry, row)
      PROVE  Follows(s, entry, row)'
  <2>1. entry.at \in Int /\ entry.version \in Int
    BY DEF Entries
  <2>2. RowAfter(s, StateOf(s), entry, row)'
    BY <1>5, <1>7 DEF Follows, RowAfter
  <2>. QED BY <1>3, <1>4, <1>5, <1>7, <2>1, <2>2 DEF Follows
<1>8. ASSUME NEW p \in Processes PROVE TransactionFollows(p)' /\ SessionFollows(p)'
  <2>1. TransactionFollows(p) /\ SessionFollows(p)
    BY DEF SequentialInv
  <2>2. noted[p] \in Seq(Entries)
    BY DEF TypesInv, TransactionTypeOK
  <2>2a. \A k \in DOMAIN noted[p] : noted[p][k] \in Entries
    BY <2>2
  <2>3. \A k \in DOMAIN noted[p] : noted[p][k] \in Entries /\ noted[p][k].source \in Sources
    BY <2>2a DEF Entries
  <2>4. TransactionFollows(p)'
    BY <1>2, <1>7, <2>1, <2>3 DEF TransactionFollows
  <2>5. Current(p)' = Current(p)
    BY <1>2 DEF Current
  <2>6. stage[p] \in Busy => Current(p) \in Sources
    BY DEF TypesInv, SessionTypeOK
  <2>7. stage[p] = "write" => attempt[p].entry \in Entries
    BY DEF TypesInv, SessionTypeOK
  <2>8. ASSUME stage[p] \in {"request", "file", "ingest"}, Current(p) \in Network
        PROVE  Ripe(Current(p), clock')
    <3>1. Ripe(Current(p), clock) /\ Current(p) \in Sources
      BY <2>1, <2>8 DEF SessionFollows, Sources
    <3>2. \A i \in Successes(Current(p)) : log[i].at + MinInterval[Current(p)] \in Int
      BY <3>1, PositionsOf
    <3>. QED BY <1>3, <3>1, <3>2 DEF Ripe
  <2>9. reply[p].version \in Int
    BY BoundsAssumption DEF TypesInv, SessionTypeOK, Replies
  <2>10. SessionFollows(p)'
    BY <1>2, <1>4, <1>5, <1>7, <2>1, <2>5, <2>6, <2>7, <2>8, <2>9 DEF SessionFollows, Busy
  <2>. QED BY <2>4, <2>10
<1>. QED BY <1>6, <1>8 DEF SequentialInv

\* Nothing that is stored moves in a step of a command that does not commit.
LEMMA SequentialStored ==
    ASSUME SequentialInv, UNCHANGED <<version, clock, db>>
    PROVE  /\ \A s \in Sources : SourceInv(s)' /\ StateOf(s)' = StateOf(s)
           /\ \A s \in Sources : \A entry, row : Follows(s, entry, row) => Follows(s, entry, row)'
           /\ \A s \in Sources : \A t : Ripe(s, t)' = Ripe(s, t) /\ Unseen(s, t)' = Unseen(s, t)
<1>1. UNCHANGED <<rows, log, clock, version>>
  BY DEF db
<1>2. ASSUME NEW s \in Sources
      PROVE  /\ Attempts(s)' = Attempts(s) /\ Failures(s)' = Failures(s)
             /\ Successes(s)' = Successes(s) /\ StateOf(s)' = StateOf(s)
             /\ \A t : Ripe(s, t)' = Ripe(s, t) /\ Unseen(s, t)' = Unseen(s, t)
  BY <1>1 DEF Attempts, Failures, Answered, Successes, StateOf, Ripe, Unseen
<1>3. ASSUME NEW s \in Sources PROVE SourceInv(s)'
  BY <1>1, <1>2 DEF SequentialInv, SourceInv, RowCounts, DownloadsKnown, DownloadsApart
<1>4. ASSUME NEW s \in Sources, NEW entry, NEW row, Follows(s, entry, row)
      PROVE  Follows(s, entry, row)'
  BY <1>1, <1>2, <1>4 DEF Follows, RowAfter
<1>. QED BY <1>2, <1>3, <1>4

-----------------------------------------------------------------------------
(* A commit appends the entries of a command.                              *)

\* The log of a source as it was, and with one entry more.
SameLog(s) ==
    /\ Attempts(s)' = Attempts(s)
    /\ \A i \in Attempts(s) : log'[i] = log[i]
OneMore(s, n, entry) ==
    /\ Attempts(s)' = Attempts(s) \cup {n}
    /\ \A i \in Attempts(s) : log'[i] = log[i] /\ i < n
    /\ log'[n] = entry /\ n \in Nat

LEMMA LogGrows ==
    ASSUME TypesInv, NEW s \in Sources, NEW p \in Processes, CommitWork(p)
    PROVE  LET more == {k \in DOMAIN noted[p] : noted[p][k].source = s} IN
           /\ \A i \in Attempts(s) : log'[i] = log[i] /\ i <= Len(log)
           /\ \A k \in more : log'[Len(log) + k] = noted[p][k] /\ k \in Nat \ {0}
           /\ Attempts(s)' = Attempts(s) \cup {Len(log) + k : k \in more}
           /\ Len(log) \in Nat /\ Attempts(s) \subseteq Nat
<1> DEFINE one == log
           two == noted[p]
           both == one \o two
           more == {k \in DOMAIN two : two[k].source = s}
<1>1. log' = both /\ one \in Seq(Entries) /\ two \in Seq(Entries)
  BY DEF TypesInv, TypeOK, TransactionTypeOK, CommitWork
<1>2. /\ DOMAIN both = 1 .. Len(one) + Len(two)
      /\ DOMAIN one = 1 .. Len(one) /\ DOMAIN two = 1 .. Len(two)
      /\ Len(one) \in Nat /\ Len(two) \in Nat
      /\ \A i \in DOMAIN both :
            both[i] = IF i <= Len(one) THEN one[i] ELSE two[i - Len(one)]
  BY <1>1
<1>3. \A i \in DOMAIN one : i \in DOMAIN both /\ both[i] = one[i]
  BY <1>2
<1>4. \A k \in DOMAIN two : Len(one) + k \in DOMAIN both /\ both[Len(one) + k] = two[k]
  BY <1>2
<1>5. \A i \in DOMAIN both :
         \/ i \in DOMAIN one /\ both[i] = one[i]
         \/ \E k \in DOMAIN two : i = Len(one) + k /\ both[i] = two[k]
  <2> SUFFICES ASSUME NEW i \in DOMAIN both, i \notin DOMAIN one
               PROVE  \E k \in DOMAIN two : i = Len(one) + k /\ both[i] = two[k]
    BY <1>3
  <2>1. i - Len(one) \in DOMAIN two /\ i = Len(one) + (i - Len(one))
        /\ both[i] = two[i - Len(one)]
    BY <1>2
  <2>. QED BY <2>1
<1>6. /\ \A i \in Attempts(s) : both[i] = one[i] /\ i <= Len(one)
      /\ Attempts(s) \subseteq Nat
  BY <1>2, <1>3 DEF Attempts
<1>7. \A k \in more : both[Len(one) + k] = two[k] /\ k \in Nat \ {0}
  BY <1>2, <1>4
<1> HIDE DEF both
<1>8. Attempts(s)' = {i \in DOMAIN both : both[i].source = s}
  BY <1>1 DEF Attempts
<1>9. {i \in DOMAIN both : both[i].source = s} = Attempts(s) \cup {Len(one) + k : k \in more}
  BY <1>3, <1>4, <1>5 DEF Attempts
<1>. QED BY <1>1, <1>2, <1>6, <1>7, <1>8, <1>9

\* Of some positions one is the last.
LEMMA LastPosition ==
    ASSUME NEW n \in Nat, NEW T \in SUBSET (1 .. n), T # {}
    PROVE  Max(T) \in T /\ \A m \in T : m <= Max(T)
<1> DEFINE B == {b \in Nat : \A m \in T : m <= b}
<1>1. n \in B
  OBVIOUS
<1>2. B \in SUBSET Nat /\ B # {}
  BY <1>1
<1>3. PICK b \in B : \A c \in B : b <= c
  <2> HIDE DEF B
  <2>. QED BY <1>2, SmallestNumber
<1>4. b \in T
  <2> SUFFICES ASSUME b \notin T PROVE FALSE
    OBVIOUS
  <2>1. b \in Nat /\ \A m \in T : m <= b /\ m \in Nat /\ m >= 1
    OBVIOUS
  <2>2. PICK m \in T : TRUE
    OBVIOUS
  <2>3. b - 1 \in Nat
    BY <2>1, <2>2
  <2>4. \A k \in T : k <= b - 1
    <3> SUFFICES ASSUME NEW k \in T PROVE k <= b - 1
      OBVIOUS
    <3>1. k \in Nat /\ k <= b /\ k # b
      BY <2>1
    <3> HIDE DEF B
    <3>. QED BY <2>1, <3>1
  <2>5. b - 1 \in B
    BY <2>3, <2>4
  <2>. QED BY <1>3, <2>1, <2>5
<1>5. \E x \in T : \A y \in T : x >= y
  BY <1>4
<1>6. Max(T) \in T /\ \A y \in T : Max(T) >= y
  BY <1>5 DEF Max
<1>. QED BY <1>6

LEMMA SourceLeft ==
    ASSUME TypesInv, TogetherInv, NEW s \in Sources, SourceInv(s), SameLog(s),
           rows'[s] = rows[s], UNCHANGED <<clock, version>>
    PROVE  SourceInv(s)'
<1>1. /\ Attempts(s)' = Attempts(s) /\ Successes(s)' = Successes(s)
      /\ Failures(s)' = Failures(s)
  BY DEF SameLog, Failures, Answered, Successes
<1>2. RowCounts(s)'
  <2> SUFFICES ASSUME rows[s] # NoRow PROVE RowCounts(s)'
    BY DEF RowCounts
  <2>1. Max(Attempts(s)) \in Attempts(s)
    BY RowHasAttempts, PositionsOf, LastPosition
  <2>2. log'[Max(Attempts(s)')] = log[Max(Attempts(s))]
    BY <1>1, <2>1 DEF SameLog
  <2>. QED BY <1>1, <2>2 DEF SourceInv, RowCounts
<1>3. \A i \in Successes(s) : log'[i] = log[i]
  BY DEF SameLog, Successes
<1>4. s \in Network => DownloadsKnown(s)' /\ DownloadsApart(s)'
  BY <1>1, <1>3 DEF SourceInv, DownloadsKnown, DownloadsApart
<1>. QED BY <1>2, <1>4 DEF SourceInv

\* One more attempt.
LEMMA SourceMoves ==
    ASSUME TypesInv, TogetherInv, NEW s \in Sources, SourceInv(s), NEW n, NEW entry \in Entries,
           OneMore(s, n, entry), Follows(s, entry, rows'[s]), UNCHANGED <<clock, version>>
    PROVE  SourceInv(s)'
<1> DEFINE answer == entry.outcome \in {"success", "no_change"}
<1>1. /\ Attempts(s) \subseteq Nat /\ n \in Nat /\ \A i \in Attempts(s) : i < n
      /\ \A i \in Attempts(s) : log'[i] = log[i]
      /\ log'[n] = entry /\ Attempts(s)' = Attempts(s) \cup {n} /\ n \notin Attempts(s)
  BY PositionsOf DEF OneMore
<1>2. /\ entry.at \in Nat /\ entry.version \in Nat /\ entry.outcome \in Outcomes
      /\ entry.tagged \in BOOLEAN
  BY BoundsAssumption DEF Entries, Outcomes
<1>3. RowAfter(s, StateOf(s), entry, rows'[s]) /\ entry.at <= clock
  BY DEF Follows
<1>4. Max(Attempts(s)') = n
  <2>1. n \in Attempts(s)' /\ \A y \in Attempts(s)' : n >= y /\ y \in Nat
    BY <1>1
  <2> DEFINE T == Attempts(s)'
  <2>2. n \in T /\ \A y \in T : n >= y /\ y \in Nat
    BY <2>1
  <2> HIDE DEF T
  <2>3. Max(T) = n
    <3>1. \A x \in T : (\A y \in T : x >= y) => x = n
      BY <2>2
    <3>. QED BY <2>2, <3>1 DEF Max
  <2>. QED BY <2>3 DEF T
<1>5. Answered(s)' = IF answer THEN Answered(s) \cup {n} ELSE Answered(s)
  BY <1>1 DEF Answered
<1>6. Answered(s) \subseteq Attempts(s)
  BY DEF Answered
<1>7. Cardinality(Failures(s)') = IF answer THEN 0 ELSE Cardinality(Failures(s)) + 1
  <2>1. CASE answer
    <3>1. Failures(s)' = {}
      BY <1>1, <1>5, <2>1 DEF Failures
    <3>. QED BY <2>1, <3>1, FS_EmptySet
  <2>2. CASE ~answer
    <3>1. Failures(s)' = Failures(s) \cup {n}
      BY <1>1, <1>5, <1>6, <2>2 DEF Failures
    <3>2. n \notin Failures(s) /\ IsFiniteSet(Failures(s))
      BY <1>1, PositionsOf
    <3>. QED BY <2>2, <3>1, <3>2, FS_AddElement
  <2>. QED BY <2>1, <2>2
<1>8. rows[s] = NoRow => Attempts(s) = {} /\ Cardinality(Failures(s)) = 0
  BY RowHasAttempts, PositionsOf, FS_EmptySet
<1>9. rows[s] # NoRow => StateOf(s) = rows[s]
  BY DEF StateOf
<1>10. StateOf(s).failures = Cardinality(Failures(s))
  BY <1>8, <1>9 DEF StateOf, FreshRow, SourceInv, RowCounts
<1>11. RowCounts(s)'
  <2>1. rows'[s].failures = Cardinality(Failures(s)')
    BY <1>3, <1>7, <1>10 DEF RowAfter
  <2>2. log'[Max(Attempts(s)')].outcome = entry.outcome
    BY <1>1, <1>4
  <2>3. rows'[s].health = CASE entry.outcome \in {"blocked", "policy_blocked"} -> "blocked"
                            [] entry.outcome = "failed" -> "failing"
                            [] OTHER -> "healthy"
    BY <1>2, <1>3 DEF RowAfter, Outcomes
  <2>. QED BY <2>1, <2>2, <2>3 DEF RowCounts
<1>12. ASSUME s \in Network PROVE DownloadsKnown(s)' /\ DownloadsApart(s)'
  <2>1. /\ DownloadsKnown(s) /\ DownloadsApart(s)
        /\ answer => Ripe(s, entry.at)
        /\ entry.outcome = "success" => Unseen(s, entry.version) /\ entry.version <= version[s]
    BY <1>12 DEF SourceInv, Follows
  <2>2. Successes(s)' = IF entry.outcome = "success" THEN Successes(s) \cup {n}
                        ELSE Successes(s)
    BY <1>1 DEF Successes
  <2>3. \A i \in Successes(s) :
           /\ i \in Attempts(s) /\ log'[i] = log[i] /\ i < n
           /\ log[i].at \in Nat /\ log[i].version \in Nat /\ rows[s] # NoRow
    BY <1>1, <1>8, PositionsOf
  <2>4. /\ MinInterval[s] \in Nat /\ clock \in Nat /\ version[s] \in Nat
        /\ rows[s] # NoRow => rows[s].nextAllowed \in Nat
    BY SourcesAssumption, BoundsAssumption DEF TypesInv, TypeOK, Rows
  <2>5. rows'[s].nextAllowed \in Nat
    BY <1>3 DEF RowAfter, Rows
  <2>6. ASSUME NEW i \in Successes(s)
        PROVE  /\ \/ log[i].at + MinInterval[s] <= clock
                  \/ log[i].at + MinInterval[s] <= rows'[s].nextAllowed
               /\ log[i].version <= version[s]
               /\ log[i].tagged =>
                     log[i].version < version[s] \/ rows'[s].etag = log[i].version
    <3>1. CASE answer
      <4>1. log[i].at + MinInterval[s] <= clock
        BY <1>2, <1>3, <2>1, <2>3, <2>4, <3>1 DEF Ripe
      <4>2. CASE entry.outcome = "success"
        BY <1>2, <2>1, <2>3, <2>4, <4>1, <4>2 DEF DownloadsKnown, Unseen
      <4>3. CASE entry.outcome # "success"
        BY <1>3, <1>9, <2>1, <2>3, <4>1, <4>3 DEF DownloadsKnown, RowAfter
      <4>. QED BY <4>2, <4>3
    <3>2. CASE ~answer
      BY <1>3, <1>9, <2>1, <2>3, <3>2 DEF DownloadsKnown, RowAfter
    <3>. QED BY <3>1, <3>2
  <2>7. ASSUME entry.outcome = "success"
        PROVE  /\ entry.at + MinInterval[s] <= clock \/ entry.at + MinInterval[s] <= rows'[s].nextAllowed
               /\ entry.version <= version[s]
               /\ entry.tagged => rows'[s].etag = entry.version
    BY <1>2, <1>3, <2>1, <2>4, <2>5, <2>7 DEF RowAfter
  <2>8. DownloadsKnown(s)'
    BY <1>1, <2>2, <2>3, <2>6, <2>7 DEF DownloadsKnown
  <2>9. ASSUME NEW i \in Successes(s), entry.outcome = "success"
        PROVE  /\ entry.at - log[i].at >= MinInterval[s]
               /\ log[i].tagged => entry.version # log[i].version
    BY <1>2, <2>1, <2>3, <2>4, <2>9 DEF Ripe, Unseen
  <2>10. DownloadsApart(s)'
    <3> SUFFICES ASSUME NEW i \in Successes(s)', NEW j \in Successes(s)', i < j
                 PROVE  /\ log'[j].at - log'[i].at >= MinInterval[s]
                        /\ log'[i].tagged => log'[j].version # log'[i].version
      BY DEF DownloadsApart
    <3>1. CASE i \in Successes(s) /\ j \in Successes(s)
      BY <2>1, <2>3, <3>1 DEF DownloadsApart
    <3>2. CASE i = n
      BY <1>1, <2>2, <2>3, <3>2
    <3>3. CASE i \in Successes(s) /\ j = n /\ entry.outcome = "success"
      BY <1>1, <2>3, <2>9, <3>3
    <3>. QED BY <2>2, <3>1, <3>2, <3>3
  <2>. QED BY <2>8, <2>10
<1>. QED BY <1>11, <1>12 DEF SourceInv

LEMMA SequentialCommit ==
    ASSUME TypesInv, TogetherInv, SequentialInv, NEW p \in Processes, CommitWork(p), Clear(p),
           NEW s \in Sources
    PROVE  SourceInv(s)'
<1> DEFINE more == {k \in DOMAIN noted[p] : noted[p][k].source = s}
<1>1. /\ \A i \in Attempts(s) : log'[i] = log[i] /\ i <= Len(log)
      /\ \A k \in more : log'[Len(log) + k] = noted[p][k] /\ k \in Nat \ {0}
      /\ Attempts(s)' = Attempts(s) \cup {Len(log) + k : k \in more}
      /\ Len(log) \in Nat /\ Attempts(s) \subseteq Nat
  BY LogGrows
<1>2. /\ rows'[s] = IF s \in DOMAIN written[p] THEN written[p][s] ELSE rows[s]
      /\ UNCHANGED <<clock, version>> /\ SourceInv(s) /\ TransactionFollows(p)
  BY DEF CommitWork, Clear, world, SequentialInv
<1>3. more = {} <=> s \notin DOMAIN written[p]
  BY DEF TogetherInv, ProcessTogether, Mentioned
<1>4. CASE more = {}
  <2>1. Attempts(s)' = Attempts(s)
    BY <1>1, <1>4
  <2>2. SameLog(s)
    BY <1>1, <2>1 DEF SameLog
  <2>. QED BY <1>2, <1>3, <1>4, <2>2, SourceLeft
<1>5. ASSUME NEW k \in more PROVE SourceInv(s)'
  <2>1. more = {k}
    BY <1>2, <1>5 DEF TransactionFollows
  <2>2. OneMore(s, Len(log) + k, noted[p][k])
    <3>1. Attempts(s)' = Attempts(s) \cup {Len(log) + k}
      BY <1>1, <2>1
    <3>2. k \in Nat \ {0} /\ log'[Len(log) + k] = noted[p][k]
      BY <1>1, <1>5
    <3>3. \A i \in Attempts(s) : log'[i] = log[i] /\ i < Len(log) + k
      BY <1>1, <3>2
    <3>. QED BY <1>1, <3>1, <3>2, <3>3 DEF OneMore
  <2>3. noted[p][k] \in Entries
    <3>1. noted[p] \in Seq(Entries)
      BY DEF TypesInv, TransactionTypeOK
    <3>. QED BY <1>5, <3>1
  <2>4. Follows(s, noted[p][k], rows'[s])
    BY <1>2, <1>3, <1>5 DEF TransactionFollows
  <2>. QED BY <1>2, <2>2, <2>3, <2>4, SourceMoves
<1>. QED BY <1>4, <1>5

-----------------------------------------------------------------------------
(* The steps of a command.                                                 *)

LEMMA SequentialClear ==
    ASSUME TypesInv, NEW p \in Processes, Clear(p)
    PROVE  TransactionFollows(p)' /\ SessionFollows(p)'
<1>1. /\ DOMAIN written'[p] = {} /\ noted'[p] = <<>> /\ stage'[p] = "idle"
      /\ todo'[p] = {}
  BY DEF TypesInv, TypeOK, TransactionTypeOK, Clear, Move
<1>. QED BY <1>1 DEF TransactionFollows, SessionFollows, Busy

\* A process whose transaction is as it was.
LEMMA TransactionLeft ==
    ASSUME TypesInv, SequentialInv, NEW p \in Processes, UNCHANGED <<world, db>>,
           UNCHANGED <<written, noted>>, todo'[p] \subseteq todo[p]
    PROVE  TransactionFollows(p)'
<1>1. noted[p] \in Seq(Entries) /\ TransactionFollows(p)
  BY DEF TypesInv, TransactionTypeOK, SequentialInv
<1>2. \A k \in DOMAIN noted[p] : noted[p][k] \in Entries
  BY <1>1
<1>3. \A k \in DOMAIN noted[p] : noted[p][k].source \in Sources
  BY <1>2 DEF Entries
<1>. QED BY <1>1, <1>3, SequentialStored DEF TransactionFollows, world

LEMMA SequentialAttempt ==
    ASSUME TypesInv, SequentialInv, NEW p \in Processes,
           NEW row, NEW outcome, Current(p) \in Sources, Current(p) \in todo[p],
           UNCHANGED <<reply, snapshot, tries, todo, dry>>,
           Attempt(p, row, outcome), Move(p, "write"),
           UNCHANGED <<world, db, written, noted, holder>>,
           \A entry : /\ entry.source = Current(p) /\ entry.outcome = outcome
                      /\ entry.at = clock /\ entry.version = reply[p].version
                      /\ entry.tagged = reply[p].tagged
                      => Follows(Current(p), entry, row)
    PROVE  TransactionFollows(p)' /\ SessionFollows(p)'
<1>1. /\ attempt'[p].row = row /\ attempt'[p].base = rows[Current(p)]
      /\ attempt'[p].entry.source = Current(p) /\ attempt'[p].entry.outcome = outcome
      /\ attempt'[p].entry.at = clock /\ attempt'[p].entry.version = reply[p].version
      /\ attempt'[p].entry.tagged = reply[p].tagged
      /\ stage'[p] = "write"
  BY DEF TypesInv, TypeOK, SessionTypeOK, Attempt, Move
<1>2. Current(p)' = Current(p) /\ todo' = todo /\ rows' = rows
  BY DEF Current, db
<1>3. PICK c, e, r : c = Current(p) /\ e = attempt'[p].entry /\ r = attempt'[p].row
  OBVIOUS
<1>4. Follows(c, e, r) /\ Follows(c, e, r)'
  <2>1. Follows(c, e, r) /\ c \in Sources
    BY <1>1, <1>3
  <2>. QED BY <2>1, SequentialStored DEF world
<1>5. SessionFollows(p)'
  BY <1>1, <1>2, <1>3, <1>4 DEF SessionFollows, Busy
<1>6. TransactionFollows(p)'
  BY <1>2, TransactionLeft
<1>. QED BY <1>5, <1>6

\* What a fetch wants stored follows the row it read.
LEMMA WantedRowsFollow ==
    ASSUME NEW s \in Sources, NEW old \in Rows, clock \in Nat, NEW entry
    PROVE  /\ \A category \in {"failed", "policy_blocked", "rate_limited"} :
                 /\ entry.outcome = (IF category = "rate_limited" THEN "blocked" ELSE category)
                 => RowAfter(s, old, entry, FailedRow(old, category))
           /\ entry.outcome = "no_change" => RowAfter(s, old, entry, NoChangeRow(old))
           /\ \A r \in Replies :
                 /\ entry.outcome = "success" /\ entry.at = clock
                 /\ entry.version = r.version /\ entry.tagged = r.tagged
                 => RowAfter(s, old, entry, SuccessRow(old, s, r))
<1>1. ASSUME NEW category \in {"failed", "policy_blocked", "rate_limited"},
             entry.outcome = (IF category = "rate_limited" THEN "blocked" ELSE category)
      PROVE  RowAfter(s, old, entry, FailedRow(old, category))
  <2> DEFINE health == IF category \in {"rate_limited", "policy_blocked"}
                       THEN "blocked" ELSE "failing"
             row == [old EXCEPT !.failures = @ + 1, !.health = health]
  <2>1. FailedRow(old, category) = row
    BY DEF FailedRow
  <2>2. row.failures = old.failures + 1 /\ row.health = health /\ row.etag = old.etag
        /\ row.nextAllowed = old.nextAllowed
    BY DEF Rows
  <2>3. FailedRow(old, category) \in Rows
    BY WantedRowTypes
  <2> HIDE DEF row
  <2>. QED BY <1>1, <2>1, <2>2, <2>3 DEF RowAfter
<1>2. ASSUME entry.outcome = "no_change" PROVE RowAfter(s, old, entry, NoChangeRow(old))
  <2> DEFINE row == NoChangeRow(old)
  <2>1. row.failures = 0 /\ row.health = "healthy" /\ row.etag = old.etag
    BY DEF NoChangeRow, Rows
  <2>2. row \in Rows
    BY WantedRowTypes
  <2> HIDE DEF row
  <2>. QED BY <1>2, <2>1, <2>2 DEF RowAfter, row
<1>3. ASSUME NEW r \in Replies, entry.outcome = "success", entry.at = clock,
             entry.version = r.version, entry.tagged = r.tagged
      PROVE  RowAfter(s, old, entry, SuccessRow(old, s, r))
  <2> DEFINE row == SuccessRow(old, s, r)
  <2>1. /\ row.failures = 0 /\ row.health = "healthy"
        /\ row.etag = IF r.tagged THEN r.version ELSE old.etag
        /\ row.nextAllowed = IF MinInterval[s] = 0 THEN 0 ELSE clock + MinInterval[s]
    BY DEF SuccessRow
  <2>2. row \in Rows
    BY WantedRowTypes
  <2> HIDE DEF row
  <2>. QED BY <1>3, <2>1, <2>2 DEF RowAfter, row
<1>. QED BY <1>1, <1>2, <1>3

LEMMA SequentialBlocked ==
    ASSUME TypesInv, SequentialInv, NEW p \in Processes, Blocked(p)
    PROVE  TransactionFollows(p)' /\ SessionFollows(p)'
<1> DEFINE s == Current(p)
           row == FailedRow(StateOf(s), "rate_limited")
<1>1. s \in todo[p] /\ s \in Sources
  BY CurrentIsOfTodo DEF Blocked, Runnable, TypesInv, TypeOK
<1>2. StateOf(s) \in Rows /\ clock \in Nat
  BY <1>1, StateOfType, BoundsAssumption DEF TypesInv, TypeOK
<1>3. ASSUME NEW entry, entry.source = s, entry.outcome = "blocked", entry.at = clock
      PROVE  Follows(s, entry, row)
  <2>1. RowAfter(s, StateOf(s), entry, row)
    BY <1>1, <1>2, <1>3, WantedRowsFollow
  <2>. QED BY <1>2, <1>3, <2>1 DEF Follows
<1>. QED BY <1>1, <1>3, SequentialAttempt DEF Blocked, transaction

LEMMA SequentialFail ==
    ASSUME TypesInv, SequentialInv, NEW p \in Processes, FailFetch(p)
    PROVE  TransactionFollows(p)' /\ SessionFollows(p)'
<1> DEFINE s == Current(p)
<1>1. s \in todo[p] /\ s \in Sources /\ snapshot[p] = StateOf(s)
  BY DEF FailFetch, TypesInv, TypeOK, SequentialInv, SessionFollows, Busy
<1>2. StateOf(s) \in Rows /\ clock \in Nat
  BY <1>1, StateOfType, BoundsAssumption DEF TypesInv, TypeOK
<1>3. PICK category \in {"failed", "policy_blocked"} :
         Attempt(p, FailedRow(StateOf(s), category), category)
  BY <1>1, FailingAssumption DEF FailFetch
<1>4. ASSUME NEW entry, entry.source = s, entry.outcome = category, entry.at = clock
      PROVE  Follows(s, entry, FailedRow(StateOf(s), category))
  <2>1. RowAfter(s, StateOf(s), entry, FailedRow(StateOf(s), category))
    BY <1>1, <1>2, <1>4, WantedRowsFollow
  <2>. QED BY <1>2, <1>4, <2>1 DEF Follows
<1>. QED BY <1>1, <1>3, <1>4, SequentialAttempt DEF FailFetch, transaction

LEMMA SequentialNotModified ==
    ASSUME TypesInv, SequentialInv, NEW p \in Processes, NotModified(p)
    PROVE  TransactionFollows(p)' /\ SessionFollows(p)'
<1> DEFINE s == Current(p)
<1>1. s \in todo[p] /\ s \in Sources /\ snapshot[p] = StateOf(s)
      /\ (s \in Network => Ripe(s, clock))
  BY DEF NotModified, TypesInv, TypeOK, SequentialInv, SessionFollows, Busy
<1>2. StateOf(s) \in Rows /\ clock \in Nat
  BY <1>1, StateOfType, BoundsAssumption DEF TypesInv, TypeOK
<1>3. Attempt(p, NoChangeRow(StateOf(s)), "no_change")
  BY <1>1 DEF NotModified
<1>4. ASSUME NEW entry, entry.source = s, entry.outcome = "no_change", entry.at = clock
      PROVE  Follows(s, entry, NoChangeRow(StateOf(s)))
  <2>1. RowAfter(s, StateOf(s), entry, NoChangeRow(StateOf(s)))
    BY <1>1, <1>2, <1>4, WantedRowsFollow
  <2>. QED BY <1>1, <1>2, <1>4, <2>1 DEF Follows
<1>. QED BY <1>1, <1>3, <1>4, SequentialAttempt DEF NotModified, transaction

LEMMA SequentialIngest ==
    ASSUME TypesInv, SequentialInv, NEW p \in Processes, Ingest(p)
    PROVE  TransactionFollows(p)' /\ SessionFollows(p)'
<1> DEFINE s == Current(p)
           row == SuccessRow(StateOf(s), s, reply[p])
<1>1. /\ s \in todo[p] /\ s \in Sources /\ snapshot[p] = StateOf(s)
      /\ s \in Network => Ripe(s, clock)
      /\ s \in Network => Unseen(s, reply[p].version) /\ reply[p].version <= version[s]
  BY DEF Ingest, TypesInv, TypeOK, SequentialInv, SessionFollows, Busy
<1>2. StateOf(s) \in Rows /\ clock \in Nat /\ reply[p] \in Replies
  BY <1>1, StateOfType, BoundsAssumption DEF TypesInv, TypeOK, SessionTypeOK
<1>3. Attempt(p, row, "success")
  BY <1>1 DEF Ingest
<1>4. ASSUME NEW entry, entry.source = s, entry.outcome = "success", entry.at = clock,
             entry.version = reply[p].version, entry.tagged = reply[p].tagged
      PROVE  Follows(s, entry, row)
  <2>1. RowAfter(s, StateOf(s), entry, row)
    BY <1>1, <1>2, <1>4, WantedRowsFollow
  <2>. QED BY <1>1, <1>2, <1>4, <2>1 DEF Follows
<1>. QED BY <1>1, <1>3, <1>4, SequentialAttempt DEF Ingest

LEMMA SequentialStart ==
    ASSUME TypesInv, DryInv, SequentialInv, NEW p \in Processes, Start(p)
    PROVE  TransactionFollows(p)' /\ SessionFollows(p)'
<1>1. /\ stage[p] = "idle" /\ stage'[p] = "select" /\ UNCHANGED <<written, noted>>
  BY DEF TypesInv, TypeOK, Start, Move, transaction
<1>2. DOMAIN written[p] = {} /\ noted[p] = <<>>
  BY <1>1 DEF DryInv, Empty
<1>. QED BY <1>1, <1>2 DEF TransactionFollows, SessionFollows, Busy

LEMMA SequentialRead ==
    ASSUME TypesInv, TogetherInv, SequentialInv, NEW p \in Processes, ReadState(p)
    PROVE  TransactionFollows(p)' /\ SessionFollows(p)'
<1> DEFINE s == Current(p)
<1>1. s \in todo[p] /\ s \in Sources
  BY CurrentIsOfTodo DEF ReadState, Runnable, TypesInv, TypeOK
<1>2. /\ UNCHANGED <<world, db>> /\ UNCHANGED <<written, noted, todo>> /\ clock' = clock
      /\ s' = s /\ snapshot'[p] = StateOf(s)
      /\ stage'[p] = IF s \in Network THEN "request" ELSE "file"
  BY DEF ReadState, transaction, world, Current, TypesInv, TypeOK, SessionTypeOK, Move
<1>3. s \in Network => Ripe(s, clock)
  <2> SUFFICES ASSUME s \in Network, NEW i \in Successes(s)
               PROVE  log[i].at + MinInterval[s] <= clock
    BY DEF Ripe
  <2>1. StateOf(s).nextAllowed <= clock
    BY DEF ReadState
  <2>2. rows[s] # NoRow => StateOf(s) = rows[s]
    BY DEF StateOf
  <2>3. \/ log[i].at + MinInterval[s] <= clock
        \/ log[i].at + MinInterval[s] <= rows[s].nextAllowed
    BY <1>1 DEF SequentialInv, SourceInv, DownloadsKnown
  <2>4. CASE rows[s] # NoRow
    <3>1. rows[s] \in Rows
      BY <1>1, <2>4 DEF TypesInv, TypeOK
    <3>2. rows[s].nextAllowed \in Nat /\ clock \in Nat
      BY <3>1, BoundsAssumption DEF Rows, TypesInv, TypeOK
    <3>3. log[i].at + MinInterval[s] \in Nat
      BY <1>1, PositionsOf
    <3>. QED BY <2>1, <2>2, <2>3, <2>4, <3>2, <3>3
  <2>5. CASE rows[s] = NoRow
    BY <1>1, <2>5, RowHasAttempts, PositionsOf
  <2>. QED BY <2>4, <2>5
<1>4. StateOf(s)' = StateOf(s) /\ (s \in Network => Ripe(s, clock)')
  BY <1>1, <1>2, <1>3, SequentialStored DEF world
<1>5. SessionFollows(p)'
  BY <1>1, <1>2, <1>4 DEF SessionFollows, Busy, Sources
<1>6. TransactionFollows(p)'
  BY <1>2, TransactionLeft
<1>. QED BY <1>5, <1>6

LEMMA SequentialRetry ==
    ASSUME TypesInv, SequentialInv, NEW p \in Processes, Retry(p)
    PROVE  TransactionFollows(p)' /\ SessionFollows(p)'
<1>1. /\ UNCHANGED <<world, db>> /\ UNCHANGED <<written, noted, todo, stage, snapshot>>
      /\ stage[p] = "request" /\ clock' = clock
  BY DEF Retry, transaction, world
<1>2. Current(p)' = Current(p) /\ SessionFollows(p)
  BY <1>1 DEF Current, SequentialInv
<1>3. Current(p) \in Sources
  BY <1>1 DEF TypesInv, SessionTypeOK, Busy
<1>4. StateOf(Current(p))' = StateOf(Current(p))
      /\ Ripe(Current(p), clock)' = Ripe(Current(p), clock)
  BY <1>1, <1>2, <1>3, SequentialStored DEF world
<1>5. SessionFollows(p)'
  BY <1>1, <1>2, <1>4 DEF SessionFollows, Busy
<1>6. TransactionFollows(p)'
  BY <1>1, TransactionLeft
<1>. QED BY <1>5, <1>6

LEMMA SequentialReceive ==
    ASSUME TypesInv, TogetherInv, SequentialInv, NEW p \in Processes, Receive(p)
    PROVE  TransactionFollows(p)' /\ SessionFollows(p)'
<1> DEFINE s == Current(p)
<1>1. /\ UNCHANGED <<world, db>> /\ UNCHANGED <<written, noted, todo, snapshot>>
      /\ stage'[p] = "ingest" /\ clock' = clock /\ version' = version
      /\ reply'[p].version = version[s]
  BY DEF Receive, transaction, world, TypesInv, TypeOK, SessionTypeOK, Move
<1>2. s' = s
  BY <1>1 DEF Current
<1>3. /\ s \in todo[p] /\ s \in Sources /\ snapshot[p] = StateOf(s)
      /\ s \in Network => Ripe(s, clock)
      /\ stage[p] = "file" => s \in Exports
  BY DEF Receive, TypesInv, TypeOK, SequentialInv, SessionFollows, Busy
<1>4. s \in Network => Unseen(s, version[s])
  <2> SUFFICES ASSUME s \in Network, NEW i \in Successes(s), log[i].tagged
               PROVE  log[i].version < version[s]
    BY DEF Unseen
  <2>1. stage[p] # "file"
    BY <1>3, SourcesAssumption
  <2>2. StateOf(s).etag # version[s]
    BY <1>3, <2>1 DEF Receive
  <2>3. /\ log[i].version <= version[s]
        /\ log[i].version < version[s] \/ rows[s].etag = log[i].version
    BY <1>3 DEF SequentialInv, SourceInv, DownloadsKnown
  <2>4. rows[s] # NoRow /\ log[i].version \in Nat
    BY <1>3, RowHasAttempts, PositionsOf
  <2>5. version[s] \in Nat
    BY <1>3, BoundsAssumption DEF TypesInv, TypeOK
  <2>. QED BY <2>2, <2>3, <2>4, <2>5 DEF StateOf
<1>5. PICK c, v : c = s /\ v = version[s]
  OBVIOUS
<1>6. c \in Sources /\ (c \in Network => Unseen(c, v)' /\ Ripe(c, clock)')
      /\ StateOf(c)' = StateOf(c)
  BY <1>1, <1>3, <1>4, <1>5, SequentialStored DEF world
<1>7. version[s] \in Nat
  BY <1>3, BoundsAssumption DEF TypesInv, TypeOK
<1>8. SessionFollows(p)'
  BY <1>1, <1>2, <1>3, <1>5, <1>6, <1>7 DEF SessionFollows, Busy
<1>9. TransactionFollows(p)'
  BY <1>1, TransactionLeft
<1>. QED BY <1>8, <1>9

LEMMA SequentialSkip ==
    ASSUME TypesInv, SequentialInv, NEW p \in Processes, SkipWrite(p)
    PROVE  TransactionFollows(p)' /\ SessionFollows(p)'
<1>1. /\ UNCHANGED <<world, db>> /\ UNCHANGED <<written, noted>> /\ stage'[p] = "select"
      /\ todo'[p] \subseteq todo[p]
  BY DEF SkipWrite, NextSource, transaction, TypesInv, TypeOK, Move
<1>2. SessionFollows(p)'
  BY <1>1 DEF SessionFollows, Busy
<1>. QED BY <1>1, <1>2, TransactionLeft

\* Nobody has changed the row since it was read: it is written as wanted.
LEMMA MergeAlone ==
    ASSUME NEW row \in Rows, NEW base
    PROVE  Merge(row, base, base) = row
<1>1. CASE base = NoRow
  BY <1>1 DEF Merge
<1>2. CASE base # NoRow
  <2>1. DOMAIN row = {"etag", "nextAllowed", "failures", "health"}
        /\ row = [col \in DOMAIN row |-> row[col]]
    BY DEF Rows
  <2>2. \A col \in DOMAIN row :
           (IF row[col] = base[col] THEN base[col] ELSE row[col]) = row[col]
    OBVIOUS
  <2>3. Merge(row, base, base) = [col \in DOMAIN row |->
           IF row[col] = base[col] THEN base[col] ELSE row[col]]
    BY <1>2 DEF Merge
  <2>. QED BY <2>1, <2>2, <2>3
<1>. QED BY <1>1, <1>2

LEMMA SequentialWrite ==
    ASSUME TypesInv, SequentialInv, NEW p \in Processes, Write(p)
    PROVE  TransactionFollows(p)' /\ SessionFollows(p)'
<1> DEFINE s == Current(p)
           e == attempt[p].entry
           row == attempt[p].row
<1>1. /\ stage[p] = "write" /\ s \in todo[p] /\ s \in Sources /\ e \in Entries
      /\ row \in Rows /\ attempt[p].base = rows[s] /\ Follows(s, e, row)
  BY DEF Write, TypesInv, TypeOK, SessionTypeOK, SequentialInv, SessionFollows, Busy
<1>2. Merge(row, attempt[p].base, rows[s]) = row
  BY <1>1, MergeAlone
<1>3. /\ UNCHANGED <<world, db>> /\ stage'[p] = "select" /\ todo'[p] = todo[p] \ {s}
      /\ noted'[p] = Append(noted[p], e)
  BY DEF Write, NextSource, TypesInv, TypeOK, TransactionTypeOK, Move
<1>4. /\ DOMAIN written'[p] = DOMAIN written[p] \cup {s} /\ written'[p][s] = row
      /\ \A t \in DOMAIN written[p] \ {s} : written'[p][t] = written[p][t]
  <2> DEFINE new == [t \in DOMAIN written[p] \cup {s} |->
                        IF t = s THEN Merge(row, attempt[p].base, rows[s]) ELSE written[p][t]]
  <2>1. written'[p] = new
    BY DEF Write, TypesInv, TransactionTypeOK
  <2>. QED BY <1>2, <2>1
<1>5. /\ noted[p] \in Seq(Entries) /\ DOMAIN noted[p] = 1 .. Len(noted[p])
      /\ Len(noted[p]) \in Nat
  BY DEF TypesInv, TransactionTypeOK
<1> DEFINE last == Len(noted[p]) + 1
<1>6. /\ DOMAIN noted'[p] = DOMAIN noted[p] \cup {last} /\ last \notin DOMAIN noted[p]
      /\ noted'[p][last] = e /\ \A k \in DOMAIN noted[p] : noted'[p][k] = noted[p][k]
  BY <1>1, <1>3, <1>5
<1> HIDE DEF last
<1>7. TransactionFollows(p)
  BY DEF SequentialInv
<1>8. s \notin DOMAIN written[p] /\ \A k \in DOMAIN noted[p] : noted[p][k].source # s
  BY <1>1, <1>7 DEF TransactionFollows
<1>9. e.source = s
  BY <1>1 DEF Follows
<1>10. \A k \in DOMAIN noted[p] : noted[p][k].source \in Sources
  <2>1. \A k \in DOMAIN noted[p] : noted[p][k] \in Entries
    BY <1>5
  <2>. QED BY <2>1 DEF Entries
<1>11. ASSUME NEW k \in DOMAIN noted'[p]
       PROVE  \E t, entry, any :
                 /\ t = entry.source /\ entry = noted'[p][k] /\ any = written'[p][t]
                 /\ t \in DOMAIN written'[p] /\ Follows(t, entry, any)'
  <2>1. PICK t, entry, any : t = entry.source /\ entry = noted'[p][k] /\ any = written'[p][t]
    OBVIOUS
  <2>2. t \in DOMAIN written'[p] /\ t \in Sources /\ Follows(t, entry, any)
    <3>1. CASE k = last
      BY <1>1, <1>4, <1>6, <1>9, <2>1, <3>1
    <3>2. CASE k \in DOMAIN noted[p]
      BY <1>4, <1>6, <1>7, <1>8, <1>10, <2>1, <3>2 DEF TransactionFollows
    <3>. QED BY <1>6, <3>1, <3>2
  <2>3. Follows(t, entry, any)'
    BY <1>3, <2>2, SequentialStored DEF world
  <2>. QED BY <2>1, <2>2, <2>3
<1>12. \A k, l \in DOMAIN noted'[p] : noted'[p][k].source = noted'[p][l].source => k = l
  BY <1>6, <1>7, <1>8, <1>9 DEF TransactionFollows
<1>13. todo'[p] \cap DOMAIN written'[p] = {}
  BY <1>3, <1>4, <1>7 DEF TransactionFollows
<1>14. TransactionFollows(p)'
  <2> SUFFICES ASSUME NEW k \in DOMAIN noted'[p]
               PROVE  (LET t == noted[p][k].source IN
                       t \in DOMAIN written[p] /\ Follows(t, noted[p][k], written[p][t]))'
    BY <1>12, <1>13 DEF TransactionFollows
  <2>1. PICK t, entry, any : /\ t = entry.source /\ entry = noted'[p][k] /\ any = written'[p][t]
                             /\ t \in DOMAIN written'[p] /\ Follows(t, entry, any)'
    BY <1>11
  <2>. QED BY <2>1
<1>15. SessionFollows(p)'
  BY <1>3 DEF SessionFollows, Busy
<1>. QED BY <1>14, <1>15

LEMMA SequentialNext ==
    ASSUME OneProcess, TypesInv, DryInv, TogetherInv, SequentialInv, [Next]_vars
    PROVE  SequentialInv'
<1>1. ASSUME NEW p \in Processes, Step(p) PROVE SequentialInv'
  <2>1. CASE Finish(p) \/ RefuseSource(p)
    <3>1. CommitWork(p) /\ Clear(p)
      BY <2>1 DEF Finish, RefuseSource
    <3>2. \A s \in Sources : SourceInv(s)'
      BY <3>1, SequentialCommit
    <3>3. TransactionFollows(p)' /\ SessionFollows(p)'
      BY <3>1, SequentialClear
    <3>. QED BY <3>2, <3>3 DEF SequentialInv, OneProcess
  <2>2. CASE ~(Finish(p) \/ RefuseSource(p))
    <3>1. UNCHANGED <<world, db>> \/ (UNCHANGED <<version, clock, db>> /\ Start(p))
      BY <1>1, <2>2
         DEF Step, Advance, Start, Crash, Rollback, Clear, WriteConflict, IngestConflict,
             SkipWrite, Write, Blocked, ReadState, Retry, FailFetch, NotModified, Receive, Ingest
    <3>2. \A s \in Sources : SourceInv(s)'
      <4>1. UNCHANGED <<version, clock, db>>
        BY <3>1 DEF world
      <4>. QED BY <4>1, SequentialStored
    <3>3. TransactionFollows(p)' /\ SessionFollows(p)'
      <4>1. CASE WriteConflict(p) \/ IngestConflict(p) \/ Crash(p)
        BY <4>1, SequentialClear DEF WriteConflict, IngestConflict, Crash, Rollback
      <4>2. CASE Start(p) \/ ReadState(p) \/ Retry(p) \/ Receive(p)
        BY <4>2, SequentialStart, SequentialRead, SequentialRetry, SequentialReceive
      <4>3. CASE Blocked(p) \/ FailFetch(p) \/ NotModified(p) \/ Ingest(p)
        BY <4>3, SequentialBlocked, SequentialFail, SequentialNotModified, SequentialIngest
      <4>4. CASE SkipWrite(p) \/ Write(p)
        BY <4>4, SequentialSkip, SequentialWrite
      <4>. QED BY <1>1, <2>2, <4>1, <4>2, <4>3, <4>4 DEF Step, Advance
    <3>. QED BY <3>2, <3>3 DEF SequentialInv, OneProcess
  <2>. QED BY <2>1, <2>2
<1>2. CASE Tick \/ (\E s \in Sources : Publish(s) \/ Suspend(s)) \/ UNCHANGED vars
  BY <1>2, SequentialWorld
<1>. QED BY <1>1, <1>2 DEF Next, Step

LEMMA SequentialInit ==
    ASSUME Init
    PROVE  SequentialInv
<1>1. ASSUME NEW s \in Sources PROVE SourceInv(s)
  <2>1. rows[s] = NoRow /\ log = <<>>
    BY DEF Init
  <2>2. Successes(s) = {}
    BY <2>1 DEF Successes, Attempts
  <2>. QED BY <2>1, <2>2 DEF SourceInv, RowCounts, DownloadsKnown, DownloadsApart
<1>2. ASSUME NEW p \in Processes PROVE TransactionFollows(p) /\ SessionFollows(p)
  BY DEF Init, TransactionFollows, SessionFollows, Busy
<1>. QED BY <1>1, <1>2 DEF SequentialInv

LEMMA SequentialHolds == OneProcess => (Spec => []SequentialInv)
<1> SUFFICES ASSUME OneProcess PROVE Spec => []SequentialInv
  OBVIOUS
<1> DEFINE I == TypesInv /\ DryInv /\ TogetherInv /\ SequentialInv
<1>1. Init => I
  <2>1. Init => TypesInv
    BY InitTypes
  <2>2. Init => TogetherInv /\ DryInv
    BY DEF Init, TogetherInv, StoredTogether, ProcessTogether, Sending, Logged, Mentioned,
           DryInv, Empty
  <2>. QED BY <2>1, <2>2, SequentialInit
<1>2. I /\ [Next]_vars => I'
  BY NextTypes, DryNext, TogetherNext, SequentialNext
<1> HIDE DEF I
<1>3. Spec => []I
  BY <1>1, <1>2, PTL DEF Spec
<1>4. I => SequentialInv
  BY DEF I
<1>. QED BY <1>3, <1>4, PTL

\* One process at a time: the counter and the health stored for a source are
\* those its attempts add up to, through crashes, conflicts and dry runs.
THEOREM RowsReflect == OneProcess => (Spec => []RowReflectsLog)
<1> SUFFICES ASSUME OneProcess PROVE Spec => []RowReflectsLog
  OBVIOUS
<1>1. SequentialInv => RowReflectsLog
  BY DEF SequentialInv, SourceInv, RowCounts, RowReflectsLog
<1>. QED BY <1>1, SequentialHolds, PTL

\* One process at a time: downloads of a source are at least the minimum
\* interval apart, whatever failed, was refused or answered 304 in between.
THEOREM DownloadsStayApart == OneProcess => (Spec => []DownloadsSpaced)
<1> SUFFICES ASSUME OneProcess PROVE Spec => []DownloadsSpaced
  OBVIOUS
<1>1. SequentialInv => DownloadsSpaced
  BY DEF SequentialInv, SourceInv, DownloadsApart, DownloadsSpaced, Sources
<1>. QED BY <1>1, SequentialHolds, PTL

\* One process at a time: what came with its tag is not downloaded again.
THEOREM DownloadsAreNew == OneProcess => (Spec => []NoRepeatedDownload)
<1> SUFFICES ASSUME OneProcess PROVE Spec => []NoRepeatedDownload
  OBVIOUS
<1>1. SequentialInv => NoRepeatedDownload
  BY DEF SequentialInv, SourceInv, DownloadsApart, NoRepeatedDownload, Sources
<1>. QED BY <1>1, SequentialHolds, PTL
=============================================================================
