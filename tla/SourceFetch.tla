------------------------------ MODULE SourceFetch ------------------------------
(***************************************************************************)
(* Fetching the approved sources into PostgreSQL: the commands "source     *)
(* fetch" and "source import-announcements" over                           *)
(* application/services/source_ingestion.py.  Several processes may run    *)
(* commands at a time.  A command is one database transaction, whatever    *)
(* the number of sources it covers; the sources are taken in the order of  *)
(* their ids, and each is requested, parsed, ingested and recorded before  *)
(* the next.                                                               *)
(*                                                                         *)
(* A server holds one version of its content at a time, a number; the      *)
(* version is also its entity tag, and 0 is no tag.  What a version's      *)
(* records become is the business of NewsPipeline: here they are rows that *)
(* exist or do not, under a unique constraint.                             *)
(***************************************************************************)
EXTENDS Integers, Sequences, FiniteSets, FiniteSetsExt

CONSTANTS
    Processes,     \* processes that run commands
    Network,       \* ids of the sources fetched over HTTP
    Exports,       \* ids of the sources imported from a local file
    MinInterval,   \* minimum_interval_seconds of a source
    MaxRetries,    \* retry_policy.max_retries
    NoRow,         \* a source that has no fetch state yet
    Failing,       \* the kinds of failure a request may end in
    MaxVersion, MaxTime, MaxCommands   \* bounds

Sources == Network \cup Exports

ASSUME SourcesAssumption ==
    /\ Sources \subseteq Nat /\ IsFiniteSet(Sources)
    /\ Network \cap Exports = {}
    /\ MinInterval \in [Sources -> Nat]

ASSUME FailingAssumption == Failing \subseteq {"failed", "policy_blocked"}

ASSUME BoundsAssumption ==
    /\ MaxRetries \in Nat /\ MaxCommands \in Nat
    /\ MaxVersion \in Nat \ {0} /\ MaxTime \in Nat \ {0}

ASSUME NoRowAssumption ==
    NoRow \notin [etag : Nat, nextAllowed : Nat, failures : Nat,
                  health : {"unknown", "healthy", "failing", "blocked"}]

VARIABLES
    version,     \* what each server (or export file) holds now
    enabled,     \* sources the registry allows to run
    clock,
    commands,    \* commands started so far
    rows,        \* source_fetch_states
    ingested,    \* <<source, version>> whose records are stored
    log,         \* source_fetch_attempts
    stage, todo, dry,         \* per process: where its command is
    snapshot,    \* the fetch state as it was read for the current source
    tries,       \* retries made for the current source
    reply,       \* the version received, with its tag or not, stored or not
    attempt,     \* the row and the attempt about to be written
    added, written, noted,    \* uncommitted: ingested, rows, log entries
    holder       \* the process whose transaction has a source's row locked

world == <<version, enabled, clock, commands>>
db == <<rows, ingested, log>>
session == <<stage, todo, dry, snapshot, tries, reply, attempt>>
transaction == <<added, written, noted, holder>>
vars == <<world, db, session, transaction>>

Nobody == "nobody"
FreshRow == [etag |-> 0, nextAllowed |-> 0, failures |-> 0, health |-> "unknown"]
NoReply == [version |-> 0, tagged |-> FALSE, known |-> FALSE]
NoAttempt == [row |-> FreshRow, base |-> NoRow, entry |-> <<>>]

Init ==
    /\ version = [s \in Sources |-> 1] /\ enabled = Sources
    /\ clock = 1 /\ commands = 0
    /\ rows = [s \in Sources |-> NoRow] /\ ingested = {} /\ log = <<>>
    /\ stage = [p \in Processes |-> "idle"]
    /\ todo = [p \in Processes |-> {}]
    /\ dry = [p \in Processes |-> FALSE]
    /\ snapshot = [p \in Processes |-> FreshRow]
    /\ tries = [p \in Processes |-> 0]
    /\ reply = [p \in Processes |-> NoReply]
    /\ attempt = [p \in Processes |-> NoAttempt]
    /\ added = [p \in Processes |-> {}]
    /\ written = [p \in Processes |-> [s \in {} |-> FreshRow]]
    /\ noted = [p \in Processes |-> <<>>]
    /\ holder = [s \in Sources |-> Nobody]

\* Mutant: the sources are listed in no particular order.
CurrentUnordered(p) ==
    IF p = CHOOSE q \in Processes : TRUE THEN Max(todo[p]) ELSE Min(todo[p])

\* The source a process is at: sources are listed in the order of their ids.
Current(p) == Min(todo[p])

Move(p, to) == stage' = [stage EXCEPT ![p] = to]

-----------------------------------------------------------------------------
(* Starting and ending a command. *)

\* "source fetch --source", "--all-approved" or "source import-announcements".
Selections ==
    {{s} : s \in Sources} \cup {Network \cap enabled}

Start(p) ==
    /\ stage[p] = "idle" /\ commands < MaxCommands
    /\ commands' = commands + 1
    /\ \E chosen \in Selections \ {{}}, isDry \in BOOLEAN :
          /\ todo' = [todo EXCEPT ![p] = chosen]
          /\ dry' = [dry EXCEPT ![p] = isDry]
    /\ Move(p, "select")
    /\ UNCHANGED <<version, enabled, clock, db, snapshot, tries, reply, attempt,
                   transaction>>

\* The process is idle again, and its transaction holds nothing.
Clear(p) ==
    /\ Move(p, "idle")
    /\ todo' = [todo EXCEPT ![p] = {}]
    /\ dry' = [dry EXCEPT ![p] = FALSE]
    /\ snapshot' = [snapshot EXCEPT ![p] = FreshRow]
    /\ tries' = [tries EXCEPT ![p] = 0]
    /\ reply' = [reply EXCEPT ![p] = NoReply]
    /\ attempt' = [attempt EXCEPT ![p] = NoAttempt]
    /\ added' = [added EXCEPT ![p] = {}]
    /\ written' = [written EXCEPT ![p] = [s \in {} |-> FreshRow]]
    /\ noted' = [noted EXCEPT ![p] = <<>>]
    /\ holder' = [s \in Sources |-> IF holder[s] = p THEN Nobody ELSE holder[s]]
    /\ UNCHANGED world

\* Mutant: the records were added in a transaction of their own, and lost.
CommitStateOnly(p) ==
    /\ rows' = [s \in Sources |-> IF s \in DOMAIN written[p] THEN written[p][s]
                                                            ELSE rows[s]]
    /\ log' = log \o noted[p]
    /\ UNCHANGED ingested

CommitWork(p) ==
    /\ rows' = [s \in Sources |-> IF s \in DOMAIN written[p] THEN written[p][s]
                                                            ELSE rows[s]]
    /\ ingested' = ingested \cup added[p]
    /\ log' = log \o noted[p]

\* Every source was taken: the command commits and exits.
Finish(p) ==
    /\ stage[p] = "select" /\ todo[p] = {}
    /\ CommitWork(p)
    /\ Clear(p)

\* _require_runnable_source or _require_import_source raises ValueError: what
\* the earlier sources did is committed, the later ones are not taken.
RefuseSource(p) ==
    /\ stage[p] = "select" /\ todo[p] # {}
    /\ Current(p) \notin enabled
    /\ CommitWork(p)
    /\ Clear(p)

\* The process dies, or a database error reaches the command: all is undone.
Rollback(p) == Clear(p) /\ UNCHANGED db

Crash(p) == stage[p] # "idle" /\ Rollback(p)

-----------------------------------------------------------------------------
(* Recording an attempt. *)

\* The row as session.get finds it, next to the row the service wants stored.
Attempt(p, row, outcome) ==
    attempt' = [attempt EXCEPT ![p] =
        [row |-> row, base |-> rows[Current(p)],
         entry |-> [source |-> Current(p), outcome |-> outcome, at |-> clock,
                    version |-> reply'[p].version, tagged |-> reply'[p].tagged]]]

\* Mutant: the category is stored as the health.
FailedRowCategory(row, category) ==
    [row EXCEPT !.failures = @ + 1, !.health = category]

FailedRow(row, category) ==
    [row EXCEPT !.failures = @ + 1,
                !.health = IF category \in {"rate_limited", "policy_blocked"}
                           THEN "blocked" ELSE "failing"]

\* Mutants: the failure count survives a success; the tag does not.
NoChangeRowStillFailing(row) ==
    [row EXCEPT !.nextAllowed = 0, !.health = "healthy"]
NoChangeRowUntagged(row) ==
    [row EXCEPT !.nextAllowed = 0, !.failures = 0, !.health = "healthy", !.etag = 0]

NoChangeRow(row) ==
    [row EXCEPT !.nextAllowed = 0, !.failures = 0, !.health = "healthy"]

\* Mutant: the tag is asked for again after the records are stored.
SuccessRowLatestTag(row, s, r) ==
    [etag |-> IF r.tagged THEN version[s] ELSE row.etag,
     nextAllowed |-> IF MinInterval[s] = 0 THEN 0 ELSE clock + MinInterval[s],
     failures |-> 0, health |-> "healthy"]

\* The minimum interval runs from the end of the run; a reply without a tag
\* leaves the stored tag.
SuccessRow(row, s, r) ==
    [etag |-> IF r.tagged THEN r.version ELSE row.etag,
     nextAllowed |-> IF MinInterval[s] = 0 THEN 0 ELSE clock + MinInterval[s],
     failures |-> 0, health |-> "healthy"]

\* The columns that differ from the row read are the ones updated.
Merge(row, base, stored) ==
    IF base = NoRow THEN row
    ELSE [col \in DOMAIN row |-> IF row[col] = base[col] THEN stored[col] ELSE row[col]]

NextSource(p) ==
    /\ todo' = [todo EXCEPT ![p] = @ \ {Current(p)}]
    /\ snapshot' = [snapshot EXCEPT ![p] = FreshRow]
    /\ tries' = [tries EXCEPT ![p] = 0]
    /\ reply' = [reply EXCEPT ![p] = NoReply]
    /\ attempt' = [attempt EXCEPT ![p] = NoAttempt]
    /\ Move(p, "select")
    /\ UNCHANGED dry

\* A dry run reports its result and stores nothing.
SkipWrite(p) ==
    /\ stage[p] = "write" /\ dry[p]
    /\ NextSource(p)
    /\ UNCHANGED <<world, db, transaction>>

\* add_source_fetch_attempt and upsert_source_fetch_state.  The row waits for
\* the transaction that holds it.
Write(p) ==
    LET s == Current(p)  a == attempt[p]
    IN  /\ stage[p] = "write" /\ ~dry[p]
        /\ holder[s] = Nobody
        /\ a.base # NoRow \/ rows[s] = NoRow
        /\ written' = [written EXCEPT ![p] =
              [t \in DOMAIN @ \cup {s} |->
                  IF t = s THEN Merge(a.row, a.base, rows[s]) ELSE @[t]]]
        /\ noted' = [noted EXCEPT ![p] = Append(@, a.entry)]
        /\ holder' = [holder EXCEPT ![s] = p]
        /\ NextSource(p)
        /\ UNCHANGED <<world, db, added>>

\* Another process inserted the row first: the insert fails the command.
WriteConflict(p) ==
    /\ stage[p] = "write" /\ ~dry[p]
    /\ attempt[p].base = NoRow
    /\ holder[Current(p)] = Nobody /\ rows[Current(p)] # NoRow
    /\ Rollback(p)

-----------------------------------------------------------------------------
(* fetch_source and import_announcements. *)

Runnable(p) == stage[p] = "select" /\ todo[p] # {} /\ Current(p) \in enabled

StateOf(s) == IF rows[s] = NoRow THEN FreshRow ELSE rows[s]

\* The stored state says it is too early: a failed attempt is recorded.
Blocked(p) ==
    /\ Runnable(p) /\ Current(p) \in Network
    /\ StateOf(Current(p)).nextAllowed > clock
    /\ UNCHANGED <<reply, snapshot, tries, todo, dry>>
    /\ Attempt(p, FailedRow(StateOf(Current(p)), "rate_limited"), "blocked")
    /\ Move(p, "write")
    /\ UNCHANGED <<world, db, transaction>>

\* Mutant: the time is not looked at.
ReadStateAnyTime(p) ==
    /\ Runnable(p)
    /\ snapshot' = [snapshot EXCEPT ![p] = StateOf(Current(p))]
    /\ Move(p, IF Current(p) \in Network THEN "request" ELSE "file")
    /\ UNCHANGED <<world, db, transaction, todo, dry, tries, reply, attempt>>

ReadState(p) ==
    /\ Runnable(p)
    /\ Current(p) \in Network => StateOf(Current(p)).nextAllowed <= clock
    /\ snapshot' = [snapshot EXCEPT ![p] = StateOf(Current(p))]
    /\ Move(p, IF Current(p) \in Network THEN "request" ELSE "file")
    /\ UNCHANGED <<world, db, transaction, todo, dry, tries, reply, attempt>>

\* A timeout, a connection error or a retryable status, while retries remain.
\* The command line passes no sleeper: the next request follows at once.
Retry(p) ==
    /\ stage[p] = "request" /\ tries[p] < MaxRetries
    /\ tries' = [tries EXCEPT ![p] = @ + 1]
    /\ UNCHANGED <<world, db, transaction, stage, todo, dry, snapshot, reply, attempt>>

\* Retries are used up, or the failure is not one to retry: policy, status 4xx,
\* size, content type; or the payload, of the server or the file, does not parse.
FailFetch(p) ==
    /\ stage[p] \in {"request", "file"}
    /\ UNCHANGED <<reply, snapshot, tries, todo, dry>>
    /\ \E category \in IF stage[p] = "request" THEN Failing ELSE {"failed"} :
          Attempt(p, FailedRow(snapshot[p], category), category)
    /\ Move(p, "write")
    /\ UNCHANGED <<world, db, transaction>>

\* The server recognizes the tag of what it still holds.
NotModified(p) ==
    /\ stage[p] = "request"
    /\ snapshot[p].etag = version[Current(p)]
    /\ UNCHANGED <<reply, snapshot, tries, todo, dry>>
    /\ Attempt(p, NoChangeRow(snapshot[p]), "no_change")
    /\ Move(p, "write")
    /\ UNCHANGED <<world, db, transaction>>

\* A parsed reply with the version the server holds at this moment, with its
\* tag or without; a file has none.
Receive(p) ==
    /\ \/ stage[p] = "request" /\ snapshot[p].etag # version[Current(p)]
       \/ stage[p] = "file"
    /\ \E tagged \in IF stage[p] = "file" THEN {FALSE} ELSE BOOLEAN :
          reply' = [reply EXCEPT ![p] =
              [version |-> version[Current(p)], tagged |-> tagged,
               known |-> <<Current(p), version[Current(p)]>> \in ingested]]
    /\ Move(p, "ingest")
    /\ UNCHANGED <<world, db, transaction, todo, dry, snapshot, tries, attempt>>

\* Mutant: a dry run ingests.
IngestAlways(p) ==
    LET s == Current(p)  item == <<s, reply[p].version>>
    IN  /\ stage[p] = "ingest"
        /\ \A q \in Processes \ {p} : item \notin added[q]
        /\ added' = [added EXCEPT ![p] = @ \cup ({item} \ ingested)]
        /\ UNCHANGED <<reply, snapshot, tries, todo, dry>>
        /\ Attempt(p, SuccessRow(snapshot[p], s, reply[p]), "success")
        /\ Move(p, "write")
        /\ UNCHANGED <<world, db, written, noted, holder>>

\* ingest_records, then the state and the attempt of a success.  Records that
\* another transaction has inserted and not committed make this one wait.
Ingest(p) ==
    LET s == Current(p)  item == <<s, reply[p].version>>
    IN  /\ stage[p] = "ingest"
        /\ dry[p] \/ \A q \in Processes \ {p} : item \notin added[q]
        /\ added' = IF dry[p] THEN added
                    ELSE [added EXCEPT ![p] = @ \cup ({item} \ ingested)]
        /\ UNCHANGED <<reply, snapshot, tries, todo, dry>>
        /\ Attempt(p, SuccessRow(snapshot[p], s, reply[p]), "success")
        /\ Move(p, "write")
        /\ UNCHANGED <<world, db, written, noted, holder>>

\* The records were looked up, then another process committed them: the insert
\* violates a unique constraint, and handling that fails the command.
IngestConflict(p) ==
    /\ stage[p] = "ingest" /\ ~dry[p]
    /\ ~reply[p].known
    /\ <<Current(p), reply[p].version>> \in ingested
    /\ Rollback(p)

-----------------------------------------------------------------------------
(* The world around the commands. *)

Publish(s) ==
    /\ version[s] < MaxVersion
    /\ version' = [version EXCEPT ![s] = @ + 1]
    /\ UNCHANGED <<enabled, clock, commands, db, session, transaction>>

\* The registry is edited: the source may not run any more.
Suspend(s) ==
    /\ s \in enabled
    /\ enabled' = enabled \ {s}
    /\ UNCHANGED <<version, clock, commands, db, session, transaction>>

Tick ==
    /\ clock < MaxTime
    /\ clock' = clock + 1
    /\ UNCHANGED <<version, enabled, commands, db, session, transaction>>

Advance(p) ==
    \/ Finish(p) \/ RefuseSource(p) \/ SkipWrite(p) \/ Write(p) \/ WriteConflict(p)
    \/ Blocked(p) \/ ReadState(p) \/ Retry(p) \/ FailFetch(p) \/ NotModified(p)
    \/ Receive(p) \/ Ingest(p) \/ IngestConflict(p)

Next ==
    \/ \E p \in Processes : Start(p) \/ Advance(p) \/ Crash(p)
    \/ \E s \in Sources : Publish(s) \/ Suspend(s)
    \/ Tick

\* A command that was started keeps running unless it dies.
Fairness == \A p \in Processes : WF_vars(Advance(p))

Spec == Init /\ [][Next]_vars /\ Fairness

-----------------------------------------------------------------------------
(* Properties. *)

Rows == [etag : 0 .. MaxVersion, nextAllowed : Nat, failures : Nat,
         health : {"unknown", "healthy", "failing", "blocked"}]

Entries == [source : Sources, at : Nat, version : 0 .. MaxVersion, tagged : BOOLEAN,
            outcome : {"success", "no_change", "failed", "policy_blocked", "blocked"}]

\* Every variable stays in its range.
TypeOK ==
    /\ version \in [Sources -> 1 .. MaxVersion]
    /\ enabled \subseteq Sources
    /\ clock \in 1 .. MaxTime /\ commands \in 0 .. MaxCommands
    /\ rows \in [Sources -> Rows \cup {NoRow}]
    /\ ingested \subseteq Sources \X (1 .. MaxVersion)
    /\ log \in Seq(Entries)
    /\ stage \in [Processes -> {"idle", "select", "request", "file", "ingest", "write"}]
    /\ todo \in [Processes -> SUBSET Sources]
    /\ dry \in [Processes -> BOOLEAN]
    /\ tries \in [Processes -> 0 .. MaxRetries]
    /\ holder \in [Sources -> Processes \cup {Nobody}]

\* "Cursor and validators update only after valid parse and persistence": a
\* stored tag is that of a version whose records are stored.  Were it not, the
\* server would answer 304 from then on and the records would never arrive.
ValidatorNeverAhead ==
    \A s \in Sources :
        rows[s] # NoRow /\ rows[s].etag # 0 => <<s, rows[s].etag>> \in ingested

\* Records, fetch state and attempts are committed together or not at all,
\* through crashes, conflicts and commands cut short by a refused source.
OutcomesAreAtomic ==
    /\ ingested = {<<log[i].source, log[i].version>> :
                      i \in {j \in DOMAIN log : log[j].outcome = "success"}}
    /\ \A s \in Sources :
          rows[s] # NoRow <=> \E i \in DOMAIN log : log[i].source = s

\* A dry run ends without a change to what is stored.
DryRunLeavesNoTrace == [][\A p \in Processes : dry[p] /\ ~dry'[p] => UNCHANGED db]_vars

\* Positions in the log of what happened to a source, and those since it last
\* answered as it should.
Attempts(s) == {i \in DOMAIN log : log[i].source = s}
Answered(s) == {i \in Attempts(s) : log[i].outcome \in {"success", "no_change"}}
Failures(s) == {i \in Attempts(s) : \A j \in Answered(s) : j < i}

\* One process at a time: the counter and the health stored for a source are
\* those its attempts add up to, across commands and crashes.
RowReflectsLog ==
    \A s \in Sources : rows[s] # NoRow =>
        /\ rows[s].failures = Cardinality(Failures(s))
        /\ LET last == log[Max(Attempts(s))].outcome
           IN  rows[s].health = CASE last \in {"blocked", "policy_blocked"} -> "blocked"
                                  [] last = "failed"                        -> "failing"
                                  [] OTHER                                  -> "healthy"

Successes(s) == {i \in Attempts(s) : log[i].outcome = "success"}

\* One process at a time: two downloads of a source are at least the minimum
\* interval apart, whatever was tried in between.
DownloadsSpaced ==
    \A s \in Network : \A i, j \in Successes(s) :
        i < j => log[j].at - log[i].at >= MinInterval[s]

\* One process at a time: a version that came with its tag is not downloaded a
\* second time.
NoRepeatedDownload ==
    \A s \in Network : \A i, j \in Successes(s) :
        i < j /\ log[i].tagged => log[j].version # log[i].version

\* A command that starts ends: sources are locked in one order, and retries are
\* bounded, so no two commands wait for each other for ever.
CommandsEnd == \A p \in Processes : stage[p] # "idle" ~> stage[p] = "idle"

\* Attempts that may have reached the server: neither the interval nor the
\* policy stopped them.
Requests(s) == {k \in Attempts(s) : log[k].outcome \notin {"blocked", "policy_blocked"}}

\* What the plan says of the minimum interval: it is enforced per source, so
\* two attempts that reached the server are that far apart.
RequestsSpaced ==
    \A s \in Network : \A i, j \in Requests(s) :
        i < j => log[j].at - log[i].at >= MinInterval[s]
=============================================================================
