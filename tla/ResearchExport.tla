----------------------------- MODULE ResearchExport -----------------------------
(***************************************************************************)
(* The commands "research export build" and "research export validate",    *)
(* application/services/research_export.py with interfaces/cli/app.py, the *)
(* research tables of PostgreSQL and a file system.                        *)
(*                                                                         *)
(* Several commands run at once over one database and a few output         *)
(* directories, while the pipeline goes on processing articles.  An        *)
(* exporter writes its package in a temporary directory and renames it; it *)
(* persists metadata in a transaction it commits last.  A process may be   *)
(* killed between any two steps.                                           *)
(***************************************************************************)
EXTENDS ResearchFeatures

CONSTANTS
    Exporters,        \* processes that build an export
    Checkers,         \* processes that validate one
    ResearchOutputs,  \* output directories
    Targets,          \* which exporter may be given which directory
    Articles,         \* processed articles with their links
    Settings,         \* calendar file, policy, windows and metadata option
    MaxCrashes        \* bound: processes killed

ASSUME ExportAssumption ==
    /\ Exporters \cap Checkers = {}
    /\ \A c \in SUBSET Articles : c # Nothing
    /\ \A a \in Articles :
          /\ a.published \in Int /\ a.delay \in Nat \ {0}
          /\ a.companies \in SUBSET Companies
    /\ \A s \in Settings :
          /\ s.calendar \subseteq Sessions
          /\ s.windows \in Seq(Int) /\ s.persist \in BOOLEAN
    /\ Targets \subseteq [Exporters -> ResearchOutputs]
    /\ MaxCrashes \in Nat

VARIABLES
    settings,     \* options of the exports
    corpus,       \* articles processed so far
    exportStage,  \* where every exporter is
    target,       \* the directory it was given
    built,        \* the package it holds
    matched,      \* whether it found its run in the database
    locks,        \* whether its transaction holds the rows of the run
    temporary,    \* the files in its temporary directory
    output,       \* the package in every output directory
    outputMade,   \* whether that directory is there
    metadata,     \* the committed export, by its one primary key
    checkStage,   \* where every checker is
    checked,      \* the directory it was given
    manifestRead, \* the package whose manifest it has read
    parsed,       \* the package whose files it has read
    crashes       \* processes killed so far

exporterVars == <<exportStage, target, built, matched, locks>>
fileVars == <<temporary, output, outputMade>>
checkerVars == <<checkStage, checked, manifestRead, parsed>>
exportVars == <<settings, corpus, exporterVars, fileVars, metadata, checkerVars, crashes>>

\* PACKAGE_FILES in one, and the manifest, which is written last.
PackageFiles == {"data", "manifest"}

\* A package follows from the settings and from the articles processed when
\* it was built: a process holds the articles, and they stand for the
\* package.  None is built of some.
Package(s, c) == BuildPackage(s.calendar, s.policy, s.windows, c)
Succeeds == [s \in Settings |-> [c \in SUBSET Articles |->
                Buildable(s.calendar, s.policy, s.windows, c)]]

ExportStages == {"start", "lookup", "flush", "check", "write", "look", "clear",
                 "rename", "commit", "done", "failed", "killed"}
CheckStages == {"manifest", "verify", "parse", "accepted", "failed"}
Ended == {"done", "failed", "killed"}

ExportersBegin ==
    /\ exportStage = [e \in Exporters |-> "start"]
    /\ built = [e \in Exporters |-> Nothing]
    /\ matched = [e \in Exporters |-> FALSE]
    /\ locks = [e \in Exporters |-> FALSE]
    /\ temporary = [e \in Exporters |-> Nothing]
CheckersBegin ==
    /\ checkStage = [c \in Checkers |-> "manifest"]
    /\ manifestRead = [c \in Checkers |-> Nothing]
    /\ parsed = [c \in Checkers |-> Nothing]

\* The user may have created the output directories: they are empty.
ExportInit ==
    /\ settings \in Settings /\ corpus = {}
    /\ target \in Targets /\ ExportersBegin
    /\ output = [o \in ResearchOutputs |-> Nothing]
    /\ outputMade \in {[o \in ResearchOutputs |-> m] : m \in BOOLEAN}
    /\ metadata = Nothing
    /\ checked \in [Checkers -> ResearchOutputs] /\ CheckersBegin
    /\ crashes = 0

At(e, stage) == exportStage[e] = stage
Goto(e, stage) == exportStage' = [exportStage EXCEPT ![e] = stage]
Release(e) == locks' = [locks EXCEPT ![e] = FALSE]
Holds(e, package) == built' = [built EXCEPT ![e] = package]

\* Mutant: a failed export keeps its transaction open.
FailKeepingLock(e) ==
    /\ Goto(e, "failed")
    /\ temporary' = [temporary EXCEPT ![e] = Nothing]
    /\ UNCHANGED <<target, built, matched, locks>>

\* An exception in the writer removes the temporary directory; the
\* transaction, never committed, is rolled back.
Fail(e) ==
    /\ Goto(e, "failed") /\ Release(e)
    /\ temporary' = [temporary EXCEPT ![e] = Nothing]
    /\ UNCHANGED <<target, built, matched>>

-----------------------------------------------------------------------------
(* The pipeline processes another article.                                 *)

ProcessArticle(a) ==
    /\ a \notin corpus
    /\ corpus' = corpus \cup {a}
    /\ UNCHANGED <<settings, exporterVars, fileVars, metadata, checkerVars, crashes>>

-----------------------------------------------------------------------------
(* research export build                                                   *)

\* load_local_calendar and build_research_export.
Build(e) ==
    /\ At(e, "start")
    /\ Succeeds[settings][corpus]
    /\ Goto(e, IF settings.persist THEN "lookup" ELSE "check")
    /\ Holds(e, corpus)
    /\ UNCHANGED <<settings, corpus, target, matched, locks, fileVars, metadata,
                   checkerVars, crashes>>

BuildFails(e) ==
    /\ At(e, "start")
    /\ ~Succeeds[settings][corpus]
    /\ Fail(e)
    /\ UNCHANGED <<settings, corpus, output, outputMade, metadata, checkerVars, crashes>>

\* The run is looked for by its hashes, its primary key is another: the
\* name of the export, which never changes.
Lookup(e) ==
    /\ At(e, "lookup")
    /\ Goto(e, "flush")
    /\ matched' = [matched EXCEPT ![e] = metadata = built[e]]
    /\ UNCHANGED <<settings, corpus, target, built, locks, fileVars, metadata,
                   checkerVars, crashes>>

Unlocked == \A e \in Exporters : ~locks[e]

\* A new run needs the key unused, and rows with distinct keys.
Insertable(e) ==
    /\ matched[e] \/ metadata = Nothing
    /\ \A i, j \in DOMAIN settings.windows :
          settings.windows[i] = settings.windows[j] => i = j

\* Mutant: the transaction is committed before the package is written.
FlushAndCommit(e) ==
    /\ At(e, "flush") /\ Unlocked
    /\ Insertable(e)
    /\ Goto(e, "check")
    /\ metadata' = built[e]
    /\ UNCHANGED <<settings, corpus, target, built, matched, locks, fileVars,
                   checkerVars, crashes>>

\* The rows are replaced and stay locked until the transaction ends.
Flush(e) ==
    /\ At(e, "flush") /\ Unlocked
    /\ Insertable(e)
    /\ Goto(e, "check")
    /\ locks' = [locks EXCEPT ![e] = TRUE]
    /\ UNCHANGED <<settings, corpus, target, built, matched, fileVars, metadata,
                   checkerVars, crashes>>

FlushFails(e) ==
    /\ At(e, "flush") /\ Unlocked
    /\ ~Insertable(e)
    /\ Fail(e)
    /\ UNCHANGED <<settings, corpus, output, outputMade, metadata, checkerVars, crashes>>

\* A directory that holds something is refused; then mkdtemp.
CheckOutput(e) ==
    /\ At(e, "check")
    /\ output[target[e]] = Nothing
    /\ Goto(e, "write")
    /\ temporary' = [temporary EXCEPT ![e] = {}]
    /\ UNCHANGED <<settings, corpus, target, built, matched, locks, output, outputMade,
                   metadata, checkerVars, crashes>>

OutputOccupied(e) ==
    /\ At(e, "check")
    /\ output[target[e]] # Nothing
    /\ Fail(e)
    /\ UNCHANGED <<settings, corpus, output, outputMade, metadata, checkerVars, crashes>>

WriteFile(e) ==
    /\ At(e, "write")
    /\ \/ /\ temporary[e] = {}
          /\ temporary' = [temporary EXCEPT ![e] = {"data"}]
          /\ UNCHANGED exportStage
       \/ /\ temporary[e] = {"data"}
          /\ temporary' = [temporary EXCEPT ![e] = PackageFiles]
          /\ Goto(e, "look")
    /\ UNCHANGED <<settings, corpus, target, built, matched, locks, output, outputMade,
                   metadata, checkerVars, crashes>>

WriteFails(e) ==
    /\ At(e, "write")
    /\ Fail(e)
    /\ UNCHANGED <<settings, corpus, output, outputMade, metadata, checkerVars, crashes>>

\* if output.exists() ...
LookAtOutput(e) ==
    /\ At(e, "look")
    /\ Goto(e, IF outputMade[target[e]] THEN "clear" ELSE "rename")
    /\ UNCHANGED <<settings, corpus, target, built, matched, locks, fileVars, metadata,
                   checkerVars, crashes>>

\* Mutant: shutil.rmtree(output) in the place of output.rmdir().
ClearAnyOutput(e) ==
    /\ At(e, "clear")
    /\ outputMade' = [outputMade EXCEPT ![target[e]] = FALSE]
    /\ output' = [output EXCEPT ![target[e]] = Nothing]
    /\ Goto(e, "rename")
    /\ UNCHANGED <<settings, corpus, target, built, matched, locks, temporary, metadata,
                   checkerVars, crashes>>

\* ... output.rmdir(), which fails when it is gone or holds something.
ClearOutput(e) ==
    LET o == target[e] IN
    /\ At(e, "clear")
    /\ IF outputMade[o] /\ output[o] = Nothing
       THEN /\ outputMade' = [outputMade EXCEPT ![o] = FALSE]
            /\ Goto(e, "rename")
            /\ UNCHANGED <<target, built, matched, locks, temporary>>
       ELSE Fail(e) /\ UNCHANGED outputMade
    /\ UNCHANGED <<settings, corpus, output, metadata, checkerVars, crashes>>

\* temp_root.replace(output) moves over nothing, or over an empty directory.
Rename(e) ==
    LET o == target[e] IN
    /\ At(e, "rename")
    /\ IF output[o] = Nothing
       THEN /\ output' = [output EXCEPT ![o] = built[e]]
            /\ outputMade' = [outputMade EXCEPT ![o] = TRUE]
            /\ temporary' = [temporary EXCEPT ![e] = Nothing]
            /\ Goto(e, "commit")
            /\ UNCHANGED <<target, built, matched, locks>>
       ELSE Fail(e) /\ UNCHANGED <<output, outputMade>>
    /\ UNCHANGED <<settings, corpus, metadata, checkerVars, crashes>>

\* _commit_and_close
Commit(e) ==
    /\ At(e, "commit")
    /\ Goto(e, "done") /\ Release(e)
    /\ metadata' = IF settings.persist THEN built[e] ELSE metadata
    /\ UNCHANGED <<settings, corpus, target, built, matched, fileVars, checkerVars, crashes>>

\* The process is killed: its transaction is rolled back, its files stay.
Kill(e) ==
    /\ exportStage[e] \notin Ended \cup {"start"}
    /\ crashes < MaxCrashes
    /\ crashes' = crashes + 1
    /\ Goto(e, "killed") /\ Release(e)
    /\ UNCHANGED <<settings, corpus, target, built, matched, fileVars, metadata, checkerVars>>

-----------------------------------------------------------------------------
(* research export validate: every file is read twice, once for its hash   *)
(* and once for its content.                                               *)

Step(c, stage) == checkStage' = [checkStage EXCEPT ![c] = stage]

ReadManifest(c) ==
    LET seen == output[checked[c]] IN
    /\ checkStage[c] = "manifest"
    /\ manifestRead' = [manifestRead EXCEPT ![c] = seen]
    /\ Step(c, IF seen = Nothing THEN "failed" ELSE "verify")
    /\ UNCHANGED <<settings, corpus, exporterVars, fileVars, metadata, checked, parsed,
                   crashes>>

VerifyFiles(c) ==
    /\ checkStage[c] = "verify"
    /\ Step(c, IF output[checked[c]] = manifestRead[c] THEN "parse" ELSE "failed")
    /\ UNCHANGED <<settings, corpus, exporterVars, fileVars, metadata, checked,
                   manifestRead, parsed, crashes>>

ParseFiles(c) ==
    LET seen == output[checked[c]] IN
    /\ checkStage[c] = "parse"
    /\ parsed' = [parsed EXCEPT ![c] = seen]
    /\ Step(c, IF seen = Nothing THEN "failed" ELSE "accepted")
    /\ UNCHANGED <<settings, corpus, exporterVars, fileVars, metadata, checked,
                   manifestRead, crashes>>

-----------------------------------------------------------------------------
Export(e) ==
    \/ Build(e) \/ BuildFails(e)
    \/ Lookup(e) \/ Flush(e) \/ FlushFails(e)
    \/ CheckOutput(e) \/ OutputOccupied(e)
    \/ WriteFile(e) \/ WriteFails(e)
    \/ LookAtOutput(e) \/ ClearOutput(e) \/ Rename(e)
    \/ Commit(e)
Check(c) == ReadManifest(c) \/ VerifyFiles(c) \/ ParseFiles(c)

ExportNext ==
    \/ \E a \in Articles : ProcessArticle(a)
    \/ \E e \in Exporters : Export(e) \/ Kill(e)
    \/ \E c \in Checkers : Check(c)

\* A command runs until it ends, unless it is killed.
ExportSpec ==
    /\ ExportInit /\ [][ExportNext]_exportVars
    /\ \A e \in Exporters : WF_exportVars(Export(e))
    /\ \A c \in Checkers : WF_exportVars(Check(c))
-----------------------------------------------------------------------------
(* Properties                                                              *)

\* A package, or none.
Kept == (SUBSET Articles) \cup {Nothing}

\* Every variable of the export holds values of its kind.
ExportTypeOK ==
    /\ settings \in Settings /\ corpus \in SUBSET Articles
    /\ exportStage \in [Exporters -> ExportStages]
    /\ target \in [Exporters -> ResearchOutputs]
    /\ built \in [Exporters -> Kept]
    /\ matched \in [Exporters -> BOOLEAN] /\ locks \in [Exporters -> BOOLEAN]
    /\ temporary \in [Exporters -> (SUBSET PackageFiles) \cup {Nothing}]
    /\ output \in [ResearchOutputs -> Kept]
    /\ outputMade \in [ResearchOutputs -> BOOLEAN]
    /\ metadata \in Kept
    /\ checkStage \in [Checkers -> CheckStages]
    /\ checked \in [Checkers -> ResearchOutputs]
    /\ manifestRead \in [Checkers -> Kept] /\ parsed \in [Checkers -> Kept]
    /\ crashes \in 0..MaxCrashes

IsPointInTime == [s \in Settings |-> [c \in SUBSET Articles |->
                     PointInTime(Package(s, c))]]

\* Every row of every package, built, published or persisted, holds the
\* articles that were known at its cutoff and not before its window: the
\* assignment to sessions, the windows and the leakage audit together,
\* also for calendars whose cutoffs are out of order.
PackagesPointInTime ==
    LET held == {built[e] : e \in Exporters} \cup {output[o] : o \in ResearchOutputs}
                    \cup {metadata}
    IN \A c \in held \ {Nothing} : IsPointInTime[settings][c]

\* Metadata is committed of an export that has its package in a directory.
MetadataIsPublished ==
    metadata # Nothing => \E o \in ResearchOutputs : output[o] = metadata

\* What a validation accepts is one package, the one of the manifest it read.
AcceptedIsWhole ==
    \A c \in Checkers : checkStage[c] = "accepted" => parsed[c] = manifestRead[c]

\* A temporary directory and the locks of a transaction outlive their
\* process only when it was killed, and then only the directory does.
LeftoversAreOfKilled ==
    \A e \in Exporters :
        /\ temporary[e] # Nothing =>
              exportStage[e] \in {"write", "look", "clear", "rename", "killed"}
        /\ locks[e] => exportStage[e] \notin Ended

\* The research packages hold what was known at their cutoffs, metadata is
\* committed of packages that have a directory, what is accepted is whole,
\* and a process that was not killed leaves nothing behind.
ResearchPackagesSound ==
    PackagesPointInTime /\ MetadataIsPublished /\ AcceptedIsWhole /\ LeftoversAreOfKilled

\* The output directories are a store in which packages appear whole and
\* stay: no exporter replaces or removes what another has published.
Store == INSTANCE PackageStore WITH
    Outputs <- ResearchOutputs, Packages <- SUBSET Articles, NoPackage <- Nothing,
    published <- output
PackagesStay == Store!StoreSpec
=============================================================================
