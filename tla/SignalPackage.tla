----------------------------- MODULE SignalPackage -----------------------------
(***************************************************************************)
(* The command "signal export", write_signal_package of                    *)
(* application/services/cross_asset.py with the file system under it.      *)
(* Several of them may run over one output directory.  Every one writes    *)
(* the same bytes, so that a file is there or is not.                      *)
(*                                                                         *)
(* shutil.rmtree lists the entries of a directory, removes one after the   *)
(* other and then the directory; shutil.move renames onto a name that is   *)
(* free and into a directory that is there.                                *)
(***************************************************************************)
EXTENDS MarketSignals, FiniteSets

CONSTANTS
    Writers,      \* processes that export
    MaxKilled     \* bound: processes killed

ASSUME WritersAssumption == IsFiniteSet(Writers) /\ MaxKilled \in Nat

VARIABLES
    writers,      \* where every writer is, and what its rmtree has listed
    drafts,       \* every writer's temporary directory
    signalDir,    \* the output directory
    killed        \* processes killed so far

signalVars == <<writers, drafts, signalDir, killed>>

\* The manifest is written first and holds the hashes of the rest.
SignalFiles == {"manifest", "rows"}
NoDraft == [made |-> FALSE, files |-> {}]

\* nested: temporary directories that were moved into the output.
NoSignalDir == [made |-> FALSE, files |-> {}, nested |-> {}]
EmptySignalDir == [NoSignalDir EXCEPT !.made = TRUE]
Entries(dir) == dir.files \cup dir.nested

WriterStages == {"check", "write", "look", "list", "unlink", "aim", "nest", "rename",
           "manifest", "rows", "done", "unwritten", "refused", "failed", "killed"}
Stopped == {"done", "unwritten", "refused", "failed", "killed"}

SignalInit ==
    /\ writers = [w \in Writers |-> [at |-> "check", listed |-> {}]]
    /\ drafts = [w \in Writers |-> NoDraft]
    /\ signalDir \in {NoSignalDir, EmptySignalDir}
    /\ killed = 0

WriterAt(w, stage) == writers[w].at = stage
Proceed(w, stage) == writers' = [writers EXCEPT ![w].at = stage]

\* Mutant: what is cleaned up is the output.
AbandonOutput(w, outcome) ==
    /\ Proceed(w, outcome)
    /\ drafts' = [drafts EXCEPT ![w] = NoDraft]
    /\ signalDir' = NoSignalDir

\* An exception: the temporary directory is removed, errors are ignored.
Abandon(w, outcome) ==
    /\ Proceed(w, outcome)
    /\ drafts' = [drafts EXCEPT ![w] = NoDraft]
    /\ UNCHANGED signalDir

\* A directory that holds something is refused; then mkdtemp.
CheckEmpty(w) ==
    /\ WriterAt(w, "check")
    /\ \/ Entries(signalDir) # {} /\ Abandon(w, "unwritten")
       \/ /\ Entries(signalDir) = {}
          /\ Proceed(w, "write")
          /\ drafts' = [drafts EXCEPT ![w].made = TRUE]
          /\ UNCHANGED signalDir
    /\ UNCHANGED killed

WriteDraft(w) ==
    /\ WriterAt(w, "write")
    /\ IF "manifest" \in drafts[w].files
       THEN /\ drafts' = [drafts EXCEPT ![w].files = SignalFiles]
            /\ Proceed(w, "look")
       ELSE /\ drafts' = [drafts EXCEPT ![w].files = {"manifest"}]
            /\ UNCHANGED writers
    /\ UNCHANGED <<signalDir, killed>>

WriteDraftFails(w) == WriterAt(w, "write") /\ Abandon(w, "unwritten") /\ UNCHANGED killed

\* if output.exists()
LookForOutput(w) ==
    /\ WriterAt(w, "look")
    /\ Proceed(w, IF signalDir.made THEN "list" ELSE "aim")
    /\ UNCHANGED <<drafts, signalDir, killed>>

ListEntries(w) ==
    /\ WriterAt(w, "list")
    /\ \/ ~signalDir.made /\ Abandon(w, "failed")
       \/ /\ signalDir.made
          /\ writers' = [writers EXCEPT ![w] = [at |-> "unlink",
                                                listed |-> Entries(signalDir)]]
          /\ UNCHANGED <<drafts, signalDir>>
    /\ UNCHANGED killed

\* An entry that is gone is an error, or passed over, with the version of
\* the library.
RemoveEntry(w) ==
    /\ WriterAt(w, "unlink")
    /\ \E entry \in writers[w].listed :
          \/ /\ writers' = [writers EXCEPT ![w].listed = @ \ {entry}]
             /\ signalDir' = [signalDir EXCEPT !.files = @ \ {entry},
                                               !.nested = @ \ {entry}]
             /\ UNCHANGED drafts
          \/ entry \notin Entries(signalDir) /\ Abandon(w, "failed")
    /\ UNCHANGED killed

RemoveDirectory(w) ==
    /\ WriterAt(w, "unlink") /\ writers[w].listed = {}
    /\ IF signalDir = EmptySignalDir
       THEN /\ signalDir' = NoSignalDir
            /\ Proceed(w, "aim")
            /\ UNCHANGED drafts
       ELSE Abandon(w, "failed")
    /\ UNCHANGED killed

\* os.path.isdir in shutil.move
Aim(w) ==
    /\ WriterAt(w, "aim")
    /\ Proceed(w, IF signalDir.made THEN "nest" ELSE "rename")
    /\ UNCHANGED <<drafts, signalDir, killed>>

\* Into the output, which is made again if it is gone.
MoveInto(w) ==
    /\ WriterAt(w, "nest")
    /\ signalDir' = [signalDir EXCEPT !.made = TRUE, !.nested = @ \cup {w}]
    /\ drafts' = [drafts EXCEPT ![w] = NoDraft]
    /\ Proceed(w, "manifest")
    /\ UNCHANGED killed

\* In the place of the output, or of an empty directory.
MoveOnto(w) ==
    /\ WriterAt(w, "rename")
    /\ IF Entries(signalDir) = {}
       THEN /\ signalDir' = [EmptySignalDir EXCEPT !.files = drafts[w].files]
            /\ drafts' = [drafts EXCEPT ![w] = NoDraft]
            /\ Proceed(w, "manifest")
       ELSE Abandon(w, "failed")
    /\ UNCHANGED killed

\* validate_signal_package(output)
ReadFile(w, file, next) ==
    /\ WriterAt(w, file)
    /\ Proceed(w, IF file \in signalDir.files THEN next ELSE "refused")
    /\ UNCHANGED <<drafts, signalDir, killed>>
ReadPackage(w) ==
    \/ ReadFile(w, "manifest", "rows")
    \/ ReadFile(w, "rows", IF PackageRowsValid(Impacts, Signals) THEN "done" ELSE "refused")

KillWriter(w) ==
    /\ writers[w].at \notin Stopped \cup {"check"}
    /\ killed < MaxKilled
    /\ killed' = killed + 1
    /\ Proceed(w, "killed")
    /\ UNCHANGED <<drafts, signalDir>>

ExportSignals(w) ==
    \/ CheckEmpty(w) \/ WriteDraft(w) \/ WriteDraftFails(w)
    \/ LookForOutput(w) \/ ListEntries(w) \/ RemoveEntry(w) \/ RemoveDirectory(w)
    \/ Aim(w) \/ MoveInto(w) \/ MoveOnto(w)
    \/ ReadPackage(w)

SignalNext == \E w \in Writers : ExportSignals(w) \/ KillWriter(w)

SignalSpec ==
    /\ SignalInit /\ [][SignalNext]_signalVars
    /\ \A w \in Writers : WF_signalVars(ExportSignals(w))

-----------------------------------------------------------------------------
(* Properties                                                              *)

\* Every variable of the writers holds values of its kind.
SignalTypeOK ==
    /\ writers \in [Writers -> [at : WriterStages, listed : SUBSET (SignalFiles \cup Writers)]]
    /\ drafts \in [Writers -> [made : BOOLEAN, files : SUBSET SignalFiles]]
    /\ signalDir \in [made : BOOLEAN, files : SUBSET SignalFiles, nested : SUBSET Writers]
    /\ killed \in 0..MaxKilled

\* Once a command has validated its package and no other is in the middle of
\* removing it, or was killed there, the directory holds all of a package,
\* however many of them renamed onto it, moved into it and cleared it: if only
\* two found it empty, or all that did so succeed.  (Of three, two may clear it
\* at once, take each other's entries for missing, and leave nothing.)
ExportedStaysWhole ==
    /\ \E w \in Writers : WriterAt(w, "done")
    /\ \A w \in Writers : writers[w].at \in Stopped \ {"killed"}
    /\ \/ Cardinality({w \in Writers : ~WriterAt(w, "unwritten")}) <= 2
       \/ \A w \in Writers : writers[w].at \in {"done", "unwritten"}
    => signalDir.files = SignalFiles
=============================================================================
