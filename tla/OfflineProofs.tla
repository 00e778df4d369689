------------------------------ MODULE OfflineProofs ------------------------------
(***************************************************************************)
(* Proofs about the services, for any writers, maps, bars, signals, items, *)
(* aliases and bounds: what is exported of signals stays whole, the        *)
(* bridge's manifest is of its bars and these follow their contract, event *)
(* studies use nothing of their future, parsers lose and confuse no items, *)
(* the rules find the best there is; and each of it, with what is proved   *)
(* of research exports, of the database and of the API, of all the         *)
(* services side by side.                                                  *)
(***************************************************************************)
EXTENDS OfflineCommands, DatabaseProofs, ResearchExportProofs, FiniteSetTheorems,
        WellFoundedInduction, TLAPS

-----------------------------------------------------------------------------
(* Signal packages: types.                                                 *)

\* What is kept of a writer's record by a change of its stage.
LEMMA StageChanges ==
    ASSUME SignalTypeOK, NEW w \in Writers, NEW stage \in WriterStages, Proceed(w, stage)
    PROVE  /\ writers' \in [Writers -> [at : WriterStages,
                                        listed : SUBSET (SignalFiles \cup Writers)]]
           /\ writers'[w].at = stage /\ writers'[w].listed = writers[w].listed
           /\ \A v \in Writers \ {w} : writers'[v] = writers[v]
  BY DEF SignalTypeOK, Proceed

LEMMA AbandonTypes ==
    ASSUME SignalTypeOK, NEW w \in Writers, NEW stage \in WriterStages, Abandon(w, stage)
    PROVE  /\ drafts' \in [Writers -> [made : BOOLEAN, files : SUBSET SignalFiles]]
           /\ signalDir' = signalDir
           /\ Proceed(w, stage)
           /\ \A v \in Writers \ {w} : drafts'[v] = drafts[v]
  BY DEF SignalTypeOK, Abandon, NoDraft

SignalDirs == [made : BOOLEAN, files : SUBSET SignalFiles, nested : SUBSET Writers]

LEMMA OutputTypes ==
    /\ NoSignalDir \in SignalDirs /\ EmptySignalDir \in SignalDirs
    /\ ~NoSignalDir.made /\ Entries(NoSignalDir) = {}
    /\ EmptySignalDir.made /\ Entries(EmptySignalDir) = {}
    /\ NoSignalDir.files = {} /\ EmptySignalDir.files = {}
<1>1. NoSignalDir \in SignalDirs
  BY DEF NoSignalDir, SignalDirs
<1>2. EmptySignalDir \in SignalDirs
  BY <1>1 DEF EmptySignalDir, SignalDirs
<1>3. ~NoSignalDir.made /\ NoSignalDir.files = {} /\ NoSignalDir.nested = {}
  BY DEF NoSignalDir
<1>4. EmptySignalDir.made /\ EmptySignalDir.files = {} /\ EmptySignalDir.nested = {}
  BY <1>1, <1>3 DEF EmptySignalDir, SignalDirs
<1>. QED BY <1>1, <1>2, <1>3, <1>4 DEF Entries

\* There is one output that is not there, and one that is empty.
LEMMA OneEmpty ==
    ASSUME signalDir \in SignalDirs, Entries(signalDir) = {}
    PROVE  signalDir = IF signalDir.made THEN EmptySignalDir ELSE NoSignalDir
<1>1. signalDir.files = {} /\ signalDir.nested = {} /\ signalDir.made \in BOOLEAN
  BY DEF Entries, SignalDirs
<1>2. signalDir = [made |-> signalDir.made, files |-> signalDir.files, nested |-> signalDir.nested]
  BY DEF SignalDirs
<1>3. EmptySignalDir = [made |-> EmptySignalDir.made, files |-> EmptySignalDir.files,
                        nested |-> EmptySignalDir.nested]
  BY OutputTypes DEF SignalDirs
<1>4. CASE signalDir.made
  <2>1. signalDir.made = TRUE /\ EmptySignalDir.made = TRUE
    BY <1>1, <1>4, OutputTypes DEF SignalDirs
  <2>. QED BY <1>1, <1>2, <1>3, <1>4, <2>1, OutputTypes DEF Entries
<1>5. CASE ~signalDir.made
  <2>1. signalDir.made = FALSE
    BY <1>1, <1>5
  <2>. QED BY <1>1, <1>2, <1>5, <2>1 DEF NoSignalDir
<1>. QED BY <1>4, <1>5

LEMMA SignalInitTypes == SignalInit => SignalTypeOK
<1> SUFFICES ASSUME SignalInit PROVE SignalTypeOK
  OBVIOUS
<1>1. writers \in [Writers -> [at : WriterStages, listed : SUBSET (SignalFiles \cup Writers)]]
  BY DEF SignalInit, WriterStages
<1>2. drafts \in [Writers -> [made : BOOLEAN, files : SUBSET SignalFiles]]
  BY DEF SignalInit, NoDraft
<1>. QED BY <1>1, <1>2, OutputTypes, WritersAssumption DEF SignalInit, SignalTypeOK, SignalDirs

LEMMA SignalNextTypes == SignalTypeOK /\ [SignalNext]_signalVars => SignalTypeOK'
<1> SUFFICES ASSUME SignalTypeOK, [SignalNext]_signalVars PROVE SignalTypeOK'
  OBVIOUS
<1>0. {"check", "write", "look", "list", "unlink", "aim", "nest", "rename",
       "manifest", "rows", "done", "unwritten", "refused", "failed", "killed"} = WriterStages
  BY DEF WriterStages
<1>1. CASE UNCHANGED signalVars
  BY <1>1 DEF signalVars, SignalTypeOK
<1>2. ASSUME NEW w \in Writers, CheckEmpty(w) PROVE SignalTypeOK'
  <2>1. CASE Abandon(w, "unwritten")
    BY <1>0, <1>2, <2>1, AbandonTypes, StageChanges DEF CheckEmpty, SignalTypeOK
  <2>2. CASE Proceed(w, "write") /\ drafts' = [drafts EXCEPT ![w].made = TRUE] /\ UNCHANGED signalDir
    <3>1. drafts' \in [Writers -> [made : BOOLEAN, files : SUBSET SignalFiles]]
      BY <2>2 DEF SignalTypeOK
    <3>. QED BY <1>0, <1>2, <2>2, <3>1, StageChanges DEF CheckEmpty, SignalTypeOK
  <2>. QED BY <1>2, <2>1, <2>2 DEF CheckEmpty
<1>3. ASSUME NEW w \in Writers, WriteDraft(w) PROVE SignalTypeOK'
  BY <1>0, <1>3, StageChanges DEF WriteDraft, SignalTypeOK, SignalFiles
<1>4. ASSUME NEW w \in Writers, WriteDraftFails(w) PROVE SignalTypeOK'
  BY <1>0, <1>4, AbandonTypes, StageChanges DEF WriteDraftFails, SignalTypeOK
<1>5. ASSUME NEW w \in Writers, LookForOutput(w) PROVE SignalTypeOK'
  BY <1>0, <1>5, StageChanges DEF LookForOutput, SignalTypeOK
<1>6. ASSUME NEW w \in Writers, ListEntries(w) PROVE SignalTypeOK'
  <2>1. CASE Abandon(w, "failed")
    BY <1>0, <1>6, <2>1, AbandonTypes, StageChanges DEF ListEntries, SignalTypeOK
  <2>2. CASE ~Abandon(w, "failed")
    <3>1. Entries(signalDir) \subseteq SignalFiles \cup Writers
      BY DEF Entries, SignalTypeOK
    <3>2. writers' = [writers EXCEPT ![w] = [at |-> "unlink", listed |-> Entries(signalDir)]]
      BY <1>6, <2>2 DEF ListEntries
    <3>3. writers' \in [Writers -> [at : WriterStages, listed : SUBSET (SignalFiles \cup Writers)]]
      BY <1>0, <3>1, <3>2 DEF SignalTypeOK
    <3>. QED BY <1>6, <2>2, <3>3 DEF ListEntries, SignalTypeOK
  <2>. QED BY <2>1, <2>2
<1>7. ASSUME NEW w \in Writers, RemoveEntry(w) PROVE SignalTypeOK'
  <2>1. CASE Abandon(w, "failed")
    BY <1>0, <1>7, <2>1, AbandonTypes, StageChanges DEF RemoveEntry, SignalTypeOK
  <2>2. CASE ~Abandon(w, "failed")
    <3>. PICK entry \in writers[w].listed :
            /\ writers' = [writers EXCEPT ![w].listed = @ \ {entry}]
            /\ signalDir' = [signalDir EXCEPT !.files = @ \ {entry}, !.nested = @ \ {entry}]
            /\ UNCHANGED drafts
      BY <1>7, <2>2 DEF RemoveEntry
    <3>1. writers' \in [Writers -> [at : WriterStages, listed : SUBSET (SignalFiles \cup Writers)]]
      BY DEF SignalTypeOK
    <3>2. signalDir' \in [made : BOOLEAN, files : SUBSET SignalFiles, nested : SUBSET Writers]
      BY DEF SignalTypeOK
    <3>. QED BY <1>7, <3>1, <3>2 DEF RemoveEntry, SignalTypeOK
  <2>. QED BY <2>1, <2>2
<1>8. ASSUME NEW w \in Writers, RemoveDirectory(w) PROVE SignalTypeOK'
  <2>1. CASE Abandon(w, "failed")
    BY <1>0, <1>8, <2>1, AbandonTypes, StageChanges DEF RemoveDirectory, SignalTypeOK
  <2>2. CASE ~Abandon(w, "failed")
    <3>1. signalDir' = NoSignalDir /\ Proceed(w, "aim") /\ UNCHANGED drafts /\ UNCHANGED killed
      BY <1>8, <2>2 DEF RemoveDirectory
    <3>. QED BY <1>0, <3>1, OutputTypes, StageChanges DEF SignalTypeOK, SignalDirs
  <2>. QED BY <2>1, <2>2
<1>9. ASSUME NEW w \in Writers, Aim(w) PROVE SignalTypeOK'
  BY <1>0, <1>9, StageChanges DEF Aim, SignalTypeOK
<1>10. ASSUME NEW w \in Writers, MoveInto(w) PROVE SignalTypeOK'
  BY <1>0, <1>10, StageChanges DEF MoveInto, SignalTypeOK, NoDraft
<1>11. ASSUME NEW w \in Writers, MoveOnto(w) PROVE SignalTypeOK'
  <2>1. CASE Abandon(w, "failed")
    BY <1>0, <1>11, <2>1, AbandonTypes, StageChanges DEF MoveOnto, SignalTypeOK
  <2>2. CASE ~Abandon(w, "failed")
    <3>1. /\ signalDir' = [EmptySignalDir EXCEPT !.files = drafts[w].files]
          /\ drafts' = [drafts EXCEPT ![w] = NoDraft]
          /\ Proceed(w, "manifest") /\ UNCHANGED killed
      BY <1>11, <2>2 DEF MoveOnto
    <3>2. signalDir' \in SignalDirs
      BY <3>1, OutputTypes DEF SignalTypeOK, SignalDirs
    <3>3. drafts' \in [Writers -> [made : BOOLEAN, files : SUBSET SignalFiles]]
      BY <3>1 DEF SignalTypeOK, NoDraft
    <3>. QED BY <1>0, <3>1, <3>2, <3>3, StageChanges DEF SignalTypeOK, SignalDirs
  <2>. QED BY <2>1, <2>2
<1>12. ASSUME NEW w \in Writers, ReadPackage(w) PROVE SignalTypeOK'
  BY <1>0, <1>12, StageChanges DEF ReadPackage, ReadFile, SignalTypeOK
<1>13. ASSUME NEW w \in Writers, KillWriter(w) PROVE SignalTypeOK'
  BY <1>0, <1>13, StageChanges, WritersAssumption DEF KillWriter, SignalTypeOK
<1>. QED
  BY <1>1, <1>2, <1>3, <1>4, <1>5, <1>6, <1>7, <1>8, <1>9, <1>10, <1>11, <1>12, <1>13
     DEF SignalNext, ExportSignals

\* What a step of a writer is to the output and to its own place: the ways of
\* its actions, without the names of what they do.
SameDir == signalDir' = signalDir
Goes(w, from, to) == writers[w].at = from /\ writers'[w].at = to

StepOf(w) ==
    \/ /\ writers[w].at \in {"check", "write"} /\ writers'[w].at \in {"write", "unwritten"}
       /\ SameDir
    \/ Goes(w, "write", "look") /\ drafts'[w].files = SignalFiles /\ SameDir
    \/ Goes(w, "look", "list") /\ signalDir.made /\ drafts'[w] = drafts[w] /\ SameDir
    \/ Goes(w, "look", "aim") /\ ~signalDir.made /\ drafts'[w] = drafts[w] /\ SameDir
    \/ Goes(w, "list", "failed") /\ ~signalDir.made /\ SameDir
    \/ /\ Goes(w, "list", "unlink") /\ signalDir.made /\ drafts'[w] = drafts[w]
       /\ writers'[w].listed = Entries(signalDir) /\ SameDir
    \/ /\ Goes(w, "unlink", "unlink") /\ drafts'[w] = drafts[w]
       /\ signalDir'.made = signalDir.made
       /\ \E entry \in writers[w].listed :
             /\ writers'[w].listed = writers[w].listed \ {entry}
             /\ signalDir'.files = signalDir.files \ {entry}
             /\ signalDir'.nested = signalDir.nested \ {entry}
    \/ /\ Goes(w, "unlink", "failed") /\ SameDir
       /\ \E entry \in writers[w].listed : entry \notin Entries(signalDir)
    \/ /\ Goes(w, "unlink", "aim") /\ drafts'[w] = drafts[w] /\ writers[w].listed = {}
       /\ signalDir' = NoSignalDir
    \/ /\ Goes(w, "unlink", "failed") /\ writers[w].listed = {}
       /\ signalDir # EmptySignalDir /\ SameDir
    \/ Goes(w, "aim", "nest") /\ signalDir.made /\ drafts'[w] = drafts[w] /\ SameDir
    \/ Goes(w, "aim", "rename") /\ ~signalDir.made /\ drafts'[w] = drafts[w] /\ SameDir
    \/ /\ Goes(w, "nest", "manifest")
       /\ signalDir'.made /\ signalDir'.files = signalDir.files
    \/ /\ Goes(w, "rename", "manifest") /\ Entries(signalDir) = {}
       /\ signalDir'.made /\ signalDir'.nested = {} /\ signalDir'.files = drafts[w].files
    \/ Goes(w, "rename", "failed") /\ Entries(signalDir) # {} /\ SameDir
    \/ /\ writers[w].at = "manifest" /\ SameDir
       /\ writers'[w].at = IF "manifest" \in signalDir.files THEN "rows" ELSE "refused"
    \/ /\ writers[w].at = "rows" /\ SameDir
       /\ writers'[w].at \in {"done", "refused"}
       /\ "rows" \notin signalDir.files => writers'[w].at = "refused"
    \/ writers'[w].at = "killed" /\ writers[w].at # "unwritten" /\ SameDir

LEMMA WriterSteps ==
    ASSUME SignalTypeOK, NEW w \in Writers, ExportSignals(w) \/ KillWriter(w)
    PROVE  /\ StepOf(w)
           /\ \A v \in Writers \ {w} : writers'[v] = writers[v] /\ drafts'[v] = drafts[v]
<1> USE DEF WriterAt, Goes, SameDir
<1>0. {"check", "write", "look", "list", "unlink", "aim", "nest", "rename",
       "manifest", "rows", "done", "unwritten", "refused", "failed", "killed"} = WriterStages
  BY DEF WriterStages
<1>a. ASSUME NEW stage \in WriterStages, Abandon(w, stage)
      PROVE  /\ writers'[w].at = stage /\ SameDir
             /\ \A v \in Writers \ {w} : writers'[v] = writers[v] /\ drafts'[v] = drafts[v]
  BY <1>a, AbandonTypes, StageChanges
<1>1. CASE CheckEmpty(w)
  <2>1. CASE Abandon(w, "unwritten")
    BY <1>0, <1>a, <1>1, <2>1 DEF CheckEmpty, StepOf
  <2>2. CASE ~Abandon(w, "unwritten")
    BY <1>0, <1>1, <2>2, StageChanges DEF CheckEmpty, StepOf, SignalTypeOK
  <2>. QED BY <2>1, <2>2
<1>2. CASE WriteDraft(w)
  <2>1. CASE "manifest" \in drafts[w].files
    BY <1>0, <1>2, <2>1, StageChanges DEF WriteDraft, StepOf, SignalTypeOK
  <2>2. CASE "manifest" \notin drafts[w].files
    BY <1>0, <1>2, <2>2 DEF WriteDraft, StepOf, SignalTypeOK
  <2>. QED BY <2>1, <2>2
<1>3. CASE WriteDraftFails(w)
  BY <1>0, <1>a, <1>3 DEF WriteDraftFails, StepOf
<1>4. CASE LookForOutput(w)
  BY <1>0, <1>4, StageChanges DEF LookForOutput, StepOf
<1>5. CASE ListEntries(w)
  <2>1. CASE ~signalDir.made /\ Abandon(w, "failed")
    BY <1>0, <1>a, <1>5, <2>1 DEF ListEntries, StepOf
  <2>2. CASE ~(~signalDir.made /\ Abandon(w, "failed"))
    <3>1. /\ writers' = [writers EXCEPT ![w] = [at |-> "unlink", listed |-> Entries(signalDir)]]
          /\ signalDir.made /\ UNCHANGED <<drafts, signalDir>>
      BY <1>5, <2>2 DEF ListEntries
    <3>2. writers'[w] = [at |-> "unlink", listed |-> Entries(signalDir)]
      BY <3>1 DEF SignalTypeOK
    <3>. QED BY <1>5, <3>1, <3>2 DEF ListEntries, StepOf, SignalTypeOK
  <2>. QED BY <2>1, <2>2
<1>6. CASE RemoveEntry(w)
  <2>. PICK entry \in writers[w].listed :
          \/ /\ writers' = [writers EXCEPT ![w].listed = @ \ {entry}]
             /\ signalDir' = [signalDir EXCEPT !.files = @ \ {entry}, !.nested = @ \ {entry}]
             /\ UNCHANGED drafts
          \/ entry \notin Entries(signalDir) /\ Abandon(w, "failed")
    BY <1>6 DEF RemoveEntry
  <2>1. CASE entry \notin Entries(signalDir) /\ Abandon(w, "failed")
    BY <1>0, <1>a, <1>6, <2>1 DEF RemoveEntry, StepOf
  <2>2. CASE /\ writers' = [writers EXCEPT ![w].listed = @ \ {entry}]
             /\ signalDir' = [signalDir EXCEPT !.files = @ \ {entry}, !.nested = @ \ {entry}]
             /\ UNCHANGED drafts
    <3>1. /\ writers'[w].at = writers[w].at
          /\ writers'[w].listed = writers[w].listed \ {entry}
          /\ \A v \in Writers \ {w} : writers'[v] = writers[v]
      BY <2>2 DEF SignalTypeOK
    <3>2. /\ signalDir'.made = signalDir.made
          /\ signalDir'.files = signalDir.files \ {entry}
          /\ signalDir'.nested = signalDir.nested \ {entry}
      BY <2>2 DEF SignalTypeOK
    <3>. QED BY <1>6, <2>2, <3>1, <3>2 DEF RemoveEntry, StepOf
  <2>. QED BY <2>1, <2>2
<1>7. CASE RemoveDirectory(w)
  <2>1. CASE signalDir = EmptySignalDir
    BY <1>0, <1>7, <2>1, StageChanges DEF RemoveDirectory, StepOf
  <2>2. CASE signalDir # EmptySignalDir
    BY <1>0, <1>a, <1>7, <2>2 DEF RemoveDirectory, StepOf
  <2>. QED BY <2>1, <2>2
<1>8. CASE Aim(w)
  BY <1>0, <1>8, StageChanges DEF Aim, StepOf
<1>9. CASE MoveInto(w)
  <2>1. signalDir'.made /\ signalDir'.files = signalDir.files
    BY <1>9 DEF MoveInto, SignalTypeOK
  <2>2. \A v \in Writers \ {w} : drafts'[v] = drafts[v]
    BY <1>9 DEF MoveInto, SignalTypeOK
  <2>. QED BY <1>0, <1>9, <2>1, <2>2, StageChanges DEF MoveInto, StepOf
<1>10. CASE MoveOnto(w)
  <2>1. CASE Entries(signalDir) = {}
    <3>1. signalDir' = [EmptySignalDir EXCEPT !.files = drafts[w].files]
      BY <1>10, <2>1 DEF MoveOnto
    <3>2. signalDir'.made /\ signalDir'.nested = {} /\ signalDir'.files = drafts[w].files
      BY <3>1, OutputTypes DEF SignalDirs, Entries
    <3>3. \A v \in Writers \ {w} : drafts'[v] = drafts[v]
      BY <1>10, <2>1 DEF MoveOnto, SignalTypeOK
    <3>. QED BY <1>0, <1>10, <2>1, <3>2, <3>3, StageChanges DEF MoveOnto, StepOf
  <2>2. CASE Entries(signalDir) # {}
    BY <1>0, <1>a, <1>10, <2>2 DEF MoveOnto, StepOf
  <2>. QED BY <2>1, <2>2
<1>11. CASE ReadPackage(w)
  BY <1>0, <1>11, StageChanges DEF ReadPackage, ReadFile, StepOf
<1>12. CASE KillWriter(w)
  BY <1>0, <1>12, StageChanges DEF KillWriter, StepOf, Stopped
<1>. QED
  BY <1>1, <1>2, <1>3, <1>4, <1>5, <1>6, <1>7, <1>8, <1>9, <1>10, <1>11, <1>12
     DEF ExportSignals

-----------------------------------------------------------------------------
(* Signal packages: who may still take the output apart.                   *)

Full == signalDir.files = SignalFiles
HasMoved(w) == writers[w].at \in {"manifest", "rows", "done", "refused"}

\* What is moved into the place of the output is complete.
DraftsInv ==
    \A w \in Writers :
        writers[w].at \in {"look", "list", "unlink", "aim", "nest", "rename"} =>
            drafts[w].files = SignalFiles

\* Writers that clear the output, or have stopped where it is not theirs.
Clearing == {"unlink", "aim", "nest", "rename", "failed", "refused", "killed"}

\* A writer whose validation is going to fail.
Doomed(w) ==
    \/ WriterAt(w, "manifest") /\ ~Full
    \/ WriterAt(w, "rows") /\ "rows" \notin signalDir.files

\* A package that was there when a writer looked at it and is not whole any
\* more has somebody to blame.
ClearedInv ==
    ~Full /\ (\E w \in Writers : writers[w].at \in {"rows", "done"}) =>
        \E v \in Writers : writers[v].at \in Clearing \/ Doomed(v)

LEMMA DraftsNext ==
    SignalTypeOK /\ DraftsInv /\ [SignalNext]_signalVars => DraftsInv'
<1> SUFFICES ASSUME SignalTypeOK, DraftsInv, [SignalNext]_signalVars PROVE DraftsInv'
  OBVIOUS
<1>1. CASE UNCHANGED signalVars
  BY <1>1 DEF signalVars, DraftsInv
<1>2. ASSUME NEW w \in Writers, ExportSignals(w) \/ KillWriter(w) PROVE DraftsInv'
  BY <1>2, WriterSteps DEF DraftsInv, StepOf, Goes
<1>. QED BY <1>1, <1>2 DEF SignalNext

LEMMA ClearedNext ==
    SignalTypeOK /\ DraftsInv /\ ClearedInv /\ [SignalNext]_signalVars => ClearedInv'
<1> SUFFICES ASSUME SignalTypeOK, DraftsInv, ClearedInv, [SignalNext]_signalVars
             PROVE  ClearedInv'
  OBVIOUS
<1>1. CASE UNCHANGED signalVars
  BY <1>1 DEF signalVars, ClearedInv, Full, Doomed, WriterAt
<1>2. ASSUME NEW w \in Writers, ExportSignals(w) \/ KillWriter(w) PROVE ClearedInv'
  <2> SUFFICES ASSUME ~Full', NEW u \in Writers, writers'[u].at \in {"rows", "done"}
               PROVE  \E v \in Writers : writers'[v].at \in Clearing \/ Doomed(v)'
    BY DEF ClearedInv
  <2>0. \A v \in Writers \ {w} : writers'[v] = writers[v]
    BY <1>2, WriterSteps
  <2>1. CASE writers'[w].at \in Clearing
    BY <2>1
  <2>2. CASE Doomed(w)'
    BY <2>2
  <2>3. CASE writers'[w].at \notin Clearing /\ ~Doomed(w)'
    <3>0. signalDir.files \subseteq SignalFiles
      BY DEF SignalTypeOK
    <3>1. /\ SameDir /\ writers[w].at \notin Clearing /\ ~Doomed(w)
          /\ writers[w].at # "done"
          /\ writers'[w].at \in {"rows", "done"} =>
                writers[w].at = "rows" \/ (writers[w].at = "manifest" /\ Full)
      BY <1>2, <2>3, <3>0, WriterSteps
         DEF StepOf, Goes, SameDir, Clearing, Doomed, WriterAt, Full, DraftsInv, SignalFiles
    <3>2. ~Full
      BY <3>1 DEF SameDir, Full
    <3>3. writers[u].at \in {"rows", "done"}
      BY <2>0, <3>1, <3>2
    <3>4. PICK v \in Writers : writers[v].at \in Clearing \/ Doomed(v)
      BY <3>2, <3>3 DEF ClearedInv
    <3>. QED BY <2>0, <3>1, <3>4 DEF Doomed, WriterAt, Full, SameDir
  <2>. QED BY <2>1, <2>2, <2>3
<1>. QED BY <1>1, <1>2 DEF SignalNext

-----------------------------------------------------------------------------
(* Signal packages: two that find the output empty.                        *)

Outside == {"check", "write", "unwritten"}
Involved == {w \in Writers : writers[w].at \notin Outside}

\* What w, of two writers, may take for granted of the output and of v.
PairOf(w, v) ==
    /\ ~HasMoved(w) /\ ~HasMoved(v) =>
          /\ Entries(signalDir) = {}
          /\ WriterAt(w, "unlink") => writers[w].listed = {}
    /\ writers[w].at \in {"list", "unlink"} /\ ~signalDir.made =>
          writers[v].at \in {"aim", "rename"}
    /\ writers[w].at \in {"aim", "rename"} =>
          signalDir = NoSignalDir \/ (Full /\ signalDir.made /\ HasMoved(v))
    /\ WriterAt(w, "nest") => Full /\ HasMoved(v)
    /\ HasMoved(w) /\ writers[v].at \in Outside \cup {"look", "list"} =>
          Full /\ signalDir.made /\ signalDir.nested = {}
    /\ HasMoved(w) /\ WriterAt(v, "unlink") =>
          /\ signalDir.made /\ signalDir.nested = {}
          /\ \/ writers[v].listed = Entries(signalDir)
             \/ writers[v].listed = {} /\ Full
    /\ HasMoved(w) /\ HasMoved(v) => Full
    /\ WriterAt(v, "failed") =>
          \/ writers[w].at \in {"aim", "rename"} /\ signalDir = NoSignalDir
          \/ HasMoved(w) /\ Full

Alone(w, v) ==
    /\ w # v /\ Involved \subseteq {w, v}
    /\ \A u \in Writers : ~WriterAt(u, "killed")

PairInv == \A w, v \in Writers : Alone(w, v) => PairOf(w, v)

\* A step of one of the two.
LEMMA PairStep ==
    ASSUME SignalTypeOK, DraftsInv, NEW w \in Writers, NEW v \in Writers, w # v,
           PairOf(w, v), PairOf(v, w), StepOf(w), writers'[v] = writers[v],
           writers[v].at # "killed", writers'[w].at # "killed"
    PROVE  PairOf(w, v)' /\ PairOf(v, w)'
<1>0. /\ signalDir.files \subseteq SignalFiles
      /\ SignalFiles # {} /\ ~NoSignalDir.made /\ Entries(NoSignalDir) = {}
      /\ EmptySignalDir.made /\ Entries(EmptySignalDir) = {}
  BY OutputTypes DEF SignalTypeOK, SignalFiles
<1> USE <1>0 DEF Goes, SameDir, WriterAt, HasMoved, Full, PairOf
<1>1. CASE writers[w].at \in {"check", "write"} /\ writers'[w].at \in {"write", "unwritten"} /\ SameDir
  BY <1>1 DEF Outside, Entries
<1>2. CASE Goes(w, "write", "look") /\ SameDir
  BY <1>2 DEF Outside, Entries
<1>3. CASE Goes(w, "look", "list") /\ signalDir.made /\ SameDir
  BY <1>3 DEF Outside, Entries
<1>4. CASE Goes(w, "look", "aim") /\ ~signalDir.made /\ SameDir
  <2>1. ~HasMoved(v)
    BY <1>4 DEF Outside
  <2>2. signalDir = NoSignalDir
    BY <1>4, <2>1, OneEmpty DEF SignalTypeOK, SignalDirs
  <2>. QED BY <1>4, <2>1, <2>2 DEF Outside, Entries
<1>5. CASE Goes(w, "list", "failed") /\ ~signalDir.made /\ SameDir
  BY <1>5 DEF Outside, Entries
<1>6. CASE /\ Goes(w, "list", "unlink") /\ signalDir.made
           /\ writers'[w].listed = Entries(signalDir) /\ SameDir
  BY <1>6 DEF Outside, Entries
<1>7. CASE /\ Goes(w, "unlink", "unlink") /\ signalDir'.made = signalDir.made
           /\ \E entry \in writers[w].listed :
                 /\ writers'[w].listed = writers[w].listed \ {entry}
                 /\ signalDir'.files = signalDir.files \ {entry}
                 /\ signalDir'.nested = signalDir.nested \ {entry}
  BY <1>7 DEF Outside, Entries
<1>8. CASE /\ Goes(w, "unlink", "failed") /\ SameDir
           /\ \E entry \in writers[w].listed : entry \notin Entries(signalDir)
  BY <1>8 DEF Outside, Entries
<1>9. CASE /\ Goes(w, "unlink", "aim") /\ writers[w].listed = {}
           /\ signalDir' = NoSignalDir
  BY <1>9 DEF Outside, Entries
<1>10. CASE /\ Goes(w, "unlink", "failed") /\ writers[w].listed = {}
            /\ signalDir # EmptySignalDir /\ SameDir
  BY <1>10, OneEmpty DEF Outside, Entries, SignalTypeOK, SignalDirs
<1>11. CASE Goes(w, "aim", "nest") /\ signalDir.made /\ SameDir
  BY <1>11 DEF Outside, Entries
<1>12. CASE Goes(w, "aim", "rename") /\ ~signalDir.made /\ SameDir
  BY <1>12 DEF Outside, Entries
<1>13. CASE /\ Goes(w, "nest", "manifest")
            /\ signalDir'.made /\ signalDir'.files = signalDir.files
  BY <1>13 DEF Outside, Entries
<1>14. CASE /\ Goes(w, "rename", "manifest") /\ Entries(signalDir) = {}
            /\ signalDir'.made /\ signalDir'.nested = {} /\ signalDir'.files = drafts[w].files
  BY <1>14 DEF Outside, Entries, DraftsInv
<1>15. CASE Goes(w, "rename", "failed") /\ Entries(signalDir) # {} /\ SameDir
  BY <1>15 DEF Outside, Entries
<1>16. CASE /\ writers[w].at \in {"manifest", "rows"} /\ SameDir
            /\ writers'[w].at \in {"rows", "done", "refused"}
  BY <1>16 DEF Outside, Entries
<1>. QED
  BY <1>1, <1>2, <1>3, <1>4, <1>5, <1>6, <1>7, <1>8, <1>9, <1>10, <1>11, <1>12, <1>13,
     <1>14, <1>15, <1>16 DEF StepOf

LEMMA PairNext ==
    SignalTypeOK /\ DraftsInv /\ PairInv /\ [SignalNext]_signalVars => PairInv'
<1> SUFFICES ASSUME SignalTypeOK, DraftsInv, PairInv, [SignalNext]_signalVars PROVE PairInv'
  OBVIOUS
<1>1. CASE UNCHANGED signalVars
  BY <1>1 DEF signalVars, PairInv, PairOf, Alone, Involved, WriterAt, HasMoved, Full, Entries
<1>2. ASSUME NEW x \in Writers, ExportSignals(x) \/ KillWriter(x) PROVE PairInv'
  <2> SUFFICES ASSUME NEW w \in Writers, NEW v \in Writers, Alone(w, v)'
               PROVE  PairOf(w, v)'
    BY DEF PairInv
  <2>1. StepOf(x) /\ \A u \in Writers \ {x} : writers'[u] = writers[u]
    BY <1>2, WriterSteps
  <2>2. w # v /\ \A u \in Writers : u \notin {w, v} => writers'[u].at \in Outside
    BY DEF Alone, Involved
  <2>3. \A u \in Writers : writers'[u].at # "killed"
    BY DEF Alone, WriterAt
  <2>4. writers[x].at \notin Outside => writers'[x].at \notin Outside
    BY <2>1, <2>3 DEF StepOf, Goes, Outside
  <2>5. \A u \in Writers : writers[u].at # "killed"
    BY <2>1, <2>3 DEF StepOf, Goes
  <2>6. Alone(w, v) /\ Alone(v, w)
    BY <2>1, <2>2, <2>4, <2>5 DEF Alone, Involved, WriterAt
  <2>7. PairOf(w, v) /\ PairOf(v, w)
    BY <2>6 DEF PairInv
  <2>8. CASE x = w
    BY <2>1, <2>2, <2>3, <2>5, <2>7, <2>8, PairStep
  <2>9. CASE x = v
    BY <2>1, <2>2, <2>3, <2>5, <2>7, <2>9, PairStep
  <2>10. CASE x \notin {w, v}
    <3>1. SameDir /\ writers'[w] = writers[w] /\ writers'[v] = writers[v]
      BY <2>1, <2>2, <2>10 DEF StepOf, Goes, SameDir, Outside
    <3>. QED BY <2>7, <3>1 DEF PairOf, WriterAt, HasMoved, Full, SameDir, Entries
  <2>. QED BY <2>8, <2>9, <2>10
<1>. QED BY <1>1, <1>2 DEF SignalNext

-----------------------------------------------------------------------------
(* Signal packages: what was validated stays whole.                        *)

SignalInv == SignalTypeOK /\ DraftsInv /\ ClearedInv /\ PairInv

LEMMA SignalsStart == SignalInit => SignalInv
<1> SUFFICES ASSUME SignalInit PROVE SignalInv
  OBVIOUS
<1>1. \A w \in Writers : writers[w].at = "check"
  BY DEF SignalInit
<1>2. DraftsInv /\ ClearedInv
  BY <1>1 DEF DraftsInv, ClearedInv
<1>3. Entries(signalDir) = {}
  BY OutputTypes DEF SignalInit
<1>4. PairInv
  BY <1>1, <1>3 DEF PairInv, PairOf, WriterAt, HasMoved
<1>. QED BY <1>2, <1>4, SignalInitTypes DEF SignalInv

LEMMA SignalsGoOn == SignalInv /\ [SignalNext]_signalVars => SignalInv'
  BY SignalNextTypes, DraftsNext, ClearedNext, PairNext DEF SignalInv

\* Of writers that are no more than two, all are among any two of them.
LEMMA AtMostTwo ==
    ASSUME NEW S, IsFiniteSet(S), Cardinality(S) <= 2, NEW x \in S, NEW y \in S, x # y
    PROVE  S \subseteq {x, y}
<1> SUFFICES ASSUME NEW z \in S, z # x, z # y PROVE FALSE
  OBVIOUS
<1>1. /\ IsFiniteSet({x}) /\ Cardinality({x}) = 1
  BY FS_Singleton
<1>2. /\ IsFiniteSet({x} \cup {y}) /\ Cardinality({x} \cup {y}) = 2
  BY <1>1, FS_AddElement, y \notin {x}
<1>3. /\ IsFiniteSet(({x} \cup {y}) \cup {z}) /\ Cardinality(({x} \cup {y}) \cup {z}) = 3
  BY <1>2, FS_AddElement, z \notin {x} \cup {y}
<1>4. Cardinality(({x} \cup {y}) \cup {z}) <= Cardinality(S)
  BY FS_Subset
<1>5. Cardinality(S) \in Nat
  BY FS_CardinalityType
<1>. QED BY <1>3, <1>4, <1>5

LEMMA SignalInvIsSound == SignalInv => ExportedStaysWhole
<1> SUFFICES ASSUME SignalInv,
                    NEW w \in Writers, writers[w].at = "done",
                    \A v \in Writers : writers[v].at \in Stopped \ {"killed"},
                    \/ Cardinality({v \in Writers : writers[v].at # "unwritten"}) <= 2
                    \/ \A v \in Writers : writers[v].at \in {"done", "unwritten"}
             PROVE  Full
  BY DEF ExportedStaysWhole, WriterAt, Full
<1>1. CASE \A v \in Writers : writers[v].at \in {"done", "unwritten"}
  BY <1>1 DEF SignalInv, ClearedInv, Clearing, Doomed, WriterAt
<1>2. CASE /\ Cardinality({v \in Writers : writers[v].at # "unwritten"}) <= 2
           /\ ~\A v \in Writers : writers[v].at \in {"done", "unwritten"}
  <2>1. PICK v \in Writers : writers[v].at \notin {"done", "unwritten"}
    BY <1>2
  <2>2. IsFiniteSet({u \in Writers : writers[u].at # "unwritten"})
    BY FS_Subset, WritersAssumption
  <2>3. {u \in Writers : writers[u].at # "unwritten"} \subseteq {w, v}
    <3> DEFINE S == {u \in Writers : writers[u].at # "unwritten"}
    <3>1. w \in S /\ v \in S /\ w # v
      BY <2>1
    <3> HIDE DEF S
    <3>2. IsFiniteSet(S) /\ Cardinality(S) <= 2
      BY <1>2, <2>2 DEF S
    <3>3. S \subseteq {w, v}
      BY <3>1, <3>2, AtMostTwo
    <3>. QED BY <3>3 DEF S
  <2>4. Alone(w, v) /\ writers[v].at \in {"refused", "failed"}
    BY <2>1, <2>3 DEF Alone, Involved, WriterAt, Stopped, Outside
  <2>. QED BY <2>4 DEF SignalInv, PairInv, PairOf, HasMoved, WriterAt
<1>. QED BY <1>1, <1>2

\* Whatever number of writers export to one directory, after they have ended
\* a validated package is whole, if only two found it empty or all succeeded.
THEOREM ExportedHold == SignalSpec => []ExportedStaysWhole
  BY SignalsStart, SignalsGoOn, SignalInvIsSound, PTL DEF SignalSpec

\* Writers, drafts and the output hold values of their kinds.
THEOREM SignalTypesHold == SignalSpec => []SignalTypeOK
<1>1. SignalInv => SignalTypeOK
  BY DEF SignalInv
<1>. QED BY <1>1, SignalsStart, SignalsGoOn, PTL DEF SignalSpec

-----------------------------------------------------------------------------
(* The bridge.  What is known of a map that never changed is kept through  *)
(* the second reading of it.                                               *)

\* A row that the contract accepts, and whose key is made of what it says.
BarRowSound(row) ==
    /\ row.bar_start_at \in Int /\ row.bar_end_at \in Int
    /\ row.first_seen_at \in Int /\ row.available_at \in Int
    /\ row.bar_start_at < row.bar_end_at /\ row.bar_end_at <= row.available_at
    /\ row.quote = "ordered"
    /\ row.bar_id = <<row.origin[1], row.asset_id, row.bar_start_at>>

\* A symbol gives one bar of a time.
BarRowsSound(rows) ==
    /\ DOMAIN rows \subseteq Nat
    /\ \A i \in DOMAIN rows : BarRowSound(rows[i])
    /\ \A i, j \in DOMAIN rows :
          i # j /\ rows[i].origin = rows[j].origin =>
             rows[i].bar_start_at # rows[j].bar_start_at

SymbolsDiffer(entries) ==
    \A i, j \in DOMAIN entries :
        /\ entries[i].profile = entries[j].profile
        /\ entries[i].symbol = entries[j].symbol
        => i = j

OriginOf(entry) == <<entry.profile, entry.symbol>>
BarRowsOf(entries) ==
    {BarContractRow(entries[k], bar, now) : k \in DOMAIN entries, bar \in RateBars, now \in Int}

BridgeShape ==
    /\ DOMAIN bridge = DOMAIN Idle
    /\ bridge.at \in {"idle", "map", "connect", "read", "manifest"}
    /\ bridge.next \in Nat \ {0} /\ bridge.now \in Int
    /\ bridge.rows \in Seq(BarRowsOf(bridge.entries))
    /\ bridge.at \in {"idle", "map", "connect"} => bridge.rows = <<>> /\ bridge.next = 1

FilesShape ==
    /\ mapEdits \in Nat /\ symbolMap \in MapFiles
    /\ terminal = "open" => bridge.at \in {"read", "manifest"}
    /\ ~interrupted /\ bridge.at # "manifest" => manifest = bars
    /\ bridge.at = "manifest" => bridge.next \notin DOMAIN bridge.entries

\* The gates' answer lasts as long as the map does.
MapStillValid ==
    mapEdits = 0 =>
        /\ bridge.at = "map" => MapGatePasses(symbolMap)
        /\ bridge.at \in {"connect", "read", "manifest"} => SymbolsDiffer(bridge.entries)

\* The rows read so far are of the entries before the next one.
RowsSoFar ==
    mapEdits = 0 =>
        /\ BarRowsSound(bridge.rows)
        /\ \A i \in DOMAIN bridge.rows : \E k \in Nat \cap DOMAIN bridge.entries :
              k < bridge.next /\ bridge.rows[i].origin = OriginOf(bridge.entries[k])

BarsOnDisk == mapEdits = 0 /\ bars.kind = "file" => BarRowsSound(bars.rows)

BridgeInv == BridgeShape /\ FilesShape /\ MapStillValid /\ RowsSoFar /\ BarsOnDisk

LEMMA ContractRow ==
    ASSUME NEW entry, NEW bar \in RateBars, NEW now \in Int
    PROVE  LET row == BarContractRow(entry, bar, now)
           IN /\ row.origin = OriginOf(entry)
              /\ row.bar_start_at = bar.time
              /\ row.quote = bar.quote
              /\ bar.quote = "ordered" => BarRowSound(row)
  BY Mt5Assumption DEF BarContractRow, Bar, RateBars, OriginOf, BarRowSound

LEMMA RowOfEntry ==
    ASSUME NEW entries, NEW k \in DOMAIN entries, NEW bar \in RateBars, NEW now \in Int
    PROVE  BarContractRow(entries[k], bar, now) \in BarRowsOf(entries)
  BY DEF BarRowsOf

LEMMA Concatenated ==
    ASSUME NEW S, NEW s \in Seq(S), NEW t \in Seq(S)
    PROVE  /\ s \o t \in Seq(S)
           /\ DOMAIN (s \o t) = 1 .. (Len(s) + Len(t))
           /\ \A i \in DOMAIN (s \o t) :
                 (s \o t)[i] = IF i <= Len(s) THEN s[i] ELSE t[i - Len(s)]
  OBVIOUS

LEMMA IdleShape ==
    /\ DOMAIN Idle = {"at", "entries", "next", "rows", "now"}
    /\ Idle.at = "idle" /\ Idle.entries = <<>> /\ Idle.next = 1 /\ Idle.rows = <<>>
    /\ Idle.now = 0
  BY DEF Idle

\* A command that has ended.
LEMMA CommandEnded ==
    ASSUME bridge' = Idle
    PROVE  /\ BridgeShape'
           /\ MapStillValid'
           /\ RowsSoFar'
<1>1. bridge'.rows = <<>> /\ bridge'.at = "idle" /\ bridge'.next = 1 /\ bridge'.now = 0
  BY IdleShape
<1>2. BridgeShape'
  BY <1>1 DEF BridgeShape
<1>3. MapStillValid'
  BY <1>1 DEF MapStillValid
<1>4. DOMAIN bridge'.rows = {}
  BY <1>1
<1>5. RowsSoFar'
  BY <1>4 DEF RowsSoFar, BarRowsSound
<1>. QED BY <1>2, <1>3, <1>5

\* The rows of one answer after the rows of other symbols.
LEMMA RowsAppended ==
    ASSUME BridgeInv, NEW answer \in Answers, ReadSymbol(answer), Clock \subseteq Int
    PROVE  /\ BridgeShape' /\ RowsSoFar'
<1> DEFINE entry == bridge.entries[bridge.next]
           new == [i \in DOMAIN answer |-> BarContractRow(entry, answer[i], bridge.now)]
<1>1. answer \in Seq(RateBars) /\ bridge.now \in Int /\ bridge.next \in Nat \ {0}
  BY Mt5Assumption DEF BridgeInv, BridgeShape
<1>2. /\ DOMAIN bridge' = DOMAIN Idle
      /\ bridge'.at = "read" /\ bridge'.entries = bridge.entries /\ bridge'.now = bridge.now
      /\ bridge'.next = bridge.next + 1 /\ bridge'.rows = bridge.rows \o new
  BY IdleShape DEF ReadSymbol, BridgeInv, BridgeShape
<1>3. new \in Seq(BarRowsOf(bridge.entries)) /\ Len(new) = Len(answer)
  <2>1. \A i \in DOMAIN answer : new[i] \in BarRowsOf(bridge.entries)
    <3> SUFFICES ASSUME NEW i \in DOMAIN answer PROVE new[i] \in BarRowsOf(bridge.entries)
      OBVIOUS
    <3>1. answer[i] \in RateBars /\ bridge.next \in DOMAIN bridge.entries
      BY <1>1 DEF ReadSymbol
    <3>2. new[i] = BarContractRow(bridge.entries[bridge.next], answer[i], bridge.now)
      OBVIOUS
    <3> HIDE DEF new
    <3>. QED BY <1>1, <3>1, <3>2, RowOfEntry
  <2>. QED BY <1>1, <2>1
<1>4. bridge.rows \in Seq(BarRowsOf(bridge.entries))
  BY DEF BridgeInv, BridgeShape
<1>5. /\ bridge'.rows \in Seq(BarRowsOf(bridge.entries))
      /\ DOMAIN bridge'.rows = 1 .. (Len(bridge.rows) + Len(answer))
      /\ \A i \in DOMAIN bridge'.rows :
            bridge'.rows[i] = IF i <= Len(bridge.rows) THEN bridge.rows[i]
                              ELSE new[i - Len(bridge.rows)]
  <2> HIDE DEF new
  <2>1. /\ bridge.rows \o new \in Seq(BarRowsOf(bridge.entries))
        /\ DOMAIN (bridge.rows \o new) = 1 .. (Len(bridge.rows) + Len(new))
        /\ \A i \in DOMAIN (bridge.rows \o new) :
              (bridge.rows \o new)[i] = IF i <= Len(bridge.rows) THEN bridge.rows[i]
                                        ELSE new[i - Len(bridge.rows)]
    BY <1>3, <1>4, Concatenated
  <2>2. bridge'.rows = bridge.rows \o new /\ Len(new) = Len(answer)
    BY <1>2, <1>3
  <2>. QED BY <2>1, <2>2
<1>6. BridgeShape'
  BY <1>1, <1>2, <1>5 DEF BridgeShape
<1>7. ASSUME mapEdits = 0
      PROVE  /\ BarRowsSound(bridge'.rows)
             /\ \A i \in DOMAIN bridge'.rows : \E k \in Nat \cap DOMAIN bridge'.entries :
                   k < bridge'.next /\ bridge'.rows[i].origin = OriginOf(bridge'.entries[k])
  <2>1. \A i \in DOMAIN answer : /\ new[i].origin = OriginOf(entry)
                                 /\ new[i].bar_start_at = answer[i].time
                                 /\ BarRowSound(new[i])
    <3> SUFFICES ASSUME NEW i \in DOMAIN answer
                 PROVE  /\ new[i].origin = OriginOf(entry)
                        /\ new[i].bar_start_at = answer[i].time
                        /\ BarRowSound(new[i])
      OBVIOUS
    <3>1. answer[i] \in RateBars /\ answer[i].quote = "ordered"
      BY <1>1 DEF ReadSymbol, AnswerRefused
    <3>. QED BY <1>1, <3>1, ContractRow
  <2>2. \A i, j \in DOMAIN answer : i # j => new[i].bar_start_at # new[j].bar_start_at
    BY <2>1 DEF ReadSymbol, AnswerRefused
  <2>3. \A i \in DOMAIN bridge.rows :
            /\ BarRowSound(bridge.rows[i])
            /\ \E k \in Nat \cap DOMAIN bridge.entries :
                  k < bridge.next /\ bridge.rows[i].origin = OriginOf(bridge.entries[k])
    BY <1>7 DEF BridgeInv, RowsSoFar, BarRowsSound
  <2>4. bridge.next \in DOMAIN bridge.entries /\ SymbolsDiffer(bridge.entries)
    BY <1>7 DEF ReadSymbol, BridgeInv, MapStillValid
  <2>5. \A i \in DOMAIN bridge.rows : bridge.rows[i].origin # OriginOf(entry)
    <3> SUFFICES ASSUME NEW i \in DOMAIN bridge.rows, bridge.rows[i].origin = OriginOf(entry)
                 PROVE  FALSE
      OBVIOUS
    <3>1. PICK k \in Nat \cap DOMAIN bridge.entries :
             k < bridge.next /\ bridge.rows[i].origin = OriginOf(bridge.entries[k])
      BY <2>3
    <3>2. k = bridge.next
      BY <3>1, <2>4 DEF SymbolsDiffer, OriginOf
    <3>. QED BY <1>1, <3>1, <3>2
  <2> HIDE DEF new
  <2>6. \A i \in DOMAIN bridge'.rows : i <= Len(bridge.rows) =>
            i \in DOMAIN bridge.rows /\ bridge'.rows[i] = bridge.rows[i]
    BY <1>4, <1>5
  <2>7. \A i \in DOMAIN bridge'.rows : ~(i <= Len(bridge.rows)) =>
            /\ i - Len(bridge.rows) \in DOMAIN answer
            /\ bridge'.rows[i] = new[i - Len(bridge.rows)]
    BY <1>1, <1>4, <1>5
  <2>8. \A i \in DOMAIN bridge'.rows : BarRowSound(bridge'.rows[i])
    BY <2>1, <2>3, <2>6, <2>7
  <2>9. ASSUME NEW i \in DOMAIN bridge'.rows, NEW j \in DOMAIN bridge'.rows, i # j,
               bridge'.rows[i].origin = bridge'.rows[j].origin
        PROVE  bridge'.rows[i].bar_start_at # bridge'.rows[j].bar_start_at
    <3>1. i \in Int /\ j \in Int /\ Len(bridge.rows) \in Nat
      BY <1>4, <1>5
    <3>2. CASE i <= Len(bridge.rows) /\ j <= Len(bridge.rows)
      BY <1>7, <2>6, <2>9, <3>2 DEF BridgeInv, RowsSoFar, BarRowsSound
    <3>3. CASE i <= Len(bridge.rows) /\ ~(j <= Len(bridge.rows))
      BY <2>1, <2>5, <2>6, <2>7, <2>9, <3>3
    <3>4. CASE ~(i <= Len(bridge.rows)) /\ j <= Len(bridge.rows)
      BY <2>1, <2>5, <2>6, <2>7, <2>9, <3>4
    <3>5. CASE ~(i <= Len(bridge.rows)) /\ ~(j <= Len(bridge.rows))
      <4>1. i - Len(bridge.rows) # j - Len(bridge.rows)
        BY <3>1, <2>9
      <4>. QED BY <2>2, <2>7, <3>5, <4>1
    <3>. QED BY <3>2, <3>3, <3>4, <3>5
  <2>10. ASSUME NEW i \in DOMAIN bridge'.rows
         PROVE  \E k \in Nat \cap DOMAIN bridge'.entries :
                   k < bridge'.next /\ bridge'.rows[i].origin = OriginOf(bridge'.entries[k])
    <3>1. CASE i <= Len(bridge.rows)
      <4>1. PICK k \in Nat \cap DOMAIN bridge.entries :
               k < bridge.next /\ bridge.rows[i].origin = OriginOf(bridge.entries[k])
        BY <2>3, <2>6, <3>1
      <4>2. k < bridge.next + 1
        BY <1>1, <4>1
      <4>3. bridge'.rows[i].origin = OriginOf(bridge'.entries[k])
        BY <1>2, <2>6, <3>1, <4>1
      <4>. QED BY <1>2, <4>1, <4>2, <4>3
    <3>2. CASE ~(i <= Len(bridge.rows))
      <4>1. bridge'.rows[i].origin = OriginOf(bridge'.entries[bridge.next])
        BY <1>2, <2>1, <2>7, <3>2
      <4>2. bridge.next \in Nat \cap DOMAIN bridge'.entries /\ bridge.next < bridge'.next
        BY <1>1, <1>2, <2>4
      <4>. QED BY <4>1, <4>2
    <3>. QED BY <3>1, <3>2
  <2>11. DOMAIN bridge'.rows \subseteq Nat
    BY <1>1, <1>4, <1>5
  <2>. QED BY <2>8, <2>9, <2>10, <2>11 DEF BarRowsSound
<1>8. RowsSoFar'
  BY <1>7 DEF RowsSoFar, ReadSymbol
<1>. QED BY <1>6, <1>8

LEMMA BridgeInit == Mt5Init => BridgeInv
<1> SUFFICES ASSUME Mt5Init PROVE BridgeInv
  OBVIOUS
<1>1. BridgeShape /\ MapStillValid /\ RowsSoFar
  <2>1. bridge.at = "idle" /\ bridge.rows = <<>> /\ bridge.next = 1 /\ bridge.now = 0
    BY IdleShape DEF Mt5Init
  <2>. QED BY <2>1 DEF Mt5Init, BridgeShape, MapStillValid, RowsSoFar, BarRowsSound
<1>2. FilesShape
  BY IdleShape DEF Mt5Init, FilesShape
<1>3. BarsOnDisk
  BY DEF Mt5Init, BarsOnDisk, NoFile
<1>. QED BY <1>1, <1>2, <1>3 DEF BridgeInv

LEMMA EndedKeeps ==
    ASSUME BridgeInv, NEW outcome, EndCommand(outcome), UNCHANGED <<symbolMap, mapEdits>>,
           ~interrupted' => manifest' = bars',
           bars' = bars \/ bars' = TornFile
    PROVE  BridgeInv'
<1>1. bridge' = Idle /\ terminal' = "closed" /\ bridge'.at = "idle"
  BY IdleShape DEF EndCommand
<1>2. BridgeShape' /\ MapStillValid' /\ RowsSoFar'
  BY <1>1, CommandEnded
<1>3. FilesShape'
  BY <1>1 DEF FilesShape, BridgeInv
<1>4. BarsOnDisk'
  <2>1. TornFile.kind # "file"
    BY DEF TornFile
  <2>. QED BY <2>1 DEF BarsOnDisk, BridgeInv
<1>. QED BY <1>2, <1>3, <1>4 DEF BridgeInv

LEMMA BridgeNext == BridgeInv /\ [Mt5Next]_mt5Vars => BridgeInv'
<1> SUFFICES ASSUME BridgeInv, [Mt5Next]_mt5Vars PROVE BridgeInv'
  OBVIOUS
<1>. USE Mt5Assumption
<1>0. bridge.at # "manifest" /\ ~interrupted => manifest = bars
  BY DEF BridgeInv, FilesShape
<1>1. CASE UNCHANGED mt5Vars
  BY <1>1 DEF mt5Vars, BridgeInv, BridgeShape, FilesShape, MapStillValid, RowsSoFar, BarsOnDisk
<1>2. ASSUME NEW file \in MapFiles, EditSymbolMap(file) PROVE BridgeInv'
  <2>1. mapEdits' # 0 /\ mapEdits' \in Nat /\ symbolMap' \in MapFiles
    BY <1>2 DEF EditSymbolMap, BridgeInv, FilesShape
  <2>. QED BY <1>2, <2>1 DEF EditSymbolMap, BridgeInv, BridgeShape, FilesShape, MapStillValid,
              RowsSoFar, BarsOnDisk
<1>3. CASE ValidateMap
  BY <1>0, <1>3, EndedKeeps DEF ValidateMap
<1>4. CASE BlockedByOptions
  BY <1>0, <1>4, EndedKeeps DEF BlockedByOptions
<1>5. CASE BlockedByMap
  BY <1>0, <1>5, EndedKeeps DEF BlockedByMap
<1>6. CASE GatesPassed
  <2>1. /\ bridge'.at = "map" /\ bridge'.rows = <<>> /\ bridge'.next = 1 /\ bridge'.now = 0
        /\ DOMAIN bridge' = DOMAIN Idle
    BY <1>6, IdleShape DEF GatesPassed
  <2>2. BridgeShape'
    BY <2>1 DEF BridgeShape
  <2>3. FilesShape'
    BY <1>6, <2>1 DEF GatesPassed, FilesShape, BridgeInv
  <2>4. MapStillValid'
    BY <1>6, <2>1 DEF GatesPassed, MapStillValid
  <2>5. RowsSoFar' /\ BarsOnDisk'
    BY <1>6, <2>1 DEF GatesPassed, RowsSoFar, BarsOnDisk, BridgeInv, BarRowsSound
  <2>. QED BY <2>2, <2>3, <2>4, <2>5 DEF BridgeInv
<1>7. CASE ReadMap
  <2>1. /\ bridge'.at = "connect" /\ bridge'.rows = <<>> /\ bridge'.next = 1
        /\ bridge'.now = bridge.now
        /\ DOMAIN bridge' = DOMAIN Idle /\ bridge'.entries = EnabledEntries(symbolMap)
    BY <1>7, IdleShape DEF ReadMap, BridgeInv, BridgeShape
  <2>2. BridgeShape'
    BY <2>1 DEF BridgeShape, BridgeInv
  <2>3. FilesShape'
    BY <1>7, <2>1 DEF ReadMap, FilesShape, BridgeInv
  <2>4. MapStillValid'
    <3> SUFFICES ASSUME mapEdits' = 0 PROVE SymbolsDiffer(EnabledEntries(symbolMap))
      BY <2>1 DEF MapStillValid
    <3>1. MapGatePasses(symbolMap) /\ symbolMap.kind = "list"
      BY <1>7 DEF ReadMap, BridgeInv, MapStillValid
    <3>. QED BY <3>1 DEF MapGatePasses, SymbolMapValid, SymbolsDiffer
  <2>5. RowsSoFar' /\ BarsOnDisk'
    BY <1>7, <2>1 DEF ReadMap, RowsSoFar, BarsOnDisk, BridgeInv, BarRowsSound
  <2>. QED BY <2>2, <2>3, <2>4, <2>5 DEF BridgeInv
<1>8. CASE MapUnreadable
  BY <1>0, <1>8, EndedKeeps DEF MapUnreadable
<1>9. ASSUME NEW now \in Clock, Connect(now) PROVE BridgeInv'
  <2>1. /\ bridge'.at = "read" /\ bridge'.rows = bridge.rows /\ bridge'.next = bridge.next
        /\ bridge'.now = now /\ bridge'.entries = bridge.entries
        /\ DOMAIN bridge' = DOMAIN Idle
    BY <1>9, IdleShape DEF Connect, BridgeInv, BridgeShape
  <2>2. BridgeShape'
    BY <2>1 DEF BridgeShape, BridgeInv
  <2>3. FilesShape'
    BY <1>9, <2>1 DEF Connect, FilesShape, BridgeInv
  <2>4. MapStillValid'
    BY <1>9, <2>1 DEF Connect, MapStillValid, BridgeInv
  <2>5. RowsSoFar' /\ BarsOnDisk'
    BY <1>9, <2>1 DEF Connect, RowsSoFar, BarsOnDisk, BridgeInv
  <2>. QED BY <2>2, <2>3, <2>4, <2>5 DEF BridgeInv
<1>10. CASE ConnectFails
  BY <1>0, <1>10, EndedKeeps DEF ConnectFails
<1>11. ASSUME NEW answer \in Answers, ReadSymbol(answer) PROVE BridgeInv'
  <2>1. BridgeShape' /\ RowsSoFar'
    BY <1>11, RowsAppended
  <2>2. bridge'.at = "read" /\ bridge'.entries = bridge.entries
    BY <1>11, IdleShape DEF ReadSymbol, BridgeInv, BridgeShape
  <2>3. FilesShape' /\ MapStillValid' /\ BarsOnDisk'
    BY <1>11, <2>2 DEF ReadSymbol, BridgeInv, FilesShape, MapStillValid, BarsOnDisk
  <2>. QED BY <2>1, <2>3 DEF BridgeInv
<1>12. ASSUME NEW answer \in Answers, ReadRefused(answer) PROVE BridgeInv'
  BY <1>0, <1>12, EndedKeeps DEF ReadRefused
<1>13. CASE ReadFails
  BY <1>0, <1>13, EndedKeeps DEF ReadFails
<1>14. CASE WriteBars
  <2>1. /\ bridge'.at = "manifest" /\ bridge'.rows = bridge.rows /\ bridge'.next = bridge.next
        /\ bridge'.now = bridge.now /\ bridge'.entries = bridge.entries
        /\ DOMAIN bridge' = DOMAIN Idle
    BY <1>14, IdleShape DEF WriteBars, BridgeInv, BridgeShape
  <2>2. BridgeShape'
    BY <2>1 DEF BridgeShape, BridgeInv
  <2>3. FilesShape'
    BY <1>14, <2>1 DEF WriteBars, FilesShape, BridgeInv
  <2>4. MapStillValid'
    BY <1>14, <2>1 DEF WriteBars, MapStillValid, BridgeInv
  <2>5. RowsSoFar'
    BY <1>14, <2>1 DEF WriteBars, RowsSoFar, BridgeInv
  <2>6. BarsOnDisk'
    BY <1>14 DEF WriteBars, FileOf, BarsOnDisk, RowsSoFar, BridgeInv
  <2>. QED BY <2>2, <2>3, <2>4, <2>5, <2>6 DEF BridgeInv
<1>15. CASE WriteManifest
  BY <1>15, EndedKeeps DEF WriteManifest
<1>16. ASSUME NEW outcome, WriteInterrupted(outcome) PROVE BridgeInv'
  BY <1>16, EndedKeeps DEF WriteInterrupted
<1>17. CASE WriteBarsFails
  BY <1>16, <1>17 DEF WriteBarsFails
<1>18. CASE KillExport
  <2>1. CASE WriteInterrupted("killed")
    BY <1>16, <2>1
  <2>2. CASE ~WriteInterrupted("killed")
    <3>1. bridge.at # "manifest"
      BY <1>18, <2>2 DEF KillExport, BridgeInv, FilesShape
    <3>. QED BY <1>0, <1>18, <2>2, <3>1, EndedKeeps DEF KillExport
  <2>. QED BY <2>1, <2>2
<1>. QED BY <1>1, <1>2, <1>3, <1>4, <1>5, <1>6, <1>7, <1>8, <1>9, <1>10, <1>11, <1>12, <1>13,
            <1>14, <1>15, <1>17, <1>18 DEF Mt5Next, Mt5Progress

LEMMA SoundFollowsContract ==
    ASSUME BarsOnDisk
    PROVE  BarsFollowContract
<1> DEFINE rows == bars.rows
<1> SUFFICES ASSUME bars.kind = "file", mapEdits = 0,
                    \A i \in DOMAIN rows : rows[i].first_seen_at <= rows[i].available_at,
                    \A i, j \in DOMAIN rows :
                       i < j /\ rows[i].asset_id = rows[j].asset_id =>
                          /\ rows[i].origin = rows[j].origin
                          /\ rows[i].bar_start_at <= rows[j].bar_start_at
             PROVE  MarketBarFileValid(rows)
  BY DEF BarsFollowContract
<1>1. BarRowsSound(rows)
  BY DEF BarsOnDisk
<1> HIDE DEF rows
<1>2. \A i \in DOMAIN rows : ImportRowValid(rows[i])
  BY <1>1 DEF BarRowsSound, BarRowSound, ImportRowValid
<1>3. ASSUME NEW i \in DOMAIN rows, NEW j \in DOMAIN rows, i < j,
             rows[i].bar_id = rows[j].bar_id
      PROVE  FALSE
  <2>1. rows[i].asset_id = rows[j].asset_id /\ rows[i].bar_start_at = rows[j].bar_start_at
    BY <1>1, <1>3 DEF BarRowsSound, BarRowSound
  <2>2. rows[i].origin = rows[j].origin
    BY <1>3, <2>1
  <2>3. i = j
    BY <1>1, <2>1, <2>2 DEF BarRowsSound
  <2>. QED BY <1>1, <1>3, <2>3 DEF BarRowsSound
<1>. QED BY <1>2, <1>3 DEF MarketBarFileValid, MonotonicAndUnique

LEMMA BridgeInvIsSound == BridgeInv => BridgeExportsSound
  BY SoundFollowsContract DEF BridgeInv, FilesShape, BridgeExportsSound, TerminalReleased,
     ManifestDescribesBars

\* The bridge lets its terminal go, and leaves a manifest that is of the bars
\* beside it; while the map stays what it was, those follow the contract
\* of the market bars but for what the terminal's own times decide.
THEOREM BridgeHolds == Mt5Spec => []BridgeExportsSound
  BY BridgeInit, BridgeNext, BridgeInvIsSound, PTL DEF Mt5Spec

\* What is enabled of a map is a list of its entries.
LEMMA EnabledType ==
    ASSUME NEW file \in MapFiles
    PROVE  EnabledEntries(file) \in Seq(MapEntries)
<1> DEFINE enabled == {i \in DOMAIN file.entries : file.entries[i].enabled}
<1>1. file.entries \in Seq(MapEntries)
  BY Mt5Assumption
<1>2. enabled \subseteq 1 .. Len(file.entries) /\ Len(file.entries) \in Nat
  BY <1>1
<1>3. enabled \in SUBSET Int /\ IsFiniteSet(enabled)
  BY <1>2, FS_Interval, FS_Subset
<1>4. Cardinality(enabled) \in Nat
  BY <1>3, FS_CardinalityType
<1>5. \A place \in 1..Cardinality(enabled) : Nth(enabled, place) \in enabled
  BY <1>3, RankOfNth
<1>6. EnabledEntries(file) =
         [place \in 1..Cardinality(enabled) |-> file.entries[Nth(enabled, place)]]
  BY DEF EnabledEntries, Nth
<1>7. \A i \in enabled : file.entries[i] \in MapEntries
  BY <1>1
<1> HIDE DEF enabled
<1>. QED BY <1>4, <1>5, <1>6, <1>7

\* The bridge's variables stay in their ranges: entries are those of the
\* map, and no entry is skipped.
BridgeTyped ==
    /\ mapEdits \in 0..MaxMapEdits /\ commands \in 0..MaxCommands
    /\ bridge.entries \in Seq(MapEntries)
    /\ bridge.at \in {"idle", "map"} => bridge.entries = <<>>
    /\ bridge.next <= Len(bridge.entries) + 1
    /\ terminal \in {"closed", "open"} /\ interrupted \in BOOLEAN
    /\ {bars.kind, manifest.kind} \subseteq {"absent", "file", "torn"}

LEMMA BridgeTypedStarts == Mt5Init => BridgeTyped
<1> SUFFICES ASSUME Mt5Init PROVE BridgeTyped
  OBVIOUS
<1>1. bridge.at = "idle" /\ bridge.entries = <<>> /\ bridge.next = 1
  BY IdleShape DEF Mt5Init
<1>2. bars.kind = "absent" /\ manifest.kind = "absent"
  BY DEF Mt5Init, NoFile
<1>3. bridge.entries \in Seq(MapEntries) /\ bridge.next <= Len(bridge.entries) + 1
  BY <1>1
<1>4. mapEdits \in 0..MaxMapEdits /\ commands \in 0..MaxCommands
  BY Mt5Assumption DEF Mt5Init
<1>5. {bars.kind, manifest.kind} \subseteq {"absent", "file", "torn"}
  BY <1>2
<1>. QED BY <1>1, <1>3, <1>4, <1>5 DEF Mt5Init, BridgeTyped

LEMMA EndedTyped ==
    ASSUME BridgeTyped, NEW outcome, EndCommand(outcome), UNCHANGED mapEdits,
           commands' \in 0..MaxCommands, interrupted' \in BOOLEAN,
           bars' = bars \/ bars' = TornFile,
           manifest' \in {manifest, bars, TornFile}
    PROVE  BridgeTyped'
<1>1. /\ bridge'.at = "idle" /\ bridge'.entries = <<>> /\ bridge'.next = 1
      /\ terminal' = "closed"
  BY IdleShape DEF EndCommand
<1>2. {bars'.kind, manifest'.kind} \subseteq {"absent", "file", "torn"}
  BY DEF BridgeTyped, TornFile
<1>. QED BY <1>1, <1>2 DEF BridgeTyped

LEMMA BridgeTypedGoesOn ==
    ASSUME BridgeInv, BridgeTyped, [Mt5Next]_mt5Vars
    PROVE  BridgeTyped'
<1>0. DOMAIN bridge = DOMAIN Idle /\ bridge.next \in Nat
  BY DEF BridgeInv, BridgeShape
<1>1. CASE UNCHANGED mt5Vars
  BY <1>1 DEF mt5Vars, BridgeTyped
<1>2. ASSUME NEW file \in MapFiles, EditSymbolMap(file) PROVE BridgeTyped'
  BY <1>2, Mt5Assumption DEF EditSymbolMap, BridgeTyped
<1>3. CASE ValidateMap \/ BlockedByOptions \/ BlockedByMap
  <2>1. commands' \in 0..MaxCommands
    BY <1>3, Mt5Assumption DEF ValidateMap, BlockedByOptions, BlockedByMap, BridgeTyped
  <2>2. interrupted' \in BOOLEAN
    BY <1>3 DEF ValidateMap, BlockedByOptions, BlockedByMap, BridgeTyped
  <2>. QED BY <1>3, <2>1, <2>2, EndedTyped DEF ValidateMap, BlockedByOptions, BlockedByMap
<1>4. CASE GatesPassed
  <2>1. bridge'.at = "map" /\ bridge'.entries = <<>> /\ bridge'.next = 1
    BY <1>4, IdleShape DEF GatesPassed
  <2>. QED BY <1>4, <2>1, Mt5Assumption DEF GatesPassed, BridgeTyped
<1>5. CASE ReadMap
  <2>1. /\ bridge'.at = "connect" /\ bridge'.entries = EnabledEntries(symbolMap)
        /\ bridge'.next = 1
    BY <1>0, <1>5, IdleShape DEF ReadMap, BridgeInv, BridgeShape
  <2>2. EnabledEntries(symbolMap) \in Seq(MapEntries)
    BY EnabledType DEF BridgeInv, FilesShape
  <2>. QED BY <1>5, <2>1, <2>2 DEF ReadMap, BridgeTyped
<1>6. CASE MapUnreadable \/ ConnectFails \/ ReadFails
  BY <1>6, EndedTyped DEF MapUnreadable, ConnectFails, ReadFails, BridgeTyped
<1>7. ASSUME NEW now \in Clock, Connect(now) PROVE BridgeTyped'
  <2>1. /\ bridge'.at = "read" /\ bridge'.entries = bridge.entries
        /\ bridge'.next = bridge.next
    BY <1>0, <1>7, IdleShape DEF Connect
  <2>. QED BY <1>7, <2>1 DEF Connect, BridgeTyped
<1>8. ASSUME NEW answer \in Answers, ReadSymbol(answer) PROVE BridgeTyped'
  <2>1. /\ bridge'.at = "read" /\ bridge'.entries = bridge.entries
        /\ bridge'.next = bridge.next + 1 /\ bridge.next \in DOMAIN bridge.entries
    BY <1>0, <1>8, IdleShape DEF ReadSymbol
  <2>2. bridge'.next <= Len(bridge'.entries) + 1
    BY <2>1 DEF BridgeTyped
  <2>. QED BY <1>8, <2>1, <2>2 DEF ReadSymbol, BridgeTyped
<1>9. ASSUME NEW answer \in Answers, ReadRefused(answer) PROVE BridgeTyped'
  BY <1>9, EndedTyped DEF ReadRefused, BridgeTyped
<1>10. CASE WriteBars
  <2>1. /\ bridge'.at = "manifest" /\ bridge'.entries = bridge.entries
        /\ bridge'.next = bridge.next /\ bars'.kind = "file"
    BY <1>0, <1>10, IdleShape DEF WriteBars, FileOf
  <2>. QED BY <1>10, <2>1 DEF WriteBars, BridgeTyped
<1>11. CASE WriteManifest
  BY <1>11, EndedTyped DEF WriteManifest, BridgeTyped
<1>12. ASSUME NEW outcome, WriteInterrupted(outcome) PROVE BridgeTyped'
  BY <1>12, EndedTyped DEF WriteInterrupted, BridgeTyped
<1>13. CASE WriteBarsFails
  BY <1>12, <1>13 DEF WriteBarsFails
<1>14. CASE KillExport
  BY <1>12, <1>14, EndedTyped DEF KillExport, BridgeTyped
<1>. QED BY <1>1, <1>2, <1>3, <1>4, <1>5, <1>6, <1>7, <1>8, <1>9, <1>10, <1>11, <1>13, <1>14
     DEF Mt5Next, Mt5Progress

LEMMA RowsHavePrices ==
    ASSUME NEW entries, NEW row \in BarRowsOf(entries)
    PROVE  row.quote \in Quotes
<1>1. PICK k \in DOMAIN entries, bar \in RateBars, now \in Int :
         row = BarContractRow(entries[k], bar, now)
  BY DEF BarRowsOf
<1>2. BarContractRow(entries[k], bar, now).quote = bar.quote
  BY ContractRow
<1>. QED BY <1>1, <1>2 DEF RateBars

LEMMA BridgeTypedIs ==
    ASSUME BridgeInv, BridgeTyped
    PROVE  Mt5TypeOK
<1>1. ASSUME NEW i \in DOMAIN bridge.rows PROVE bridge.rows[i].quote \in Quotes
  <2>1. bridge.rows[i] \in BarRowsOf(bridge.entries)
    BY DEF BridgeInv, BridgeShape
  <2>. QED BY <2>1, RowsHavePrices
<1>2. bridge.next \in 1..(Len(bridge.entries) + 1)
  BY DEF BridgeInv, BridgeShape, BridgeTyped
<1>. QED BY <1>1, <1>2 DEF BridgeInv, BridgeShape, FilesShape, BridgeTyped, Mt5TypeOK

\* Whatever the map and the terminal hold, the bridge reads one entry after
\* the other to the last, and each bar it keeps has prices.
THEOREM BridgeTypesHold == Mt5Spec => []Mt5TypeOK
<1>1. Mt5Init => BridgeInv /\ BridgeTyped
  BY BridgeInit, BridgeTypedStarts
<1>2. BridgeInv /\ BridgeTyped /\ [Mt5Next]_mt5Vars => (BridgeInv /\ BridgeTyped)'
  BY BridgeNext, BridgeTypedGoesOn
<1>3. BridgeInv /\ BridgeTyped => Mt5TypeOK
  BY BridgeTypedIs
<1>. QED BY <1>1, <1>2, <1>3, PTL DEF Mt5Spec

-----------------------------------------------------------------------------
(* Event studies.                                                          *)

LEMMA EligibleFinite ==
    ASSUME NEW list \in SignalLists
    PROVE  /\ Eligible(list) \subseteq 1 .. Len(list) /\ Len(list) \in Nat
           /\ IsFiniteSet(Eligible(list)) /\ Cardinality(Eligible(list)) \in Nat
<1>1. list \in Seq(ReactionSignals)
  BY ReactionAssumption
<1>2. Eligible(list) \subseteq 1 .. Len(list) /\ Len(list) \in Nat
  BY <1>1 DEF Eligible
<1>3. IsFiniteSet(1 .. Len(list))
  BY <1>2, FS_Interval
<1>4. IsFiniteSet(Eligible(list))
  BY <1>2, <1>3, FS_Subset
<1>. QED BY <1>2, <1>4, FS_CardinalityType

\* Every place is taken by one of the signals.
LEMMA PlaceTaken ==
    ASSUME NEW list \in SignalLists, NEW place \in 1 .. Cardinality(Eligible(list))
    PROVE  \E i \in Eligible(list) : Cardinality(EligibleUpTo(list, i)) = place
<1>1. Eligible(list) \in SUBSET Int /\ IsFiniteSet(Eligible(list))
  BY EligibleFinite
<1>2. PICK i \in Eligible(list) : RankIn(Eligible(list), i) = place
  BY <1>1, RankOfNth
<1>3. EligibleUpTo(list, i) = BelowOrAt(Eligible(list), i)
  BY DEF EligibleUpTo, BelowOrAt
<1>. QED BY <1>2, <1>3 DEF RankIn

LEMMA EligibleType ==
    ASSUME NEW list \in SignalLists
    PROVE  EligibleSignals(list) \in Seq(ReactionSignals)
<1> DEFINE chosen(place) ==
        CHOOSE i \in Eligible(list) : Cardinality(EligibleUpTo(list, i)) = place
           count == Least(Cardinality(Eligible(list)), MaxSignals)
<1>1. list \in Seq(ReactionSignals) /\ MaxSignals \in Nat
  BY ReactionAssumption
<1>2. Eligible(list) \subseteq DOMAIN list
  BY DEF Eligible
<1>3. Cardinality(Eligible(list)) \in Nat
  BY EligibleFinite
<1>4. count \in Nat /\ count <= Cardinality(Eligible(list))
  BY <1>1, <1>3 DEF Least
<1>5. ASSUME NEW place \in 1 .. count
      PROVE  list[chosen(place)] \in ReactionSignals
  <2>1. place \in 1 .. Cardinality(Eligible(list))
    BY <1>3, <1>4, <1>5
  <2>2. chosen(place) \in Eligible(list)
    BY <2>1, PlaceTaken
  <2>. QED BY <1>1, <1>2, <2>2
<1>6. EligibleSignals(list) = [place \in 1 .. count |-> list[chosen(place)]]
  BY DEF EligibleSignals
<1> HIDE DEF chosen, count
<1>. QED BY <1>4, <1>5, <1>6

StudySet == {Study(s, h) : s \in ReactionSignals, h \in DOMAIN LastOffset}
LabelSet == {LabelOf(study, abnormal) : study \in StudySet, abnormal \in AbnormalReturns}

\* The signals, and where the run is among them.
ReactionTyped ==
    /\ reactionSignals \in Seq(ReactionSignals)
    /\ position \in [signal : Nat \ {0}, horizon : Nat \ {0}]
    /\ Horizons # <<>> => position.horizon <= Len(Horizons)
    /\ studies \in Seq(StudySet) /\ labels \in Seq(LabelSet)

\* Metrics and cases are of the labels, once all of them are made.
ReportsMade ==
    /\ metrics.made \in BOOLEAN /\ errorCases.made \in BOOLEAN
    /\ metrics.made => ~Studying /\ metrics = MetricsOfLabels
    /\ errorCases.made =>
          metrics.made /\ \E chosen \in Listed : errorCases.cases = CasesOf(chosen)

ReactionInv == ReactionTyped /\ ReportsMade

\* What reports are made of.
LEMMA ReportsKept ==
    ASSUME UNCHANGED <<scenario, reactionSignals, position, labels>>
    PROVE  /\ Studying' = Studying /\ MetricsOfLabels' = MetricsOfLabels
           /\ Listed' = Listed
           /\ \A chosen : CasesOf(chosen)' = CasesOf(chosen)
<1>1. Studying' = Studying
  BY DEF Studying
<1>2. MetricsOfLabels' = MetricsOfLabels
  BY DEF MetricsOfLabels, LabelsOf, InSlice, MetricRow, Labelled, SignalOf
<1>3. Listed' = Listed
  BY DEF Listed, Candidates, Labelled, Sooner, SignalOf
<1>4. \A chosen : CasesOf(chosen)' = CasesOf(chosen)
  BY DEF CasesOf, Missing, Labelled, ErrorCategory, SignalOf
<1>. QED BY <1>1, <1>2, <1>3, <1>4

LEMMA ReportsStay ==
    ASSUME ReactionInv, UNCHANGED <<scenario, reactionSignals, position, studies, labels,
                                    metrics, errorCases>>
    PROVE  ReactionInv'
<1>1. ReactionTyped'
  BY DEF ReactionInv, ReactionTyped
<1>2. ReportsMade'
  BY ReportsKept DEF ReactionInv, ReportsMade
<1>. QED BY <1>1, <1>2 DEF ReactionInv

LEMMA StudiesStart == ReactionInit => ReactionInv
<1> SUFFICES ASSUME ReactionInit PROVE ReactionInv
  OBVIOUS
<1>1. reactionSignals \in Seq(ReactionSignals)
  BY EligibleType DEF ReactionInit
<1>2. position \in [signal : Nat \ {0}, horizon : Nat \ {0}] /\ position.horizon = 1
  BY DEF ReactionInit
<1>3. Horizons # <<>> => 1 <= Len(Horizons)
  BY ReactionAssumption
<1>4. ReactionTyped
  BY <1>1, <1>2, <1>3 DEF ReactionInit, ReactionTyped
<1>5. ReportsMade
  BY DEF ReactionInit, NotMade, ReportsMade
<1>. QED BY <1>4, <1>5 DEF ReactionInv

LEMMA PositionMoves ==
    ASSUME ReactionTyped, Studying
    PROVE  /\ position.signal \in DOMAIN reactionSignals
           /\ position.horizon \in DOMAIN Horizons
           /\ NextPosition \in [signal : Nat \ {0}, horizon : Nat \ {0}]
           /\ NextPosition.horizon <= Len(Horizons)
<1>1. Horizons \in Seq(DOMAIN LastOffset) /\ Horizons # <<>> /\ Len(Horizons) \in Nat \ {0}
  BY ReactionAssumption DEF Studying
<1>2. position.horizon \in 1 .. Len(Horizons)
  BY <1>1 DEF ReactionTyped
<1>. QED BY <1>1, <1>2 DEF ReactionTyped, Studying, NextPosition

LEMMA StudiesGoOn == ReactionInv /\ [ReactionNext]_reactionVars => ReactionInv'
<1> SUFFICES ASSUME ReactionInv, [ReactionNext]_reactionVars PROVE ReactionInv'
  OBVIOUS
<1>1. CASE UNCHANGED reactionVars
  BY <1>1, ReportsStay DEF reactionVars
<1>2. ASSUME NEW abnormal \in AbnormalReturns, MakeStudy(abnormal) PROVE ReactionInv'
  <2> DEFINE study == Study(reactionSignals[position.signal], Horizons[position.horizon])
  <2>1. Studying
    BY <1>2 DEF MakeStudy
  <2>2. ~metrics.made /\ ~errorCases.made
    BY <2>1 DEF ReactionInv, ReportsMade
  <2>3. study \in StudySet
    <3>1. /\ reactionSignals[position.signal] \in ReactionSignals
          /\ Horizons[position.horizon] \in DOMAIN LastOffset
      BY <2>1, PositionMoves, ReactionAssumption DEF ReactionInv, ReactionTyped
    <3>. QED BY <3>1 DEF StudySet
  <2>4. LabelOf(study, abnormal) \in LabelSet
    BY <2>3 DEF LabelSet
  <2> HIDE DEF study
  <2>5. studies' \in Seq(StudySet) /\ labels' \in Seq(LabelSet)
    <3>1. studies' = Append(studies, study) /\ labels' = Append(labels, LabelOf(study, abnormal))
      BY <1>2 DEF MakeStudy, study
    <3>. QED BY <2>3, <2>4, <3>1 DEF ReactionInv, ReactionTyped
  <2>6. ReactionTyped'
    BY <1>2, <2>1, <2>5, PositionMoves DEF MakeStudy, ReactionInv, ReactionTyped
  <2>7. ReportsMade'
    BY <1>2, <2>2 DEF MakeStudy, ReactionInv, ReportsMade
  <2>. QED BY <2>6, <2>7 DEF ReactionInv
<1>3. CASE MakeMetrics
  <2>1. metrics' = MetricsOfLabels /\ MetricsOfLabels' = MetricsOfLabels
    BY <1>3 DEF MakeMetrics, MetricsOfLabels, LabelsOf, InSlice, MetricRow, Labelled, SignalOf
  <2>2. MetricsOfLabels.made = TRUE
    BY DEF MetricsOfLabels
  <2>3. ~errorCases.made /\ errorCases.made \in BOOLEAN
    BY <1>3 DEF MakeMetrics, ReactionInv, ReportsMade
  <2>. QED BY <1>3, <2>1, <2>2, <2>3 DEF MakeMetrics, ReactionInv, ReactionTyped, ReportsMade,
              Studying
<1>4. CASE ListErrors
  <2>1. UNCHANGED <<scenario, reactionSignals, position, labels>>
    BY <1>4 DEF ListErrors
  <2>2. PICK chosen \in Listed : errorCases' = [made |-> TRUE, cases |-> CasesOf(chosen)]
    BY <1>4 DEF ListErrors
  <2>3. errorCases'.made = TRUE /\ errorCases'.cases = CasesOf(chosen)'
    BY <2>1, <2>2, ReportsKept
  <2>4. ReactionTyped'
    BY <1>4 DEF ListErrors, ReactionInv, ReactionTyped
  <2>5. ReportsMade'
    <3>1. metrics'.made /\ metrics'.made \in BOOLEAN /\ ~Studying' /\ metrics' = MetricsOfLabels'
      <4>1. metrics' = metrics /\ metrics.made
        BY <1>4 DEF ListErrors
      <4>2. metrics.made \in BOOLEAN /\ ~Studying /\ metrics = MetricsOfLabels
        <5>1. metrics.made => ~Studying /\ metrics = MetricsOfLabels
          BY DEF ReactionInv, ReportsMade
        <5>2. metrics.made \in BOOLEAN
          BY DEF ReactionInv, ReportsMade
        <5>. QED BY <4>1, <5>1, <5>2
      <4>3. metrics.made = TRUE
        BY <4>1, <4>2
      <4>4. metrics'.made = TRUE
        BY <4>1, <4>3
      <4>5. ~Studying' /\ metrics' = MetricsOfLabels'
        BY <2>1, <4>1, <4>2, ReportsKept
      <4>. QED BY <4>4, <4>5
    <3>2. chosen \in Listed'
      BY <2>1, ReportsKept
    <3>. QED BY <2>3, <3>1, <3>2 DEF ReportsMade
  <2>. QED BY <2>4, <2>5 DEF ReactionInv
<1>5. CASE PublishStudies
  BY <1>5, ReportsStay DEF PublishStudies
<1>. QED BY <1>1, <1>2, <1>3, <1>4, <1>5 DEF ReactionNext

-----------------------------------------------------------------------------
(* A study uses nothing of its future.                                     *)

LEMMA SessionNumbers ==
    /\ N \in Nat \ {0} /\ SessionsKept \in 1 .. N
    /\ \A i \in 1 .. N : SessionDays[i] \in Int
  BY ReactionAssumption DEF N

LEMMA FirstOfLater ==
    ASSUME NEW later \in SUBSET (1 .. N), later # {}
    PROVE  \E i \in later : \A j \in later : i <= j
<1>1. later \in SUBSET Nat
  BY SessionNumbers
<1>. QED BY <1>1, LeastNumber

LEMMA DecisionIsFirst ==
    ASSUME NEW signal \in ReactionSignals, NEW horizon \in DOMAIN LastOffset,
           ExcludedReason(signal, horizon) = "none"
    PROVE  LET d == DecisionIndex(signal) IN
           /\ d \in 1 .. N /\ d - ControlSessions >= 1
           /\ WindowEnd(signal, horizon) = d + LastOffset[horizon] /\ d + LastOffset[horizon] <= N
           /\ \A i \in 1 .. N : AvailableDay(i) <= signal.day <=> i < d
<1> DEFINE d == DecisionIndex(signal)
           later == {i \in 1 .. N : SessionDays[i] >= signal.day}
           first == CHOOSE i \in later : \A j \in later : i <= j
<1>1. /\ N \in Nat \ {0} /\ SessionsKept \in 1 .. N /\ signal.day \in Int
      /\ \A i \in 1 .. N : SessionDays[i] \in Int
      /\ LastOffset[horizon] \in Nat \ {0} /\ LastOffset[horizon] < SessionsKept
      /\ ControlSessions \in Nat \ {0}
  BY SessionNumbers, ReactionAssumption DEF ReactionSignals
<1>2. d = IF later = {} THEN N \div 2 + 1 ELSE Least(first, N - SessionsKept + 1)
  BY DEF DecisionIndex
<1>3. later # {} => first \in later /\ \A j \in later : first <= j
  <2>1. later \in SUBSET (1 .. N)
    OBVIOUS
  <2> HIDE DEF later
  <2>. QED BY <2>1, FirstOfLater
<1>4. d \in 1 .. N
  <2>1. CASE later = {}
    <3>1. N \div 2 + 1 \in 1 .. N
      BY <1>1
    <3>. QED BY <1>2, <2>1, <3>1
  <2>2. CASE later # {}
    <3>1. first \in 1 .. N
      BY <1>3, <2>2
    <3>2. N - SessionsKept + 1 \in 1 .. N
      BY <1>1
    <3> HIDE DEF first, later
    <3>. QED BY <1>2, <2>2, <3>1, <3>2 DEF Least
  <2>. QED BY <2>1, <2>2
<1>5. /\ WindowEnd(signal, horizon) > d /\ d - ControlSessions >= 1
      /\ \A i \in Window(signal, horizon) : ~(AvailableDay(i) <= signal.day)
  <2>1. WindowEnd(signal, horizon) \in Int /\ d \in Int
    BY <1>1, <1>4 DEF WindowEnd, Least
  <2>. QED BY <1>1, <2>1 DEF ExcludedReason
<1>6. d \in Window(signal, horizon)
  BY <1>1, <1>4, <1>5 DEF Window, WindowEnd, Least
<1>7. d \in later
  <2>1. ~(SessionDays[d] + 1 <= signal.day)
    BY <1>5, <1>6 DEF AvailableDay
  <2>2. SessionDays[d] \in Int
    BY <1>1, <1>4
  <2>. QED BY <1>1, <1>4, <2>1, <2>2
<1>8. first \in later /\ (\A j \in later : first <= j) /\ d = Least(first, N - SessionsKept + 1)
  <2> HIDE DEF d, later, first
  <2>. QED BY <1>2, <1>3, <1>7
<1>9. d = first /\ d <= N - SessionsKept + 1
  <2>1. first \in Int /\ d \in Int
    BY <1>4, <1>8
  <2>2. first <= d
    BY <1>7, <1>8
  <2> HIDE DEF d, first, later
  <2>. QED BY <1>1, <1>8, <2>1, <2>2 DEF Least
<1>10. d + LastOffset[horizon] <= N
  BY <1>1, <1>4, <1>9
<1>11. WindowEnd(signal, horizon) = d + LastOffset[horizon]
  BY <1>1, <1>4, <1>10 DEF WindowEnd, Least
<1>12. ASSUME NEW i \in 1 .. N PROVE AvailableDay(i) <= signal.day <=> i < d
  <2>1. SessionDays[i] \in Int /\ SessionDays[d] \in Int
    BY <1>1, <1>4
  <2>2. CASE i < d
    <3>1. i \notin later
      <4>1. first = d /\ d \in Int /\ i \in Int /\ \A j \in later : d <= j
        BY <1>4, <1>8, <1>9
      <4> HIDE DEF d, first, later
      <4>. QED BY <2>2, <4>1
    <3>. QED BY <1>1, <2>1, <2>2, <3>1 DEF AvailableDay
  <2>3. CASE ~(i < d)
    <3>1. i = d \/ d < i
      BY <1>4, <2>3
    <3>2. SessionDays[d] <= SessionDays[i]
      BY <1>4, <2>1, <3>1, ReactionAssumption
    <3>3. SessionDays[d] >= signal.day
      BY <1>7
    <3>. QED BY <1>1, <2>1, <2>3, <3>2, <3>3 DEF AvailableDay
  <2>. QED BY <2>2, <2>3
<1>. QED BY <1>4, <1>5, <1>10, <1>11, <1>12

LEMMA StudyIsPointInTime ==
    ASSUME NEW study \in StudySet, study.excluded = "none"
    PROVE  \E first \in 1..N :
              /\ \A i \in 1..N : AvailableDay(i) <= study.signal.day <=> i < first
              /\ study.bars = first .. (first + LastOffset[study.horizon])
              /\ study.control = (first - ControlSessions) .. (first - 1)
              /\ study.bars \cup study.control \subseteq 1..N
              /\ study.control \cap PlantedSessions(study.signal) = {}
<1>1. PICK s \in ReactionSignals, h \in DOMAIN LastOffset : study = Study(s, h)
  BY DEF StudySet
<1>2. /\ study.signal = s /\ study.horizon = h /\ ExcludedReason(s, h) = "none"
      /\ study.bars = Window(s, h) /\ study.control = ControlWindow(s)
  BY <1>1 DEF Study
<1> DEFINE d == DecisionIndex(s)
<1>3. /\ d \in 1 .. N /\ d - ControlSessions >= 1
      /\ WindowEnd(s, h) = d + LastOffset[h] /\ d + LastOffset[h] <= N
      /\ \A i \in 1 .. N : AvailableDay(i) <= s.day <=> i < d
  BY <1>2, DecisionIsFirst
<1>4. /\ N \in Nat /\ ControlSessions \in Nat \ {0} /\ LastOffset[h] \in Nat
      /\ EffectLength \in Nat
  BY SessionNumbers, ReactionAssumption
<1>5. study.bars = d .. (d + LastOffset[h]) /\ study.control = (d - ControlSessions) .. (d - 1)
  BY <1>2, <1>3 DEF Window, ControlWindow
<1>6. \A i \in PlantedSessions(s) : i \in Int /\ i >= d
  BY DEF PlantedSessions
<1> HIDE DEF d
<1>7. study.bars \cup study.control \subseteq 1 .. N
  BY <1>3, <1>4, <1>5
<1>8. study.control \cap PlantedSessions(s) = {}
  BY <1>3, <1>4, <1>5, <1>6
<1>. QED BY <1>2, <1>3, <1>5, <1>7, <1>8

LEMMA TypedIsPointInTime == ReactionTyped => StudiesPointInTime
<1> SUFFICES ASSUME ReactionTyped, NEW k \in DOMAIN studies, studies[k].excluded = "none"
             PROVE  \E first \in 1..N :
                /\ \A i \in 1..N : AvailableDay(i) <= studies[k].signal.day <=> i < first
                /\ studies[k].bars = first .. (first + LastOffset[studies[k].horizon])
                /\ studies[k].control = (first - ControlSessions) .. (first - 1)
                /\ studies[k].bars \cup studies[k].control \subseteq 1..N
                /\ studies[k].control \cap PlantedSessions(studies[k].signal) = {}
  BY DEF StudiesPointInTime
<1>1. studies[k] \in StudySet
  BY DEF ReactionTyped
<1>. QED BY <1>1, StudyIsPointInTime

-----------------------------------------------------------------------------
(* The cases listed are those the metrics count.                           *)

Wrong == {i \in Labelled(DOMAIN labels, {"opposite"}) : SignalOf(i).confidence = "high"}
Unavailable == Labelled(DOMAIN labels, {"unavailable"})

LEMMA LabelledTypes ==
    ASSUME ReactionTyped
    PROVE  /\ IsFiniteSet(Candidates) /\ IsFiniteSet(Unavailable)
           /\ Cardinality(Candidates) \in Nat /\ Cardinality(Unavailable) \in Nat
           /\ Unavailable \in SUBSET Nat
           /\ Wrong \subseteq Candidates
           /\ Candidates \cap Unavailable = {}
           /\ \A i \in Candidates : SignalOf(i).confidence \in Confidences
<1>1. DOMAIN labels = 1 .. Len(labels) /\ Len(labels) \in Nat
  BY DEF ReactionTyped
<1>2. IsFiniteSet(1 .. Len(labels))
  BY <1>1, FS_Interval
<1>3. Candidates \subseteq 1 .. Len(labels) /\ Unavailable \subseteq 1 .. Len(labels)
  BY <1>1 DEF Candidates, Unavailable, Labelled
<1>4. IsFiniteSet(Candidates) /\ IsFiniteSet(Unavailable)
  BY <1>2, <1>3, FS_Subset
<1>5. "opposite" \in ReactionOutcomes /\ "unavailable" \notin ReactionOutcomes
  BY DEF ReactionOutcomes
<1>6. Wrong \subseteq Candidates /\ Candidates \cap Unavailable = {}
  BY <1>5 DEF Wrong, Candidates, Unavailable, Labelled
<1>7. ASSUME NEW i \in Candidates PROVE SignalOf(i).confidence \in Confidences
  <2>1. labels[i] \in LabelSet
    BY DEF Candidates, Labelled, ReactionTyped
  <2>2. PICK study \in StudySet, abnormal \in AbnormalReturns : labels[i] = LabelOf(study, abnormal)
    BY <2>1 DEF LabelSet
  <2>3. PICK s \in ReactionSignals, h \in DOMAIN LastOffset : study = Study(s, h)
    BY DEF StudySet
  <2>4. SignalOf(i) = s
    BY <2>2, <2>3 DEF SignalOf, LabelOf, Study
  <2>. QED BY <2>4 DEF ReactionSignals
<1>. QED BY <1>1, <1>3, <1>4, <1>6, <1>7, FS_CardinalityType

\* A confident call that went wrong comes before every other case.
LEMMA WrongIsSooner ==
    ASSUME ReactionTyped, NEW i \in Wrong, NEW j \in Candidates \ Wrong
    PROVE  Sooner(i, j)
<1>1. SignalOf(i).confidence = "high" /\ labels[i].label = "opposite"
  BY DEF Wrong, Labelled
<1>2. CASE labels[j].label # "opposite"
  BY <1>1, <1>2 DEF Sooner
<1>3. CASE labels[j].label = "opposite"
  <2>1. SignalOf(j).confidence \in Confidences \ {"high"}
    BY <1>3, LabelledTypes DEF Wrong, Candidates, Labelled
  <2>2. Rank("high") = 1 /\ Rank(SignalOf(j).confidence) \in 2 .. 4
    BY <2>1 DEF Rank, Confidences
  <2>. QED BY <1>1, <1>3, <2>2 DEF Sooner
<1>. QED BY <1>2, <1>3

LEMMA WrongAreListed ==
    ASSUME ReactionTyped, NEW chosen \in Listed
    PROVE  Cardinality(Wrong \cap chosen) = Least(Cardinality(Wrong), MaxErrorCases)
<1>1. /\ chosen \subseteq Candidates
      /\ Cardinality(chosen) = Least(Cardinality(Candidates), MaxErrorCases)
      /\ \A i \in chosen, j \in Candidates \ chosen : ~Sooner(j, i)
  BY DEF Listed
<1>2. /\ IsFiniteSet(Candidates) /\ Cardinality(Candidates) \in Nat
      /\ Wrong \subseteq Candidates /\ MaxErrorCases \in Nat
  BY LabelledTypes, ReactionAssumption
<1>3. /\ IsFiniteSet(Wrong) /\ Cardinality(Wrong) \in Nat
      /\ Cardinality(Wrong) <= Cardinality(Candidates)
      /\ IsFiniteSet(chosen) /\ Cardinality(chosen) \in Nat
  BY <1>1, <1>2, FS_Subset, FS_CardinalityType
<1>4. chosen \subseteq Wrong \/ Wrong \subseteq chosen
  BY <1>1, <1>2, WrongIsSooner
<1>5. CASE Wrong \subseteq chosen
  <2>1. Wrong \cap chosen = Wrong
    BY <1>5
  <2>2. Cardinality(Wrong) <= Cardinality(chosen)
    BY <1>3, <1>5, FS_Subset
  <2>. QED BY <1>1, <1>2, <1>3, <2>1, <2>2 DEF Least
<1>6. CASE chosen \subseteq Wrong
  <2>1. Wrong \cap chosen = chosen
    BY <1>6
  <2>2. Cardinality(chosen) <= Cardinality(Wrong)
    BY <1>3, <1>6, FS_Subset
  <2>. QED BY <1>1, <1>2, <1>3, <2>1, <2>2 DEF Least
<1>. QED BY <1>4, <1>5, <1>6

LEMMA MissingCount ==
    ASSUME ReactionTyped
    PROVE  /\ Missing \subseteq Unavailable
           /\ IsFiniteSet(Missing)
           /\ Cardinality(Missing) = Least(Cardinality(Unavailable), 1)
<1>1. Missing = {i \in Unavailable : \A j \in Unavailable : i <= j}
  BY DEF Missing, Unavailable
<1>2. IsFiniteSet(Unavailable) /\ Cardinality(Unavailable) \in Nat /\ Unavailable \in SUBSET Nat
  BY LabelledTypes
<1>3. CASE Unavailable = {}
  <2>1. Missing = {} /\ Cardinality(Unavailable) = 0 /\ Cardinality(Missing) = 0
    BY <1>1, <1>3, FS_EmptySet
  <2>. QED BY <1>3, <2>1, FS_EmptySet DEF Least
<1>4. CASE Unavailable # {}
  <2>1. PICK i \in Unavailable : \A j \in Unavailable : i <= j
    BY <1>2, <1>4, LeastNumber
  <2>2. Missing = {i}
    <3>1. i \in Missing
      BY <1>1, <2>1
    <3>2. \A m \in Missing : m \in Nat /\ i \in Nat /\ m <= i /\ i <= m
      BY <1>1, <1>2, <2>1
    <3>. QED BY <3>1, <3>2
  <2>3. Cardinality(Missing) = 1 /\ IsFiniteSet(Missing)
    BY <2>2, FS_Singleton
  <2>4. Cardinality(Unavailable) # 0
    BY <1>2, <1>4, FS_EmptySet
  <2>. QED BY <1>1, <1>2, <2>3, <2>4 DEF Least
<1>. QED BY <1>3, <1>4

LEMMA AllMetrics ==
    ASSUME ReactionTyped, labels # <<>>
    PROVE  LET all == MetricsOfLabels.rows[[type |-> "scenario", value |-> "all"]]
           IN /\ all.high_confidence_wrong_count = Cardinality(Wrong)
              /\ all.evaluated_signal_count = Cardinality(Candidates)
              /\ all.unavailable_count = Cardinality(Unavailable)
<1> DEFINE slice == [type |-> "scenario", value |-> "all"]
<1>1. LabelsOf(slice) = DOMAIN labels
  BY DEF LabelsOf, InSlice
<1>2. DOMAIN labels # {}
  <2>1. 1 \in DOMAIN labels
    BY DEF ReactionTyped
  <2>. QED BY <2>1
<1>3. slice \in Slices
  BY DEF Slices
<1> HIDE DEF slice
<1>4. MetricsOfLabels.rows[slice] = MetricRow(DOMAIN labels)
  BY <1>1, <1>2, <1>3 DEF MetricsOfLabels
<1>5. /\ MetricRow(DOMAIN labels).high_confidence_wrong_count = Cardinality(Wrong)
      /\ MetricRow(DOMAIN labels).evaluated_signal_count = Cardinality(Candidates)
      /\ MetricRow(DOMAIN labels).unavailable_count = Cardinality(Unavailable)
  BY DEF MetricRow, Wrong, Candidates, Unavailable
<1>. QED BY <1>4, <1>5 DEF slice

LEMMA CasesNamed ==
    ASSUME ReactionTyped, NEW chosen \in Listed
    PROVE  LET cases == CasesOf(chosen) IN
           /\ {i \in DOMAIN cases : labels[i].label = "opposite" /\ SignalOf(i).confidence = "high"}
                 = Wrong \cap chosen
           /\ scenario # "regime_shift" =>
                 {i \in DOMAIN cases : cases[i] = "high_confidence_opposite"} = Wrong \cap chosen
<1> DEFINE cases == CasesOf(chosen)
<1>1. DOMAIN cases = chosen \cup Missing /\ chosen \subseteq Candidates
  BY DEF CasesOf, Listed
<1>2. Missing \subseteq Unavailable /\ Candidates \cap Unavailable = {}
  BY MissingCount, LabelledTypes
<1>3. \A i \in Candidates :
         i \in Wrong <=> labels[i].label = "opposite" /\ SignalOf(i).confidence = "high"
  BY DEF Wrong, Candidates, Labelled
<1>4. \A i \in Missing : labels[i].label = "unavailable"
  BY <1>2 DEF Unavailable, Labelled
<1>5. \A i \in Missing : cases[i] = "missing_bar_case"
  BY DEF CasesOf
<1>6. \A i \in chosen : cases[i] = ErrorCategory(i)
  BY <1>1, <1>2 DEF CasesOf
<1>7. ASSUME scenario # "regime_shift", NEW i \in chosen
      PROVE  ErrorCategory(i) = "high_confidence_opposite" <=>
                labels[i].label = "opposite" /\ SignalOf(i).confidence = "high"
  BY <1>7 DEF ErrorCategory
<1> HIDE DEF cases
<1>8. {i \in DOMAIN cases : labels[i].label = "opposite" /\ SignalOf(i).confidence = "high"}
         = Wrong \cap chosen
  BY <1>1, <1>3, <1>4
<1>9. scenario # "regime_shift" =>
         {i \in DOMAIN cases : cases[i] = "high_confidence_opposite"} = Wrong \cap chosen
  BY <1>1, <1>3, <1>5, <1>6, <1>7
<1>. QED BY <1>8, <1>9 DEF cases

LEMMA ReportsAgree == ReactionInv => CasesAgreeWithMetrics
<1> SUFFICES ASSUME ReactionInv, errorCases.made, labels # <<>>
             PROVE  CasesAgreeWithMetrics
  BY DEF CasesAgreeWithMetrics
<1> DEFINE all == metrics.rows[[type |-> "scenario", value |-> "all"]]
<1>1. ReactionTyped /\ metrics = MetricsOfLabels
  BY DEF ReactionInv, ReportsMade
<1>2. PICK chosen \in Listed : errorCases.cases = CasesOf(chosen)
  BY DEF ReactionInv, ReportsMade
<1>3. /\ all.high_confidence_wrong_count = Cardinality(Wrong)
      /\ all.evaluated_signal_count = Cardinality(Candidates)
      /\ all.unavailable_count = Cardinality(Unavailable)
  BY <1>1, AllMetrics
<1>4. Cardinality(DOMAIN errorCases.cases) =
         Least(Cardinality(Candidates), MaxErrorCases) + Least(Cardinality(Unavailable), 1)
  <2>1. DOMAIN errorCases.cases = chosen \cup Missing
    BY <1>2 DEF CasesOf
  <2>2. /\ chosen \subseteq Candidates
        /\ Cardinality(chosen) = Least(Cardinality(Candidates), MaxErrorCases)
    BY DEF Listed
  <2>3. IsFiniteSet(chosen) /\ IsFiniteSet(Missing) /\ chosen \cap Missing = {}
    BY <1>1, <2>2, MissingCount, LabelledTypes, FS_Subset
  <2>4. Cardinality(chosen \cup Missing) = Cardinality(chosen) + Cardinality(Missing)
    <3>1. Cardinality(chosen) \in Nat /\ Cardinality(Missing) \in Nat
      BY <2>3, FS_CardinalityType
    <3>2. Cardinality(chosen \cap Missing) = 0
      BY <2>3, FS_EmptySet
    <3>3. Cardinality(chosen \cup Missing) =
             Cardinality(chosen) + Cardinality(Missing) - Cardinality(chosen \cap Missing)
      BY <2>3, FS_Union
    <3>. QED BY <3>1, <3>2, <3>3
  <2>. QED BY <1>1, <2>1, <2>2, <2>4, MissingCount
<1>5. Cardinality(Wrong \cap chosen) = Least(Cardinality(Wrong), MaxErrorCases)
  BY <1>1, WrongAreListed
<1> DEFINE cases == errorCases.cases
           wrong == {i \in DOMAIN cases :
                        labels[i].label = "opposite" /\ SignalOf(i).confidence = "high"}
<1>6. /\ wrong = Wrong \cap chosen
      /\ scenario # "regime_shift" =>
            wrong = {i \in DOMAIN cases : cases[i] = "high_confidence_opposite"}
  BY <1>1, <1>2, CasesNamed
<1> HIDE DEF all, wrong
<1>7. /\ Cardinality(wrong) = Least(all.high_confidence_wrong_count, MaxErrorCases)
      /\ Cardinality(DOMAIN cases) =
            Least(all.evaluated_signal_count, MaxErrorCases) + Least(all.unavailable_count, 1)
  BY <1>3, <1>4, <1>5, <1>6
<1>. QED BY <1>6, <1>7 DEF CasesAgreeWithMetrics, all, wrong

LEMMA ReactionInvIsSound == ReactionInv => StudiesAreSound
  BY TypedIsPointInTime, ReportsAgree DEF ReactionInv, StudiesAreSound

\* Every study that is not excluded starts at the first session whose bar was
\* not there at the signal's cutoff, and compares it with sessions whose bars
\* all were; and of the confident calls that went wrong the cases list as many
\* as the metrics count, up to their limit.
THEOREM StudiesHold == ReactionSpec => []StudiesAreSound
  BY StudiesStart, StudiesGoOn, ReactionInvIsSound, PTL DEF ReactionSpec

\* The types of the studies: labels and studies side by side, and what was
\* published is made or not.
StudiesTyped ==
    scenario \in Scenarios /\ Len(studies) = Len(labels) /\ published.made \in BOOLEAN

LEMMA StudiesTypedGoOn ==
    ASSUME ReactionInv, StudiesTyped, [ReactionNext]_reactionVars
    PROVE  StudiesTyped'
<1>1. ASSUME NEW abnormal \in AbnormalReturns, MakeStudy(abnormal) PROVE StudiesTyped'
  <2>1. studies \in Seq(StudySet) /\ labels \in Seq(LabelSet)
    BY DEF ReactionInv, ReactionTyped
  <2>2. PICK study, label : studies' = Append(studies, study) /\ labels' = Append(labels, label)
    BY <1>1 DEF MakeStudy
  <2>3. Len(studies') = Len(studies) + 1 /\ Len(labels') = Len(labels) + 1
    BY <2>1, <2>2
  <2>. QED BY <1>1, <2>3 DEF MakeStudy, StudiesTyped
<1>2. CASE PublishStudies
  BY <1>2 DEF PublishStudies, StudiesTyped
<1>3. CASE MakeMetrics \/ ListErrors \/ UNCHANGED reactionVars
  BY <1>3 DEF MakeMetrics, ListErrors, reactionVars, StudiesTyped
<1>. QED BY <1>1, <1>2, <1>3 DEF ReactionNext

LEMMA StudiesTypedStart == ReactionInit => StudiesTyped
  BY DEF ReactionInit, NotMade, StudiesTyped

LEMMA StudyParts ==
    ASSUME NEW study \in StudySet
    PROVE  /\ study.signal \in ReactionSignals /\ study.horizon \in DOMAIN LastOffset
           /\ study.bars \subseteq 1..N /\ study.control \subseteq 1..N
<1>1. PICK s \in ReactionSignals, h \in DOMAIN LastOffset : study = Study(s, h)
  BY DEF StudySet
<1>2. /\ study.signal = s /\ study.horizon = h
      /\ study.bars = IF ExcludedReason(s, h) = "none" THEN Window(s, h) ELSE {}
      /\ study.control = IF ExcludedReason(s, h) = "none" THEN ControlWindow(s) ELSE {}
  BY <1>1 DEF Study
<1>3. CASE ExcludedReason(s, h) = "none"
  <2> DEFINE d == DecisionIndex(s)
  <2>1. /\ d \in 1..N /\ d - ControlSessions >= 1
        /\ WindowEnd(s, h) = d + LastOffset[h] /\ d + LastOffset[h] <= N
    BY <1>3, DecisionIsFirst
  <2>2. study.bars = d .. (d + LastOffset[h]) /\ study.control = (d - ControlSessions) .. (d - 1)
    BY <1>2, <1>3, <2>1 DEF Window, ControlWindow
  <2>3. ControlSessions \in Nat /\ LastOffset[h] \in Nat /\ N \in Nat
    BY ReactionAssumption, SessionNumbers
  <2> HIDE DEF d
  <2>. QED BY <1>1, <1>2, <2>1, <2>2, <2>3
<1>. QED BY <1>1, <1>2, <1>3

LEMMA LabelParts ==
    ASSUME NEW label \in LabelSet
    PROVE  label.label \in ReactionOutcomes \cup {"unavailable"}
<1>1. PICK study \in StudySet, abnormal \in AbnormalReturns : label = LabelOf(study, abnormal)
  BY DEF LabelSet
<1>2. label.label \in {"unavailable", ReactionLabel(study.signal, abnormal)}
  BY <1>1 DEF LabelOf
<1>3. ReactionLabel(study.signal, abnormal) \in ReactionOutcomes
  BY DEF ReactionLabel, ReactionOutcomes
<1>. QED BY <1>2, <1>3

LEMMA StudiesTypedIs ==
    ASSUME ReactionInv, StudiesTyped
    PROVE  ReactionTypeOK
<1>1. DOMAIN studies = DOMAIN labels
  BY DEF ReactionInv, ReactionTyped, StudiesTyped
<1>2. ASSUME NEW i \in DOMAIN studies
      PROVE  /\ studies[i].signal \in ReactionSignals
             /\ studies[i].horizon \in DOMAIN LastOffset
             /\ studies[i].bars \subseteq 1..N /\ studies[i].control \subseteq 1..N
             /\ labels[i].label \in ReactionOutcomes \cup {"unavailable"}
  <2>1. studies[i] \in StudySet /\ labels[i] \in LabelSet
    BY <1>1 DEF ReactionInv, ReactionTyped
  <2>. QED BY <2>1, StudyParts, LabelParts
<1>3. \A report \in {metrics, errorCases, published} : report.made \in BOOLEAN
  BY DEF ReactionInv, ReportsMade, StudiesTyped
<1>. QED BY <1>1, <1>2, <1>3 DEF ReactionInv, ReactionTyped, StudiesTyped, ReactionTypeOK

\* The studies and their labels stay in their ranges: no window and no
\* control window reaches beyond the sessions there are.
THEOREM StudyTypesHold == ReactionSpec => []ReactionTypeOK
<1>1. ReactionInit => ReactionInv /\ StudiesTyped
  BY StudiesStart, StudiesTypedStart
<1>2. ReactionInv /\ StudiesTyped /\ [ReactionNext]_reactionVars => (ReactionInv /\ StudiesTyped)'
  BY StudiesGoOn, StudiesTypedGoOn
<1>3. ReactionInv /\ StudiesTyped => ReactionTypeOK
  BY StudiesTypedIs
<1>. QED BY <1>1, <1>2, <1>3, PTL DEF ReactionSpec

-----------------------------------------------------------------------------
(* The parsers.                                                            *)

\* An item's identifier by its own name, or by its link where the format has
\* that for a name.
OwnName(item) == IF format \in {"rss", "local rss"} THEN NameOrLink(item) ELSE ItemOf[item].name

NoItemTwice(items) ==
    /\ items \in Seq(Items)
    /\ \A i, j \in DOMAIN items : items[i] = items[j] => i = j

NamedByThemselves(records) ==
    \A r \in records : r.item \in Items /\ (Named(r.item) => r.id = OwnName(r.item))

\* The items of a document that a parser looks at.
LookedAt(items) ==
    IF format # "columnar" THEN items
    ELSE SubSeq(items, 1, IF Len(items) < MostColumns THEN Len(items) ELSE MostColumns)

ItemsAt(items, places) == {items[k] : k \in places}
ItemsOf(records) == {r.item : r \in records}
ReadablePlaces(items) == {k \in DOMAIN items : Readable(items[k])}
TakenPlaces(items) == {k \in DOMAIN items : format \in Agencies => ItemOf[items[k]].object}

\* A reading of the kind that leaves out what it cannot read, and of the kind
\* that is refused for it.
LeavesOut(outcome, items) ==
    /\ ItemsOf(outcome.records) = ItemsAt(items, ReadablePlaces(items))
    /\ outcome.rejected = Len(items) - Cardinality(ReadablePlaces(items))
AllOrNothing(outcome, items) ==
    /\ \A k \in DOMAIN items : Readable(items[k])
    /\ ItemsOf(outcome.records)
          = ItemsAt(items, TakenPlaces(items))

ReadingSound ==
    /\ NoItemTwice(reading.items) /\ reading.shape \in Shapes
    /\ reading.outcome.read /\ reading.shape # "foreign" =>
          IF format \in Fetched \cup UserExports
          THEN LeavesOut(reading.outcome, LookedAt(reading.items))
          ELSE AllOrNothing(reading.outcome, reading.items)

ParserInv ==
    /\ format \in Formats
    /\ NoItemTwice(document)
    /\ NamedByThemselves(archive)
    /\ readings \in 0..MaxReadings
    /\ ReadingSound

LEMMA LookedAtIsPart ==
    ASSUME NEW items, NoItemTwice(items)
    PROVE  /\ NoItemTwice(LookedAt(items))
           /\ ItemsAt(LookedAt(items), DOMAIN LookedAt(items))
                 = IF format # "columnar" THEN ToSet(items)
                   ELSE ItemsAt(items, 1..MostColumns \cap DOMAIN items)
<1>1. CASE format # "columnar"
  BY <1>1 DEF LookedAt, ItemsAt, ToSet, NoItemTwice
<1>2. CASE format = "columnar"
  <2> DEFINE most == IF Len(items) < MostColumns THEN Len(items) ELSE MostColumns
  <2>1. most \in Nat /\ most <= Len(items) /\ MostColumns \in Nat /\ items \in Seq(Items)
        /\ LookedAt(items) = SubSeq(items, 1, most) /\ Len(items) \in Nat
    BY <1>2, ParserAssumption DEF LookedAt, NoItemTwice
  <2>2. most = Len(items) \/ (most = MostColumns /\ most <= Len(items))
    BY <2>1
  <2>3. 1..most = 1..MostColumns \cap 1..Len(items)
    BY <2>1
  <2> HIDE DEF most
  <2>4. /\ Len(LookedAt(items)) = most /\ LookedAt(items) \in Seq(Items)
        /\ DOMAIN LookedAt(items) = 1..most /\ DOMAIN items = 1..Len(items)
        /\ \A k \in 1..most : LookedAt(items)[k] = items[k] /\ k \in DOMAIN items
    BY <2>1
  <2>5. NoItemTwice(LookedAt(items))
    BY <2>4 DEF NoItemTwice
  <2>6. ItemsAt(LookedAt(items), 1..most) = ItemsAt(items, 1..most)
    BY <2>4 DEF ItemsAt
  <2> QED BY <1>2, <2>3, <2>4, <2>5, <2>6
<1> QED BY <1>1, <1>2

LEMMA PlacesCount ==
    ASSUME NEW items, NoItemTwice(items), NEW places \in SUBSET (DOMAIN items)
    PROVE  /\ IsFiniteSet(ItemsAt(items, places))
           /\ Cardinality(ItemsAt(items, places)) = Cardinality(places)
<1>1. items \in Seq(Items) /\ DOMAIN items = 1..Len(items) /\ Len(items) \in Nat
  BY DEF NoItemTwice
<1>2. IsFiniteSet(places)
  <2>1. IsFiniteSet(1..Len(items))
    BY <1>1, FS_Interval
  <2> QED BY <2>1, <1>1, FS_Subset
<1> DEFINE at == [k \in places |-> items[k]]
<1>3. at \in Bijection(places, ItemsAt(items, places))
  BY DEF NoItemTwice, ItemsAt, Bijection, Injection, Surjection, IsInjective
<1>4. ExistsBijection(places, ItemsAt(items, places))
  BY <1>3 DEF ExistsBijection
<1> QED BY <1>2, <1>4, FS_Bijection

LEMMA OwnNames ==
    ASSUME NEW i \in Items, NEW j \in Items, Named(i), Named(j), OwnName(i) = OwnName(j)
    PROVE  i = j
  BY ParserAssumption DEF Named, OwnName, NameOrLink, NameOr

\* Every format has a parser.
LEMMA ParserOf ==
    ASSUME NEW shape, NEW items
    PROVE  /\ format = "rss" => Parsed(format, shape, items) = ReadRss(shape, items)
           /\ format = "atom" => Parsed(format, shape, items) = ReadAtom(shape, items)
           /\ format = "json" => Parsed(format, shape, items) = ReadMapped(shape, items)
           /\ format = "columnar" => Parsed(format, shape, items) = ReadColumns(shape, items)
           /\ format = "user json" => Parsed(format, shape, items) = ReadUserJson(shape, items)
           /\ format = "user csv" => Parsed(format, shape, items) = ReadUserCsv(shape, items)
           /\ format = "local rss" => Parsed(format, shape, items) = ReadLocalRss(shape, items)
           /\ format = "local atom" => Parsed(format, shape, items) = ReadLocalAtom(shape, items)
           /\ format = "fixture" => Parsed(format, shape, items) = ReadFixture(shape, items)
           /\ format = "bls" => Parsed(format, shape, items) = ReadBls(shape, items)
           /\ format = "eia" => Parsed(format, shape, items) = ReadEia(shape, items)
           /\ format = "cftc" => Parsed(format, shape, items) = ReadCot(shape, items)
           /\ format = "federal register" => Parsed(format, shape, items) = ReadRegister(shape, items)
  BY DEF Parsed

\* The identifier each format gives.
IdGiven(item, k) ==
    IF format = "rss" THEN RssId(item, k)
    ELSE IF format \in {"atom", "json", "user json", "user csv"} THEN AtomId(item, k)
    ELSE IF format = "local rss" THEN NameOrLink(item)
    ELSE ItemOf[item].name

RecordsGiven(items, places) == {[item |-> items[k], id |-> IdGiven(items[k], k)] : k \in places}

\* A document whose parser leaves out what it cannot read.
LEMMA IsolatedShape ==
    ASSUME format \in Fetched \cup UserExports, NEW items, NEW shape
    PROVE  \/ Parsed(format, shape, items) = Refused
           \/ Parsed(format, shape, items) =
                 LET seen == LookedAt(items)
                 IN [read |-> TRUE, records |-> RecordsGiven(seen, ReadablePlaces(seen)),
                     rejected |-> Len(seen) - Cardinality(ReadablePlaces(seen))]
<1>1. CASE format = "rss"
  <2>1. LookedAt(items) = items
    BY <1>1 DEF LookedAt
  <2>2. ReadablePlaces(items) = {k \in DOMAIN items : ~Undated(items[k])}
    BY <1>1 DEF ReadablePlaces, Readable, Undated
  <2>3. \A item, k : IdGiven(item, k) = RssId(item, k)
    BY <1>1 DEF IdGiven
  <2>4. Isolated(items, Undated, RssId)
           = [read |-> TRUE, records |-> RecordsAt(items, ReadablePlaces(items), RssId),
              rejected |-> Len(items) - Cardinality(ReadablePlaces(items))]
    BY <2>2 DEF Isolated
  <2>5. RecordsGiven(items, ReadablePlaces(items))
           = RecordsAt(items, ReadablePlaces(items), RssId)
    BY <2>3 DEF RecordsGiven, RecordsAt, Record
  <2> QED
    BY <1>1, <2>1, <2>4, <2>5, ParserOf DEF ReadRss, ReadFeed
<1>2. CASE format = "atom"
  <2>1. LookedAt(items) = items
    BY <1>2 DEF LookedAt
  <2>2. ReadablePlaces(items) = {k \in DOMAIN items : ~Never(items[k])}
    BY <1>2 DEF ReadablePlaces, Readable, Never
  <2>3. \A item, k : IdGiven(item, k) = AtomId(item, k)
    BY <1>2 DEF IdGiven
  <2>4. Isolated(items, Never, AtomId)
           = [read |-> TRUE, records |-> RecordsAt(items, ReadablePlaces(items), AtomId),
              rejected |-> Len(items) - Cardinality(ReadablePlaces(items))]
    BY <2>2 DEF Isolated
  <2>5. RecordsGiven(items, ReadablePlaces(items))
           = RecordsAt(items, ReadablePlaces(items), AtomId)
    BY <2>3 DEF RecordsGiven, RecordsAt, Record
  <2> QED
    BY <1>2, <2>1, <2>4, <2>5, ParserOf DEF ReadAtom, ReadFeed
<1>3. CASE format \in {"json", "user json", "user csv"}
  <2>1. LookedAt(items) = items
    BY <1>3 DEF LookedAt
  <2>2. ReadablePlaces(items) = {k \in DOMAIN items : ~Unmapped(items[k])}
    BY <1>3 DEF ReadablePlaces, Readable, Unmapped
  <2>3. \A item, k : IdGiven(item, k) = MappedId(item, k)
    BY <1>3 DEF IdGiven, AtomId, MappedId
  <2>4. Isolated(items, Unmapped, MappedId)
           = [read |-> TRUE, records |-> RecordsAt(items, ReadablePlaces(items), MappedId),
              rejected |-> Len(items) - Cardinality(ReadablePlaces(items))]
    BY <2>2 DEF Isolated
  <2>5. RecordsGiven(items, ReadablePlaces(items))
           = RecordsAt(items, ReadablePlaces(items), MappedId)
    BY <2>3 DEF RecordsGiven, RecordsAt, Record
  <2> QED
    <3>1. Parsed(format, shape, items) \in {Refused, Isolated(items, Unmapped, MappedId)}
      BY <1>3, ParserOf DEF ReadMapped, ReadUserJson, ReadUserCsv
    <3> QED BY <2>1, <2>4, <2>5, <3>1
<1>4. CASE format = "columnar"
  <2>1. LookedAt(items) = SubSeq(items, 1, IF Len(items) < MostColumns THEN Len(items) ELSE MostColumns)
    BY <1>4 DEF LookedAt
  <2>2. ReadablePlaces(LookedAt(items))
           = {k \in DOMAIN LookedAt(items) : ~Unfiled(LookedAt(items)[k])}
    BY <1>4 DEF ReadablePlaces, Readable, Unfiled
  <2>3. \A item, k : IdGiven(item, k) = ColumnarId(item, k)
    BY <1>4 DEF IdGiven, ColumnarId
  <2>4. Isolated(LookedAt(items), Unfiled, ColumnarId)
           = [read |-> TRUE, records |-> RecordsAt(LookedAt(items), ReadablePlaces(LookedAt(items)), ColumnarId),
              rejected |-> Len(LookedAt(items)) - Cardinality(ReadablePlaces(LookedAt(items)))]
    BY <2>2 DEF Isolated
  <2>5. RecordsGiven(LookedAt(items), ReadablePlaces(LookedAt(items)))
           = RecordsAt(LookedAt(items), ReadablePlaces(LookedAt(items)), ColumnarId)
    BY <2>3 DEF RecordsGiven, RecordsAt, Record
  <2> QED
    BY <1>4, <2>1, <2>4, <2>5, ParserOf DEF ReadColumns
<1> QED BY <1>1, <1>2, <1>3, <1>4 DEF Fetched, UserExports

\* A local document that is no feed is RSS without a channel.
LEMMA ForeignFeed ==
    ASSUME NEW items
    PROVE  ReadLocalRss("foreign", items) = [read |-> TRUE, records |-> {}, rejected |-> 0]
<1>1. {k \in DOMAIN <<>> : ~Never(<<>>[k])} = {}
  BY Z3
<1>2. RecordsAt(<<>>, {}, LocalRssId) = {}
  BY DEF RecordsAt
<1>3. Strict(<<>>, Never, Undated, LocalRssId) = [read |-> TRUE, records |-> {}, rejected |-> 0]
  BY <1>1, <1>2 DEF Strict
<1>4. ReadLocalRss("foreign", items) = Strict(<<>>, Never, Undated, LocalRssId)
  BY DEF ReadLocalRss
<1>. QED BY <1>3, <1>4

\* A document that is refused for what cannot be read.
LEMMA StrictShape ==
    ASSUME format \in LocalFiles \cup Agencies, NEW items, NEW shape
    PROVE  \/ Parsed(format, shape, items) = Refused
           \/ /\ format \in {"local rss", "local atom"} /\ shape = "foreign"
              /\ Parsed(format, shape, items) = [read |-> TRUE, records |-> {}, rejected |-> 0]
           \/ /\ \A k \in DOMAIN items : Readable(items[k])
              /\ Parsed(format, shape, items) =
                    [read |-> TRUE, rejected |-> 0,
                     records |-> RecordsGiven(items, TakenPlaces(items))]
<1>1. CASE format = "local rss"
  <2>1. TakenPlaces(items)
           = {k \in DOMAIN items : ~Never(items[k])}
    BY <1>1 DEF TakenPlaces, Never, Agencies
  <2>2. (\A k \in DOMAIN items : Readable(items[k]))
           <=> ~(\E k \in {k \in DOMAIN items : ~Never(items[k])} : Undated(items[k]))
    BY <1>1 DEF Readable, Never, Undated
  <2>3. \A item, k : IdGiven(item, k) = LocalRssId(item, k)
    BY <1>1 DEF IdGiven, LocalRssId
  <2>4. Strict(items, Never, Undated, LocalRssId)
           = IF \A k \in DOMAIN items : Readable(items[k])
             THEN [read |-> TRUE, records |-> RecordsAt(items, TakenPlaces(items), LocalRssId), rejected |-> 0]
             ELSE Refused
    BY <2>1, <2>2 DEF Strict
  <2>5. RecordsGiven(items, TakenPlaces(items)) = RecordsAt(items, TakenPlaces(items), LocalRssId)
    BY <2>3 DEF RecordsGiven, RecordsAt, Record
  <2>7. CASE shape \in {"oversized", "malformed"}
    BY <1>1, <2>7, ParserOf DEF ReadLocalRss
  <2>8. CASE shape = "foreign"
    BY <1>1, <2>8, ParserOf, ForeignFeed
  <2>9. CASE shape \notin {"oversized", "malformed", "foreign"}
    <3>1. ReadLocalRss(shape, items) = Strict(items, Never, Undated, LocalRssId)
      BY <2>9 DEF ReadLocalRss
    <3> QED BY <1>1, <2>4, <2>5, <3>1, ParserOf
  <2> QED BY <2>7, <2>8, <2>9
<1>2. CASE format = "local atom"
  <2>1. TakenPlaces(items)
           = {k \in DOMAIN items : ~Never(items[k])}
    BY <1>2 DEF TakenPlaces, Never, Agencies
  <2>2. (\A k \in DOMAIN items : Readable(items[k]))
           <=> ~(\E k \in {k \in DOMAIN items : ~Never(items[k])} : Never(items[k]))
    BY <1>2 DEF Readable, Never
  <2>3. \A item, k : IdGiven(item, k) = LocalAtomId(item, k)
    BY <1>2 DEF IdGiven, LocalAtomId
  <2>4. Strict(items, Never, Never, LocalAtomId)
           = IF \A k \in DOMAIN items : Readable(items[k])
             THEN [read |-> TRUE, records |-> RecordsAt(items, TakenPlaces(items), LocalAtomId), rejected |-> 0]
             ELSE Refused
    BY <2>1, <2>2 DEF Strict
  <2>5. RecordsGiven(items, TakenPlaces(items)) = RecordsAt(items, TakenPlaces(items), LocalAtomId)
    BY <2>3 DEF RecordsGiven, RecordsAt, Record
  <2>6. CASE shape = "foreign"
    BY <1>2, <2>6, ParserOf, ForeignFeed DEF ReadLocalAtom
  <2>7. CASE shape # "foreign"
    BY <1>2, <2>4, <2>5, <2>7, ParserOf DEF ReadLocalAtom
  <2> QED BY <2>6, <2>7
<1>3. CASE format = "fixture"
  <2>1. TakenPlaces(items)
           = {k \in DOMAIN items : ~Never(items[k])}
    BY <1>3 DEF TakenPlaces, Never, Agencies
  <2>2. (\A k \in DOMAIN items : Readable(items[k]))
           <=> ~(\E k \in {k \in DOMAIN items : ~Never(items[k])} : Incomplete(items[k]))
    BY <1>3 DEF Readable, Never, Incomplete
  <2>3. \A item, k : IdGiven(item, k) = FixtureId(item, k)
    BY <1>3 DEF IdGiven, FixtureId
  <2>4. Strict(items, Never, Incomplete, FixtureId)
           = IF \A k \in DOMAIN items : Readable(items[k])
             THEN [read |-> TRUE, records |-> RecordsAt(items, TakenPlaces(items), FixtureId), rejected |-> 0]
             ELSE Refused
    BY <2>1, <2>2 DEF Strict
  <2>5. RecordsGiven(items, TakenPlaces(items)) = RecordsAt(items, TakenPlaces(items), FixtureId)
    BY <2>3 DEF RecordsGiven, RecordsAt, Record
  <2> QED
    BY <1>3, <2>4, <2>5, ParserOf DEF ReadFixture
<1>4. CASE format \in {"bls", "eia", "cftc"}
  <2>1. TakenPlaces(items)
           = {k \in DOMAIN items : ~NoObject(items[k])}
    BY <1>4 DEF TakenPlaces, NoObject, Agencies
  <2>2. (\A k \in DOMAIN items : Readable(items[k]))
           <=> ~(\E k \in {k \in DOMAIN items : ~NoObject(items[k])} : Unreadable(items[k]))
    BY <1>4 DEF Readable, NoObject, Unreadable
  <2>3. \A item, k : IdGiven(item, k) = AgencyId(item, k)
    BY <1>4 DEF IdGiven, AgencyId
  <2>4. Strict(items, NoObject, Unreadable, AgencyId)
           = IF \A k \in DOMAIN items : Readable(items[k])
             THEN [read |-> TRUE, records |-> RecordsAt(items, TakenPlaces(items), AgencyId), rejected |-> 0]
             ELSE Refused
    BY <2>1, <2>2 DEF Strict
  <2>5. RecordsGiven(items, TakenPlaces(items)) = RecordsAt(items, TakenPlaces(items), AgencyId)
    BY <2>3 DEF RecordsGiven, RecordsAt, Record
  <2> QED
    BY <1>4, <2>4, <2>5, ParserOf DEF ReadBls, ReadEia, ReadCot
<1>5. CASE format = "federal register"
  <2>1. TakenPlaces(items)
           = {k \in DOMAIN items : ~NoObject(items[k])}
    BY <1>5 DEF TakenPlaces, NoObject, Agencies
  <2>2. (\A k \in DOMAIN items : Readable(items[k]))
           <=> ~(\E k \in {k \in DOMAIN items : ~NoObject(items[k])} : Undated(items[k]))
    BY <1>5 DEF Readable, NoObject, Undated
  <2>3. \A item, k : IdGiven(item, k) = AgencyId(item, k)
    BY <1>5 DEF IdGiven, AgencyId
  <2>4. Strict(items, NoObject, Undated, AgencyId)
           = IF \A k \in DOMAIN items : Readable(items[k])
             THEN [read |-> TRUE, records |-> RecordsAt(items, TakenPlaces(items), AgencyId), rejected |-> 0]
             ELSE Refused
    BY <2>1, <2>2 DEF Strict
  <2>5. RecordsGiven(items, TakenPlaces(items)) = RecordsAt(items, TakenPlaces(items), AgencyId)
    BY <2>3 DEF RecordsGiven, RecordsAt, Record
  <2> QED
    BY <1>5, <2>4, <2>5, ParserOf DEF ReadRegister
<1> QED BY <1>1, <1>2, <1>3, <1>4, <1>5 DEF LocalFiles, Agencies

\* Every identifier is the item's own name where it has one.
LEMMA GivenAreNamed ==
    ASSUME format \in Formats, NEW items, NoItemTwice(items), NEW places \in SUBSET (DOMAIN items)
    PROVE  NamedByThemselves(RecordsGiven(items, places))
<1>1. \A k \in places : items[k] \in Items
  BY DEF NoItemTwice
<1>2. \A item, k : Named(item) => IdGiven(item, k) = OwnName(item)
  BY DEF Named, IdGiven, OwnName, RssId, AtomId, NameOr, NameOrLink
<1> QED BY <1>1, <1>2 DEF NamedByThemselves, RecordsGiven

\* What a reading finds.
LEMMA ReadingsAreSound ==
    ASSUME format \in Formats, NEW items, NoItemTwice(items), NEW shape,
           NEW outcome, outcome = Parsed(format, shape, items)
    PROVE  /\ NamedByThemselves(outcome.records)
           /\ outcome.read /\ shape # "foreign" =>
                 IF format \in Fetched \cup UserExports
                 THEN LeavesOut(outcome, LookedAt(items))
                 ELSE AllOrNothing(outcome, items)
<1>1. NoItemTwice(LookedAt(items))
  BY LookedAtIsPart
<1>2. ASSUME NEW seen, NEW places
      PROVE  ItemsOf(RecordsGiven(seen, places)) = ItemsAt(seen, places)
  <2>1. ASSUME NEW k \in places
        PROVE  seen[k] \in ItemsOf(RecordsGiven(seen, places))
    <3> DEFINE r == [item |-> seen[k], id |-> IdGiven(seen[k], k)]
    <3>1. r \in RecordsGiven(seen, places)
      BY DEF RecordsGiven
    <3>2. r.item = seen[k]
      OBVIOUS
    <3> HIDE DEF r
    <3> QED BY <3>1, <3>2 DEF ItemsOf
  <2>2. ASSUME NEW r \in RecordsGiven(seen, places)
        PROVE  \E k \in places : r.item = seen[k]
    BY DEF RecordsGiven
  <2> QED BY <2>1, <2>2 DEF ItemsOf, ItemsAt
<1>3. CASE format \in Fetched \cup UserExports
  <2> DEFINE seen == LookedAt(items)
  <2>1. CASE outcome = Refused
    BY <2>1, <1>3 DEF Refused, NamedByThemselves
  <2>2. CASE outcome = [read |-> TRUE, records |-> RecordsGiven(seen, ReadablePlaces(seen)),
                        rejected |-> Len(seen) - Cardinality(ReadablePlaces(seen))]
    <3>1. ReadablePlaces(seen) \in SUBSET (DOMAIN seen)
      BY DEF ReadablePlaces
    <3>2. NamedByThemselves(RecordsGiven(seen, ReadablePlaces(seen)))
      BY <1>1, <3>1, GivenAreNamed
    <3> HIDE DEF seen
    <3>3. LeavesOut(outcome, seen)
      BY <1>2, <2>2 DEF LeavesOut
    <3> QED BY <1>3, <2>2, <3>2, <3>3 DEF seen
  <2> QED BY <1>3, <2>1, <2>2, IsolatedShape
<1>4. CASE format \in LocalFiles \cup Agencies
  <2>1. format \notin Fetched \cup UserExports
    BY <1>4 DEF LocalFiles, Agencies, Fetched, UserExports
  <2>2. CASE outcome = Refused
    BY <2>1, <2>2 DEF Refused, NamedByThemselves
  <2>3. CASE outcome = [read |-> TRUE, records |-> {}, rejected |-> 0] /\ shape = "foreign"
    BY <2>1, <2>3 DEF NamedByThemselves
  <2>4. CASE /\ \A k \in DOMAIN items : Readable(items[k])
             /\ outcome = [read |-> TRUE, rejected |-> 0,
                           records |-> RecordsGiven(items, TakenPlaces(items))]
    <3>1. TakenPlaces(items) \in SUBSET (DOMAIN items)
      BY DEF TakenPlaces
    <3>2. NamedByThemselves(RecordsGiven(items, TakenPlaces(items)))
      BY <3>1, GivenAreNamed
    <3>3. AllOrNothing(outcome, items)
      BY <1>2, <2>4 DEF AllOrNothing
    <3> QED BY <2>1, <2>4, <3>2, <3>3
  <2> QED BY <1>4, <2>2, <2>3, <2>4, StrictShape
<1> QED BY <1>3, <1>4, ParserAssumption

LEMMA ParserStarts == ParserInit => ParserInv
<1> SUFFICES ASSUME ParserInit PROVE ParserInv
  OBVIOUS
<1>1. NoItemTwice(<<>>)
  BY DEF NoItemTwice
<1> QED
  BY <1>1, ParserAssumption
  DEF ParserInit, ParserInv, NamedByThemselves, ReadingSound, Refused, Shapes

LEMMA ParserGoesOn == ParserInv /\ [ParserNext]_parserVars => ParserInv'
<1> SUFFICES ASSUME ParserInv, [ParserNext]_parserVars PROVE ParserInv'
  OBVIOUS
<1>1. CASE PublishItem
  <2>1. PICK item \in Items \ ToSet(document) : document' = <<item>> \o document
    BY <1>1 DEF PublishItem
  <2>2. document \in Seq(Items) /\ \A i, j \in DOMAIN document : document[i] = document[j] => i = j
    BY DEF ParserInv, NoItemTwice
  <2>3. document' \in Seq(Items) /\ Len(document') = Len(document) + 1 /\ document'[1] = item
        /\ \A i \in 2..Len(document') : document'[i] = document[i - 1] /\ i - 1 \in DOMAIN document
    BY <2>1, <2>2
  <2>4. \A i \in 2..Len(document') : document'[i] # item
    BY <2>1, <2>3 DEF ToSet
  <2>5. \A i, j \in 1..Len(document') : document'[i] = document'[j] => i = j
    BY <2>2, <2>3, <2>4
  <2>6. NoItemTwice(document')
    BY <2>3, <2>5 DEF NoItemTwice
  <2> QED
    BY <1>1, <2>6 DEF PublishItem, ParserInv, NamedByThemselves, ReadingSound, LeavesOut, AllOrNothing,
       Named, OwnName, LookedAt, ReadablePlaces, TakenPlaces, Readable
<1>2. CASE ExpireItem
  <2>1. document \in Seq(Items) /\ document # <<>> /\ document' = SubSeq(document, 1, Len(document) - 1)
    BY <1>2 DEF ExpireItem, Front, ParserInv, NoItemTwice
  <2>2. document' \in Seq(Items) /\ Len(document') = Len(document) - 1
        /\ \A i \in 1..Len(document') : document'[i] = document[i] /\ i \in DOMAIN document
    <3>1. Len(document) \in Nat \ {0} /\ DOMAIN document = 1..Len(document)
      BY <2>1
    <3>2. Len(document) - 1 \in 0..Len(document)
      BY <3>1
    <3> QED BY <2>1, <3>1, <3>2
  <2>3. NoItemTwice(document')
    BY <2>2 DEF NoItemTwice, ParserInv
  <2> QED
    BY <1>2, <2>3 DEF ExpireItem, ParserInv, NamedByThemselves, ReadingSound, LeavesOut, AllOrNothing,
       Named, OwnName, LookedAt, ReadablePlaces, TakenPlaces, Readable
<1>3. CASE ReadDocument
  <2>1. PICK shape \in Shapes :
           LET outcome == Parsed(format, shape, document)
           IN /\ reading' = [items |-> document, shape |-> shape, outcome |-> outcome]
              /\ archive' = archive \cup outcome.records
    BY <1>3 DEF ReadDocument
  <2> DEFINE outcome == Parsed(format, shape, document)
  <2>2. /\ format \in Formats /\ NoItemTwice(document) /\ NamedByThemselves(archive)
        /\ readings \in 0..MaxReadings /\ MaxReadings \in Nat
    BY ParserAssumption DEF ParserInv
  <2>3. /\ NamedByThemselves(outcome.records)
        /\ outcome.read /\ shape # "foreign" =>
              IF format \in Fetched \cup UserExports
              THEN LeavesOut(outcome, LookedAt(document))
              ELSE AllOrNothing(outcome, document)
    BY <2>2, ReadingsAreSound
  <2> HIDE DEF outcome
  <2>4. /\ reading' = [items |-> document, shape |-> shape, outcome |-> outcome]
        /\ archive' = archive \cup outcome.records
        /\ format' = format /\ document' = document /\ readings' \in 0..MaxReadings
    BY <1>3, <2>1, <2>2 DEF ReadDocument, outcome
  <2>5. NamedByThemselves(archive \cup outcome.records)
    BY <2>2, <2>3 DEF NamedByThemselves
  <2>6. (NamedByThemselves(archive))'
    BY <2>4, <2>5 DEF NamedByThemselves, Named, OwnName
  <2>7. ReadingSound'
    BY <2>2, <2>3, <2>4
    DEF ReadingSound, LeavesOut, AllOrNothing, LookedAt, ReadablePlaces, TakenPlaces, Readable
  <2> QED BY <2>2, <2>4, <2>6, <2>7 DEF ParserInv
<1>4. CASE UNCHANGED parserVars
  BY <1>4 DEF parserVars, ParserInv, NamedByThemselves, ReadingSound, LeavesOut, AllOrNothing,
     Named, OwnName, LookedAt, ReadablePlaces, TakenPlaces, Readable
<1> QED BY <1>1, <1>2, <1>3, <1>4 DEF ParserNext

LEMMA SoundReadingArrives == ParserInv => ReadItemsArrive
<1> SUFFICES ASSUME ParserInv, reading.outcome.read, reading.shape # "foreign" PROVE ReadItemsArrive
  BY DEF ReadItemsArrive
<1> DEFINE items == reading.items
           seen == LookedAt(items)
           offered == IF format # "columnar" THEN ToSet(items)
                      ELSE {items[k] : k \in 1..MostColumns \cap DOMAIN items}
           arrived == ItemsOf(reading.outcome.records)
<1>1. NoItemTwice(items)
  BY DEF ParserInv, ReadingSound
<1>2. NoItemTwice(seen) /\ ItemsAt(seen, DOMAIN seen) = offered
  BY <1>1, LookedAtIsPart DEF ItemsAt
<1> HIDE DEF seen, items
<1>3. CASE format \in Fetched \cup UserExports
  <2>1. LeavesOut(reading.outcome, seen)
    BY <1>3 DEF ParserInv, ReadingSound, seen, items
  <2>2. arrived = {i \in offered : Readable(i)}
    <3>1. {i \in ItemsAt(seen, DOMAIN seen) : Readable(i)} = ItemsAt(seen, ReadablePlaces(seen))
      BY DEF ItemsAt, ReadablePlaces
    <3> QED BY <1>2, <2>1, <3>1 DEF LeavesOut
  <2>3. ReadablePlaces(seen) \in SUBSET (DOMAIN seen) /\ DOMAIN seen \in SUBSET (DOMAIN seen)
    BY DEF ReadablePlaces
  <2>4. /\ Cardinality(arrived) = Cardinality(ReadablePlaces(seen))
        /\ Cardinality(offered) = Cardinality(DOMAIN seen)
    BY <1>2, <2>1, <2>3, PlacesCount DEF LeavesOut
  <2>5. DOMAIN seen = 1..Len(seen) /\ Len(seen) \in Nat
    BY <1>2 DEF NoItemTwice
  <2>6. Cardinality(DOMAIN seen) = Len(seen)
    <3>1. Cardinality(1..Len(seen)) = IF 1 > Len(seen) THEN 0 ELSE Len(seen) - 1 + 1
      BY <2>5, FS_Interval
    <3> QED BY <2>5, <3>1
  <2>7. reading.outcome.rejected = Cardinality(offered) - Cardinality(arrived)
    BY <2>1, <2>4, <2>6 DEF LeavesOut
  <2> HIDE DEF arrived, offered
  <2> QED BY <1>3, <2>2, <2>7 DEF ReadItemsArrive, arrived, offered, items, ItemsOf
<1>4. CASE format \notin Fetched \cup UserExports
  <2>1. AllOrNothing(reading.outcome, items)
    BY <1>4 DEF ParserInv, ReadingSound, items
  <2>2. format # "columnar" /\ offered = ItemsAt(items, DOMAIN items)
    BY <1>4, <1>1 DEF Fetched, ItemsAt, NoItemTwice, ToSet
  <2>3. /\ \A i \in offered : Readable(i)
        /\ arrived = {i \in offered : format \in Agencies => ItemOf[i].object}
    <3>1. {i \in ItemsAt(items, DOMAIN items) : format \in Agencies => ItemOf[i].object}
             = ItemsAt(items, TakenPlaces(items))
      BY DEF ItemsAt, TakenPlaces
    <3>2. \A i \in ItemsAt(items, DOMAIN items) : Readable(i)
      BY <2>1 DEF AllOrNothing, ItemsAt
    <3> QED BY <2>1, <2>2, <3>1, <3>2 DEF AllOrNothing
  <2> HIDE DEF arrived, offered
  <2> QED BY <1>4, <2>3 DEF ReadItemsArrive, arrived, offered, items, ItemsOf
<1> QED BY <1>3, <1>4

LEMMA ParserInvIsSound == ParserInv => ParsersAreSound
<1>1. ParserInv => NamesStay
  <2> SUFFICES ASSUME ParserInv, NEW r \in archive, NEW s \in archive, Named(r.item), Named(s.item)
               PROVE  r.id = s.id <=> r.item = s.item
    BY DEF NamesStay
  <2>1. r.item \in Items /\ s.item \in Items /\ r.id = OwnName(r.item) /\ s.id = OwnName(s.item)
    BY DEF ParserInv, NamedByThemselves
  <2> QED BY <2>1, OwnNames
<1> QED BY <1>1, SoundReadingArrives DEF ParsersAreSound

\* Whatever is published, expires, is put in another order or cannot be read
\* between two readings: an item that its source names has one identifier in
\* every reading, and no two items have the same; and of a document that is
\* read every item arrives that can be read, the others being counted.
THEOREM ParsersHold == ParserSpec => []ParsersAreSound
  BY ParserStarts, ParserGoesOn, ParserInvIsSound, PTL DEF ParserSpec

LEMMA ParserInvTyped == ParserInv => ParserTypeOK
  BY DEF ParserInv, ParserTypeOK, NoItemTwice, NamedByThemselves, ReadingSound, ToSet

\* Documents, readings and the archive hold values of their kinds.
THEOREM ParserTypesHold == ParserSpec => []ParserTypeOK
  BY ParserInvTyped, ParserStarts, ParserGoesOn, PTL DEF ParserSpec

-----------------------------------------------------------------------------
(* The rules for texts.                                                    *)

RuleInv == text \in Texts /\ (analysis # <<>> =>
    analysis = <<LinkCompanies(text.aliases), ClassifyEvent(text.keywords), Label(text)>>)

-----------------------------------------------------------------------------
(* The aliases in their order.                                             *)

Before(aliases, a) == {b \in aliases : Earlier(b, a)}

LEMMA AliasesOrdered ==
    /\ \A a, b \in AliasIds : a = b \/ Earlier(a, b) \/ Earlier(b, a)
    /\ \A a, b \in AliasIds : Earlier(a, b) => ~Earlier(b, a)
    /\ \A a, b, c \in AliasIds : Earlier(a, b) /\ Earlier(b, c) => Earlier(a, c)
<1>1. \A a \in AliasIds : a \in Nat /\ Aliases[a].length \in Nat
  BY RuleAssumption
<1> DEFINE long(a) == Aliases[a].length
<1>2. \A a \in AliasIds : a \in Int /\ long(a) \in Int
  BY <1>1
<1>3. \A a, b : Earlier(a, b) <=> long(a) > long(b) \/ (long(a) = long(b) /\ a < b)
  BY DEF Earlier
<1> HIDE DEF long
<1> QED BY <1>2, <1>3

\* An earlier alias has fewer before it.
LEMMA EarlierHasFewer ==
    ASSUME NEW aliases \in SUBSET AliasIds, NEW a \in aliases
    PROVE  /\ Cardinality(Before(aliases, a)) \in 0..(Cardinality(aliases) - 1)
           /\ \A b \in aliases :
                 Earlier(b, a) => Cardinality(Before(aliases, b)) < Cardinality(Before(aliases, a))
<1>1. IsFiniteSet(aliases)
  <2>1. IsFiniteSet(1..Len(Aliases)) /\ AliasIds = 1..Len(Aliases)
    BY RuleAssumption, FS_Interval
  <2> QED BY <2>1, FS_Subset
<1>2. ASSUME NEW S, IsFiniteSet(S), NEW T \in SUBSET S, T # S
      PROVE  /\ IsFiniteSet(T) /\ Cardinality(T) \in Nat /\ Cardinality(S) \in Nat
             /\ Cardinality(T) < Cardinality(S)
  <2>1. IsFiniteSet(T) /\ Cardinality(T) <= Cardinality(S) /\ Cardinality(T) # Cardinality(S)
    BY <1>2, FS_Subset
  <2>2. Cardinality(T) \in Nat /\ Cardinality(S) \in Nat
    BY <1>2, <2>1, FS_CardinalityType
  <2> QED BY <2>1, <2>2
<1>3. ~Earlier(a, a)
  BY AliasesOrdered
<1>4. Before(aliases, a) \in SUBSET aliases /\ Before(aliases, a) # aliases
  BY <1>3 DEF Before
<1>5. /\ IsFiniteSet(Before(aliases, a)) /\ Cardinality(Before(aliases, a)) \in Nat
      /\ Cardinality(aliases) \in Nat /\ Cardinality(Before(aliases, a)) < Cardinality(aliases)
  BY <1>1, <1>2, <1>4
<1>6. ASSUME NEW b \in aliases, Earlier(b, a)
      PROVE  Cardinality(Before(aliases, b)) < Cardinality(Before(aliases, a))
  <2>1. Before(aliases, b) \in SUBSET Before(aliases, a)
    BY <1>6, AliasesOrdered DEF Before
  <2>2. b \in Before(aliases, a) /\ b \notin Before(aliases, b)
    BY <1>6, AliasesOrdered DEF Before
  <2> QED BY <1>2, <1>5, <2>1, <2>2
<1> QED BY <1>5, <1>6

\* Each place of the sorted aliases is taken, by the alias with as many before it.
LEMMA LongestFirstIs ==
    ASSUME NEW aliases \in SUBSET AliasIds
    PROVE  LET sorted == LongestFirst(aliases) IN
           /\ DOMAIN sorted = 1..Len(sorted) /\ Len(sorted) \in Nat
           /\ \A n \in DOMAIN sorted : sorted[n] \in aliases
           /\ \A a \in aliases : \E n \in DOMAIN sorted : sorted[n] = a
           /\ \A m, n \in DOMAIN sorted :
                 m <= n => Aliases[sorted[m]].length >= Aliases[sorted[n]].length
<1> DEFINE count == Cardinality(aliases)
           sorted == LongestFirst(aliases)
           place == [a \in aliases |-> Cardinality(Before(aliases, a)) + 1]
<1>1. IsFiniteSet(aliases)
  <2>1. IsFiniteSet(1..Len(Aliases)) /\ AliasIds = 1..Len(Aliases)
    BY RuleAssumption, FS_Interval
  <2> QED BY <2>1, FS_Subset
<1>2. count \in Nat
  BY <1>1, FS_CardinalityType
<1>3. sorted = [n \in 1..count |-> CHOOSE a \in aliases : Cardinality(Before(aliases, a)) = n - 1]
  BY DEF LongestFirst, SortedBy, Before
<1>4. \A a \in aliases : Cardinality(Before(aliases, a)) \in 0..(count - 1)
  BY EarlierHasFewer
<1> HIDE DEF count, sorted
<1>5. place \in [aliases -> 1..count]
  BY <1>2, <1>4
<1>6. \A a, b \in aliases : place[a] = place[b] => a = b
  <2> SUFFICES ASSUME NEW a \in aliases, NEW b \in aliases, place[a] = place[b], a # b PROVE FALSE
    OBVIOUS
  <2>1. Earlier(a, b) \/ Earlier(b, a)
    BY AliasesOrdered
  <2>2. \/ Cardinality(Before(aliases, a)) < Cardinality(Before(aliases, b))
        \/ Cardinality(Before(aliases, b)) < Cardinality(Before(aliases, a))
    BY <2>1, EarlierHasFewer
  <2> QED BY <1>2, <1>4, <2>2
<1>7. \A n \in 1..count : \E a \in aliases : place[a] = n
  <2>1. IsFiniteSet(1..count) /\ Cardinality(1..count) = count
    BY <1>2, FS_Interval
  <2>2. place \in Injection(aliases, 1..count)
    BY <1>5, <1>6 DEF Injection, IsInjective
  <2>3. place \in Surjection(aliases, 1..count)
    BY <2>1, <2>2, FS_Injection DEF count
  <2> QED BY <2>3 DEF Surjection
<1>8. ASSUME NEW n \in 1..count PROVE sorted[n] \in aliases /\ place[sorted[n]] = n
  <2>1. PICK a \in aliases : place[a] = n
    BY <1>7
  <2>2. Cardinality(Before(aliases, a)) = n - 1
    BY <1>2, <1>4, <2>1
  <2>3. sorted[n] \in aliases /\ Cardinality(Before(aliases, sorted[n])) = n - 1
    BY <1>3, <2>2
  <2> QED BY <2>3
<1>9. ASSUME NEW a \in aliases PROVE \E n \in 1..count : sorted[n] = a
  <2>1. place[a] \in 1..count
    BY <1>5
  <2>2. sorted[place[a]] \in aliases /\ place[sorted[place[a]]] = place[a]
    BY <1>8, <2>1
  <2> QED BY <1>6, <2>1, <2>2
<1>10. ASSUME NEW m \in 1..count, NEW n \in 1..count, m <= n
       PROVE  Aliases[sorted[m]].length >= Aliases[sorted[n]].length
  <2>1. sorted[m] \in aliases /\ sorted[n] \in aliases /\ place[sorted[m]] = m /\ place[sorted[n]] = n
    BY <1>8
  <2>2. ~Earlier(sorted[n], sorted[m])
    <3> SUFFICES ASSUME Earlier(sorted[n], sorted[m]) PROVE FALSE
      OBVIOUS
    <3>1. Cardinality(Before(aliases, sorted[n])) < Cardinality(Before(aliases, sorted[m]))
      BY <2>1, EarlierHasFewer
    <3>2. Cardinality(Before(aliases, sorted[n])) + 1 = n /\ Cardinality(Before(aliases, sorted[m])) + 1 = m
      BY <2>1
    <3>3. Cardinality(Before(aliases, sorted[n])) \in Int /\ Cardinality(Before(aliases, sorted[m])) \in Int
      BY <1>4, <2>1
    <3> QED BY <1>10, <3>1, <3>2, <3>3
  <2>3. \A a \in AliasIds : Aliases[a].length \in Nat
    BY RuleAssumption
  <2> QED BY <2>1, <2>2, <2>3 DEF Earlier
<1>11. DOMAIN sorted = 1..count /\ Len(sorted) = count
  BY <1>2, <1>3
<1> QED BY <1>2, <1>8, <1>9, <1>10, <1>11 DEF sorted

-----------------------------------------------------------------------------
(* The loop over the aliases.                                              *)

IsLinking(links, aliases, upto) ==
    links = [n \in 0..upto |-> IF n = 0 THEN {} ELSE Link(links[n - 1], aliases[n])]

LEMMA LinkingExists ==
    ASSUME NEW aliases, NEW n \in Nat
    PROVE  \E links : IsLinking(links, aliases, n)
<1> DEFINE bad == {m \in Nat : ~\E links : IsLinking(links, aliases, m)}
<1>1. SUFFICES ASSUME bad # {} PROVE FALSE
  OBVIOUS
<1>2. PICK m \in bad : \A k \in bad : m <= k
  BY <1>1, LeastNumber
<1>3. m # 0
  <2> DEFINE none == [k \in 0..0 |-> {}]
  <2>1. none = [k \in 0..0 |-> IF k = 0 THEN {} ELSE Link(none[k - 1], aliases[k])]
    OBVIOUS
  <2>2. IsLinking(none, aliases, 0)
    BY <2>1 DEF IsLinking
  <2> HIDE DEF none
  <2> QED BY <2>2
<1>4. m - 1 \in Nat /\ m \in Nat
  BY <1>3
<1>5. m - 1 \notin bad
  BY <1>2, <1>4
<1>6. PICK links : IsLinking(links, aliases, m - 1)
  BY <1>4, <1>5
<1> DEFINE more == [k \in 0..m |-> IF k = m THEN Link(links[m - 1], aliases[m]) ELSE links[k]]
<1>7. links = [k \in 0..(m - 1) |-> IF k = 0 THEN {} ELSE Link(links[k - 1], aliases[k])]
  BY <1>6 DEF IsLinking
<1>8. ASSUME NEW k \in 0..m
      PROVE  more[k] = IF k = 0 THEN {} ELSE Link(more[k - 1], aliases[k])
  <2>1. CASE k = m
    BY <1>3, <1>4, <2>1
  <2>2. CASE k # m
    <3>1. k \in 0..(m - 1) /\ more[k] = links[k]
      BY <1>4, <2>2
    <3>2. k # 0 => k - 1 \in 0..m /\ k - 1 # m /\ more[k - 1] = links[k - 1]
      BY <1>4, <2>2
    <3> HIDE DEF more
    <3> QED BY <1>7, <3>1, <3>2
  <2> QED BY <2>1, <2>2
<1>9. more = [k \in 0..m |-> IF k = 0 THEN {} ELSE Link(more[k - 1], aliases[k])]
  <2>1. more = [k \in 0..m |-> more[k]]
    OBVIOUS
  <2> HIDE DEF more
  <2> QED BY <1>8, <2>1
<1> HIDE DEF more
<1> QED BY <1>2, <1>9 DEF IsLinking

LEMMA LinkAlongIs ==
    ASSUME NEW aliases, Len(aliases) \in Nat
    PROVE  \E links : /\ IsLinking(links, aliases, Len(aliases))
                      /\ LinkAlong(aliases) = links[Len(aliases)]
<1>1. \E links : IsLinking(links, aliases, Len(aliases))
  BY LinkingExists
<1>2. \E links : links = [n \in 0..Len(aliases) |-> IF n = 0 THEN {} ELSE Link(links[n - 1], aliases[n])]
  BY <1>1 DEF IsLinking
<1> DEFINE chosen == CHOOSE links :
      links = [n \in 0..Len(aliases) |-> IF n = 0 THEN {} ELSE Link(links[n - 1], aliases[n])]
<1>3. chosen = [n \in 0..Len(aliases) |-> IF n = 0 THEN {} ELSE Link(chosen[n - 1], aliases[n])]
  BY <1>2, Zenon
<1>4. LinkAlong(aliases) = chosen[Len(aliases)]
  BY Zenon DEF LinkAlong
<1> HIDE DEF chosen
<1> QED BY <1>3, <1>4 DEF IsLinking

\* After n aliases, each of their companies is linked once, by the first of its
\* aliases.
LinkedFirst(links, aliases, n) ==
    /\ \A l \in links : \E k \in 1..n : aliases[k] = l
    /\ \A m \in 1..n : \E k \in 1..m :
          aliases[k] \in links /\ Aliases[aliases[k]].company = Aliases[aliases[m]].company
    /\ \A l, k \in links : Aliases[l].company = Aliases[k].company => l = k

LEMMA LinkingInv ==
    ASSUME NEW aliases, NEW length \in Nat, NEW links, IsLinking(links, aliases, length)
    PROVE  \A n \in 0..length : LinkedFirst(links[n], aliases, n)
<1> DEFINE bad == {n \in 0..length : ~LinkedFirst(links[n], aliases, n)}
<1>1. SUFFICES ASSUME bad # {} PROVE FALSE
  OBVIOUS
<1>2. bad \in SUBSET Nat
  OBVIOUS
<1>3. PICK n \in bad : \A k \in bad : n <= k
  BY <1>1, <1>2, LeastNumber
<1>4. n \in 0..length /\ ~LinkedFirst(links[n], aliases, n)
  OBVIOUS
<1>5. n # 0
  <2>1. links[0] = {}
    BY DEF IsLinking
  <2>2. LinkedFirst({}, aliases, 0)
    BY DEF LinkedFirst
  <2> QED BY <1>4, <2>1, <2>2
<1>6. n - 1 \in 0..length /\ n - 1 < n /\ n \in Nat
  BY <1>4, <1>5
<1>7. LinkedFirst(links[n - 1], aliases, n - 1)
  BY <1>3, <1>6
<1>8. links[n] = Link(links[n - 1], aliases[n])
  BY <1>4, <1>5 DEF IsLinking
<1>9. \A k \in 1..n : k \in 1..(n - 1) \/ k = n
  BY <1>6
<1>10. n \in 1..n /\ \A k \in 1..(n - 1) : k \in 1..n
  BY <1>5, <1>6
<1> DEFINE before == links[n - 1]
<1> HIDE DEF before, bad
<1>11. LinkedFirst(before, aliases, n - 1) /\ links[n] = Link(before, aliases[n])
  BY <1>7, <1>8 DEF before
<1>12. CASE \E l \in before : Aliases[l].company = Aliases[aliases[n]].company
  <2>1. links[n] = before
    BY <1>11, <1>12 DEF Link
  <2>2. \A l \in before : \E k \in 1..n : aliases[k] = l
    BY <1>10, <1>11 DEF LinkedFirst
  <2>3. ASSUME NEW m \in 1..n
        PROVE  \E k \in 1..m :
                  aliases[k] \in before /\ Aliases[aliases[k]].company = Aliases[aliases[m]].company
    <3>1. CASE m \in 1..(n - 1)
      BY <1>11, <3>1 DEF LinkedFirst
    <3>2. CASE m = n
      BY <1>12, <2>2, <3>2
    <3> QED BY <1>9, <3>1, <3>2
  <2> QED BY <1>4, <1>11, <2>1, <2>2, <2>3 DEF LinkedFirst
<1>13. CASE ~\E l \in before : Aliases[l].company = Aliases[aliases[n]].company
  <2>1. links[n] = before \cup {aliases[n]}
    BY <1>11, <1>13 DEF Link
  <2>2. \A l \in links[n] : \E k \in 1..n : aliases[k] = l
    BY <1>10, <1>11, <2>1 DEF LinkedFirst
  <2>3. ASSUME NEW m \in 1..n
        PROVE  \E k \in 1..m :
                  aliases[k] \in links[n] /\ Aliases[aliases[k]].company = Aliases[aliases[m]].company
    <3>1. CASE m \in 1..(n - 1)
      BY <1>11, <2>1, <3>1 DEF LinkedFirst
    <3>2. CASE m = n
      BY <1>10, <2>1, <3>2
    <3> QED BY <1>9, <3>1, <3>2
  <2>4. \A l, k \in links[n] : Aliases[l].company = Aliases[k].company => l = k
    BY <1>11, <1>13, <2>1 DEF LinkedFirst
  <2> QED BY <1>4, <2>2, <2>3, <2>4 DEF LinkedFirst
<1> QED BY <1>12, <1>13

\* A company is linked when an alias of it is in the text, once, and by an alias
\* that none of its others there exceeds.
LEMMA LinksAreLongest ==
    ASSUME NEW aliases \in SUBSET AliasIds
    PROVE  LET links == LinkCompanies(aliases) IN
           /\ links \subseteq aliases
           /\ \A a \in aliases : \E l \in links : /\ Aliases[l].company = Aliases[a].company
                                                  /\ Aliases[l].length >= Aliases[a].length
           /\ \A l, k \in links : Aliases[l].company = Aliases[k].company => l = k
<1> DEFINE sorted == LongestFirst(aliases)
           links == LinkCompanies(aliases)
<1>1. /\ DOMAIN sorted = 1..Len(sorted) /\ Len(sorted) \in Nat
      /\ \A n \in DOMAIN sorted : sorted[n] \in aliases
      /\ \A a \in aliases : \E n \in DOMAIN sorted : sorted[n] = a
      /\ \A m, n \in DOMAIN sorted :
            m <= n => Aliases[sorted[m]].length >= Aliases[sorted[n]].length
  BY LongestFirstIs
<1>2. links = LinkAlong(sorted)
  BY DEF LinkCompanies
<1> HIDE DEF sorted, links
<1>3. PICK loop : IsLinking(loop, sorted, Len(sorted)) /\ links = loop[Len(sorted)]
  BY <1>1, <1>2, LinkAlongIs
<1>4. Len(sorted) \in 0..Len(sorted)
  BY <1>1
<1>5. LinkedFirst(links, sorted, Len(sorted))
  BY <1>1, <1>3, <1>4, LinkingInv
<1>6. links \subseteq aliases
  BY <1>1, <1>5 DEF LinkedFirst
<1>7. ASSUME NEW a \in aliases
      PROVE  \E l \in links : /\ Aliases[l].company = Aliases[a].company
                              /\ Aliases[l].length >= Aliases[a].length
  <2>1. PICK n \in 1..Len(sorted) : sorted[n] = a
    BY <1>1
  <2>2. PICK k \in 1..n : sorted[k] \in links /\ Aliases[sorted[k]].company = Aliases[a].company
    BY <1>5, <2>1 DEF LinkedFirst
  <2>3. k \in 1..Len(sorted) /\ k <= n
    BY <1>1, <2>1, <2>2
  <2>4. Aliases[sorted[k]].length >= Aliases[a].length
    BY <1>1, <2>1, <2>3
  <2> QED BY <2>2, <2>4
<1> QED BY <1>5, <1>6, <1>7 DEF LinkedFirst, links

-----------------------------------------------------------------------------
(* The loop over the event types.                                          *)

IsRanking(best, keywords, upto) ==
    best = [t \in 0..upto |-> IF t = 0 THEN Other ELSE Better(keywords, best[t - 1], t)]

LEMMA RankingExists ==
    ASSUME NEW keywords, NEW n \in Nat
    PROVE  \E best : IsRanking(best, keywords, n)
<1> DEFINE bad == {m \in Nat : ~\E best : IsRanking(best, keywords, m)}
<1>1. SUFFICES ASSUME bad # {} PROVE FALSE
  OBVIOUS
<1>2. PICK m \in bad : \A k \in bad : m <= k
  BY <1>1, LeastNumber
<1>3. m # 0
  <2> DEFINE none == [t \in 0..0 |-> Other]
  <2>1. none = [t \in 0..0 |-> IF t = 0 THEN Other ELSE Better(keywords, none[t - 1], t)]
    OBVIOUS
  <2>2. IsRanking(none, keywords, 0)
    BY <2>1 DEF IsRanking
  <2> HIDE DEF none
  <2> QED BY <2>2
<1>4. m - 1 \in Nat /\ m \in Nat
  BY <1>3
<1>5. m - 1 \notin bad
  BY <1>2, <1>4
<1>6. PICK best : IsRanking(best, keywords, m - 1)
  BY <1>4, <1>5
<1> DEFINE more == [t \in 0..m |-> IF t = m THEN Better(keywords, best[m - 1], m) ELSE best[t]]
<1>7. best = [t \in 0..(m - 1) |-> IF t = 0 THEN Other ELSE Better(keywords, best[t - 1], t)]
  BY <1>6 DEF IsRanking
<1>8. ASSUME NEW t \in 0..m
      PROVE  more[t] = IF t = 0 THEN Other ELSE Better(keywords, more[t - 1], t)
  <2>1. CASE t = m
    BY <1>3, <1>4, <2>1
  <2>2. CASE t # m
    <3>1. t \in 0..(m - 1) /\ more[t] = best[t]
      BY <1>4, <2>2
    <3>2. t # 0 => t - 1 \in 0..m /\ t - 1 # m /\ more[t - 1] = best[t - 1]
      BY <1>4, <2>2
    <3> HIDE DEF more
    <3> QED BY <1>7, <3>1, <3>2
  <2> QED BY <2>1, <2>2
<1>9. more = [t \in 0..m |-> IF t = 0 THEN Other ELSE Better(keywords, more[t - 1], t)]
  <2>1. more = [t \in 0..m |-> more[t]]
    OBVIOUS
  <2> HIDE DEF more
  <2> QED BY <1>8, <2>1
<1> HIDE DEF more
<1> QED BY <1>2, <1>9 DEF IsRanking

\* After the first n types, the best is the first of those with the most hits.
BestOf(best, keywords, n) ==
    /\ best \in 0..n
    /\ \A t \in 1..n :
          /\ keywords[t] > 0 => best # Other
          /\ best # Other => \/ keywords[t] < keywords[best]
                             \/ keywords[t] = keywords[best] /\ best <= t

LEMMA RankingInv ==
    ASSUME NEW length \in Nat, NEW keywords \in [1..length -> Nat], NEW best,
           IsRanking(best, keywords, length)
    PROVE  \A n \in 0..length : BestOf(best[n], keywords, n)
<1> DEFINE bad == {n \in 0..length : ~BestOf(best[n], keywords, n)}
<1>1. SUFFICES ASSUME bad # {} PROVE FALSE
  OBVIOUS
<1>2. bad \in SUBSET Nat
  OBVIOUS
<1>3. PICK n \in bad : \A k \in bad : n <= k
  BY <1>1, <1>2, LeastNumber
<1>4. n \in 0..length /\ ~BestOf(best[n], keywords, n)
  OBVIOUS
<1>5. n # 0
  <2>1. best[0] = 0
    BY DEF IsRanking, Other
  <2>2. BestOf(0, keywords, 0)
    BY DEF BestOf
  <2> QED BY <1>4, <2>1, <2>2
<1>6. n - 1 \in 0..length /\ n - 1 < n /\ n \in Nat /\ n \in 1..length
  BY <1>4, <1>5
<1>7. BestOf(best[n - 1], keywords, n - 1)
  BY <1>3, <1>6
<1>8. best[n] = Better(keywords, best[n - 1], n)
  BY <1>4, <1>5 DEF IsRanking
<1> DEFINE before == best[n - 1]
<1> HIDE DEF before, bad
<1>9. BestOf(before, keywords, n - 1) /\ best[n] = Better(keywords, before, n)
  BY <1>7, <1>8 DEF before
<1>10. \A t \in 1..n : keywords[t] \in Nat /\ (t \in 1..(n - 1) \/ t = n)
  BY <1>6
<1>11. before \in 0..(n - 1) /\ n \in 1..n
  BY <1>6, <1>9 DEF BestOf
<1>12. \A t \in 1..(n - 1) :
          /\ keywords[t] > 0 => before # 0
          /\ before # 0 => keywords[t] < keywords[before]
                           \/ (keywords[t] = keywords[before] /\ before <= t)
  BY <1>9 DEF BestOf, Other
<1>13. before # 0 => before \in 1..(n - 1) /\ before < n
  BY <1>6, <1>11
<1> DEFINE most == IF before = 0 THEN 0 ELSE keywords[before]
<1>14. most \in Nat /\ \A t \in 1..(n - 1) : keywords[t] <= most
  BY <1>6, <1>10, <1>12, <1>13
<1>15. CASE keywords[n] > most
  <2>1. best[n] = n
    BY <1>9, <1>15 DEF Better, Other
  <2>2. \A t \in 1..(n - 1) : keywords[t] < keywords[n]
    BY <1>10, <1>11, <1>14, <1>15
  <2>3. BestOf(n, keywords, n)
    <3>1. \A t \in 1..n : keywords[t] < keywords[n] \/ (keywords[t] = keywords[n] /\ n <= t)
      BY <1>6, <1>10, <2>2
    <3>2. n \in 0..n
      BY <1>6
    <3> QED BY Zenon, <1>5, <3>1, <3>2 DEF BestOf, Other
  <2> QED BY <1>4, <2>1, <2>3
<1>16. CASE ~(keywords[n] > most)
  <2>1. best[n] = before
    BY <1>9, <1>16 DEF Better, Other
  <2>2. keywords[n] <= most /\ keywords[n] \in Nat
    BY <1>10, <1>11, <1>14, <1>16
  <2>3. ASSUME NEW t \in 1..n
        PROVE  /\ keywords[t] > 0 => before # 0
               /\ before # 0 => keywords[t] < keywords[before]
                                \/ (keywords[t] = keywords[before] /\ before <= t)
    <3>1. CASE t \in 1..(n - 1)
      BY <1>12, <3>1
    <3>2. CASE t = n
      <4>1. CASE before = 0
        BY <2>2, <3>2, <4>1
      <4>2. CASE before # 0
        BY <1>6, <1>10, <1>13, <2>2, <3>2, <4>2
      <4> QED BY <4>1, <4>2
    <3> QED BY <1>10, <3>1, <3>2
  <2>4. before \in 0..n
    BY <1>6, <1>11
  <2>5. BestOf(before, keywords, n)
    BY Zenon, <2>3, <2>4 DEF BestOf, Other
  <2> QED BY <1>4, <2>1, <2>5
<1> QED BY <1>15, <1>16

LEMMA EventIsBest ==
    ASSUME NEW keywords \in [EventTypes -> Nat]
    PROVE  /\ ClassifyEvent(keywords) \in EventTypes \cup {Other}
           /\ BestOf(ClassifyEvent(keywords), keywords, Len(EventKeywords))
<1>1. EventTypes = 1..Len(EventKeywords) /\ Len(EventKeywords) \in Nat
  BY RuleAssumption DEF EventTypes
<1> DEFINE chosen == CHOOSE best :
      best = [t \in 0..Len(EventKeywords) |-> IF t = 0 THEN Other ELSE Better(keywords, best[t - 1], t)]
<1>2. \E best : best = [t \in 0..Len(EventKeywords) |->
                         IF t = 0 THEN Other ELSE Better(keywords, best[t - 1], t)]
  BY <1>1, RankingExists DEF IsRanking
<1>3. chosen = [t \in 0..Len(EventKeywords) |-> IF t = 0 THEN Other ELSE Better(keywords, chosen[t - 1], t)]
  BY <1>2, Zenon
<1>4. ClassifyEvent(keywords) = chosen[Len(EventKeywords)]
  BY Zenon DEF ClassifyEvent
<1> HIDE DEF chosen
<1>5. IsRanking(chosen, keywords, Len(EventKeywords))
  BY <1>3 DEF IsRanking
<1>6. BestOf(ClassifyEvent(keywords), keywords, Len(EventKeywords))
  BY <1>1, <1>4, <1>5, RankingInv
<1> QED BY <1>1, <1>6 DEF BestOf, Other

-----------------------------------------------------------------------------
(* The score.                                                              *)

\* What a text's words make of it.

\* Scores at least so far apart stay in their order when one is softened.
LEMMA ScoresKeepOrder ==
    ASSUME NEW s \in Int, NEW t \in Int, s = t \/ s + 150000 <= t,
           NEW negated \in BOOLEAN, NEW intensified \in BOOLEAN
    PROVE  Bounded(Intensified(Softened(s, negated), intensified))
              <= Bounded(Intensified(Softened(t, negated), intensified))
<1>1. Softened(s, negated) \in Int /\ Softened(t, negated) \in Int
      /\ Softened(s, negated) <= Softened(t, negated)
  BY DEF Softened
<1>2. \A a, b \in Int : a <= b =>
         /\ Intensified(a, intensified) \in Int /\ Intensified(b, intensified) \in Int
         /\ Intensified(a, intensified) <= Intensified(b, intensified)
  BY DEF Intensified
<1>3. \A a, b \in Int : a <= b => Bounded(a) <= Bounded(b)
  BY DEF Bounded
<1> QED BY <1>1, <1>2, <1>3

LEMMA WordsApart ==
    ASSUME NEW p \in Nat, NEW q \in Nat, NEW n \in Nat, NEW m \in Nat
    PROVE  /\ Words(p, n) \in Int
           /\ p < q => Words(p, n) + 150000 <= Words(q, n)
           /\ n < m => Words(p, m) + 150000 <= Words(p, n)
           /\ p <= n => Words(p, n) <= 0 /\ (p = n \/ Words(p, n) <= -349996)
           /\ p >= n => Words(p, n) >= -4
  BY DEF Words

LEMMA LabelFollows ==
    ASSUME NEW t \in Texts
    PROVE  /\ t.negative >= t.positive => Label(t) # "positive"
           /\ t.negative <= t.positive => Label(t) # "negative"
<1>1. /\ t.positive \in Nat /\ t.negative \in Nat
      /\ t.negated \in BOOLEAN /\ t.intensified \in BOOLEAN
  BY RuleAssumption DEF Texts
<1> DEFINE words == Words(t.positive, t.negative)
<1>2. words \in Int
  BY <1>1, WordsApart
<1>3. Score(t) = Bounded(Intensified(Softened(words, t.negated), t.intensified))
  BY DEF Score
<1>4. t.negative >= t.positive => words <= 0
  BY <1>1, WordsApart
<1>5. t.negative <= t.positive => words >= -4
  BY <1>1, WordsApart
<1> HIDE DEF words
<1>6. words <= 0 => Score(t) < 250000
  BY <1>1, <1>2, <1>3 DEF Softened, Intensified, Bounded
<1>7. words >= -4 => Score(t) > -250000
  BY <1>1, <1>2, <1>3 DEF Softened, Intensified, Bounded
<1>8. Score(t) \in Int
  BY <1>1, <1>2, <1>3 DEF Softened, Intensified, Bounded
<1> QED BY <1>1, <1>4, <1>5, <1>6, <1>7, <1>8 DEF Label

\* A word more moves the score its way.
LEMMA ScoreFollows ==
    ASSUME NEW t \in Texts
    PROVE  /\ \A more \in t.positive..MostWords : Score(t) <= Score([t EXCEPT !.positive = more])
           /\ \A more \in t.negative..MostWords : Score(t) >= Score([t EXCEPT !.negative = more])
<1>1. /\ t.positive \in Nat /\ t.negative \in Nat /\ MostWords \in Nat
      /\ t.negated \in BOOLEAN /\ t.intensified \in BOOLEAN
  BY RuleAssumption DEF Texts
<1>2. ASSUME NEW more \in t.positive..MostWords
      PROVE  Score(t) <= Score([t EXCEPT !.positive = more])
  <2> DEFINE u == [t EXCEPT !.positive = more]
  <2>1. u.positive = more /\ u.negative = t.negative /\ u.negated = t.negated /\ u.intensified = t.intensified
    BY DEF Texts
  <2>2. more \in Nat /\ (more = t.positive \/ t.positive < more)
    BY <1>1
  <2>3. /\ Words(t.positive, t.negative) \in Int /\ Words(more, t.negative) \in Int
        /\ \/ Words(t.positive, t.negative) = Words(more, t.negative)
           \/ Words(t.positive, t.negative) + 150000 <= Words(more, t.negative)
    BY <1>1, <2>2, WordsApart
  <2> HIDE DEF u
  <2> QED BY <1>1, <2>1, <2>3, ScoresKeepOrder DEF Score, u
<1>3. ASSUME NEW more \in t.negative..MostWords
      PROVE  Score(t) >= Score([t EXCEPT !.negative = more])
  <2> DEFINE u == [t EXCEPT !.negative = more]
  <2>1. u.positive = t.positive /\ u.negative = more /\ u.negated = t.negated /\ u.intensified = t.intensified
    BY DEF Texts
  <2>2. more \in Nat /\ (more = t.negative \/ t.negative < more)
    BY <1>1
  <2>3. /\ Words(t.positive, t.negative) \in Int /\ Words(t.positive, more) \in Int
        /\ \/ Words(t.positive, more) = Words(t.positive, t.negative)
           \/ Words(t.positive, more) + 150000 <= Words(t.positive, t.negative)
    BY <1>1, <2>2, WordsApart
  <2>4. Score(u) <= Score(t)
    BY <1>1, <2>1, <2>3, ScoresKeepOrder DEF Score
  <2> HIDE DEF u
  <2> QED BY <2>4 DEF u
<1> QED BY <1>2, <1>3

-----------------------------------------------------------------------------

LEMMA TextParts ==
    ASSUME NEW t \in Texts
    PROVE  t.aliases \in SUBSET AliasIds /\ t.keywords \in [EventTypes -> Nat]
<1>1. \A s \in SUBSET AliasIds : UNION {Inside[a] : a \in s} \in SUBSET AliasIds
  BY RuleAssumption
<1>2. t.aliases \in {UNION {Inside[a] : a \in s} : s \in SUBSET AliasIds}
      /\ t.keywords \in [EventTypes -> 0..MostWords]
  BY DEF Texts
<1>3. MostWords \in Nat
  BY RuleAssumption
<1> QED BY <1>1, <1>2, <1>3

LEMMA RulesStart == RuleInit => RuleInv
  BY DEF RuleInit, RuleInv

LEMMA RulesGoOn == RuleInv /\ [AnalyseText]_ruleVars => RuleInv'
  BY DEF RuleInv, AnalyseText, ruleVars

LEMMA RuleInvIsSound == RuleInv => RulesAreSound
<1>1. ASSUME RuleInv PROVE LinksAndEventsAreBest
  <2> SUFFICES ASSUME analysis # <<>> PROVE LinksAndEventsAreBest
    BY DEF LinksAndEventsAreBest
  <2>1. /\ analysis[1] = LinkCompanies(text.aliases) /\ analysis[2] = ClassifyEvent(text.keywords)
    BY <1>1 DEF RuleInv
  <2>2. text.aliases \in SUBSET AliasIds /\ text.keywords \in [EventTypes -> Nat]
    BY <1>1, TextParts DEF RuleInv
  <2>3. BestOf(analysis[2], text.keywords, Len(EventKeywords))
    BY <2>1, <2>2, EventIsBest
  <2>4. EventTypes = 1..Len(EventKeywords)
    BY RuleAssumption DEF EventTypes
  <2>5. /\ \A a \in text.aliases :
              \E l \in analysis[1] : /\ Aliases[l].company = Aliases[a].company
                                     /\ Aliases[l].length >= Aliases[a].length
        /\ \A l, k \in analysis[1] : Aliases[l].company = Aliases[k].company => l = k
    BY <2>1, <2>2, LinksAreLongest
  <2> QED BY <2>3, <2>4, <2>5 DEF LinksAndEventsAreBest, BestOf
<1>2. ASSUME RuleInv PROVE SentimentFollowsWords
  <2>1. text \in Texts
    BY <1>2 DEF RuleInv
  <2>2. analysis # <<>> => analysis[3] = Label(text)
    BY <1>2 DEF RuleInv
  <2> QED BY <2>1, <2>2, ScoreFollows, LabelFollows DEF SentimentFollowsWords
<1> QED BY <1>1, <1>2 DEF RulesAreSound

\* For any aliases, key words and texts: a company is linked when one of its
\* aliases is in the text, once, and by one of its longest; the event has the
\* most key words and is the first that has them; a text with more positive
\* words scores no less and one with more negative words no more, and its
\* label is that of its score.
THEOREM RulesHold == RuleSpec => []RulesAreSound
  BY RulesStart, RulesGoOn, RuleInvIsSound, PTL DEF RuleSpec

LEMMA RuleInvTyped ==
    ASSUME RuleInv
    PROVE  RuleTypeOK
<1> SUFFICES ASSUME analysis # <<>>
           PROVE  /\ analysis[1] \subseteq text.aliases
                  /\ analysis[2] \in EventTypes \cup {Other}
                  /\ analysis[3] \in {"positive", "negative", "neutral", "uncertain"}
  BY DEF RuleTypeOK, RuleInv
<1>1. /\ analysis[1] = LinkCompanies(text.aliases) /\ analysis[2] = ClassifyEvent(text.keywords)
      /\ analysis[3] = Label(text)
  BY DEF RuleInv
<1>2. text.aliases \in SUBSET AliasIds /\ text.keywords \in [EventTypes -> Nat]
  BY TextParts DEF RuleInv
<1>3. analysis[1] \subseteq text.aliases
  BY <1>1, <1>2, LinksAreLongest
<1>4. analysis[2] \in EventTypes \cup {Other}
  BY <1>1, <1>2, EventIsBest
<1>5. analysis[3] \in {"positive", "negative", "neutral", "uncertain"}
  BY <1>1 DEF Label
<1>. QED BY <1>3, <1>4, <1>5

\* An analysis is of the aliases and the event types there are.
THEOREM RuleTypesHold == RuleSpec => []RuleTypeOK
  BY RuleInvTyped, RulesStart, RulesGoOn, PTL DEF RuleSpec

-----------------------------------------------------------------------------
(* The services side by side.  A step of one is a step of it alone, and of *)
(* the others none; a service that rests is in an initial state of it.     *)

LEMMA SomeOf == \A S : S # {} => AnyOf(S) \in S
  BY DEF AnyOf

LEMMA OfflineStarts ==
    ASSUME OfflineInit
    PROVE  /\ ExportInit /\ Mt5Init /\ ReactionInit /\ SignalInit
           /\ DatabaseInit /\ ApiInit /\ ParserInit /\ RuleInit
<1>1. ExportInit
  <2>1. CASE service = "research"
    BY <2>1 DEF OfflineInit
  <2>2. CASE ResearchRests
    <3>1. /\ AnyOf(Settings) \in Settings /\ AnyOf(Targets) \in Targets
          /\ AnyOf(ResearchOutputs) \in ResearchOutputs
      BY SomeOf, OfflineAssumption
    <3>2. outputMade \in {[o \in ResearchOutputs |-> m] : m \in BOOLEAN}
      BY <2>2 DEF ResearchRests
    <3>. QED BY <2>2, <3>1, <3>2 DEF ResearchRests, ExportInit
  <2>. QED BY <2>1, <2>2 DEF OfflineInit
<1>. QED BY <1>1 DEF OfflineInit

LEMMA OfflineSteps ==
    ASSUME [OfflineNext]_offlineVars
    PROVE  /\ [ExportNext]_exportVars /\ [Mt5Next]_mt5Vars /\ [ReactionNext]_reactionVars
           /\ [SignalNext]_signalVars /\ [ReadNext]_readVars
           /\ [ParserNext]_parserVars /\ [AnalyseText]_ruleVars
<1>1. CASE UNCHANGED offlineVars
  BY <1>1 DEF offlineVars
<1>2. CASE ResearchRuns(ExportNext)
  BY <1>2 DEF ResearchRuns
<1>3. CASE BridgeRuns(Mt5Next)
  BY <1>3 DEF BridgeRuns
<1>4. CASE StudiesRun(ReactionNext)
  BY <1>4 DEF StudiesRun
<1>5. CASE SignalsRun(SignalNext)
  BY <1>5 DEF SignalsRun
<1>6. CASE ApiRuns(ReadNext)
  BY <1>6 DEF ApiRuns
<1>7. CASE ParsersRun(ParserNext)
  BY <1>7 DEF ParsersRun
<1>8. CASE RulesRun(AnalyseText)
  BY <1>8 DEF RulesRun
<1>. QED BY <1>1, <1>2, <1>3, <1>4, <1>5, <1>6, <1>7, <1>8 DEF OfflineNext

OfflineInv ==
    /\ ExportInv /\ BridgeInv /\ ReactionInv /\ SignalInv /\ ApiInv /\ ParserInv /\ RuleInv

LEMMA ServicesStart == OfflineInit => OfflineInv
  BY OfflineStarts, ExportStarts, BridgeInit, StudiesStart, SignalsStart, ApiStarts,
     ParserStarts, RulesStart DEF OfflineInv

LEMMA ServicesGoOn == OfflineInv /\ [OfflineNext]_offlineVars => OfflineInv'
  BY OfflineSteps, ExportGoesOn, BridgeNext, StudiesGoOn, SignalsGoOn, ApiSteps,
     ParserGoesOn, RulesGoOn DEF OfflineInv

\* What each service promises it keeps in every behaviour of all of them.
THEOREM ServicesHold ==
    OfflineSpec => [](/\ ResearchPackagesSound /\ BridgeExportsSound /\ StudiesAreSound
                      /\ ExportedStaysWhole /\ DatabaseRowsSound /\ PagesMissNothing
                      /\ TickersAreKnown /\ ParsersAreSound /\ RulesAreSound)
<1>1. OfflineInv => /\ ResearchPackagesSound /\ BridgeExportsSound /\ StudiesAreSound
                    /\ ExportedStaysWhole /\ DatabaseRowsSound /\ PagesMissNothing
                    /\ TickersAreKnown /\ ParsersAreSound /\ RulesAreSound
  BY ExportInvIsSound, BridgeInvIsSound, ReactionInvIsSound, SignalInvIsSound, ApiInvIsSound,
     ParserInvIsSound, RuleInvIsSound DEF OfflineInv
<1>. QED BY <1>1, ServicesStart, ServicesGoOn, PTL DEF OfflineSpec

\* The invariants of the services, with those that their types need besides.
OfflineTyped ==
    OfflineInv /\ service \in Services /\ BridgeTyped /\ StudiesTyped /\ DatabaseTyped /\ ApiTyped

LEMMA ServiceStays ==
    ASSUME [OfflineNext]_offlineVars
    PROVE  service' = service
  BY DEF OfflineNext, offlineVars, ResearchRuns, BridgeRuns, StudiesRun, SignalsRun, ApiRuns,
     ParsersRun, RulesRun

\* The variables of all services stay in their ranges.
THEOREM OfflineTypesHold == OfflineSpec => []OfflineTypeOK
<1>1. OfflineInit => OfflineTyped
  <2> SUFFICES ASSUME OfflineInit PROVE OfflineTyped
    OBVIOUS
  <2>1. OfflineInv
    BY ServicesStart
  <2>2. service \in Services
    BY DEF OfflineInit
  <2>. QED BY <2>1, <2>2, OfflineStarts, BridgeTypedStarts, StudiesTypedStart, DatabaseStartsTyped,
              ApiTypesStart DEF OfflineTyped
<1>2. OfflineTyped /\ [OfflineNext]_offlineVars => OfflineTyped'
  <2> SUFFICES ASSUME OfflineTyped, [OfflineNext]_offlineVars PROVE OfflineTyped'
    OBVIOUS
  <2>1. OfflineInv'
    BY ServicesGoOn DEF OfflineTyped
  <2>2. /\ [Mt5Next]_mt5Vars /\ [ReactionNext]_reactionVars /\ [ReadNext]_readVars
        /\ [DatabaseNext]_databaseVars
    BY OfflineSteps, ReadingIsNoCommand
  <2>3. BridgeTyped' /\ StudiesTyped'
    BY <2>2, BridgeTypedGoesOn, StudiesTypedGoOn DEF OfflineTyped, OfflineInv
  <2>4. DatabaseTyped' /\ ApiTyped'
    BY <2>2, DatabaseStepsTyped, ApiTypesGoOn DEF OfflineTyped, OfflineInv, ApiInv
  <2>. QED BY <2>1, <2>3, <2>4, ServiceStays DEF OfflineTyped
<1>3. OfflineTyped => OfflineTypeOK
  <2> SUFFICES ASSUME OfflineTyped PROVE OfflineTypeOK
    OBVIOUS
  <2>1. ExportTypeOK /\ SignalTypeOK
    BY DEF OfflineTyped, OfflineInv, ExportInv, SignalInv
  <2>2. Mt5TypeOK /\ ReactionTypeOK
    BY BridgeTypedIs, StudiesTypedIs DEF OfflineTyped, OfflineInv
  <2>3. DatabaseTypeOK /\ ApiTypeOK
    BY TypedDatabase DEF OfflineTyped, OfflineInv, ApiInv, ApiTyped
  <2>4. ParserTypeOK /\ RuleTypeOK
    BY ParserInvTyped, RuleInvTyped DEF OfflineTyped, OfflineInv
  <2>. QED BY <2>1, <2>2, <2>3, <2>4 DEF OfflineTyped, OfflineTypeOK
<1>. QED BY <1>1, <1>2, <1>3, PTL DEF OfflineSpec

\* Whatever the other services do, the output directories implement the store
\* in which a package appears whole and stays.
THEOREM PackagesStayBesideOthers == OfflineSpec => PackagesStay
<1>1. OfflineInit => ExportTypeOK /\ Store!StoreInit
  BY OfflineStarts, InitTypes, StoreStarts
<1>2. ExportTypeOK /\ [OfflineNext]_offlineVars => ExportTypeOK' /\ [Store!StoreNext]_output
  BY OfflineSteps, NextTypes, StoreGoesOn
<1>. QED BY <1>1, <1>2, PTL DEF OfflineSpec, PackagesStay, Store!StoreSpec
=============================================================================
