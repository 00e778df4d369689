-------------------------- MODULE ResearchExportProofs --------------------------
(***************************************************************************)
(* What is proved of research exports, for any companies, articles,        *)
(* calendars, windows and directories, and any number of processes: every  *)
(* package holds what was known at its cutoffs, what is published stays,   *)
(* metadata is committed of what is published, and what a validation       *)
(* accepts is one package.                                                 *)
(***************************************************************************)
EXTENDS ResearchExport, WellFoundedInduction, TLAPS

-----------------------------------------------------------------------------
(* A package is point-in-time.                                             *)

\* Of some numbers one is the least.
LEMMA LeastNumber ==
    \A T \in SUBSET Nat : T # {} => \E n \in T : \A m \in T : n <= m
<1> DEFINE Less == {p \in Nat \X Nat : p[1] < p[2]}
<1>1. IsWellFoundedOn(Less, Nat)
  BY NatLessThanWellFounded DEF OpToRel
<1>2. SUFFICES ASSUME NEW T \in SUBSET Nat, T # {}
               PROVE  \E n \in T : \A m \in T : n <= m
  OBVIOUS
<1>3. PICK n \in T : \A m \in T : ~ (<<m, n>> \in Less)
  <2> HIDE DEF Less
  <2>. QED BY <1>1, <1>2, WFMin
<1>4. \A m \in T : ~ (m < n)
  BY <1>3
<1>5. \A m \in T : n <= m
  BY <1>4
<1>. QED BY <1>5

LEMMA CutoffIsTime ==
    \A s \in Sessions : \A policy : DecisionCutoff(s, policy) \in Int
BY FeaturesAssumption DEF Sessions, DecisionCutoff

\* An article that is in time for a session of a valid calendar is assigned to
\* one, which comes no later.
LEMMA EarliestSession ==
    ASSUME NEW calendar \in SUBSET Sessions, ValidCalendar(calendar),
           NEW policy, NEW a, InformationAvailable(a) \in Int,
           NEW s \in calendar, InformationAvailable(a) <= DecisionCutoff(s, policy)
    PROVE  \E t \in AssignSession(calendar, policy, a) : t.sequence <= s.sequence
<1> DEFINE InTime == {t \in calendar : InformationAvailable(a) <= DecisionCutoff(t, policy)}
           Numbers == {t.sequence : t \in InTime}
<1>1. \A t \in calendar : t.sequence \in Nat
  BY DEF ValidCalendar, Sessions
<1>2. Numbers \in SUBSET Nat /\ s.sequence \in Numbers
  BY <1>1
<1>3. PICK n \in Numbers : \A m \in Numbers : n <= m
  <2> HIDE DEF Numbers
  <2>. QED BY <1>2, LeastNumber
<1>4. PICK t \in InTime : t.sequence = n
  BY <1>3
<1>5. \A u \in calendar : u.sequence < t.sequence =>
          InformationAvailable(a) > DecisionCutoff(u, policy)
  <2> SUFFICES ASSUME NEW u \in calendar, u.sequence < t.sequence
               PROVE  InformationAvailable(a) > DecisionCutoff(u, policy)
    OBVIOUS
  <2>1. u \notin InTime
    <3>1. u \in InTime => n <= u.sequence
      BY <1>3
    <3>. QED BY <3>1, <1>1, <1>4
  <2>2. DecisionCutoff(u, policy) \in Int
    BY CutoffIsTime
  <2>. QED BY <2>1, <2>2
<1>6. t \in AssignSession(calendar, policy, a)
  BY <1>5 DEF AssignSession
<1>7. t.sequence <= s.sequence
  BY <1>2, <1>3, <1>4
<1>. QED BY <1>6, <1>7

\* What the audit lets through holds in every row what was known at its cutoff
\* and not before its window, whatever the order of the cutoffs.
LEMMA AuditedIsPointInTime ==
    ASSUME NEW calendar \in SUBSET Sessions, NEW policy, NEW windows \in Seq(Int),
           NEW c, \A a \in c : InformationAvailable(a) \in Int,
           Buildable(calendar, policy, windows, c)
    PROVE  PointInTime(BuildPackage(calendar, policy, windows, c))
<1> DEFINE rows == FeatureRows(calendar, policy, windows, c)
           package == BuildPackage(calendar, policy, windows, c)
<1>1. /\ package.calendar = calendar /\ package.policy = policy
      /\ package.windows = windows /\ package.corpus = c /\ package.rows = rows
  BY DEF BuildPackage
<1>2. \A s \in calendar, company \in Companies, i \in DOMAIN windows :
         RowArticles(calendar, policy, c, s, company, windows[i]) =
             KnownInWindow(calendar, policy, c, s, company, windows[i])
  <2> SUFFICES ASSUME NEW s \in calendar, NEW company \in Companies, NEW i \in DOMAIN windows,
                      NEW a
               PROVE  a \in RowArticles(calendar, policy, c, s, company, windows[i])
                      <=> a \in KnownInWindow(calendar, policy, c, s, company, windows[i])
    OBVIOUS
  <2>1. windows[i] \in Int /\ \A t \in calendar : t.sequence \in Int
    BY DEF Sessions
  <2>2. ASSUME a \in RowArticles(calendar, policy, c, s, company, windows[i])
        PROVE  a \in KnownInWindow(calendar, policy, c, s, company, windows[i])
    <3>1. InformationAvailable(a) <= DecisionCutoff(s, policy)
      <4>1. rows[<<s, company, i>>].articles =
               RowArticles(calendar, policy, c, s, company, windows[i])
        BY DEF FeatureRows, RowKeys, Features
      <4>2. a \in rows[<<s, company, i>>].articles
        BY <2>2, <4>1
      <4>3. <<s, company, i>> \in RowKeys(calendar, windows)
        BY DEF RowKeys
      <4>. QED BY <4>2, <4>3 DEF Buildable, LeakageAuditPasses
    <3>2. PICK t \in AssignSession(calendar, policy, a) :
             s.sequence - windows[i] < t.sequence /\ t.sequence <= s.sequence
      BY <2>2 DEF RowArticles
    <3>3. \A u \in calendar : u.sequence <= s.sequence - windows[i] =>
             InformationAvailable(a) > DecisionCutoff(u, policy)
      BY <2>1, <3>2 DEF AssignSession
    <3>. QED BY <2>2, <3>1, <3>3 DEF RowArticles, KnownInWindow
  <2>3. ASSUME a \in KnownInWindow(calendar, policy, c, s, company, windows[i])
        PROVE  a \in RowArticles(calendar, policy, c, s, company, windows[i])
    <3>1. /\ a \in c /\ company \in a.companies
          /\ InformationAvailable(a) <= DecisionCutoff(s, policy)
          /\ \A t \in calendar : t.sequence <= s.sequence - windows[i] =>
                InformationAvailable(a) > DecisionCutoff(t, policy)
      BY <2>3 DEF KnownInWindow
    <3>2. PICK t \in AssignSession(calendar, policy, a) : t.sequence <= s.sequence
      BY <3>1, EarliestSession DEF Buildable
    <3>3. t \in calendar /\ InformationAvailable(a) <= DecisionCutoff(t, policy)
      BY <3>2 DEF AssignSession
    <3>4. s.sequence - windows[i] < t.sequence
      <4>1. DecisionCutoff(t, policy) \in Int /\ InformationAvailable(a) \in Int
        BY <3>1, <3>3, CutoffIsTime
      <4>2. ~ (t.sequence <= s.sequence - windows[i])
        BY <3>1, <3>3, <4>1
      <4>. QED BY <2>1, <3>3, <4>2
    <3>. QED BY <3>1, <3>2, <3>4 DEF RowArticles
  <2>. QED BY <2>2, <2>3
<1>3. \A k \in RowKeys(calendar, windows) :
         rows[k].articles = KnownInWindow(calendar, policy, c, k[1], k[2], windows[k[3]])
  <2> SUFFICES ASSUME NEW s \in calendar, NEW company \in Companies, NEW i \in DOMAIN windows
               PROVE  rows[<<s, company, i>>].articles =
                         KnownInWindow(calendar, policy, c, s, company, windows[i])
    BY DEF RowKeys
  <2>. QED BY <1>2 DEF FeatureRows, RowKeys, Features
<1>4. PointInTime(package)
  <2> HIDE DEF rows, package
  <2>. QED BY <1>1, <1>3 DEF PointInTime
<1>. QED BY <1>4

-----------------------------------------------------------------------------
(* The processes, their files and the database.                            *)

LEMMA InitTypes == ExportInit => ExportTypeOK
<1> SUFFICES ASSUME ExportInit PROVE ExportTypeOK
  OBVIOUS
<1> USE DEF ExportInit, ExportersBegin, CheckersBegin
<1>1. target \in [Exporters -> ResearchOutputs] /\ crashes \in 0..MaxCrashes
  BY ExportAssumption
<1>. QED BY <1>1 DEF ExportTypeOK, Kept, ExportStages, CheckStages

LEMMA NextTypes == ExportTypeOK /\ [ExportNext]_exportVars => ExportTypeOK'
<1> SUFFICES ASSUME ExportTypeOK, [ExportNext]_exportVars PROVE ExportTypeOK'
  OBVIOUS
<1> USE DEF ExportTypeOK, exporterVars, fileVars, checkerVars
<1>1. ASSUME NEW a \in Articles, ProcessArticle(a) PROVE ExportTypeOK'
  BY <1>1 DEF ProcessArticle
<1>2. ASSUME NEW e \in Exporters, Export(e) PROVE ExportTypeOK'
  <2> USE DEF Goto, Holds, Release, Fail, ExportStages
  <2>1. CASE Build(e)
    BY <2>1 DEF Build, Kept
  <2>2. CASE BuildFails(e)
    BY <2>2 DEF BuildFails
  <2>3. CASE Lookup(e)
    BY <2>3 DEF Lookup
  <2>4. CASE Flush(e)
    BY <2>4 DEF Flush
  <2>5. CASE FlushFails(e)
    BY <2>5 DEF FlushFails
  <2>6. CASE CheckOutput(e)
    BY <2>6 DEF CheckOutput
  <2>7. CASE OutputOccupied(e)
    BY <2>7 DEF OutputOccupied
  <2>8. CASE WriteFile(e)
    BY <2>8 DEF WriteFile, PackageFiles
  <2>9. CASE WriteFails(e)
    BY <2>9 DEF WriteFails
  <2>10. CASE LookAtOutput(e)
    BY <2>10 DEF LookAtOutput
  <2>11. CASE ClearOutput(e)
    <3> DEFINE Empty == outputMade[target[e]] /\ output[target[e]] = Nothing
    <3>1. CASE Empty
      <4>1. outputMade' \in [ResearchOutputs -> BOOLEAN]
        BY <2>11, <3>1 DEF ClearOutput
      <4>2. exportStage' \in [Exporters -> ExportStages]
        BY <2>11, <3>1 DEF ClearOutput
      <4>. QED BY <2>11, <3>1, <4>1, <4>2 DEF ClearOutput
    <3>2. CASE ~Empty
      BY <2>11, <3>2 DEF ClearOutput
    <3>. QED BY <3>1, <3>2
  <2>12. CASE Rename(e)
    <3>1. CASE output[target[e]] = Nothing
      <4>1. output' \in [ResearchOutputs -> Kept] /\ outputMade' \in [ResearchOutputs -> BOOLEAN]
        BY <2>12, <3>1 DEF Rename
      <4>2. exportStage' \in [Exporters -> ExportStages]
        BY <2>12, <3>1 DEF Rename
      <4>. QED BY <2>12, <3>1, <4>1, <4>2 DEF Rename
    <3>2. CASE output[target[e]] # Nothing
      BY <2>12, <3>2 DEF Rename
    <3>. QED BY <3>1, <3>2
  <2>13. CASE Commit(e)
    BY <2>13 DEF Commit
  <2>. QED BY <1>2, <2>1, <2>2, <2>3, <2>4, <2>5, <2>6, <2>7, <2>8, <2>9, <2>10,
              <2>11, <2>12, <2>13 DEF Export
<1>3. ASSUME NEW e \in Exporters, Kill(e) PROVE ExportTypeOK'
  BY <1>3, ExportAssumption DEF Kill, Goto, Release, ExportStages
<1>4. ASSUME NEW c \in Checkers, Check(c) PROVE ExportTypeOK'
  <2> USE DEF Step, CheckStages
  <2>1. CASE ReadManifest(c)
    BY <2>1 DEF ReadManifest
  <2>2. CASE VerifyFiles(c)
    BY <2>2 DEF VerifyFiles
  <2>3. CASE ParseFiles(c)
    BY <2>3 DEF ParseFiles
  <2>. QED BY <1>4, <2>1, <2>2, <2>3 DEF Check
<1>5. CASE UNCHANGED exportVars
  BY <1>5 DEF exportVars
<1>. QED BY <1>1, <1>2, <1>3, <1>4, <1>5 DEF ExportNext

\* Every variable of the export holds values of its kind.
THEOREM TypesHold == ExportSpec => []ExportTypeOK
BY InitTypes, NextTypes, PTL DEF ExportSpec

-----------------------------------------------------------------------------
(* What is published stays.                                                *)

\* A directory gets its package in one step, from none, when its exporter
\* goes on to its commit; no other step touches a package.
LEMMA OutputStep ==
    ASSUME ExportTypeOK, [ExportNext]_exportVars
    PROVE  \/ output' = output
           \/ \E e \in Exporters : /\ Rename(e)
                                   /\ output[target[e]] = Nothing
                                   /\ output' = [output EXCEPT ![target[e]] = built[e]]
                                   /\ exportStage' = [exportStage EXCEPT ![e] = "commit"]
<1> USE DEF exporterVars, fileVars, checkerVars
<1>1. ASSUME NEW a \in Articles, ProcessArticle(a) PROVE output' = output
  BY <1>1 DEF ProcessArticle
<1>2. ASSUME NEW e \in Exporters, Export(e), ~Rename(e) PROVE output' = output
  BY <1>2 DEF Export, Build, BuildFails, Lookup, Flush, FlushFails, CheckOutput,
              OutputOccupied, WriteFile, WriteFails, LookAtOutput, ClearOutput, Commit
<1>3. ASSUME NEW e \in Exporters, Rename(e), output' # output
      PROVE  /\ output[target[e]] = Nothing
             /\ output' = [output EXCEPT ![target[e]] = built[e]]
             /\ exportStage' = [exportStage EXCEPT ![e] = "commit"]
  BY <1>3 DEF Rename, Goto
<1>4. ASSUME NEW e \in Exporters, Kill(e) PROVE output' = output
  BY <1>4 DEF Kill
<1>5. ASSUME NEW c \in Checkers, Check(c) PROVE output' = output
  BY <1>5 DEF Check, ReadManifest, VerifyFiles, ParseFiles
<1>6. CASE UNCHANGED exportVars
  BY <1>6 DEF exportVars
<1>. QED BY <1>1, <1>2, <1>3, <1>4, <1>5, <1>6 DEF ExportNext

LEMMA PublishedStays ==
    ASSUME ExportTypeOK, [ExportNext]_exportVars, NEW o \in ResearchOutputs,
           output[o] # Nothing
    PROVE  output'[o] = output[o]
BY OutputStep DEF ExportTypeOK

\* What an exporter holds between its build and its commit is a package, and
\* when it comes to the commit its directory holds the same.
PlacesInv ==
    /\ \A e \in Exporters :
          /\ exportStage[e] \in {"lookup", "flush", "check", "write", "look", "clear",
                                 "rename", "commit"} => built[e] # Nothing
          /\ exportStage[e] = "commit" => output[target[e]] = built[e]
    /\ MetadataIsPublished
    /\ \A c \in Checkers :
          /\ checkStage[c] \in {"verify", "parse"} => manifestRead[c] # Nothing
          /\ checkStage[c] = "parse" => output[checked[c]] = manifestRead[c]
          /\ checkStage[c] = "accepted" => parsed[c] = manifestRead[c]

LEMMA NextPlaces == ExportTypeOK /\ PlacesInv /\ [ExportNext]_exportVars => PlacesInv'
<1> SUFFICES ASSUME ExportTypeOK, PlacesInv, [ExportNext]_exportVars PROVE PlacesInv'
  OBVIOUS
<1> USE DEF exporterVars, fileVars, checkerVars
<1> DEFINE Exporting(e) ==
              /\ exportStage[e] \in {"lookup", "flush", "check", "write", "look", "clear",
                                     "rename", "commit"} => built[e] # Nothing
              /\ exportStage[e] = "commit" => output[target[e]] = built[e]
           Checking(c) ==
              /\ checkStage[c] \in {"verify", "parse"} => manifestRead[c] # Nothing
              /\ checkStage[c] = "parse" => output[checked[c]] = manifestRead[c]
              /\ checkStage[c] = "accepted" => parsed[c] = manifestRead[c]
<1>1. \A o \in ResearchOutputs : output[o] # Nothing => output'[o] = output[o]
  BY PublishedStays
<1>2. ASSUME UNCHANGED exporterVars PROVE \A e \in Exporters : Exporting(e)'
  BY <1>1, <1>2 DEF PlacesInv, ExportTypeOK
<1>3. ASSUME UNCHANGED checkerVars PROVE \A c \in Checkers : Checking(c)'
  BY <1>1, <1>3 DEF PlacesInv, ExportTypeOK
<1>4. ASSUME UNCHANGED metadata PROVE MetadataIsPublished'
  BY <1>1, <1>4 DEF PlacesInv, MetadataIsPublished
<1>5. ASSUME NEW a \in Articles, ProcessArticle(a) PROVE PlacesInv'
  BY <1>2, <1>3, <1>4, <1>5 DEF ProcessArticle, PlacesInv
<1>6. ASSUME NEW e \in Exporters, Export(e) PROVE PlacesInv'
  <2>1. UNCHANGED checkerVars
    BY <1>6 DEF Export, Build, BuildFails, Lookup, Flush, FlushFails, CheckOutput,
                OutputOccupied, WriteFile, WriteFails, LookAtOutput, ClearOutput, Rename,
                Commit
  <2>2. \A f \in Exporters \ {e} :
           exportStage'[f] = exportStage[f] /\ built'[f] = built[f] /\ target'[f] = target[f]
    BY <1>6 DEF Export, Build, BuildFails, Lookup, Flush, FlushFails, CheckOutput,
                OutputOccupied, WriteFile, WriteFails, LookAtOutput, ClearOutput, Rename,
                Commit, Goto, Holds, Fail, ExportTypeOK
  <2>3. \A f \in Exporters \ {e} : Exporting(f)'
    BY <1>1, <2>2 DEF PlacesInv, ExportTypeOK
  <2>4. Exporting(e)'
    <3> USE DEF PlacesInv, ExportTypeOK, At, Goto, Holds, Fail
    <3>1. CASE Build(e)
      BY <3>1, ExportAssumption DEF Build
    <3>2. CASE BuildFails(e)
      BY <3>2 DEF BuildFails
    <3>3. CASE Lookup(e)
      BY <3>3 DEF Lookup
    <3>4. CASE Flush(e)
      BY <3>4 DEF Flush
    <3>5. CASE FlushFails(e)
      BY <3>5 DEF FlushFails
    <3>6. CASE CheckOutput(e)
      BY <3>6 DEF CheckOutput
    <3>7. CASE OutputOccupied(e)
      BY <3>7 DEF OutputOccupied
    <3>8. CASE WriteFile(e)
      BY <3>8 DEF WriteFile
    <3>9. CASE WriteFails(e)
      BY <3>9 DEF WriteFails
    <3>10. CASE LookAtOutput(e)
      BY <3>10 DEF LookAtOutput
    <3>11. CASE ClearOutput(e)
      BY <3>11 DEF ClearOutput
    <3>12. CASE Rename(e)
      BY <3>12 DEF Rename
    <3>13. CASE Commit(e)
      BY <3>13 DEF Commit
    <3>. QED BY <1>6, <3>1, <3>2, <3>3, <3>4, <3>5, <3>6, <3>7, <3>8, <3>9, <3>10,
                <3>11, <3>12, <3>13 DEF Export
  <2>5. MetadataIsPublished'
    <3>1. CASE Commit(e)
      <4>1. exportStage[e] = "commit" /\ output' = output
        BY <3>1 DEF Commit, At
      <4>2. output[target[e]] = built[e] /\ target[e] \in ResearchOutputs
        BY <4>1 DEF PlacesInv, ExportTypeOK
      <4>3. metadata' \in {metadata, built[e]}
        BY <3>1 DEF Commit
      <4>4. CASE metadata' = built[e]
        BY <4>1, <4>2, <4>4 DEF MetadataIsPublished
      <4>5. CASE metadata' = metadata
        BY <1>4, <4>5
      <4>. QED BY <4>3, <4>4, <4>5
    <3>2. CASE ~Commit(e)
      <4>1. UNCHANGED metadata
        BY <1>6, <3>2 DEF Export, Build, BuildFails, Lookup, Flush, FlushFails,
                CheckOutput, OutputOccupied, WriteFile, WriteFails, LookAtOutput,
                ClearOutput, Rename
      <4>. QED BY <1>4, <4>1
    <3>. QED BY <3>1, <3>2
  <2>. QED BY <1>3, <2>1, <2>3, <2>4, <2>5 DEF PlacesInv
<1>7. ASSUME NEW e \in Exporters, Kill(e) PROVE PlacesInv'
  <2>1. UNCHANGED checkerVars /\ UNCHANGED metadata /\ UNCHANGED output
    BY <1>7 DEF Kill
  <2>2. \A f \in Exporters : Exporting(f)'
    BY <1>7, <2>1 DEF Kill, Goto, PlacesInv, ExportTypeOK
  <2>. QED BY <1>3, <1>4, <2>1, <2>2 DEF PlacesInv
<1>8. ASSUME NEW c \in Checkers, Check(c) PROVE PlacesInv'
  <2>1. UNCHANGED exporterVars /\ UNCHANGED metadata
    BY <1>8 DEF Check, ReadManifest, VerifyFiles, ParseFiles
  <2>2. \A d \in Checkers : Checking(d)'
    <3> USE DEF PlacesInv, ExportTypeOK, Step
    <3>1. CASE ReadManifest(c)
      BY <3>1 DEF ReadManifest
    <3>2. CASE VerifyFiles(c)
      BY <3>2 DEF VerifyFiles
    <3>3. CASE ParseFiles(c)
      BY <3>3 DEF ParseFiles
    <3>. QED BY <1>8, <3>1, <3>2, <3>3 DEF Check
  <2>. QED BY <1>2, <1>4, <2>1, <2>2 DEF PlacesInv
<1>9. CASE UNCHANGED exportVars
  BY <1>2, <1>3, <1>4, <1>9 DEF exportVars, PlacesInv
<1>. QED BY <1>5, <1>6, <1>7, <1>8, <1>9 DEF ExportNext

\* A temporary directory and locks are left only by a process that was killed.
LEMMA NextLeftovers ==
    ExportTypeOK /\ LeftoversAreOfKilled /\ [ExportNext]_exportVars => LeftoversAreOfKilled'
<1> SUFFICES ASSUME ExportTypeOK, LeftoversAreOfKilled, [ExportNext]_exportVars
             PROVE  LeftoversAreOfKilled'
  OBVIOUS
<1> USE DEF exporterVars, fileVars, checkerVars, LeftoversAreOfKilled, ExportTypeOK, Ended
<1>1. ASSUME NEW a \in Articles, ProcessArticle(a) PROVE LeftoversAreOfKilled'
  BY <1>1 DEF ProcessArticle
<1>2. ASSUME NEW e \in Exporters, Export(e) PROVE LeftoversAreOfKilled'
  <2> USE DEF At, Goto, Holds, Release, Fail
  <2>1. CASE Build(e)
    BY <2>1 DEF Build
  <2>2. CASE BuildFails(e)
    BY <2>2 DEF BuildFails
  <2>3. CASE Lookup(e)
    BY <2>3 DEF Lookup
  <2>4. CASE Flush(e)
    BY <2>4 DEF Flush
  <2>5. CASE FlushFails(e)
    BY <2>5 DEF FlushFails
  <2>6. CASE CheckOutput(e)
    BY <2>6 DEF CheckOutput
  <2>7. CASE OutputOccupied(e)
    BY <2>7 DEF OutputOccupied
  <2>8. CASE WriteFile(e)
    BY <2>8 DEF WriteFile
  <2>9. CASE WriteFails(e)
    BY <2>9 DEF WriteFails
  <2>10. CASE LookAtOutput(e)
    BY <2>10 DEF LookAtOutput
  <2>11. CASE ClearOutput(e)
    BY <2>11 DEF ClearOutput
  <2>12. CASE Rename(e)
    BY <2>12 DEF Rename
  <2>13. CASE Commit(e)
    BY <2>13 DEF Commit
  <2>. QED BY <1>2, <2>1, <2>2, <2>3, <2>4, <2>5, <2>6, <2>7, <2>8, <2>9, <2>10,
              <2>11, <2>12, <2>13 DEF Export
<1>3. ASSUME NEW e \in Exporters, Kill(e) PROVE LeftoversAreOfKilled'
  BY <1>3 DEF Kill, Goto, Release
<1>4. ASSUME NEW c \in Checkers, Check(c) PROVE LeftoversAreOfKilled'
  BY <1>4 DEF Check, ReadManifest, VerifyFiles, ParseFiles
<1>5. CASE UNCHANGED exportVars
  BY <1>5 DEF exportVars
<1>. QED BY <1>1, <1>2, <1>3, <1>4, <1>5 DEF ExportNext

-----------------------------------------------------------------------------
(* What every package holds.                                               *)

\* A package that is held anywhere was let through by the audit.
Audited(c) == c # Nothing => c \in SUBSET Articles /\ Succeeds[settings][c]

AuditedInv ==
    /\ \A e \in Exporters : Audited(built[e])
    /\ \A o \in ResearchOutputs : Audited(output[o])
    /\ Audited(metadata)

LEMMA NextAudited == ExportTypeOK /\ AuditedInv /\ [ExportNext]_exportVars => AuditedInv'
<1> SUFFICES ASSUME ExportTypeOK, AuditedInv, [ExportNext]_exportVars PROVE AuditedInv'
  OBVIOUS
<1> USE DEF exporterVars, fileVars, checkerVars
<1>1. settings' = settings
  BY DEF ExportNext, ProcessArticle, Export, Check, Kill, Build, BuildFails, Lookup, Flush,
         FlushFails, CheckOutput, OutputOccupied, WriteFile, WriteFails, LookAtOutput,
         ClearOutput, Rename, Commit, ReadManifest, VerifyFiles, ParseFiles, exportVars
<1>2. \A c : Audited(c) => Audited(c)'
  BY <1>1 DEF Audited
<1>3. \A e \in Exporters : Audited(built[e])'
  <2>1. ASSUME NEW e \in Exporters, Build(e) PROVE \A f \in Exporters : Audited(built[f])'
    <3>1. built' = [built EXCEPT ![e] = corpus] /\ Succeeds[settings][corpus]
      BY <2>1 DEF Build, Holds
    <3>2. Audited(corpus)
      BY <3>1 DEF Audited, ExportTypeOK
    <3>. QED BY <1>2, <3>1, <3>2 DEF AuditedInv, ExportTypeOK
  <2>2. CASE ~ \E e \in Exporters : Build(e)
    <3>1. built' = built
      BY <2>2 DEF ExportNext, ProcessArticle, Export, Check, Kill, BuildFails, Lookup, Flush,
         FlushFails, CheckOutput, OutputOccupied, WriteFile, WriteFails, LookAtOutput,
         ClearOutput, Rename, Commit, ReadManifest, VerifyFiles, ParseFiles, exportVars, Fail
    <3>. QED BY <1>2, <3>1 DEF AuditedInv
  <2>. QED BY <2>1, <2>2
<1>4. \A o \in ResearchOutputs : Audited(output[o])'
  <2>1. \A o \in ResearchOutputs : output'[o] = output[o] \/ \E e \in Exporters : output'[o] = built[e]
    BY OutputStep DEF ExportTypeOK
  <2>. QED BY <1>2, <2>1 DEF AuditedInv
<1>5. Audited(metadata)'
  <2>1. metadata' = metadata \/ \E e \in Exporters : metadata' = built[e]
    BY DEF ExportNext, ProcessArticle, Export, Check, Kill, Build, BuildFails, Lookup, Flush,
         FlushFails, CheckOutput, OutputOccupied, WriteFile, WriteFails, LookAtOutput,
         ClearOutput, Rename, Commit, ReadManifest, VerifyFiles, ParseFiles, exportVars
  <2>. QED BY <1>2, <2>1 DEF AuditedInv
<1>. QED BY <1>3, <1>4, <1>5 DEF AuditedInv

\* An audited package holds in every row what was known at its cutoff.
LEMMA AuditedIsKnown ==
    ASSUME ExportTypeOK, NEW c, c # Nothing, Audited(c)
    PROVE  IsPointInTime[settings][c]
<1>1. c \in SUBSET Articles /\ settings \in Settings
  BY DEF Audited, ExportTypeOK
<1>2. Buildable(settings.calendar, settings.policy, settings.windows, c)
  BY <1>1 DEF Audited, Succeeds
<1>3. settings.calendar \in SUBSET Sessions /\ settings.windows \in Seq(Int)
  BY <1>1, ExportAssumption
<1>4. \A a \in c : InformationAvailable(a) \in Int
  <2> SUFFICES ASSUME NEW a \in c PROVE InformationAvailable(a) \in Int
    OBVIOUS
  <2>1. a.published \in Int /\ a.delay \in Nat
    BY <1>1, ExportAssumption
  <2>. QED BY <2>1 DEF InformationAvailable, FirstSeen
<1>5. PointInTime(Package(settings, c))
  BY <1>2, <1>3, <1>4, AuditedIsPointInTime DEF Package
<1>. QED BY <1>1, <1>5 DEF IsPointInTime

-----------------------------------------------------------------------------
(* The theorems.                                                           *)

ExportInv == ExportTypeOK /\ PlacesInv /\ LeftoversAreOfKilled /\ AuditedInv

LEMMA ExportStarts == ExportInit => ExportInv
<1>1. ExportInit => PlacesInv /\ LeftoversAreOfKilled /\ AuditedInv
  BY DEF ExportInit, ExportersBegin, CheckersBegin, PlacesInv, MetadataIsPublished,
         LeftoversAreOfKilled, AuditedInv, Audited
<1>. QED BY <1>1, InitTypes DEF ExportInv

LEMMA ExportGoesOn == ExportInv /\ [ExportNext]_exportVars => ExportInv'
  BY NextTypes, NextPlaces, NextLeftovers, NextAudited DEF ExportInv

LEMMA ExportInvIsSound == ExportInv => ResearchPackagesSound
<1> SUFFICES ASSUME ExportInv PROVE ResearchPackagesSound
  OBVIOUS
<1>1. PackagesPointInTime
  BY AuditedIsKnown DEF PackagesPointInTime, ExportInv, AuditedInv
<1>2. MetadataIsPublished /\ AcceptedIsWhole /\ LeftoversAreOfKilled
  BY DEF ExportInv, PlacesInv, AcceptedIsWhole
<1>. QED BY <1>1, <1>2 DEF ResearchPackagesSound

\* For any calendars, articles and windows, any number of exporters, kills and
\* directories: every package holds what was known at its cutoffs, metadata is
\* committed of a package that is published, a validation accepts one package,
\* and nothing is left behind but by a process that was killed.
THEOREM ResearchPackagesHold == ExportSpec => []ResearchPackagesSound
  BY ExportStarts, ExportGoesOn, ExportInvIsSound, PTL DEF ExportSpec

LEMMA StoreStarts == ExportInit => Store!StoreInit
  BY DEF ExportInit, Store!StoreInit

LEMMA StoreGoesOn == ExportTypeOK /\ [ExportNext]_exportVars => [Store!StoreNext]_output
<1> SUFFICES ASSUME ExportTypeOK, [ExportNext]_exportVars, output' # output
             PROVE  Store!StoreNext
  OBVIOUS
<1>1. PICK e \in Exporters : /\ output[target[e]] = Nothing
                             /\ output' = [output EXCEPT ![target[e]] = built[e]]
  BY OutputStep
<1>2. built[e] \in SUBSET Articles /\ target[e] \in ResearchOutputs
  <2>1. built[e] # Nothing
    BY <1>1 DEF ExportTypeOK
  <2>. QED BY <2>1 DEF ExportTypeOK, Kept
<1>. QED BY <1>1, <1>2 DEF Store!StoreNext, Store!Publish

\* The output directories implement a store in which a package appears whole
\* and stays, though directories are looked at, removed and renamed onto in
\* steps that interleave.
THEOREM PackagesAreStored == ExportSpec => PackagesStay
  BY StoreStarts, StoreGoesOn, TypesHold, PTL DEF ExportSpec, PackagesStay, Store!StoreSpec
=============================================================================
