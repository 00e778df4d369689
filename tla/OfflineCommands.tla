---------------------------- MODULE OfflineCommands ----------------------------
(***************************************************************************)
(* The services of the platform that share nothing but the code they are   *)
(* part of, side by side: the export of research packages, the MetaTrader  *)
(* bridge, the event studies, the signal packages, the database with its   *)
(* commands and the API over it, the parsers, and the rules for texts.     *)
(*                                                                         *)
(* None reads or writes what another keeps, so that a behaviour of all of  *)
(* them is one of each, interleaved.  A behaviour here is of one service,  *)
(* chosen at the start; the others stay as they are.                       *)
(***************************************************************************)
EXTENDS ResearchExport, Mt5Export, MarketReaction, SignalPackage, ReadApi,
        SourceParsers, TextRules

\* An export has settings, and a directory that it writes to.
ASSUME OfflineAssumption == Settings # {} /\ Targets # {} /\ ResearchOutputs # {}

VARIABLE service    \* the service that runs

offlineVars == <<service, exportVars, mt5Vars, reactionVars, signalVars, readVars,
                 parserVars, ruleVars>>

Services == {"research", "bridge", "studies", "signals", "api", "parsers", "rules"}

AnyOf(S) == CHOOSE x \in S : TRUE

\* A service that does not run is in one of its initial states.
ResearchRests ==
    /\ settings = AnyOf(Settings) /\ corpus = {}
    /\ target = AnyOf(Targets) /\ ExportersBegin
    /\ output = [o \in ResearchOutputs |-> Nothing]
    /\ outputMade = [o \in ResearchOutputs |-> FALSE]
    /\ metadata = Nothing
    /\ checked = [c \in Checkers |-> AnyOf(ResearchOutputs)] /\ CheckersBegin
    /\ crashes = 0

OfflineInit ==
    /\ service \in Services
    /\ IF service = "research" THEN ExportInit ELSE ResearchRests
    /\ service # "bridge" => symbolMap = NoMap
    /\ Mt5Init
    /\ service # "studies" =>
          scenario = "null" /\ reactionSignals = EligibleSignals(AnyOf(SignalLists))
    /\ ReactionInit
    /\ service # "signals" => signalDir = NoSignalDir
    /\ SignalInit
    /\ service # "api" => database = EmptyDatabase
    /\ DatabaseInit /\ ApiInit
    /\ service # "parsers" => format = AnyOf(Formats)
    /\ ParserInit
    /\ service # "rules" => text = AnyOf(Texts)
    /\ RuleInit

ResearchRuns(step) ==
    /\ service = "research" /\ step
    /\ UNCHANGED <<service, mt5Vars, reactionVars, signalVars, readVars, parserVars, ruleVars>>
BridgeRuns(step) ==
    /\ service = "bridge" /\ step
    /\ UNCHANGED <<service, exportVars, reactionVars, signalVars, readVars, parserVars, ruleVars>>
StudiesRun(step) ==
    /\ service = "studies" /\ step
    /\ UNCHANGED <<service, exportVars, mt5Vars, signalVars, readVars, parserVars, ruleVars>>
SignalsRun(step) ==
    /\ service = "signals" /\ step
    /\ UNCHANGED <<service, exportVars, mt5Vars, reactionVars, readVars, parserVars, ruleVars>>
ApiRuns(step) ==
    /\ service = "api" /\ step
    /\ UNCHANGED <<service, exportVars, mt5Vars, reactionVars, signalVars, parserVars, ruleVars>>
ParsersRun(step) ==
    /\ service = "parsers" /\ step
    /\ UNCHANGED <<service, exportVars, mt5Vars, reactionVars, signalVars, readVars, ruleVars>>
RulesRun(step) ==
    /\ service = "rules" /\ step
    /\ UNCHANGED <<service, exportVars, mt5Vars, reactionVars, signalVars, readVars, parserVars>>

OfflineNext ==
    \/ ResearchRuns(ExportNext) \/ BridgeRuns(Mt5Next) \/ StudiesRun(ReactionNext)
    \/ SignalsRun(SignalNext) \/ ApiRuns(ReadNext)
    \/ ParsersRun(ParserNext) \/ RulesRun(AnalyseText)

\* A command that has begun goes on until it ends or is killed; so does a
\* request.  Nobody has to begin one, to process an article, to edit a map
\* or to publish an item.
OfflineSpec ==
    /\ OfflineInit /\ [][OfflineNext]_offlineVars
    /\ \A e \in Exporters : WF_offlineVars(ResearchRuns(Export(e)))
    /\ \A c \in Checkers : WF_offlineVars(ResearchRuns(Check(c)))
    /\ WF_offlineVars(BridgeRuns(Mt5Progress))
    /\ WF_offlineVars(StudiesRun(ReactionNext))
    /\ \A w \in Writers : WF_offlineVars(SignalsRun(ExportSignals(w)))
    /\ WF_offlineVars(ApiRuns(Request))
    /\ \A w \in Workers : WF_offlineVars(ApiRuns(Advance(w) /\ UNCHANGED apiVars))

-----------------------------------------------------------------------------
(* Properties                                                              *)

\* Every variable of every service holds values of its kind.
OfflineTypeOK ==
    /\ service \in Services
    /\ ExportTypeOK /\ Mt5TypeOK /\ ReactionTypeOK /\ SignalTypeOK /\ DatabaseTypeOK
    /\ ApiTypeOK /\ ParserTypeOK /\ RuleTypeOK

\* Nothing that was begun is still under way.
Quiet ==
    /\ service = "research" => \A e \in Exporters : exportStage[e] \in Ended
    /\ bridge.at = "idle"
    /\ service = "studies" => published.made
    /\ service = "signals" => \A w \in Writers : writers[w].at \in Stopped
    /\ \A w \in Workers : worker[w].at = "idle"
    /\ client.at \in {"idle"} \cup Outcomes

\* Whatever is begun ends, though commands wait for each other's
\* transactions, are overtaken and are killed: exports, a command of the
\* bridge, the writing of a signal package, a command on the database, a
\* request of the API, the studies of a run.  Since only so many are begun,
\* again and again nothing is under way.
OfflineCommandsEnd == []<>Quiet
=============================================================================
