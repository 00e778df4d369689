------------------------------- MODULE Mt5Export -------------------------------
(***************************************************************************)
(* The command "mt5 readonly export-bars",                                 *)
(* application/services/mt5_readonly.py: the validation of the symbol map, *)
(* the gates before a terminal is contacted, the bridge to the terminal,   *)
(* and the package of bars, which is written in place.                     *)
(*                                                                         *)
(* The map belongs to the user and may change while the command runs: the  *)
(* gates read it, and the export reads it again.  The terminal may be      *)
(* missing, refuse, fail at any call and answer any bars.  The user runs   *)
(* one command after the other.                                            *)
(***************************************************************************)
EXTENDS MarketBars, FiniteSets

CONSTANTS
    Assets,         \* assets whose class may be exported
    Profiles,       \* broker profiles
    Symbols,        \* symbols of the terminal
    MapFiles,       \* what the symbol map may hold
    Answers,        \* the bars a terminal may answer for one symbol
    Period,         \* length of a bar of the timeframe
    Latency,        \* EXPORT_LATENCY
    MaxSymbols,     \* MAX_SYMBOLS
    MaxBars,        \* MAX_BARS_PER_SYMBOL
    Clock,          \* times at which a command may run
    MaxCommands,    \* bound: commands
    MaxMapEdits     \* bound: changes of the map

\* A row of the map.  flaw: an unknown or forbidden field, or a value that
\* looks like a secret.
MapEntries == [profile : Profiles, asset : Assets \cup {"unknown"},
               symbol : Symbols, enabled : BOOLEAN, flaw : BOOLEAN]

\* A bar of the terminal: its time and what its prices are.
RateBars == [time : Int, quote : Quotes]

NoMap == [kind |-> "absent", entries |-> <<>>]
MalformedMap == [kind |-> "malformed", entries |-> <<>>]
MapOf(entries) == [kind |-> "list", entries |-> entries]

ASSUME Mt5Assumption ==
    /\ "unknown" \notin Assets
    /\ \A f \in MapFiles :
          /\ f.kind \in {"absent", "malformed", "list"}
          /\ f.entries \in Seq(MapEntries)
    /\ \A a \in Answers : a \in Seq(RateBars)
    /\ Period \in Nat \ {0} /\ Latency \in Nat
    /\ MaxSymbols \in Nat /\ MaxBars \in Nat
    /\ Clock \subseteq Int
    /\ MaxCommands \in Nat /\ MaxMapEdits \in Nat

VARIABLES
    symbolMap,   \* the map, as it is now
    mapEdits,    \* changes of it so far
    bridge,      \* the command: where it is and what it has read
    terminal,    \* the connection with the terminal
    bars,        \* bars.jsonl
    manifest,    \* manifest.json
    status,      \* how the last command ended
    commands,    \* commands so far
    interrupted  \* files were being written when a command ended

mt5Vars == <<symbolMap, mapEdits, bridge, terminal, bars, manifest, status, commands,
             interrupted>>

NoFile == [kind |-> "absent", rows |-> <<>>]
FileOf(rows) == [kind |-> "file", rows |-> rows]
TornFile == [kind |-> "torn", rows |-> <<>>]

Idle == [at |-> "idle", entries |-> <<>>, next |-> 1, rows |-> <<>>, now |-> 0]

Mt5Init ==
    /\ symbolMap \in MapFiles /\ mapEdits = 0
    /\ bridge = Idle /\ terminal = "closed"
    /\ bars = NoFile /\ manifest = NoFile
    /\ status = "none" /\ commands = 0 /\ interrupted = FALSE

-----------------------------------------------------------------------------
(* The symbol map                                                          *)

\* The rows that are enabled, in their order.
EnabledEntries(file) ==
    LET enabled == {i \in DOMAIN file.entries : file.entries[i].enabled}
    IN [place \in 1..Cardinality(enabled) |->
           file.entries[CHOOSE i \in enabled : Cardinality({j \in enabled : j <= i}) = place]]

\* Two enabled rows may not share profile and symbol.  Two symbols of one
\* asset are not looked at.
SymbolMapValid(file) ==
    LET active == EnabledEntries(file) IN
    /\ \A i \in DOMAIN file.entries :
          ~file.entries[i].flaw /\ file.entries[i].asset \in Assets
    /\ \A i, j \in DOMAIN active :
          /\ active[i].profile = active[j].profile
          /\ active[i].symbol = active[j].symbol
          => i = j

\* A missing map is the caller's to notice: evaluate_mt5_readonly_gates
\* validates a map that exists.
MapGatePasses(file) ==
    file.kind # "absent" =>
        /\ file.kind = "list"
        /\ SymbolMapValid(file)
        /\ Len(EnabledEntries(file)) <= MaxSymbols

EditSymbolMap(file) ==
    /\ mapEdits < MaxMapEdits
    /\ file # symbolMap
    /\ symbolMap' = file /\ mapEdits' = mapEdits + 1
    /\ UNCHANGED <<bridge, terminal, bars, manifest, status, commands,
                   interrupted>>

-----------------------------------------------------------------------------
(* The command                                                             *)

\* Every return and every exception.  Once the terminal is open, the
\* finally clause closes it.
EndCommand(outcome) ==
    /\ bridge' = Idle
    /\ terminal' = "closed"
    /\ status' = outcome

\* The other gates: environment, confirmation, timeframe, range of time,
\* place of the output.  Each is a condition on the options alone.
BlockedByOptions ==
    /\ bridge.at = "idle" /\ commands < MaxCommands
    /\ commands' = commands + 1
    /\ EndCommand("blocked_by_gate")
    /\ UNCHANGED <<symbolMap, mapEdits, bars, manifest, interrupted>>

BlockedByMap ==
    /\ bridge.at = "idle" /\ commands < MaxCommands
    /\ ~MapGatePasses(symbolMap)
    /\ commands' = commands + 1
    /\ EndCommand("blocked_by_gate")
    /\ UNCHANGED <<symbolMap, mapEdits, bars, manifest, interrupted>>

GatesPassed ==
    /\ bridge.at = "idle" /\ commands < MaxCommands
    /\ MapGatePasses(symbolMap)
    /\ commands' = commands + 1
    /\ bridge' = [Idle EXCEPT !.at = "map"]
    /\ UNCHANGED <<symbolMap, mapEdits, terminal, bars, manifest, status, interrupted>>

\* The command "mt5 readonly validate-symbol-map" asks, unlike the gates,
\* that the map is there; it contacts nothing.  An invalid map is reported
\* and is no error.
ValidateMap ==
    /\ bridge.at = "idle" /\ commands < MaxCommands
    /\ commands' = commands + 1
    /\ EndCommand(IF symbolMap.kind # "list" THEN "policy_violation"
                  ELSE IF SymbolMapValid(symbolMap) THEN "map_valid" ELSE "map_invalid")
    /\ UNCHANGED <<symbolMap, mapEdits, bars, manifest, interrupted>>

\* The map is read again: whether it is still valid is not asked.
ReadMap ==
    /\ bridge.at = "map"
    /\ symbolMap.kind = "list"
    /\ bridge' = [bridge EXCEPT !.at = "connect",
                                !.entries = EnabledEntries(symbolMap)]
    /\ UNCHANGED <<symbolMap, mapEdits, terminal, bars, manifest, status, commands,
                   interrupted>>

MapUnreadable ==
    /\ bridge.at = "map"
    /\ symbolMap.kind # "list"
    /\ EndCommand("policy_violation")
    /\ UNCHANGED <<symbolMap, mapEdits, bars, manifest, commands, interrupted>>

\* initialize_readonly: the package may be missing, or the terminal refuse.
Connect(now) ==
    /\ bridge.at = "connect"
    /\ terminal' = "open"
    /\ bridge' = [bridge EXCEPT !.at = "read", !.now = now]
    /\ UNCHANGED <<symbolMap, mapEdits, bars, manifest, status, commands,
                   interrupted>>

ConnectFails ==
    /\ bridge.at = "connect"
    /\ \E outcome \in {"adapter_unavailable", "terminal_unavailable"} : EndCommand(outcome)
    /\ UNCHANGED <<symbolMap, mapEdits, bars, manifest, commands, interrupted>>

\* The row of a bar.
BarContractRow(entry, bar, now) ==
    Bar(<<entry.profile, entry.asset, bar.time>>, entry.asset,
        <<entry.profile, entry.symbol>>, bar.time, bar.time + Period, now,
        bar.time + Period + Latency, bar.quote)

\* What ends the export while the bars of a symbol are turned into rows.
AnswerRefused(answer) ==
    \/ Len(answer) > MaxBars
    \/ \E i, j \in DOMAIN answer : i # j /\ answer[i].time = answer[j].time
    \/ \E i \in DOMAIN answer : answer[i].quote # "ordered"

ReadSymbol(answer) ==
    LET entry == bridge.entries[bridge.next] IN
    /\ bridge.at = "read" /\ bridge.next \in DOMAIN bridge.entries
    /\ ~AnswerRefused(answer)
    /\ bridge' = [bridge EXCEPT
          !.next = @ + 1,
          !.rows = @ \o [i \in DOMAIN answer |->
                            BarContractRow(entry, answer[i], bridge.now)]]
    /\ UNCHANGED <<symbolMap, mapEdits, terminal, bars, manifest, status, commands,
                   interrupted>>

\* Mutant: rows are written as they are read.
ReadRefusedAfterWriting(answer) ==
    /\ bridge.at = "read" /\ bridge.next \in DOMAIN bridge.entries
    /\ AnswerRefused(answer)
    /\ bars' = FileOf(bridge.rows)
    /\ EndCommand("invalid_bars")
    /\ UNCHANGED <<symbolMap, mapEdits, manifest, commands, interrupted>>

ReadRefused(answer) ==
    /\ bridge.at = "read" /\ bridge.next \in DOMAIN bridge.entries
    /\ AnswerRefused(answer)
    /\ EndCommand("invalid_bars")
    /\ UNCHANGED <<symbolMap, mapEdits, bars, manifest, commands, interrupted>>

ReadFails ==
    /\ bridge.at = "read" /\ bridge.next \in DOMAIN bridge.entries
    /\ EndCommand("terminal_failed")
    /\ UNCHANGED <<symbolMap, mapEdits, bars, manifest, commands, interrupted>>

\* _write_export_package overwrites bars.jsonl, then manifest.json, whose
\* hash is of the bars it finds on disk.
WriteBars ==
    /\ bridge.at = "read" /\ bridge.next \notin DOMAIN bridge.entries
    /\ bars' = FileOf(bridge.rows)
    /\ bridge' = [bridge EXCEPT !.at = "manifest"]
    /\ UNCHANGED <<symbolMap, mapEdits, terminal, manifest, status, commands,
                   interrupted>>

WriteManifest ==
    /\ bridge.at = "manifest"
    /\ manifest' = bars /\ interrupted' = FALSE
    /\ EndCommand("exported")
    /\ UNCHANGED <<symbolMap, mapEdits, bars, commands>>

\* A write that fails, or is cut short, may leave a part of the file.
WriteInterrupted(outcome) ==
    /\ \/ /\ bridge.at = "read" /\ bridge.next \notin DOMAIN bridge.entries
          /\ bars' \in {bars, TornFile} /\ UNCHANGED manifest
       \/ /\ bridge.at = "manifest"
          /\ manifest' \in {manifest, TornFile} /\ UNCHANGED bars
    /\ interrupted' = TRUE
    /\ EndCommand(outcome)
    /\ UNCHANGED <<symbolMap, mapEdits, commands>>

WriteBarsFails == WriteInterrupted("write_failed")

\* The process is killed; the terminal loses its client.
KillExport ==
    \/ WriteInterrupted("killed")
    \/ /\ bridge.at # "idle"
       /\ bridge.at \in {"read", "manifest"} => bridge.next \in DOMAIN bridge.entries
       /\ EndCommand("killed")
       /\ UNCHANGED <<symbolMap, mapEdits, bars, manifest, commands, interrupted>>

-----------------------------------------------------------------------------
Mt5Progress ==
    \/ ReadMap \/ MapUnreadable
    \/ (\E now \in Clock : Connect(now)) \/ ConnectFails
    \/ (\E answer \in Answers : ReadSymbol(answer) \/ ReadRefused(answer)) \/ ReadFails
    \/ WriteBars \/ WriteManifest \/ WriteBarsFails

Mt5Next ==
    \/ \E file \in MapFiles : EditSymbolMap(file)
    \/ ValidateMap \/ BlockedByOptions \/ BlockedByMap \/ GatesPassed
    \/ Mt5Progress \/ KillExport

\* A command that has started goes on.
Mt5Spec == Mt5Init /\ [][Mt5Next]_mt5Vars /\ WF_mt5Vars(Mt5Progress)
-----------------------------------------------------------------------------
(* Properties                                                              *)

\* Every variable of the bridge holds values of its kind.
Mt5TypeOK ==
    /\ symbolMap \in MapFiles /\ mapEdits \in 0..MaxMapEdits
    /\ bridge.at \in {"idle", "map", "connect", "read", "manifest"}
    /\ bridge.next \in 1..(Len(bridge.entries) + 1)
    /\ \A i \in DOMAIN bridge.rows : bridge.rows[i].quote \in Quotes
    /\ terminal \in {"closed", "open"}
    /\ {bars.kind, manifest.kind} \subseteq {"absent", "file", "torn"}
    /\ commands \in 0..MaxCommands /\ interrupted \in BOOLEAN

\* The terminal is open only while its bars are read and written: however
\* a command ends, it lets the terminal go.
TerminalReleased == terminal = "open" => bridge.at \in {"read", "manifest"}

\* The manifest is the one of the bars beside it, unless a command was cut
\* short while it wrote: what fails before that leaves the files alone.
ManifestDescribesBars ==
    ~interrupted /\ bridge.at # "manifest" => manifest = bars

\* With a map that stays as it is, a file of bars is refused by the
\* contract's validator only when it holds a bar whose availability had
\* passed when it was exported, or bars of one asset from two symbols, or
\* bars the terminal gave out of order.
BarsFollowContract ==
    LET rows == bars.rows
        timely == \A i \in DOMAIN rows : rows[i].first_seen_at <= rows[i].available_at
        orderly == \A i, j \in DOMAIN rows :
                      i < j /\ rows[i].asset_id = rows[j].asset_id =>
                         /\ rows[i].origin = rows[j].origin
                         /\ rows[i].bar_start_at <= rows[j].bar_start_at
    IN bars.kind = "file" /\ mapEdits = 0 /\ timely /\ orderly =>
          MarketBarFileValid(rows)

\* The bridge lets the terminal go, its manifest is of the bars beside it,
\* and those follow the contract of the market bars.
BridgeExportsSound == TerminalReleased /\ ManifestDescribesBars /\ BarsFollowContract
=============================================================================
