------------------------------- MODULE LiveSmoke -------------------------------
(***************************************************************************)
(* The command "source smoke-test", application/services/source_smoke.py,  *)
(* over SourceRegistry and HttpClient.  The command loads definitions and  *)
(* reviews, passes its gates, asks the source once, or twice when the      *)
(* conditional check is asked for, and writes a report.                    *)
(*                                                                         *)
(* The override file belongs to the user: it may change between the time   *)
(* the registry reads it and the time the gate reads it again.             *)
(***************************************************************************)
EXTENDS HttpClient, SourceRegistry, Sequences

CONSTANTS
    CommittedDefinitions,   \* what config/sources may hold
    StoredReviews,          \* what config/source-reviews may hold
    OverrideFiles,          \* what the local override file may hold
    Nothing,                \* no definition, no review, no report
    MaxEdits                \* bound: changes of the override file

\* pinned: FINNEWS_SOURCE_LOCAL_OVERRIDE names the file.  live:
\* FINNEWS_ALLOW_LIVE_NETWORK is 1.  parameters: the SEC variables.
Configs == [definitions : CommittedDefinitions, reviews : StoredReviews,
            pinned : BOOLEAN, live : BOOLEAN,
            parameters : {"absent", "invalid", "valid"}]
\* inRange: max_items is between 1 and 5.
Options == [source : SourceIds, confirm : BOOLEAN, persist : BOOLEAN,
            inRange : BOOLEAN, conditional : BOOLEAN]

ASSUME SmokeAssumption ==
    /\ RegistryHosts = Hosts
    /\ \A defs \in CommittedDefinitions : defs \subseteq Definitions
    /\ \A revs \in StoredReviews : revs \subseteq Reviews
    /\ Nothing \notin Definitions /\ Nothing \notin Reviews
    /\ Nothing \notin Options
    /\ MaxEdits \in Nat
    /\ \A f \in OverrideFiles :
          /\ f.kind \in {"absent", "malformed", "list"}
          /\ f.items \in Seq(OverrideItem)
          /\ f.kind # "list" => f.items = <<>>

VARIABLES
    config,        \* files and environment variables the command runs over
    overrideFile,  \* the local override file, as it is now
    edits,         \* changes made to it
    command,       \* where the command is
    options,       \* its options
    source,        \* the definition it tests
    review,        \* the review of that source
    granted,       \* what the gate read of the override file
    requestCount,  \* request_count
    firstStatus,   \* status of the first reply
    parse,         \* what became of the first reply's body
    report         \* the result, of the commands that come to one

smokeVars == <<config, overrideFile, edits, command, options, source, review,
               granted, requestCount, firstStatus, parse, report>>
vars == <<httpVars, smokeVars>>

\* The options are drawn when the command starts, the files before.
Init ==
    /\ HttpInit
    /\ config \in Configs /\ overrideFile \in OverrideFiles /\ edits = 0
    /\ command = "parse" /\ options = Nothing
    /\ source = Nothing /\ review = Nothing /\ granted = {}
    /\ requestCount = 0 /\ firstStatus = "none" /\ parse = "none"
    /\ report = Nothing

Goto(place) == command' = place

\* Leaves everything but the place of the command and what is listed alone.
Keep(rest) == UNCHANGED <<config, overrideFile, edits, rest>>

\* Changes made after the gate are read by nobody.
EditOverrideFile ==
    /\ edits < MaxEdits /\ command \in {"parse", "load", "gate"}
    /\ edits' = edits + 1
    /\ \E file \in OverrideFiles \ {overrideFile} : overrideFile' = file
    /\ UNCHANGED <<httpVars, config, command, options, source, review, granted,
                   requestCount, firstStatus, parse, report>>

ParseOptions ==
    /\ command = "parse"
    /\ options' \in Options
    /\ Goto("load")
    /\ Keep(<<httpVars, source, review, granted, requestCount, firstStatus,
              parse, report>>)

-----------------------------------------------------------------------------
(* Loading. *)

\* The registry refuses its files: the command ends without a result.
RegistryRefuses ==
    \/ ~Loadable(config.definitions)
    \/ /\ config.pinned
       /\ \/ overrideFile.kind = "malformed"
          \/ ~OverridesAllowed(config.definitions, overrideFile.items)

Loaded == IF config.pinned THEN WithOverrides(config.definitions, overrideFile.items)
          ELSE config.definitions

LoadFails ==
    /\ command = "load" /\ RegistryRefuses
    /\ Goto("crashed")
    /\ Keep(<<httpVars, options, source, review, granted, requestCount,
              firstStatus, parse, report>>)

\* The element of a set with this id, if there is one.
ById(set, id) ==
    IF \E e \in set : e.id = id THEN CHOOSE e \in set : e.id = id ELSE Nothing

Load ==
    /\ command = "load" /\ ~RegistryRefuses
    /\ source' = ById(Loaded, options.source)
    /\ review' = ById(config.reviews, options.source)
    /\ Goto("gate")
    /\ Keep(<<httpVars, options, granted, requestCount, firstStatus, parse, report>>)

-----------------------------------------------------------------------------
(* The result, and the report of it. *)

Result(kind, count, status) == [kind |-> kind, requests |-> count, status |-> status]

Finish(kind, count, status) ==
    /\ report' = Result(kind, count, status)
    /\ Goto("done")

\* A gate that is closed: no request was counted.
Refuse(kind) ==
    /\ Finish(kind, 0, "none")
    /\ Keep(<<httpVars, options, source, review, requestCount, firstStatus, parse>>)

-----------------------------------------------------------------------------
(* The gates. *)

PolicyAllows ==
    /\ source # Nothing /\ review # Nothing
    /\ options.inRange /\ ~options.persist /\ options.confirm /\ config.live
    /\ review.decision = "approved"
    /\ ReviewIntegrity(source, review)

GateByPolicy ==
    /\ command = "gate" /\ ~PolicyAllows
    /\ Refuse("policy_blocked") /\ UNCHANGED granted

\* The override file is read again, and only here for a command without pin.
ReadOverridesFails ==
    /\ command = "gate" /\ PolicyAllows
    /\ overrideFile.kind = "malformed"
    /\ Goto("crashed")
    /\ Keep(<<httpVars, options, source, review, granted, requestCount,
              firstStatus, parse, report>>)

GateByOverride ==
    /\ command = "gate" /\ PolicyAllows /\ overrideFile.kind # "malformed"
    /\ source.id \notin LocallyEnabled(overrideFile)
    /\ Refuse("disabled") /\ UNCHANGED granted

GatePassed ==
    /\ command = "gate" /\ PolicyAllows /\ overrideFile.kind # "malformed"
    /\ source.id \in LocallyEnabled(overrideFile)
    /\ granted' = LocallyEnabled(overrideFile)
    /\ Goto("prepare")
    /\ Keep(<<httpVars, options, source, review, requestCount, firstStatus,
              parse, report>>)

PrerequisiteAbsent ==
    /\ command = "prepare" /\ source.parameters /\ config.parameters = "absent"
    /\ Refuse("missing_prerequisite") /\ UNCHANGED granted

\* A CIK that does not normalize is reported as a reply that does not parse,
\* and as one request.
PrerequisiteInvalid ==
    /\ command = "prepare" /\ source.parameters /\ config.parameters = "invalid"
    /\ Finish("parse_failure", 1, "none")
    /\ Keep(<<httpVars, options, source, review, granted, requestCount,
              firstStatus, parse>>)

-----------------------------------------------------------------------------
(* The requests. *)

BaseUrl == [secure |-> TRUE, host |-> source.endpoint]

Connect ==
    /\ command = "prepare"
    /\ source.parameters => config.parameters = "valid"
    /\ OpenClient(source.hosts)
    /\ Goto("first")
    /\ Keep(<<options, source, review, granted, requestCount, firstStatus,
              parse, report>>)

AskFirst ==
    /\ command = "first" /\ hop = "open"
    /\ Call(BaseUrl)
    /\ Keep(<<command, options, source, review, granted, requestCount,
              firstStatus, parse, report>>)

ClientStep == CallStep /\ UNCHANGED smokeVars

\* Mutant: the count of the result is left at its default.
AskFailedUncounted ==
    /\ command \in {"first", "second"} /\ hop = "failed"
    /\ Finish("network_failure", 0, "none")
    /\ Keep(<<httpVars, options, source, review, granted, requestCount,
              firstStatus, parse>>)

\* HttpPolicyError: the result keeps nothing of an earlier reply but the count.
AskFailed ==
    /\ command \in {"first", "second"} /\ hop = "failed"
    /\ Finish("network_failure", requestCount, "none")
    /\ Keep(<<httpVars, options, source, review, granted, requestCount,
              firstStatus, parse>>)

FirstAnswered ==
    /\ command = "first" /\ hop = "answered"
    /\ requestCount' = requestCount + 1
    /\ firstStatus' = reply.status
    /\ parse' \in (IF reply.status = "not_modified" THEN {"empty"}
                   ELSE {"parsed", "unparsable"})
    /\ Goto("parsed")
    /\ Keep(<<httpVars, options, source, review, granted, report>>)

ParseFailed ==
    /\ command = "parsed" /\ parse = "unparsable"
    /\ Finish("parse_failure", 1, "none")
    /\ Keep(<<httpVars, options, source, review, granted, requestCount,
              firstStatus, parse>>)

\* The conditional request needs a validator in the first reply.
AskSecond ==
    /\ command = "parsed" /\ parse # "unparsable"
    /\ options.conditional /\ firstStatus # "not_modified"
    /\ Call(BaseUrl)
    /\ Goto("second")
    /\ Keep(<<options, source, review, granted, requestCount, firstStatus,
              parse, report>>)

SecondAnswered ==
    /\ command = "second" /\ hop = "answered"
    /\ requestCount' = requestCount + 1
    /\ Finish("success", requestCount + 1, firstStatus)
    /\ Keep(<<httpVars, options, source, review, granted, firstStatus, parse>>)

\* Without the check, after a 304, or when the reply had no validators.
Succeed ==
    /\ command = "parsed" /\ parse # "unparsable"
    /\ Finish(IF firstStatus = "not_modified" THEN "no_change" ELSE "success",
              requestCount, firstStatus)
    /\ Keep(<<httpVars, options, source, review, granted, requestCount,
              firstStatus, parse>>)

-----------------------------------------------------------------------------
Progress ==
    \/ ParseOptions \/ LoadFails \/ Load
    \/ GateByPolicy \/ ReadOverridesFails \/ GateByOverride \/ GatePassed
    \/ PrerequisiteAbsent \/ PrerequisiteInvalid \/ Connect
    \/ AskFirst \/ ClientStep \/ AskFailed \/ FirstAnswered \/ ParseFailed
    \/ AskSecond \/ SecondAnswered \/ Succeed

Next == Progress \/ EditOverrideFile

\* A process runs; a server that does not answer runs into the timeouts.
Fairness == WF_vars(Progress)

Spec == Init /\ [][Next]_vars /\ Fairness

-----------------------------------------------------------------------------
(* Properties                                                              *)

\* Every variable of the command and its client holds values of its kind.
SmokeTypeOK ==
    /\ HttpTypeOK
    /\ config \in Configs /\ overrideFile \in OverrideFiles
    /\ edits \in 0 .. MaxEdits
    /\ command \in {"parse", "load", "gate", "prepare", "first", "parsed", "second",
                    "done", "crashed"}
    /\ options \in Options \cup {Nothing}
    /\ source \in Definitions \cup {Nothing}
    /\ review \in Reviews \cup {Nothing}
    /\ granted \subseteq SourceIds
    /\ requestCount \in 0 .. 2
    /\ firstStatus \in Statuses \cup {"none"}
    /\ parse \in {"none", "empty", "parsed", "unparsable"}
    /\ report \in [kind : {"success", "no_change", "policy_blocked", "disabled",
                            "missing_prerequisite", "network_failure",
                            "parse_failure"},
                    requests : 0 .. 2, status : Statuses \cup {"none"}]
                 \cup {Nothing}

\* A live request needs the option, the environment variable and an override
\* that the gate has read; and every hop of it, whatever the redirects, stays on
\* hosts that an approved review of the very definition in use allows, and on
\* https unless the client is one for tests.  This is what registry, reviews,
\* gate and client ensure together.  (A source that was never approved is
\* outside: the integrity check passes over it.)
RequestsReviewed ==
    requests # {} =>
        /\ options.confirm /\ config.live /\ ~options.persist
        /\ source.id \in granted
        /\ review.id = source.id /\ review.decision = "approved"
        /\ source.network /\ source.approved =>
              /\ review.digest = SourceConfigDigest(source)
              /\ \A u \in requests :
                    (u.secure \/ AllowLocalHttp) /\ u.host \in review.hosts

\* However the servers redirect and whatever fails, a command sends no more
\* requests than its calls times the hops of a call.
RequestsWithinBudget ==
    sent <= (MaxRedirects + 1) *
              (IF options # Nothing /\ options.conditional THEN 2 ELSE 1)

\* What is sent and what is handed over are bounded together.
CallsBounded == RequestsWithinBudget /\ AnswerBounded

\* A definition that is enabled once files and overrides are put together was
\* approved, in whatever order the overrides name it and change it.
EnabledWereApproved ==
    source # Nothing /\ source.enabled => source.approved /\ source.reviewer

\* A command ends by branches that count the requests in three ways; the report
\* counts the calls that were answered all the same, whether the first, the
\* second or none of them failed.  Only a parameter that does not normalize is
\* counted as one request where none was sent.  A closed gate sent nothing, and
\* tells of no failure of the network; a status is that of an answer.
ReportMatchesRequests ==
    LET badParameter == /\ report.kind = "parse_failure"
                        /\ source.parameters /\ config.parameters = "invalid"
    IN  report # Nothing =>
        /\ IF badParameter THEN report.requests = 1 /\ sent = 0
           ELSE report.requests = answers /\ answers <= sent
        /\ answers = 2 => options.conditional
        /\ report.kind \in {"policy_blocked", "disabled", "missing_prerequisite"} =>
              sent = 0
        /\ report.kind = "network_failure" <=> hop = "failed"
        /\ report.kind \in {"success", "no_change"} <=> report.status # "none"
        /\ report.status # "none" => answers > 0
=============================================================================
