---------------------------- MODULE LiveSmokeProofs ----------------------------
(***************************************************************************)
(* Proofs about LiveSmoke, for any sources, hosts, definitions, reviews,   *)
(* override files and limits: what a request that was sent has passed, how *)
(* many are sent, and what the report says of them.                        *)
(***************************************************************************)
EXTENDS LiveSmoke, TLAPS

-----------------------------------------------------------------------------
(* The registry. *)

\* An override changes of a definition whether it is enabled.
LEMMA OverriddenDefinition ==
    ASSUME NEW defs \in SUBSET Definitions, NEW items,
           NEW d \in WithOverrides(defs, items)
    PROVE  \E c \in defs :
              /\ d \in Definitions
              /\ d.id = c.id /\ d.approved = c.approved /\ d.reviewer = c.reviewer
              /\ d.enabled = EnabledBy(c, items)
<1>1. PICK c \in defs : d = [c EXCEPT !.enabled = EnabledBy(c, items)]
  BY Zenon DEF WithOverrides
<1>2. c \in Definitions
  OBVIOUS
<1>3. EnabledBy(c, items) \in BOOLEAN
  BY Zenon DEF EnabledBy
<1>4. ASSUME NEW b \in BOOLEAN
      PROVE  LET e == [c EXCEPT !.enabled = b]
             IN /\ e \in Definitions /\ e.id = c.id /\ e.approved = c.approved
                /\ e.reviewer = c.reviewer /\ e.enabled = b
  BY <1>2 DEF Definitions
<1>. QED BY <1>1, <1>3, <1>4

\* What the registry loads are definitions, and those enabled are approved.
LEMMA LoadedDefinition ==
    ASSUME config \in Configs, overrideFile \in OverrideFiles, ~RegistryRefuses,
           NEW d \in Loaded
    PROVE  d \in Definitions /\ (d.enabled => d.approved /\ d.reviewer)
<1>1. config.definitions \in SUBSET Definitions
  BY SmokeAssumption DEF Configs
<1>2. \A c \in config.definitions : ValidDefinition(c)
  BY DEF RegistryRefuses, Loadable
<1>3. CASE ~config.pinned
  BY <1>1, <1>2, <1>3 DEF Loaded, ValidDefinition
<1>4. CASE config.pinned
  <2>1. PICK c \in config.definitions :
            /\ d \in Definitions
            /\ d.id = c.id /\ d.approved = c.approved /\ d.reviewer = c.reviewer
            /\ d.enabled = EnabledBy(c, overrideFile.items)
    BY <1>1, <1>4, OverriddenDefinition DEF Loaded
  <2>2. OverridesAllowed(config.definitions, overrideFile.items)
    BY <1>4 DEF RegistryRefuses
  <2>3. \A e \in config.definitions : e.id = c.id => e = c
    BY DEF RegistryRefuses, Loadable
  <2>4. ASSUME d.enabled PROVE c.approved
    <3>1. CASE c.enabled
      BY <1>2, <3>1 DEF ValidDefinition
    <3>2. CASE \E i \in DOMAIN overrideFile.items :
                  overrideFile.items[i].source = c.id /\ overrideFile.items[i].enabled
      BY <2>2, <2>3, <3>2 DEF OverridesAllowed
    <3>. QED BY <2>1, <2>4, <3>1, <3>2 DEF EnabledBy
  <2>5. c.approved => c.reviewer
    BY <1>2 DEF ValidDefinition
  <2>. QED BY <2>1, <2>4, <2>5
<1>. QED BY <1>3, <1>4

LEMMA ByIdFinds ==
    ASSUME NEW set, NEW id, ById(set, id) # Nothing
    PROVE  ById(set, id) \in set /\ ById(set, id).id = id
  BY DEF ById

-----------------------------------------------------------------------------
(* Types, and where the client and the command are together. *)

Asking == {"prepare", "first", "parsed", "second"}

\* The hops a call is under way on.
CallHops == {"check", "send", "read"}

StagesInv ==
    /\ command # "parse" => options \in Options
    /\ command \in {"parse", "load"} => source = Nothing /\ review = Nothing
    /\ command \in Asking => source \in Definitions /\ review \in Reviews
    /\ command \in {"parse", "load", "gate", "prepare"} => hop = "idle"
    /\ hop \in CallHops => command \in {"first", "second"}
    /\ hop \in {"check", "send"} => redirects <= MaxRedirects
    /\ command \in {"parse", "load", "gate", "prepare", "first"} => requestCount = 0
    /\ command = "first" => hop # "idle"
    /\ command = "parsed" =>
          requestCount = 1 /\ hop = "answered" /\ firstStatus # "none"
    /\ command = "second" =>
          /\ requestCount = 1 /\ hop \notin {"idle", "open"}
          /\ firstStatus # "none"

TypesInv == SmokeTypeOK /\ StagesInv

LEMMA InitTypes == Init => TypesInv
  BY LimitsAssumption, SmokeAssumption
  DEF Init, HttpInit, TypesInv, SmokeTypeOK, HttpTypeOK, StagesInv, NoUrl, Urls, NoReply,
      Replies, Statuses, Asking, CallHops

\* A step of the client of a call that is under way.
LEMMA CallTypes ==
    ASSUME TypesInv, CallStep, UNCHANGED smokeVars
    PROVE  TypesInv'
<1>. USE LimitsAssumption DEF TypesInv, SmokeTypeOK, HttpTypeOK, StagesInv, CallHops, Asking,
         smokeVars, Failures
<1>1. CASE CheckUrl
  BY <1>1 DEF CheckUrl, Raise
<1>2. CASE RequestFails
  BY <1>2 DEF RequestFails, Send, Raise
<1>3. CASE RequestRedirected
  BY <1>3 DEF RequestRedirected, RedirectsLeft, Send, Raise
<1>4. CASE RequestAnswered
  BY <1>4 DEF RequestAnswered, Send
<1>5. CASE ReadChunk
  BY <1>5 DEF ReadChunk, Raise
<1>6. CASE EndOfBody
  BY <1>6 DEF EndOfBody, Raise
<1>. QED BY <1>1, <1>2, <1>3, <1>4, <1>5, <1>6 DEF CallStep

\* What the registry hands over, and the review beside it.
LEMMA LoadTypes ==
    ASSUME TypesInv, Load
    PROVE  /\ TypesInv'
           /\ source' # Nothing /\ source'.enabled => source'.approved /\ source'.reviewer
<1>1. source' = ById(Loaded, options.source) /\ review' = ById(config.reviews, options.source)
  BY DEF Load
<1>2. source' # Nothing => /\ source' \in Definitions
                           /\ source'.enabled => source'.approved /\ source'.reviewer
  BY <1>1, ByIdFinds, LoadedDefinition DEF Load, TypesInv, SmokeTypeOK
<1>3. review' # Nothing => review' \in Reviews
  BY <1>1, ByIdFinds, SmokeAssumption DEF TypesInv, SmokeTypeOK, Configs
<1>4. TypesInv'
  BY <1>2, <1>3
  DEF Load, Keep, Goto, TypesInv, SmokeTypeOK, HttpTypeOK, StagesInv, CallHops, Asking, httpVars
<1>. QED BY <1>2, <1>4

\* The calls the command makes go to the endpoint of its source.
LEMMA BaseUrlType ==
    ASSUME TypesInv, command \in Asking
    PROVE  BaseUrl \in Urls /\ source.hosts \subseteq Hosts
  BY SmokeAssumption DEF TypesInv, StagesInv, BaseUrl, Urls, Definitions

LEMMA NextTypes == TypesInv /\ [Next]_vars => TypesInv'
<1>. SUFFICES ASSUME TypesInv, [Next]_vars PROVE TypesInv'
  OBVIOUS
<1>. USE DEF TypesInv, SmokeTypeOK, HttpTypeOK, StagesInv, CallHops, Asking
<1>1. CASE UNCHANGED vars
  BY <1>1 DEF vars, httpVars, smokeVars
<1>2. CASE EditOverrideFile
  BY <1>2, SmokeAssumption DEF EditOverrideFile, httpVars
<1>3. CASE ParseOptions
  BY <1>3 DEF ParseOptions, Goto, Keep, httpVars
<1>4. CASE LoadFails
  BY <1>4 DEF LoadFails, Goto, Keep, httpVars
<1>5. CASE Load
  BY <1>5, LoadTypes
<1>6. CASE GateByPolicy
  BY <1>6 DEF GateByPolicy, Refuse, Finish, Result, Goto, Keep, httpVars
<1>7. CASE ReadOverridesFails
  BY <1>7 DEF ReadOverridesFails, Goto, Keep, httpVars
<1>8. CASE GateByOverride
  BY <1>8 DEF GateByOverride, Refuse, Finish, Result, Goto, Keep, httpVars
<1>9. CASE GatePassed
  BY <1>9 DEF GatePassed, PolicyAllows, LocallyEnabled, Goto, Keep, httpVars
<1>10. CASE PrerequisiteAbsent
  BY <1>10 DEF PrerequisiteAbsent, Refuse, Finish, Result, Goto, Keep, httpVars
<1>11. CASE PrerequisiteInvalid
  BY <1>11 DEF PrerequisiteInvalid, Finish, Result, Goto, Keep, httpVars
<1>12. CASE Connect
  <2>1. source.hosts \subseteq Hosts
    BY <1>12, SmokeAssumption DEF Connect, Definitions
  <2>. QED BY <1>12, <2>1 DEF Connect, OpenClient, Goto, Keep
<1>13. CASE AskFirst
  BY <1>13, BaseUrlType, LimitsAssumption
  DEF AskFirst, Call, Keep, NoReply, Replies, Statuses
<1>14. CASE ClientStep
  BY <1>14, CallTypes DEF ClientStep
<1>15. CASE AskFailed
  BY <1>15 DEF AskFailed, Finish, Result, Goto, Keep, httpVars
<1>16. CASE FirstAnswered
  BY <1>16 DEF FirstAnswered, Goto, Keep, httpVars, Replies, Statuses
<1>17. CASE ParseFailed
  BY <1>17 DEF ParseFailed, Finish, Result, Goto, Keep, httpVars
<1>18. CASE AskSecond
  BY <1>18, BaseUrlType, LimitsAssumption
  DEF AskSecond, Call, Goto, Keep, NoReply, Replies, Statuses
<1>19. CASE SecondAnswered
  BY <1>19 DEF SecondAnswered, Finish, Result, Goto, Keep, httpVars
<1>20. CASE Succeed
  BY <1>20 DEF Succeed, Finish, Result, Goto, Keep, httpVars
<1>. QED
  BY <1>1, <1>2, <1>3, <1>4, <1>5, <1>6, <1>7, <1>8, <1>9, <1>10, <1>11, <1>12, <1>13,
     <1>14, <1>15, <1>16, <1>17, <1>18, <1>19, <1>20 DEF Next, Progress

\* The command and its client stay in their types: every request is of a URL,
\* the redirects of a call stay within the limit plus the one that is refused.
THEOREM TypesHold == Spec => []SmokeTypeOK
<1>1. TypesInv => SmokeTypeOK
  BY DEF TypesInv
<1>. QED BY <1>1, InitTypes, NextTypes, PTL DEF Spec

-----------------------------------------------------------------------------
(* What was enabled, and what a request has passed. *)

\* A definition that is enabled once files and overrides are put together was
\* approved, in whatever order the overrides name it and change it.
THEOREM EnabledHold == Spec => []EnabledWereApproved
<1>1. Init => EnabledWereApproved
  BY DEF Init, EnabledWereApproved
<1>2. TypesInv /\ EnabledWereApproved /\ [Next]_vars => EnabledWereApproved'
  <2>. SUFFICES ASSUME TypesInv, EnabledWereApproved, [Next]_vars
                PROVE  EnabledWereApproved'
    OBVIOUS
  <2>1. CASE Load
    BY <2>1, LoadTypes DEF EnabledWereApproved
  <2>2. CASE ~Load
    <3>1. source' = source
      BY <2>2
      DEF Next, Progress, vars, smokeVars, EditOverrideFile, ParseOptions, LoadFails,
          GateByPolicy, ReadOverridesFails, GateByOverride, GatePassed, PrerequisiteAbsent,
          PrerequisiteInvalid, Connect, AskFirst, ClientStep, AskFailed, FirstAnswered,
          ParseFailed, AskSecond, SecondAnswered, Succeed, Refuse, Keep
    <3>. QED BY <3>1 DEF EnabledWereApproved
  <2>. QED BY <2>1, <2>2
<1>. QED BY <1>1, <1>2, InitTypes, NextTypes, PTL DEF Spec

\* What the gates have let through.
Passed == PolicyAllows /\ source.id \in granted

GateInv ==
    /\ source # Nothing => source.id = options.source
    /\ review # Nothing => review.id = options.source
    /\ command \in Asking \/ hop # "idle" => Passed
    /\ hop # "idle" => approved = source.hosts
    /\ hop = "idle" => requests = {}
    /\ hop = "send" => UrlAllowed(url)
    /\ \A u \in requests : UrlAllowed(u)

\* The client asks no URL it has not checked against the hosts of the source.
LEMMA CallGate ==
    ASSUME TypesInv, GateInv, CallStep, UNCHANGED smokeVars
    PROVE  GateInv'
<1>0. /\ hop # "idle" /\ hop' # "idle" /\ approved' = approved
  BY DEF CallStep, CheckUrl, RequestFails, RequestRedirected, RequestAnswered, ReadChunk,
         EndOfBody, Send, Raise
<1>1. Passed' = Passed
  BY DEF smokeVars, Passed, PolicyAllows, ReviewIntegrity, ReviewCovers, SourceConfigDigest
<1>2. \A u : UrlAllowed(u)' = UrlAllowed(u)
  BY <1>0 DEF UrlAllowed
<1>3. CASE CheckUrl
  <2>1. hop' = "send" => UrlAllowed(url) /\ url' = url
    BY <1>3 DEF CheckUrl, Raise
  <2>2. requests' = requests
    BY <1>3 DEF CheckUrl
  <2>. QED BY <1>0, <1>1, <1>2, <2>1, <2>2 DEF GateInv, smokeVars, UrlAllowed
<1>4. CASE RequestFails \/ RequestRedirected \/ RequestAnswered
  <2>1. hop = "send" /\ hop' # "send" /\ requests' = requests \cup {url}
    BY <1>4 DEF RequestFails, RequestRedirected, RequestAnswered, Send, Raise
  <2>2. \A u \in requests' : UrlAllowed(u)'
    BY <1>2, <2>1 DEF GateInv
  <2>. QED BY <1>0, <1>1, <2>1, <2>2 DEF GateInv, smokeVars
<1>5. CASE ReadChunk \/ EndOfBody
  <2>1. hop' # "send" /\ requests' = requests
    BY <1>5 DEF ReadChunk, EndOfBody, Raise
  <2>. QED BY <1>0, <1>1, <1>2, <2>1 DEF GateInv, smokeVars
<1>. QED BY <1>3, <1>4, <1>5 DEF CallStep

LEMMA NextGate == TypesInv /\ GateInv /\ [Next]_vars => GateInv'
<1>. SUFFICES ASSUME TypesInv, GateInv, [Next]_vars PROVE GateInv'
  OBVIOUS
<1> DEFINE judged == <<options, source, review, granted, config>>
<1>a. ASSUME UNCHANGED judged PROVE Passed' = Passed
  BY <1>a DEF Passed, PolicyAllows, ReviewIntegrity, ReviewCovers, SourceConfigDigest
<1>b. ASSUME UNCHANGED approved PROVE \A u : UrlAllowed(u)' = UrlAllowed(u)
  BY <1>b DEF UrlAllowed
\* A step that leaves the client and what was judged as they were.
<1>c. ASSUME UNCHANGED judged, UNCHANGED httpVars,
             command' \in Asking => command \in Asking
      PROVE  GateInv'
  BY <1>a, <1>b, <1>c DEF GateInv, httpVars, UrlAllowed
<1>1. CASE UNCHANGED vars
  BY <1>1, <1>c DEF vars, smokeVars
<1>2. CASE EditOverrideFile
  BY <1>2, <1>c DEF EditOverrideFile
<1>3. CASE ParseOptions
  BY <1>3 DEF ParseOptions, Goto, Keep, httpVars, GateInv, Asking, TypesInv, StagesInv
<1>4. CASE LoadFails
  BY <1>4, <1>c DEF LoadFails, Goto, Keep, Asking
<1>5. CASE Load
  <2>1. source' # Nothing => source'.id = options'.source
    BY <1>5, ByIdFinds DEF Load, Keep
  <2>2. review' # Nothing => review'.id = options'.source
    BY <1>5, ByIdFinds DEF Load, Keep
  <2>3. hop = "idle" /\ UNCHANGED httpVars /\ command' = "gate"
    BY <1>5 DEF Load, Keep, Goto, TypesInv, StagesInv
  <2>. QED BY <2>1, <2>2, <2>3 DEF GateInv, httpVars, Asking
<1>6. CASE GateByPolicy \/ GateByOverride \/ PrerequisiteAbsent
  BY <1>6, <1>c
  DEF GateByPolicy, GateByOverride, PrerequisiteAbsent, Refuse, Finish, Goto, Keep, Asking
<1>7. CASE ReadOverridesFails
  BY <1>7, <1>c DEF ReadOverridesFails, Goto, Keep, Asking
<1>8. CASE GatePassed
  <2>1. Passed'
    BY <1>8 DEF GatePassed, Keep, Passed, PolicyAllows, ReviewIntegrity, ReviewCovers,
        SourceConfigDigest
  <2>2. hop = "idle" /\ UNCHANGED httpVars /\ UNCHANGED <<source, review, options>>
    BY <1>8 DEF GatePassed, Keep, TypesInv, StagesInv
  <2>. QED BY <2>1, <2>2 DEF GateInv, httpVars
<1>9. CASE PrerequisiteInvalid
  BY <1>9, <1>c DEF PrerequisiteInvalid, Finish, Goto, Keep, Asking
<1>10. CASE Connect
  <2>1. /\ UNCHANGED judged /\ UNCHANGED requests /\ hop = "idle" /\ hop' = "open"
        /\ approved' = source.hosts /\ command \in Asking
    BY <1>10 DEF Connect, OpenClient, Keep, Asking
  <2>. QED BY <2>1, <1>a DEF GateInv
<1>11. CASE AskFirst \/ AskSecond
  <2>1. /\ UNCHANGED judged /\ UNCHANGED requests /\ UNCHANGED approved
        /\ command \in Asking /\ hop # "idle" /\ hop' = "check"
    BY <1>11 DEF AskFirst, AskSecond, Call, Keep, Asking
  <2>. QED BY <2>1, <1>a, <1>b DEF GateInv
<1>12. CASE ClientStep
  BY <1>12, CallGate DEF ClientStep
<1>13. CASE AskFailed \/ ParseFailed \/ SecondAnswered \/ Succeed
  BY <1>13, <1>c DEF AskFailed, ParseFailed, SecondAnswered, Succeed, Finish, Goto, Keep, Asking
<1>14. CASE FirstAnswered
  BY <1>14, <1>c DEF FirstAnswered, Goto, Keep, Asking
<1>. QED
  BY <1>1, <1>2, <1>3, <1>4, <1>5, <1>6, <1>7, <1>8, <1>9, <1>10, <1>11, <1>12, <1>13, <1>14
  DEF Next, Progress

\* Whatever the user edits and the servers redirect to, a request that is sent
\* has passed every gate, and goes to a host that an approved review of the very
\* definition in use allows.
THEOREM RequestsAreReviewed == Spec => []RequestsReviewed
<1>1. Init => GateInv
  BY DEF Init, HttpInit, GateInv, Asking
<1>2. TypesInv /\ GateInv => RequestsReviewed
  <2>. SUFFICES ASSUME TypesInv, GateInv, requests # {}
                PROVE  RequestsReviewed
    BY DEF RequestsReviewed
  <2>1. Passed /\ approved = source.hosts
    BY DEF GateInv
  <2>2. review.id = source.id
    BY <2>1 DEF Passed, PolicyAllows, GateInv
  <2>3. source.network /\ source.approved => ReviewCovers(source, review)
    BY <2>1 DEF Passed, PolicyAllows, ReviewIntegrity
  <2>4. \A u \in requests : (u.secure \/ AllowLocalHttp) /\ u.host \in source.hosts
    BY <2>1 DEF GateInv, UrlAllowed
  <2>. QED BY <2>1, <2>2, <2>3, <2>4 DEF RequestsReviewed, Passed, PolicyAllows, ReviewCovers
<1>. QED BY <1>1, <1>2, InitTypes, NextTypes, NextGate, PTL DEF Spec

-----------------------------------------------------------------------------
(* How much is asked and read. *)

CallLimit == MaxRedirects + 1

\* A call has sent one request more than it has followed redirects, once it has
\* been sent; and the second call comes on top of the first.
BudgetInv ==
    /\ hop \in {"idle", "open"} => sent = 0
    /\ command \in {"first", "parsed"} => sent <= CallLimit
    /\ command = "first" /\ hop \in {"check", "send"} => sent <= redirects
    /\ command = "second" => options.conditional /\ sent <= CallLimit + CallLimit
    /\ command = "second" /\ hop \in {"check", "send"} => sent <= CallLimit + redirects
    /\ sent <= CallLimit \/ (options # Nothing /\ options.conditional)
    /\ sent <= CallLimit + CallLimit
    /\ hop \in {"read", "answered"} => size <= MaxResponseBytes
    /\ AnswerBounded

LEMMA CallBudget ==
    ASSUME TypesInv, BudgetInv, CallStep, UNCHANGED smokeVars
    PROVE  BudgetInv'
<1>1. /\ command' = command /\ options' = options
      /\ sent \in Nat /\ redirects \in Nat /\ size \in Nat /\ MaxRedirects \in Nat
      /\ CallLimit = MaxRedirects + 1 /\ CallLimit' = CallLimit /\ MaxResponseBytes \in Nat
  BY LimitsAssumption DEF smokeVars, TypesInv, SmokeTypeOK, HttpTypeOK, CallLimit
<1>2. /\ hop \in CallHops /\ command \in {"first", "second"}
      /\ hop \in {"check", "send"} => redirects <= MaxRedirects
      /\ command = "second" => options # Nothing
  BY SmokeAssumption DEF CallStep, CheckUrl, RequestFails, RequestRedirected, RequestAnswered, ReadChunk,
         EndOfBody, Send, CallHops, TypesInv, StagesInv
<1>. HIDE DEF CallLimit
<1>3. CASE CheckUrl
  BY <1>1, <1>2, <1>3 DEF CheckUrl, Raise, BudgetInv, AnswerBounded
<1>4. CASE RequestFails
  BY <1>1, <1>2, <1>4 DEF RequestFails, Send, Raise, BudgetInv, AnswerBounded
<1>5. CASE RequestRedirected
  BY <1>1, <1>2, <1>5 DEF RequestRedirected, RedirectsLeft, Send, Raise, BudgetInv, AnswerBounded
<1>6. CASE RequestAnswered
  BY <1>1, <1>2, <1>6 DEF RequestAnswered, Send, BudgetInv, AnswerBounded
<1>7. CASE ReadChunk
  BY <1>1, <1>2, <1>7, LimitsAssumption
  DEF ReadChunk, Fits, Raise, BudgetInv, AnswerBounded, CallHops
<1>8. CASE EndOfBody
  BY <1>1, <1>2, <1>8
  DEF EndOfBody, ContentTypeAllowed, Raise, BudgetInv, AnswerBounded, CallHops
<1>. QED BY <1>3, <1>4, <1>5, <1>6, <1>7, <1>8 DEF CallStep

LEMMA NextBudget == TypesInv /\ BudgetInv /\ [Next]_vars => BudgetInv'
<1>. SUFFICES ASSUME TypesInv, BudgetInv, [Next]_vars PROVE BudgetInv'
  OBVIOUS
<1>0. /\ sent \in Nat /\ MaxRedirects \in Nat
      /\ CallLimit \in Nat /\ CallLimit' = CallLimit
  BY LimitsAssumption DEF TypesInv, SmokeTypeOK, HttpTypeOK, CallLimit
<1>. HIDE DEF CallLimit
\* A step that leaves the client and the options as they were.
<1>a. ASSUME UNCHANGED httpVars, UNCHANGED options,
             command' \in {"first", "parsed", "second"} => command' = command
      PROVE  BudgetInv'
  BY <1>a, <1>0 DEF BudgetInv, httpVars, AnswerBounded
<1>1. CASE UNCHANGED vars
  BY <1>1, <1>a DEF vars, smokeVars
<1>2. CASE EditOverrideFile \/ LoadFails \/ Load \/ ReadOverridesFails \/ GatePassed
  BY <1>2, <1>a
  DEF EditOverrideFile, LoadFails, Load, ReadOverridesFails, GatePassed, Goto, Keep
<1>3. CASE ParseOptions
  <2>1. /\ command' = "load" /\ UNCHANGED httpVars /\ sent = 0
        /\ hop = "idle"
    BY <1>3 DEF ParseOptions, Goto, Keep, TypesInv, StagesInv, BudgetInv
  <2>. QED BY <2>1, <1>0 DEF BudgetInv, httpVars, AnswerBounded
<1>4. CASE GateByPolicy \/ GateByOverride \/ PrerequisiteAbsent \/ PrerequisiteInvalid
  BY <1>4, <1>a
  DEF GateByPolicy, GateByOverride, PrerequisiteAbsent, PrerequisiteInvalid, Refuse, Finish,
      Goto, Keep
<1>5. CASE Connect
  <2>1. /\ hop = "idle" /\ hop' = "open" /\ sent' = sent /\ command' = "first"
        /\ options' = options
    BY <1>5 DEF Connect, OpenClient, Goto, Keep
  <2>. QED BY <2>1, <1>0 DEF BudgetInv, AnswerBounded
<1>6. CASE AskFirst
  <2>1. /\ hop = "open" /\ hop' = "check" /\ sent' = sent /\ command = "first"
        /\ command' = command /\ options' = options /\ redirects' = 0
    BY <1>6 DEF AskFirst, Call, Keep
  <2>. QED BY <2>1, <1>0 DEF BudgetInv, AnswerBounded
<1>7. CASE ClientStep
  BY <1>7, CallBudget DEF ClientStep
<1>8. CASE AskFailed \/ ParseFailed \/ SecondAnswered \/ Succeed
  BY <1>8, <1>a DEF AskFailed, ParseFailed, SecondAnswered, Succeed, Finish, Goto, Keep
<1>9. CASE FirstAnswered
  <2>1. /\ command = "first" /\ command' = "parsed" /\ UNCHANGED httpVars
        /\ options' = options
    BY <1>9 DEF FirstAnswered, Goto, Keep
  <2>. QED BY <2>1, <1>0 DEF BudgetInv, httpVars, AnswerBounded
<1>10. CASE AskSecond
  <2>1. /\ command = "parsed" /\ hop' = "check" /\ sent' = sent /\ redirects' = 0
        /\ command' = "second" /\ options.conditional /\ options' = options
    BY <1>10 DEF AskSecond, Call, Goto, Keep
  <2>. QED BY <2>1, <1>0 DEF BudgetInv, AnswerBounded
<1>. QED
  BY <1>1, <1>2, <1>3, <1>4, <1>5, <1>6, <1>7, <1>8, <1>9, <1>10 DEF Next, Progress

\* However the servers redirect and whatever fails, a command sends no more
\* requests than its calls times the hops of a call, and takes no body that is
\* larger than its limit.
THEOREM CallsAreBounded == Spec => []CallsBounded
<1>1. Init => BudgetInv
  BY LimitsAssumption DEF Init, HttpInit, BudgetInv, CallLimit, AnswerBounded
<1>2. TypesInv /\ BudgetInv => CallsBounded
  <2>. SUFFICES ASSUME TypesInv, BudgetInv PROVE RequestsWithinBudget /\ AnswerBounded
    BY DEF CallsBounded
  <2>1. sent \in Nat /\ MaxRedirects \in Nat /\ AnswerBounded
    BY LimitsAssumption DEF TypesInv, SmokeTypeOK, HttpTypeOK, BudgetInv
  <2>2. CASE options # Nothing /\ options.conditional
    BY <2>1, <2>2 DEF RequestsWithinBudget, BudgetInv, CallLimit
  <2>3. CASE ~(options # Nothing /\ options.conditional)
    <3>1. sent <= CallLimit
      BY <2>3 DEF BudgetInv
    <3>. QED BY <2>1, <2>3, <3>1 DEF RequestsWithinBudget, CallLimit
  <2>. QED BY <2>2, <2>3
<1>. QED BY <1>1, <1>2, InitTypes, NextTypes, NextBudget, PTL DEF Spec

-----------------------------------------------------------------------------
(* What the report says. *)

\* An answer is counted in the step after it.
Counted ==
    IF command \in {"first", "second"} /\ hop = "answered" THEN answers = requestCount + 1
    ELSE answers = requestCount

ReportInv ==
    /\ report # Nothing => command = "done"
    /\ hop = "idle" => sent = 0
    /\ answers <= sent
    /\ hop = "read" => answers < sent
    /\ Counted
    /\ command = "second" => options.conditional
    /\ command \in {"first", "parsed", "second"} /\ source.parameters =>
          config.parameters = "valid"
    /\ ReportMatchesRequests

LEMMA CallReport ==
    ASSUME TypesInv, ReportInv, CallStep, UNCHANGED smokeVars
    PROVE  ReportInv'
<1>1. /\ command' = command /\ report' = report /\ requestCount' = requestCount
      /\ UNCHANGED <<config, source, options>>
      /\ sent \in Nat /\ answers \in Nat /\ requestCount \in Nat
  BY DEF smokeVars, TypesInv, SmokeTypeOK, HttpTypeOK
<1>2. hop \in CallHops /\ hop' # "idle" /\ command \in {"first", "second"}
  BY DEF CallStep, CheckUrl, RequestFails, RequestRedirected, RequestAnswered, ReadChunk,
         EndOfBody, Send, Raise, CallHops, TypesInv, StagesInv
<1>3. report = Nothing
  BY <1>2 DEF ReportInv
<1>4. \/ sent' = sent /\ answers' = answers /\ hop' \notin {"read", "answered"}
      \/ sent' = sent /\ answers' = answers /\ hop = "read" /\ hop' = "read"
      \/ sent' = sent + 1 /\ answers' = answers /\ hop' # "answered"
      \/ sent' = sent /\ answers' = answers + 1 /\ hop = "read" /\ hop' = "answered"
  BY DEF CallStep, CheckUrl, RequestFails, RequestRedirected, RequestAnswered, ReadChunk,
         EndOfBody, Send, Raise
<1>. QED
  BY <1>1, <1>2, <1>3, <1>4 DEF ReportInv, Counted, CallHops, ReportMatchesRequests

LEMMA NextReport == TypesInv /\ ReportInv /\ [Next]_vars => ReportInv'
<1>. SUFFICES ASSUME TypesInv, ReportInv, [Next]_vars PROVE ReportInv'
  OBVIOUS
<1>0. sent \in Nat /\ answers \in Nat /\ requestCount \in Nat
  BY DEF TypesInv, SmokeTypeOK, HttpTypeOK
\* Steps before and between the calls, without a report.
<1>a. ASSUME command' # "done", report' = report, report = Nothing,
             hop' = "idle" => hop = "idle", sent' = sent, answers' = answers,
             hop' # "read", Counted',
             command' = "second" => options'.conditional,
             command' \in {"first", "parsed", "second"} /\ source'.parameters =>
                 config'.parameters = "valid"
      PROVE  ReportInv'
  BY <1>a, <1>0 DEF ReportInv, ReportMatchesRequests
\* Steps that end the command with a report.
<1>b. ASSUME command' = "done", UNCHANGED httpVars, hop # "read", answers = requestCount',
             ReportMatchesRequests'
      PROVE  ReportInv'
  <2>1. hop' = hop /\ sent' = sent /\ answers' = answers
    BY <1>b DEF httpVars
  <2>2. command' \notin {"first", "parsed", "second"} /\ answers' = requestCount'
    BY <2>1, <1>b
  <2>. QED BY <2>1, <2>2, <1>b DEF ReportInv, Counted
<1>1. CASE UNCHANGED vars
  BY <1>1 DEF vars, smokeVars, httpVars, ReportInv, Counted, ReportMatchesRequests
<1>2. CASE ParseOptions \/ LoadFails \/ Load \/ ReadOverridesFails \/ GatePassed
  <2>1. /\ command' \notin {"first", "parsed", "second", "done"} /\ UNCHANGED httpVars
        /\ command \notin {"first", "second", "done"}
        /\ report' = report /\ requestCount' = requestCount /\ hop = "idle"
    BY <1>2 DEF ParseOptions, LoadFails, Load, ReadOverridesFails, GatePassed, Goto, Keep,
                TypesInv, StagesInv, ReportInv
  <2>. QED BY <2>1, <1>0, <1>a DEF httpVars, ReportInv, Counted
<1>3. CASE EditOverrideFile
  <2>1. /\ command \in {"parse", "load", "gate"} /\ UNCHANGED httpVars /\ hop = "idle"
        /\ command' = command /\ report' = report /\ requestCount' = requestCount
    BY <1>3 DEF EditOverrideFile, TypesInv, StagesInv
  <2>. QED BY <2>1, <1>0, <1>a DEF httpVars, ReportInv, Counted
\* A gate that is closed, before anything is sent.
<1>4. CASE GateByPolicy \/ GateByOverride \/ PrerequisiteAbsent
  <2>1. /\ command \in {"gate", "prepare"} /\ hop = "idle" /\ UNCHANGED httpVars
        /\ command' = "done" /\ requestCount = 0 /\ requestCount' = requestCount
        /\ report'.kind \in {"policy_blocked", "disabled", "missing_prerequisite"}
        /\ report'.requests = 0 /\ report'.status = "none"
    BY <1>4
    DEF GateByPolicy, GateByOverride, PrerequisiteAbsent, Refuse, Finish, Result, Goto, Keep,
        TypesInv, StagesInv
  <2>2. sent = 0 /\ answers = 0
    BY <2>1, <1>0 DEF ReportInv, Counted
  <2>. QED BY <2>1, <2>2, <1>b DEF httpVars, ReportMatchesRequests
<1>5. CASE PrerequisiteInvalid
  <2>1. /\ command = "prepare" /\ hop = "idle" /\ UNCHANGED httpVars
        /\ source'.parameters /\ config'.parameters = "invalid"
        /\ command' = "done" /\ requestCount = 0 /\ requestCount' = requestCount
        /\ report'.kind = "parse_failure" /\ report'.requests = 1 /\ report'.status = "none"
    BY <1>5 DEF PrerequisiteInvalid, Finish, Result, Goto, Keep, TypesInv, StagesInv
  <2>2. sent = 0 /\ answers = 0
    BY <2>1, <1>0 DEF ReportInv, Counted
  <2>. QED BY <2>1, <2>2, <1>b DEF httpVars, ReportMatchesRequests
<1>6. CASE Connect
  <2>1. /\ hop = "idle" /\ hop' = "open" /\ sent' = sent /\ answers' = answers
        /\ command' = "first" /\ command = "prepare"
        /\ report' = report /\ requestCount' = requestCount
        /\ source.parameters => config.parameters = "valid"
        /\ UNCHANGED <<config, source, options>>
    BY <1>6 DEF Connect, OpenClient, Goto, Keep
  <2>. QED BY <2>1, <1>0, <1>a DEF ReportInv, Counted
<1>7. CASE AskFirst
  <2>1. /\ hop = "open" /\ hop' = "check" /\ sent' = sent /\ answers' = answers
        /\ command' = "first" /\ command = "first"
        /\ report' = report /\ requestCount' = requestCount
        /\ UNCHANGED <<config, source, options>>
    BY <1>7 DEF AskFirst, Call, Keep
  <2>. QED BY <2>1, <1>0, <1>a DEF ReportInv, Counted
<1>8. CASE ClientStep
  BY <1>8, CallReport DEF ClientStep
\* The network fails: nothing is counted that was not answered.
<1>9. CASE AskFailed
  <2>1. /\ command \in {"first", "second"} /\ hop = "failed" /\ UNCHANGED httpVars
        /\ source \in Definitions /\ UNCHANGED <<source, options, requestCount>>
        /\ command' = "done" /\ report'.kind = "network_failure"
        /\ report'.requests = requestCount /\ report'.status = "none"
        /\ command = "first" => requestCount = 0
        /\ command = "second" => requestCount = 1 /\ options.conditional
    BY <1>9 DEF AskFailed, Finish, Result, Goto, Keep, TypesInv, StagesInv, Asking, ReportInv
  <2>2. answers = requestCount /\ answers <= sent
    BY <2>1, <1>0 DEF ReportInv, Counted
  <2>. QED BY <2>1, <2>2, <1>b DEF httpVars, ReportMatchesRequests
<1>10. CASE FirstAnswered
  <2>1. /\ command = "first" /\ command' = "parsed" /\ UNCHANGED httpVars
        /\ report' = report /\ hop = "answered" /\ requestCount' = requestCount + 1
        /\ UNCHANGED <<config, source, options>>
    BY <1>10 DEF FirstAnswered, Goto, Keep
  <2>. QED BY <2>1, <1>0, <1>a DEF ReportInv, Counted, httpVars
\* The first reply is there: what it holds does not parse, or the command is done.
<1>11. CASE ParseFailed \/ Succeed
  <2>1. /\ command = "parsed" /\ hop = "answered" /\ UNCHANGED httpVars
        /\ requestCount = 1 /\ requestCount' = requestCount /\ firstStatus # "none"
        /\ command' = "done" /\ report'.requests = 1
        /\ \/ report'.kind = "parse_failure" /\ report'.status = "none"
           \/ report'.kind \in {"success", "no_change"} /\ report'.status = firstStatus
    BY <1>11 DEF ParseFailed, Succeed, Finish, Result, Goto, Keep, TypesInv, StagesInv
  <2>2. answers = 1 /\ answers <= sent
    BY <2>1, <1>0 DEF ReportInv, Counted
  <2>3. ~(source'.parameters /\ config'.parameters = "invalid")
    BY <1>11 DEF ParseFailed, Succeed, Keep, ReportInv
  <2>. QED BY <2>1, <2>2, <2>3, <1>0, <1>b DEF httpVars, ReportMatchesRequests
<1>12. CASE AskSecond
  <2>1. /\ command = "parsed" /\ command' = "second" /\ hop' = "check" /\ sent' = sent
        /\ answers' = answers /\ UNCHANGED <<config, source, options>>
        /\ options.conditional
        /\ report' = report /\ requestCount' = requestCount
    BY <1>12 DEF AskSecond, Call, Goto, Keep
  <2>. QED BY <2>1, <1>0, <1>a DEF ReportInv, Counted
<1>13. CASE SecondAnswered
  <2>1. /\ command = "second" /\ hop = "answered" /\ requestCount = 1
        /\ requestCount' = requestCount + 1 /\ options' = options
        /\ firstStatus # "none" /\ UNCHANGED httpVars /\ command' = "done"
        /\ report'.kind = "success" /\ report'.requests = 2
        /\ report'.status = firstStatus
    BY <1>13 DEF SecondAnswered, Finish, Result, Goto, Keep, TypesInv, StagesInv
  <2>2. answers = 2 /\ answers <= sent /\ options.conditional
    BY <2>1, <1>0 DEF ReportInv, Counted
  <2>. QED BY <2>1, <2>2, <1>0, <1>b DEF httpVars, ReportMatchesRequests
<1>. QED
  BY <1>1, <1>2, <1>3, <1>4, <1>5, <1>6, <1>7, <1>8, <1>9, <1>10, <1>11, <1>12, <1>13
  DEF Next, Progress

\* Whatever is answered, fails or does not parse, the report counts the calls
\* that were answered (but for a parameter that does not normalize, which is
\* counted as one), and what it says of gates, failures and statuses is so.
THEOREM ReportsMatch == Spec => []ReportMatchesRequests
<1>1. Init => ReportInv
  BY DEF Init, HttpInit, ReportInv, Counted, ReportMatchesRequests
<1>2. ReportInv => ReportMatchesRequests
  BY DEF ReportInv
<1>. QED BY <1>1, <1>2, InitTypes, NextTypes, NextReport, PTL DEF Spec
=============================================================================
