------------------------------- MODULE HttpClient -------------------------------
(***************************************************************************)
(* One client for one source, infrastructure/http/client.py: redirects are *)
(* followed by hand, every URL is checked before a request is sent to it,  *)
(* and the body of the last reply is measured and its type checked before  *)
(* it is handed over.                                                      *)
(*                                                                         *)
(* A URL is its scheme and its host.  What a host name resolves to, what a *)
(* server replies and when a request fails are the environment's.  The     *)
(* connection resolves the name again: the model promises nothing of the   *)
(* address a request really reaches.                                       *)
(***************************************************************************)
EXTENDS Integers

CONSTANTS
    Hosts, NoHost,       \* NoHost: a URL without a hostname
    MaxRedirects,        \* redirects followed before the call is given up
    MaxResponseBytes,    \* max_response_bytes of the source
    ChunkSizes,          \* sizes a piece of a body may have
    AllowLocalHttp       \* allow_local_http_for_tests

Urls == [secure : BOOLEAN, host : Hosts \cup {NoHost}]

ASSUME HostsAssumption == NoHost \notin Hosts

ASSUME LimitsAssumption ==
    /\ MaxRedirects \in Nat /\ MaxResponseBytes \in Nat
    /\ ChunkSizes \subseteq Nat \ {0} /\ AllowLocalHttp \in BOOLEAN

NoUrl == [secure |-> FALSE, host |-> NoHost]

\* What became of a call; "none" while there is none to tell.
Failures == {"policy_blocked", "dns_or_destination_blocked", "timeout",
             "connection", "unknown", "oversized_response", "content_type"}
Statuses == {"ok", "not_modified", "error"}

VARIABLES
    approved,      \* approved_hostnames of the source
    hop,           \* where the call is
    url,           \* the URL of the next request
    redirects,     \* redirects of this call
    reply,         \* status and content type of the reply being read
    size,          \* bytes of the body read so far
    failure,       \* the error the last call was ended by
    requests,      \* the URLs requests were sent to
    sent,          \* how many requests were sent
    answers        \* how many calls were answered

httpVars == <<approved, hop, url, redirects, reply, size, failure,
              requests, sent, answers>>

NoReply == [status |-> "ok", type |-> "missing"]
Replies == [status : Statuses, type : {"accepted", "other", "missing"}]

HttpInit ==
    /\ approved = {} /\ hop = "idle" /\ url = NoUrl /\ redirects = 0
    /\ reply = NoReply /\ size = 0 /\ failure = "none"
    /\ requests = {} /\ sent = 0 /\ answers = 0

-----------------------------------------------------------------------------
\* BoundedSourceHttpClient(source).
OpenClient(hosts) ==
    /\ hop = "idle"
    /\ approved' = hosts
    /\ hop' = "open"
    /\ UNCHANGED <<url, redirects, reply, size, failure, requests, sent, answers>>

\* get or post: the call starts over with its own count of redirects.
Call(target) ==
    /\ hop \in {"open", "answered", "failed"}
    /\ hop' = "check" /\ url' = target /\ redirects' = 0
    /\ reply' = NoReply /\ size' = 0 /\ failure' = "none"
    /\ UNCHANGED <<approved, requests, sent, answers>>

Raise(category) == hop' = "failed" /\ failure' = category

\* Mutant: only the URL the call was made with is checked.
UrlAllowedAtFirst(u) ==
    \/ redirects > 0
    \/ (u.secure \/ AllowLocalHttp) /\ u.host \in approved

UrlAllowed(u) ==
    /\ u.secure \/ AllowLocalHttp
    /\ u.host # NoHost
    /\ u.host \in approved

\* Every address a name resolves to must be public, and there must be one.
DestinationAllowed(addresses) ==
    AllowLocalHttp \/ addresses = {"public"}

CheckUrl ==
    /\ hop = "check"
    /\ \E addresses \in SUBSET {"public", "blocked"} :
          \/ /\ ~UrlAllowed(url)
             /\ Raise("policy_blocked")
          \/ /\ UrlAllowed(url) /\ ~DestinationAllowed(addresses)
             /\ Raise("dns_or_destination_blocked")
          \/ /\ UrlAllowed(url) /\ DestinationAllowed(addresses)
             /\ hop' = "send" /\ UNCHANGED failure
    /\ UNCHANGED <<approved, url, redirects, reply, size, requests, sent, answers>>

Send ==
    /\ hop = "send"
    /\ requests' = requests \cup {url}
    /\ sent' = sent + 1
    /\ UNCHANGED answers

RequestFails ==
    /\ Send
    /\ \E category \in {"timeout", "connection", "unknown"} : Raise(category)
    /\ UNCHANGED <<approved, url, redirects, reply, size>>

\* Mutant: the limit is compared before the redirect is counted.
RedirectsLeftBefore == redirects <= MaxRedirects

RedirectsLeft == redirects + 1 <= MaxRedirects

\* A redirect without location, or one too many, is an error.
RequestRedirected ==
    /\ Send
    /\ redirects' = redirects + 1
    /\ \/ ~RedirectsLeft /\ Raise("policy_blocked") /\ UNCHANGED url
       \/ RedirectsLeft /\ Raise("policy_blocked") /\ UNCHANGED url
       \/ /\ RedirectsLeft
          /\ url' \in Urls
          /\ hop' = "check" /\ UNCHANGED failure
    /\ UNCHANGED <<approved, reply, size>>

RequestAnswered ==
    /\ Send
    /\ reply' \in Replies
    /\ hop' = "read" /\ size' = 0
    /\ UNCHANGED <<approved, url, redirects, failure>>

Fits(chunk) == size + chunk <= MaxResponseBytes

\* The chunk that goes over the limit ends the call.
ReadChunk ==
    /\ hop = "read"
    /\ \E chunk \in ChunkSizes :
          /\ size' = size + chunk
          /\ \/ Fits(chunk) /\ UNCHANGED <<hop, failure>>
             \/ ~Fits(chunk) /\ Raise("oversized_response")
    /\ UNCHANGED <<approved, url, redirects, reply, requests, sent, answers>>

ContentTypeAllowed == reply.status = "not_modified" \/ reply.type = "accepted"

EndOfBody ==
    /\ hop = "read"
    /\ \/ /\ ContentTypeAllowed
          /\ hop' = "answered" /\ answers' = answers + 1 /\ UNCHANGED failure
       \/ ~ContentTypeAllowed /\ Raise("content_type") /\ UNCHANGED answers
    /\ UNCHANGED <<approved, url, redirects, reply, size, requests, sent>>

\* The steps of a call that is under way.
CallStep ==
    \/ CheckUrl
    \/ RequestFails \/ RequestRedirected \/ RequestAnswered
    \/ ReadChunk \/ EndOfBody

HttpNext ==
    \/ \E hosts \in SUBSET Hosts : OpenClient(hosts)
    \/ \E target \in Urls : Call(target)
    \/ CallStep

HttpSpec == HttpInit /\ [][HttpNext]_httpVars

-----------------------------------------------------------------------------
(* Properties                                                              *)

\* Every variable of the client holds values of its kind.
HttpTypeOK ==
    /\ approved \subseteq Hosts
    /\ hop \in {"idle", "open", "check", "send", "read", "answered", "failed"}
    /\ url \in Urls
    /\ redirects \in 0 .. MaxRedirects + 1
    /\ reply \in Replies
    /\ size \in Nat
    /\ failure \in Failures \cup {"none"}
    /\ requests \subseteq Urls /\ sent \in Nat /\ answers \in Nat

\* What is handed over is no larger than the limit, to the byte, and of an
\* accepted type unless it is a 304.
AnswerBounded ==
    hop = "answered" =>
        /\ size <= MaxResponseBytes
        /\ reply.type = "accepted" \/ reply.status = "not_modified"
=============================================================================
