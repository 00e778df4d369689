------------------------------ MODULE MCLiveSmoke ------------------------------
(***************************************************************************)
(* A small instance of LiveSmoke: one feed and one source with parameters, *)
(* three hosts of which a review covers two, and committed files with      *)
(* what can be wrong about a definition, a review and an override.         *)
(***************************************************************************)
EXTENDS LiveSmoke

CONSTANTS feed, sec, home, mirror, elsewhere

MCSourceIds == {feed, sec}
MCHosts == {home, mirror, elsewhere}

Feed == [id |-> feed, network |-> TRUE, approved |-> TRUE, enabled |-> FALSE,
         reviewer |-> TRUE, endpoint |-> home, hosts |-> {home, mirror},
         parameters |-> FALSE, evidence |-> feed]
Sec == [Feed EXCEPT !.id = sec, !.hosts = {home}, !.parameters = TRUE,
                    !.evidence = sec]
Pending == [Feed EXCEPT !.approved = FALSE]

MCDefinitions == {{Feed, Sec}, {Pending}, {[Feed EXCEPT !.endpoint = elsewhere]}}

ReviewOf(d) == [id |-> d.id, decision |-> "approved", hosts |-> d.hosts,
                patterns |-> {d.endpoint}, digest |-> SourceConfigDigest(d)]

\* Reviews in force; of a definition that has since gained a host; suspended.
MCReviews == {
    {ReviewOf(Feed), ReviewOf(Sec)},
    {ReviewOf([Feed EXCEPT !.hosts = {home}])},
    {[ReviewOf(Feed) EXCEPT !.decision = "suspended"]}}

Enable(s) == [source |-> s, enabled |-> TRUE]
Disable(s) == [source |-> s, enabled |-> FALSE]

MCOverrideFiles == {
    NoFile, MalformedFile,
    ListFile(<<Enable(feed), Enable(sec)>>),
    ListFile(<<Disable(feed), Enable(feed)>>)}
=============================================================================
