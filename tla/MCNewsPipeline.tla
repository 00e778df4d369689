----------------------------- MODULE MCNewsPipeline -----------------------------
(***************************************************************************)
(* A small instance of NewsPipeline: two sources and five texts, of which  *)
(* c2 resembles c1 and c3, and w1 and w2 have no word in them.             *)
(***************************************************************************)
EXTENDS NewsPipeline

CONSTANTS s1, s2, a1, a2, c1, c2, c3, w1, w2

MCSources == {s1, s2}
MCArticleIds == {a1, a2}
MCContents == {c1, c2, c3, w1, w2}
MCWordless == {w1, w2}
MCPages == MCContents \cup {None}

\* Every text has its page; a corrected summary leaves it as it is.
Corrected(s, a, c, page, p) ==
    [source |-> s, id |-> a, page |-> page, content |-> c, published |-> p]
Obs(s, a, c, p) == Corrected(s, a, c, c, p)

MCRecords == {
    Obs(s1, a1, c1, 1),
    Obs(s2, a2, c1, 1),       \* a copy of c1
    Obs(s1, a2, c2, 2),       \* resembles c1 and c3
    Obs(s2, None, c2, 2),     \* a copy of it, without identifier
    Corrected(s2, None, c3, c2, 2),  \* another summary on the page of the copy
    Obs(s1, a1, c3, 3),       \* a new text under a known identifier
    Obs(s2, a1, c3, 3),       \* the same identifier in another source
    Obs(s1, None, w1, 9),     \* outside the window of the others
    Obs(s2, None, w2, 9),
    Obs(s1, None, None, 1),   \* malformed, without identifier
    Obs(s2, a2, None, 1)}     \* malformed, with one

Resemble == {<<c1, c2>>, <<c2, c1>>}
Alike == {<<c2, c3>>, <<c3, c2>>}

MCSimilarity ==
    [p \in MCContents \X MCContents |->
        IF p[1] = p[2] THEN 10 ELSE IF p \in Resemble THEN 8
                       ELSE IF p \in Alike THEN 9 ELSE 0]
=============================================================================
