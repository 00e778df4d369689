--------------------------- MODULE CanonicalRegister ---------------------------
(***************************************************************************)
(* What deduplication promises about texts: each text the system knows has *)
(* one canonical text, itself or another, chosen when it is first seen and *)
(* never changed; a canonical text is its own canonical text.              *)
(***************************************************************************)
CONSTANTS Texts, Unknown

VARIABLE canonical   \* canonical[t]: Unknown, or the text that stands for t

IsCanonical(t) == canonical[t] = t

Init == canonical = [t \in Texts |-> Unknown]

\* A text nothing known resembles stands for itself.
Register(t) ==
    /\ canonical[t] = Unknown
    /\ canonical' = [canonical EXCEPT ![t] = t]

\* A text that resembles a canonical one is represented by it.
Represent(t, u) ==
    /\ canonical[t] = Unknown
    /\ IsCanonical(u)
    /\ canonical' = [canonical EXCEPT ![t] = u]

Next == \E t \in Texts : Register(t) \/ \E u \in Texts : Represent(t, u)

Spec == Init /\ [][Next]_canonical
=============================================================================
