----------------------------- MODULE PackageStore -----------------------------
(***************************************************************************)
(* What the export of research packages promises about its directories: a  *)
(* package appears in a directory whole, and stays there as it is.         *)
(***************************************************************************)
CONSTANTS Outputs, Packages, NoPackage

VARIABLE published   \* what each directory holds

StoreInit == published = [o \in Outputs |-> NoPackage]

Publish(o, p) ==
    /\ published[o] = NoPackage
    /\ published' = [published EXCEPT ![o] = p]

StoreNext == \E o \in Outputs, p \in Packages : Publish(o, p)

StoreSpec == StoreInit /\ [][StoreNext]_published
=============================================================================
