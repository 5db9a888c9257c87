--------------------------- MODULE MCSaveRestore ---------------------------
(***************************************************************************)
(* Instances of SaveRestore for TLC.                                       *)
(***************************************************************************)
EXTENDS SaveRestore

\* Saves that replace each other, within one execution; restores across two.
Saves == [kinds |-> BOOLEAN, requests |-> 2, handles |-> 2, generations |-> 1, losses |-> TRUE]
Restarts == [kinds |-> {FALSE}, requests |-> 1, handles |-> 4, generations |-> 2, losses |-> FALSE]
SavesAndRestarts == {Saves, Restarts}
=============================================================================
