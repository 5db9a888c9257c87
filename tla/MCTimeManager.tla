--------------------------- MODULE MCTimeManager ---------------------------
(***************************************************************************)
(* Instances of TimeManager for TLC.                                       *)
(***************************************************************************)
EXTENDS TimeProperties

Engaged(S) == [Handles -> S]
Both(las) == [reg : {TRUE}, con : {TRUE}, la : las]

\* Every federate regulates and is constrained.
AllEngaged0 == Engaged(Both({0}))
AllEngaged02 == {p \in Engaged(Both({0, 2})) : \A h \in Handles \ {1} : p[h].la = 0}

\* Nobody has asked for anything yet.
Unengaged == Engaged([reg : {FALSE}, con : {FALSE}, la : {0}])

\* Federate 1 regulates, the others are constrained.
OneWay == {[h \in Handles |-> [reg |-> h = 1, con |-> h # 1, la |-> 0]]}

\* The last federate regulates, the others are constrained.
LastRegulates == {[h \in Handles |-> [reg |-> h = N, con |-> h # N, la |-> 0]]}

\* 1 regulates and is constrained, 2 is constrained, 3 regulates.
Chain == {[h \in Handles |-> [reg |-> h # 2, con |-> h # 3, la |-> 0]]}

Threes == AllEngaged0 \cup Chain

\* 1 is constrained, 2 regulates and is constrained, 3 regulates.
LateRegulator == {[h \in Handles |-> [reg |-> h # 1, con |-> h # 3, la |-> IF h = 3 THEN 1 ELSE 0]]}

\* Who calls which advance service.
MixedModes == [h \in Handles |-> IF h = 1 THEN {"NER", "TARA", "FQR"} ELSE {"TAR", "NMRA", "FQR"}]
TARModes == [h \in Handles |-> {"TAR"}]
NextOrFlush == [h \in Handles |-> {"NMRA", "FQR"}]
OthersAdvance == [h \in Handles |-> CASE h = 1 -> {} [] h = 2 -> {"NER", "TAR"} [] OTHER -> {"TAR"}]
LateModes == [h \in Handles |-> CASE h = 1 -> {"TAR"} [] h = 2 -> {"NMRA"} [] OTHER -> {}]
SenderModes == [h \in Handles |-> IF h = 1 THEN {"TAR"} ELSE {}]
ReceiverModes == [h \in Handles |-> IF h = 1 THEN {"TAR"} ELSE {"NER", "TAR", "FQR"}]
=============================================================================
