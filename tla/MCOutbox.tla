------------------------------ MODULE MCOutbox ------------------------------
(***************************************************************************)
(* Instances of Outbox for TLC.                                            *)
(***************************************************************************)
EXTENDS Outbox

Event(h) == [to |-> h, grant |-> FALSE]
Grant(h) == [to |-> h, grant |-> TRUE]

\* One federate, batches closed early by grants at every place.
EverySend == Delivery
EveryBatch == UNION {[1..k -> Delivery] : k \in 1..3}

\* Two federates, reserved together in either order.
NoSend == {}
Pairs == {<<Event(1), Event(2)>>, <<Event(2), Grant(1)>>}
=============================================================================
