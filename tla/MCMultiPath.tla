---------------------------- MODULE MCMultiPath ----------------------------
(* Session names for MultiPath. *)
EXTENDS MultiPath

CONSTANT Slot  \* as many session names per server as there are handlers

\* A session is named by its server and a slot.
MCSessionId == Server \X Slot
MCServerOf == [s \in Server \X Slot |-> s[1]]
=============================================================================
