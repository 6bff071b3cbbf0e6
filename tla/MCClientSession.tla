-------------------------- MODULE MCClientSession --------------------------
(* A ClientHello for ClientSession. *)
EXTENDS ClientSession

\* Longer than one chunk, and not a multiple of it.
MCHello == <<1, 2, 3>>
=============================================================================
