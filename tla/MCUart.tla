------------------------------- MODULE MCUart -------------------------------
(* Two UARTs, served in turn. *)
EXTENDS BufferedUart

MCTurn == [u0 |-> "u1", u1 |-> "u0"]
=============================================================================
