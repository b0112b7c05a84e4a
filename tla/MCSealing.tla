------------------------------ MODULE MCSealing ----------------------------
(* A small instance of Sealing for TLC: two sources of two streams. *)
EXTENDS Sealing

LastConn == {Dialed + Extra - 1}
============================================================================
