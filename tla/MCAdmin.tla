-------------------------------- MODULE MCAdmin --------------------------------
(* A small instance of Admin for TLC. *)
EXTENDS Admin

CONSTANTS btc, plain, fine  \* a ticker and two configurations of it

MCSeed == [t \in Symbols |-> plain]
================================================================================
