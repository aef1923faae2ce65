------------------------------- MODULE MCWsHub -------------------------------
(* Small instances of WsHub for TLC. *)
EXTENDS WsHub

CONSTANTS c1, c2        \* connections
CONSTANTS ip, loopback  \* addresses
===============================================================================
