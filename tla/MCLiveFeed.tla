------------------------------- MODULE MCLiveFeed -------------------------------
(* Small instances of LiveFeed for TLC. *)
EXTENDS LiveFeed

CONSTANTS k1, k2, k3  \* subscription keys

\* Both charts start on the first pair of the list.
SameKey == [c \in Charts |-> k1]
\* One series in two compressions.
OneSeries == [k \in Keys |-> "series"]
================================================================================
