------------------------------ MODULE SubRegistry ------------------------------
(***************************************************************************)
(* What the browser's WsClient promises the charts, without sockets,       *)
(* commands in flight or timers: a set of wanted subscriptions, and while  *)
(* the link is up exactly that set has been asked for over it.  What the   *)
(* server makes of a request is its own.  LiveFeed implements this.        *)
(***************************************************************************)
CONSTANT Keys  \* subscription keys, symbol:market:tf:compression

VARIABLES
    want,  \* the subscriptions the charts asked for
    have,  \* the ones asked for over the link there is
    link   \* is there a connection

vars == <<want, have, link>>

Init ==
    /\ want \in SUBSET Keys
    /\ have = {}
    /\ link = FALSE

\* A chart leaves one key for another, at once on both sides of a live link.
Change(old, new) ==
    /\ want' = (want \ {old}) \union {new}
    /\ have' = IF link THEN (have \ {old}) \union {new} ELSE have
    /\ UNCHANGED link

\* A new connection starts from nothing and is given everything wanted.
Up ==
    /\ ~link
    /\ link' = TRUE
    /\ have' = want
    /\ UNCHANGED want

\* A lost connection takes its subscriptions with it.
Down ==
    /\ link
    /\ link' = FALSE
    /\ have' = {}
    /\ UNCHANGED want

Next ==
    \/ \E old, new \in Keys : Change(old, new)
    \/ Up
    \/ Down

Spec == Init /\ [][Next]_vars /\ WF_vars(Up)
================================================================================
