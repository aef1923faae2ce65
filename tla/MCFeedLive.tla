------------------------------- MODULE MCFeedLive -------------------------------
(***************************************************************************)
(* LiveFeed for TLC under fairness, in two aspects of which a behaviour    *)
(* has one: many changes of settings and losses while no candle comes and  *)
(* no request is answered; or few of them, with everything the market, the *)
(* server and the charts do.  The hub stops in the first only: in the      *)
(* second LiveCandleShown would ask for nothing from there on.             *)
(***************************************************************************)
EXTENDS MCLiveFeed

CONSTANTS FewSwitches, FewTroubles, FewKeys  \* bounds of the second aspect

VARIABLE aspect  \* "keys" or "candles"

AspectInit == Init /\ aspect \in {"keys", "candles"}

AspectNext ==
    /\ UNCHANGED aspect
    /\ \/ /\ aspect = "keys"
          /\ \/ OnOpen \/ OnClose \/ Reconnect \/ Break \/ ServerRead \/ HubStops
             \/ \E c \in Charts, k \in Keys : SwitchKey(c, k)
       \/ /\ aspect = "candles"
          /\ Next
          /\ hub' /\ key' \in [Charts -> FewKeys]
          /\ switches' <= FewSwitches /\ troubles' <= FewTroubles

AspectSpec == AspectInit /\ [][AspectNext]_<<vars, aspect>> /\ Fairness
================================================================================
