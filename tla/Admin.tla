--------------------------------- MODULE Admin ---------------------------------
(***************************************************************************)
(* The administrator's page and the server behind it: loading history      *)
(* (HistoryLoad) and the ticker registry (Tickers).                        *)
(*                                                                         *)
(* Neither writes a variable of the other.  They meet in three places: the *)
(* page is mounted and the server restarts for both at once, which each    *)
(* may do at any time by itself; and a load is refused for a ticker that   *)
(* is not in the handlers' list, which is one of the refusals of PostFails. *)
(* So a behaviour of the whole is one of each, and a property of one holds *)
(* of the whole if it holds while the other stands still.  part says which *)
(* one moves.                                                              *)
(***************************************************************************)
EXTENDS HistoryLoad, Tickers

VARIABLE part  \* one of Parts

Parts == {"history", "tickers"}

vars == <<part, historyVars, tickerVars>>

AdminTypeOK == part \in Parts /\ HistoryTypeOK /\ TickersTypeOK

Init == part \in Parts /\ HistoryInit /\ TickersInit

Next ==
    /\ UNCHANGED part
    /\ \/ part = "history" /\ HistoryNext /\ UNCHANGED tickerVars
       \/ part = "tickers" /\ TickersNext /\ UNCHANGED historyVars

Spec == Init /\ [][Next]_vars /\ HistoryFairness
================================================================================
