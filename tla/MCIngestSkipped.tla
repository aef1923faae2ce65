---------------------------- MODULE MCIngestSkipped ----------------------------
(* Ingest watched for the trades of one lost connection. *)
EXTENDS MCIngest

VARIABLES
    before,  \* history: the trades each timeframe had counted when the connection was lost
    missed,  \* history: the trades that were lost with it, or issued while it was down
    after    \* history: the trades issued to the connection that followed

watch == <<before, missed, after>>

WatchInit == Init /\ before = [tf \in Timeframes |-> {}] /\ missed = {} /\ after = {}

Issued == DOMAIN tradeTime' \ DOMAIN tradeTime

WatchNext ==
    /\ Next
    /\ \/ /\ online /\ ~online'
          /\ before' = [tf \in Timeframes |-> {id \in TradeIds : added[tf][id] > 0}]
          /\ missed' = missed \cup wire
          /\ UNCHANGED after
       \/ /\ ~(online /\ ~online')
          /\ missed' = IF troubles > 0 /\ ~online THEN missed \cup Issued ELSE missed
          /\ after' = IF troubles > 0 /\ online THEN after \cup Issued ELSE after
          /\ UNCHANGED before

WatchSpec == WatchInit /\ [][WatchNext]_<<vars, watch>>

\* What docs/01 section 3 says of a reconnect: the trades missed meanwhile are fetched by id.
\* Between a trade that was counted before the connection was lost and one that came over the
\* next connection and was counted, no trade that was missed is left out.
NoTradeSkipped ==
    wpc = "read" =>
        \A tf \in Timeframes : \A h \in before[tf], i \in missed, j \in after :
            (h < i /\ i < j /\ added[tf][j] > 0) => added[tf][i] > 0
================================================================================
