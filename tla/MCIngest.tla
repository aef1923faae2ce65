------------------------------- MODULE MCIngest -------------------------------
(* Small instances of Ingest for TLC. *)
EXTENDS Ingest

\* One timeframe whose candles last one clock unit; two, the second twice as long.
OnePeriod  == <<1>>
TwoPeriods == <<1, 2>>
===============================================================================
