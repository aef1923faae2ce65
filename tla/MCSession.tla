------------------------------- MODULE MCSession -------------------------------
(***************************************************************************)
(* A small instance of PaperTrading and of Account for TLC.  The browser   *)
(* keeps the simulator's account and the user's side by side, and neither  *)
(* reads or writes what the other keeps: a behaviour of the two is one of  *)
(* each, and one moves while the other stands still.                       *)
(***************************************************************************)
EXTENDS PaperTrading, Account

CONSTANT btc  \* the one pair of EMPTY_PAIRS

(* What a tier allows plays no part here. *)
MCSettings ==
    [r \in Roles |-> [maxIndicators |-> 1, compressionLevels |-> 1, workspacesCount |-> 1]]

VARIABLE moving  \* "simulator" or "account"

BothInit == Init /\ AccountInit /\ moving \in {"simulator", "account"}

BothNext ==
    /\ UNCHANGED moving
    /\ \/ moving = "simulator" /\ Next /\ UNCHANGED accountVars
       \/ moving = "account" /\ AccountNext /\ UNCHANGED vars

BothSpec == BothInit /\ [][BothNext]_<<vars, accountVars, moving>>
================================================================================
