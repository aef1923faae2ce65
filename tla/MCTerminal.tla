------------------------------- MODULE MCTerminal -------------------------------
(* A small instance of Terminal for TLC. *)
EXTENDS Terminal, TLC

CONSTANTS btc, eth  \* pairs
CONSTANTS auto, clear  \* styles
CONSTANTS delta, clusters  \* indicators
CONSTANTS plain, custom  \* settings
CONSTANTS d1, d2  \* drawings

(* Nothing tells one drawing from another. *)
MCSymmetry == Permutations(Ids)

MCOrder == <<delta, clusters>>

(* The levels and workspaces of the code for these tiers; as an administrator may set it, *)
(* fewer indicators, so that a tier can be at its limit. *)
MCSettings ==
    [Guest |-> [maxIndicators |-> 1, compressionLevels |-> 1, workspacesCount |-> 1],
     Pro   |-> [maxIndicators |-> 2, compressionLevels |-> 2, workspacesCount |-> 2]]
================================================================================
