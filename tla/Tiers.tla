--------------------------------- MODULE Tiers ---------------------------------
(***************************************************************************)
(* The subscription tiers of the terminal and what each allows             *)
(* (frontend-chart/src/lib/tierLimits.ts).  The settings are the defaults  *)
(* of the file merged with what localStorage holds under                   *)
(* procluster_tier_settings, hence a parameter.                            *)
(***************************************************************************)
EXTENDS Naturals

CONSTANTS
    Roles,    \* the tiers in use, among Guest, Free, Pro, VIP and Admin
    Settings  \* what the merged settings say of each tier

ASSUME TiersAssumption ==
    /\ Roles \subseteq {"Guest", "Free", "Pro", "VIP", "Admin"}
    /\ Settings \in [Roles -> [maxIndicators : Nat, compressionLevels : Nat,
                               workspacesCount : Nat]]

VARIABLE role  \* userRole, the tier in force

(* compressionLevels is brought into 1 .. 6, whatever the settings say. *)
Clamped(n) == IF n < 1 THEN 1 ELSE IF n > 6 THEN 6 ELSE n

(* getActiveGroupLimits for a role that is given or stored. *)
LimitsOf(r) == [Settings[r] EXCEPT !.compressionLevels = Clamped(@)]
================================================================================
