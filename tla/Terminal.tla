-------------------------------- MODULE Terminal --------------------------------
(***************************************************************************)
(* The terminal page of App.tsx: the two charts with their toolbar         *)
(* (Workspace) and the indicators (Indicators), under a tier that the      *)
(* account (module Account) changes at any time, and page reloads; what    *)
(* the mouse does to a chart (ChartView); and the volume profile the chart *)
(* draws (RangeProfile).                                                   *)
(*                                                                         *)
(* What the parts have in common is the tier, which changes freely, and    *)
(* the pair of the first chart, which Workspace writes and ChartView       *)
(* reads; as long as the chart has no candles it does nothing with it.     *)
(* Apart from that none writes a variable of another.  So a behaviour of   *)
(* the page is one of each of the four with stuttering steps between, and  *)
(* a property of one of them holds of the page if it holds while the       *)
(* others stand still, and the pair moves with the chart.                  *)
(* part says which one moves.                                              *)
(***************************************************************************)
EXTENDS Indicators, ChartView, RangeProfile

VARIABLE part  \* one of Parts

Parts == {"workspace", "indicators", "chart", "profile"}

pageVars == <<role, workspaceVars, modalVars>>
vars == <<part, pageVars, chartVars, profileVars>>

TypeOK ==
    /\ part \in Parts
    /\ role \in Roles /\ WorkspaceTypeOK /\ ModalTypeOK
    /\ ChartTypeOK /\ ProfileTypeOK

(* A part that stands still needs one initial state only. *)
Init ==
    /\ part \in Parts
    /\ role \in Roles /\ WorkspaceInit /\ ModalInit
    /\ ChartInit /\ ProfileInit
    /\ part \notin {"workspace", "indicators"} => role = CHOOSE r \in Roles : TRUE
    /\ part # "workspace" =>
         /\ chart[0].symbol = CHOOSE y \in Symbols : TRUE
         /\ chart[0].style = CHOOSE y \in Styles : TRUE
    /\ part # "indicators" =>
         \A k \in DOMAIN Order : ~indicators[k].active /\ indicators[k].own = CHOOSE v \in Variants : TRUE
    /\ part # "profile" => \A c \in Candles, p \in CellPrices : cells[c][p] = Min(Volumes)

(* A new tier takes nothing away that is already on the screen. *)
ChangeRole(r) == role' = r /\ UNCHANGED <<workspaceVars, modalVars>>

(* The chart on its own, and with the pair that is picked for it. *)
ChartStep ==
    \/ ChartNext /\ UNCHANGED workspaceVars
    \/ \E y \in Symbols \ {chart[0].symbol} : SetPair(y) /\ PairChange(y)

PageNext ==
    \/ part = "workspace" /\ WorkspaceNext /\ UNCHANGED <<role, modalVars>>
    \/ part = "workspace" /\ ReloadWorkspace /\ UNCHANGED <<role, modalVars>>
    \/ part = "indicators" /\ ModalNext /\ UNCHANGED <<role, workspaceVars>>
    \/ part = "indicators" /\ ReloadModal /\ UNCHANGED <<role, workspaceVars>>
    \/ part \in {"workspace", "indicators"} /\ \E r \in Roles : ChangeRole(r)

Next ==
    /\ UNCHANGED part
    /\ \/ PageNext /\ UNCHANGED <<chartVars, profileVars>>
       \/ part = "chart" /\ ChartStep /\ UNCHANGED <<role, modalVars, profileVars>>
       \/ part = "profile" /\ ProfileNext /\ UNCHANGED <<pageVars, chartVars>>

Spec == Init /\ [][Next]_vars
================================================================================
