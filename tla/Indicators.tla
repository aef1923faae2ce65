------------------------------ MODULE Indicators ------------------------------
(***************************************************************************)
(* The indicators of the terminal: the list App.tsx keeps and stores, the  *)
(* settings window that edits a draft of it                                *)
(* (frontend-chart/src/components/IndicatorsModal.tsx) and the overlays of *)
(* the chart, which stay clickable under the window.                       *)
(*                                                                         *)
(* Of the settings of an indicator and its favourite mark, which are kept  *)
(* alike, one value stands for all.  Where the window is dragged to, its   *)
(* size and the folding of its lists are left out.                         *)
(***************************************************************************)
EXTENDS Tiers, Sequences, FiniteSets

CONSTANTS
    Order,     \* MODULAR_INDICATORS, the list in its own order
    Overlays,  \* those with an eye and a trash button on the chart: delta and cvd
    Variants   \* bound: values of the settings

Inds == {Order[k] : k \in DOMAIN Order}

ASSUME IndicatorsAssumption ==
    /\ Order \in Seq(Inds) /\ \A j, k \in DOMAIN Order : Order[j] = Order[k] => j = k
    /\ Order # <<>> /\ Overlays \subseteq Inds /\ Variants # {}

VARIABLES
    indicators,  \* the list, stored by the commit that changes it
    open,        \* isIndicatorsModalOpen
    draft,       \* of the window; empty while it is closed, when nothing reads it
    base,        \* history: the list the draft was copied from
    shown        \* selectedId, the indicator whose settings the window shows

modalVars == <<indicators, open, draft, base, shown>>

maxIndicators(r) == LimitsOf(r).maxIndicators

Indicator == [id : Inds, active : BOOLEAN, visible : BOOLEAN, own : Variants]

IsList(list) ==
    /\ list \in Seq(Indicator) /\ Len(list) = Len(Order)
    /\ {list[k].id : k \in DOMAIN list} = Inds

ModalTypeOK ==
    /\ IsList(indicators) /\ open \in BOOLEAN /\ shown \in Inds
    /\ IF open THEN IsList(draft) /\ IsList(base) ELSE draft = <<>> /\ base = <<>>

Place(list, i) == CHOOSE k \in DOMAIN list : list[k].id = i

ActiveIn(list) == {k \in DOMAIN list : list[k].active}

(* A page load goes through the modules in their order and takes over from the stored list *)
(* whether one is active and its settings, not its place nor its visibility. *)
Restored(list) ==
    [k \in DOMAIN Order |-> [list[Place(list, Order[k])] EXCEPT !.visible = TRUE]]

ModalInit ==
    /\ indicators \in [DOMAIN Order -> Indicator]
    /\ \A k \in DOMAIN Order : indicators[k].id = Order[k] /\ indicators[k].visible
    /\ open = FALSE /\ draft = <<>> /\ base = <<>> /\ shown = Order[1]
--------------------------------------------------------------------------------
(* The effect on [isOpen, indicators]: an open window copies the list into its draft again. *)
CopiedOnOpenOnly(list, isOpen) ==
    /\ draft' = IF ~isOpen THEN <<>> ELSE IF open THEN draft ELSE list
    /\ base' = IF ~isOpen THEN <<>> ELSE IF open THEN base ELSE list

Copied(list, isOpen) ==
    /\ draft' = IF isOpen THEN list ELSE <<>>
    /\ base' = IF isOpen THEN list ELSE <<>>

OpenModal ==
    /\ ~open
    /\ open' = TRUE
    /\ Copied(indicators, TRUE)
    /\ UNCHANGED <<indicators, shown>>

CloseModal ==
    /\ open
    /\ open' = FALSE
    /\ Copied(indicators, FALSE)
    /\ UNCHANGED <<indicators, shown>>

Select(i) ==
    /\ open
    /\ shown' = i
    /\ UNCHANGED <<indicators, open, draft, base>>

(* A step inside the window. *)
Redrafted(list) == open /\ draft' = list /\ UNCHANGED <<indicators, open, base, shown>>

(* updateSettings, of the selected indicator. *)
Updated(v) == [draft EXCEPT ![Place(draft, shown)].own = v]

(* Any of the inputs shown for it.  A tier without custom settings takes the mouse off them, *)
(* not the keyboard. *)
SettingsInput(v) == open /\ Redrafted(Updated(v))

ToggleFavorite(i) == \E v \in Variants : Redrafted([draft EXCEPT ![Place(draft, i)].own = v])

(* Of the selected indicator; one more than the tier allows is refused with an alert. *)
ToggleActive ==
    /\ open
    /\ ~draft[Place(draft, shown)].active => Cardinality(ActiveIn(draft)) < maxIndicators(role)
    /\ Redrafted([draft EXCEPT ![Place(draft, shown)].active = ~@])

(* The buttons of the list of active ones. *)
DeactivateIndicator(i) ==
    /\ open /\ Place(draft, i) \in ActiveIn(draft)
    /\ Redrafted([draft EXCEPT ![Place(draft, i)].active = FALSE])

ToggleVisibility(i) ==
    /\ open /\ Place(draft, i) \in ActiveIn(draft)
    /\ Redrafted([draft EXCEPT ![Place(draft, i)].visible = ~@])

(* Up or down: it changes places with the nearest active one, the inactive between stay. *)
MoveIndicator(i, up) ==
    LET from == Place(draft, i)
        beyond == {k \in ActiveIn(draft) : IF up THEN k < from ELSE k > from}
        to == CHOOSE k \in beyond : \A j \in beyond : IF up THEN j <= k ELSE k <= j
    IN /\ open /\ from \in ActiveIn(draft) /\ beyond # {}
       /\ Redrafted([draft EXCEPT ![from] = draft[to], ![to] = draft[from]])

Apply ==
    /\ open
    /\ indicators' = draft
    /\ open' = FALSE
    /\ Copied(draft, FALSE)
    /\ UNCHANGED shown

(* The eye or the trash button of an overlay that is on the chart; both deactivate, the eye *)
(* because it toggles what is active. *)
HideOnChart(i) ==
    LET k == Place(indicators, i)
    IN /\ i \in Overlays /\ indicators[k].active /\ indicators[k].visible
       /\ indicators' = [indicators EXCEPT ![k].active = FALSE]
       /\ Copied(indicators', open)
       /\ UNCHANGED <<open, shown>>

ReloadModal ==
    /\ indicators' = Restored(indicators)
    /\ open' = FALSE /\ shown' = Order[1]
    /\ Copied(indicators, FALSE)

ModalNext ==
    \/ OpenModal \/ CloseModal \/ Apply \/ ToggleActive
    \/ \E v \in Variants : SettingsInput(v)
    \/ \E i \in Inds : Select(i) \/ ToggleFavorite(i) \/ DeactivateIndicator(i)
                       \/ ToggleVisibility(i) \/ HideOnChart(i)
    \/ \E i \in Inds, up \in BOOLEAN : MoveIndicator(i, up)
--------------------------------------------------------------------------------
(* The draft of an open window was copied from the list as it is now:      *)
(* applying it never brings back an indicator that was removed on the      *)
(* chart while the window was open (IndicatorsModal.tsx:98).  The price is *)
(* that such a removal discards the other edits of the draft.              *)
DraftNotStale == open => base = indicators
================================================================================
