----------------------------- MODULE TerminalProofs -----------------------------
(***************************************************************************)
(* Theorems about Terminal: its charts and their toolbar, the indicators   *)
(* window, the mouse on a chart and the volume profile, for every set of   *)
(* symbols, intervals, tiers, indicators, tools and drawings.              *)
(***************************************************************************)
EXTENDS Terminal, Induction, TLAPS

--------------------------------------------------------------------------------
(* The charts and the toolbar.                                                  *)

Chart == [symbol : Symbols, interval : Intervals, market : Markets, comp : 1 .. 10, style : Styles]

\* A chart is right by itself: no spot chart on a minute interval.
LongSpot(c) == c.market = "SPOT" => c.interval \notin {"1m", "5m"}

\* The second chart has the focus of a layout that hides it only where it was closed from its
\* own menu.
FocusShown == (layout = "1" /\ active = 1) => orphaned

WorkspaceInv ==
    WorkspaceTypeOK /\ NoShortSpot /\ CompressionBelongsToKey /\ FocusShown

\* What the effects of a commit do to the charts: the chart in focus keeps its symbol, market
\* and style; it stays as it is if its key is the one seen before, and otherwise it has
\* the default compression and an interval of its own that is long enough.
LEMMA SettledFacts ==
    ASSUME NEW charts \in [Charts -> Chart], NEW f \in Charts, NEW seen \in Chart,
           charts[f].market = seen.market => LongSpot(charts[f])
    PROVE  /\ Settled(charts, f, seen) \in [Charts -> Chart]
           /\ LongSpot(Settled(charts, f, seen)[f])
           /\ \A d \in Charts \ {f} : Settled(charts, f, seen)[d] = charts[d]
           /\ Settled(charts, f, seen)[f].market = charts[f].market
           /\ \/ Key(charts[f]) = Key(seen) /\ Settled(charts, f, seen) = charts
              \/ /\ Key(charts[f]) # Key(seen)
                 /\ Settled(charts, f, seen)[f].comp = DefaultCompression(charts[f].market)
<1> DEFINE c == charts[f]
           d == [c EXCEPT !.interval = Snapped(c, c.market # seen.market),
                          !.comp = DefaultCompression(c.market)]
<1>1. c \in Chart
  OBVIOUS
<1>2. Snapped(c, c.market # seen.market) \in Intervals
  BY <1>1, WorkspaceAssumption DEF Snapped, Chart
<1>3. DefaultCompression(c.market) \in 1 .. 10
  BY DEF DefaultCompression
<1>4. /\ d \in Chart /\ d.market = c.market /\ d.comp = DefaultCompression(c.market)
      /\ d.interval = Snapped(c, c.market # seen.market)
  BY <1>1, <1>2, <1>3 DEF Chart
<1>5. LongSpot(d)
  BY <1>4, <1>1 DEF LongSpot, Snapped, Chart
<1>6. CASE Key(c) = Key(seen)
  <2>1. c.market = seen.market
    BY <1>6 DEF Key
  <2> QED
    BY <1>6, <2>1 DEF Settled
<1>7. CASE Key(c) # Key(seen)
  <2>1. Settled(charts, f, seen) = [charts EXCEPT ![f] = d]
    BY <1>7 DEF Settled
  <2> QED
    BY <2>1, <1>4, <1>5, <1>7
<1> QED
  BY <1>6, <1>7

\* The type invariant in the words of the lemmas.
LEMMA ChartType ==
    WorkspaceTypeOK <=> /\ chart \in [Charts -> Chart]
                        /\ active \in Charts /\ layout \in {"1", "2h", "2v"}
                        /\ picked \in [Charts -> BOOLEAN] /\ orphaned \in BOOLEAN
  BY DEF WorkspaceTypeOK, Chart

\* A commit that leaves only one chart changed, that chart long enough and with a compression
\* of its own key, keeps what is said of the charts.
LEMMA CommitKeeps ==
    ASSUME WorkspaceInv, NEW f \in Charts,
           chart' \in [Charts -> Chart],
           \A d \in Charts \ {f} : chart'[d] = chart[d],
           LongSpot(chart'[f]),
           \/ Key(chart'[f]) = Key(chart[f]) /\ chart'[f].comp = chart[f].comp
           \/ chart'[f].comp = DefaultCompression(chart'[f].market),
           picked' = StillPicked(chart')
    PROVE  NoShortSpot' /\ CompressionBelongsToKey' /\ picked' \in [Charts -> BOOLEAN]
<1>1. picked' \in [Charts -> BOOLEAN]
  BY ChartType DEF StillPicked, WorkspaceInv
<1>2. NoShortSpot'
  BY DEF NoShortSpot, LongSpot, WorkspaceInv
<1>3. ASSUME NEW d \in Charts, chart'[d].comp # DefaultCompression(chart'[d].market)
      PROVE  picked'[d]
  <2>1. Key(chart'[d]) = Key(chart[d]) /\ chart'[d].comp = chart[d].comp
    BY <1>3
  <2>2. chart'[d].market = chart[d].market
    BY <2>1 DEF Key
  <2>3. picked[d]
    BY <1>3, <2>1, <2>2 DEF WorkspaceInv, CompressionBelongsToKey
  <2> QED
    BY <2>1, <2>3 DEF StillPicked
<1> QED
  BY <1>1, <1>2, <1>3 DEF CompressionBelongsToKey

\* An edit from the toolbar.
LEMMA EditKeeps ==
    ASSUME WorkspaceInv, NEW c \in Chart, Edit(c),
           c.comp = chart[active].comp,
           c.market = chart[active].market => LongSpot(c)
    PROVE  /\ WorkspaceInv'
           /\ (layout = "1" /\ ~orphaned) => chart'[1] = chart[1]
<1> DEFINE charts == [chart EXCEPT ![active] = c]
<1>0. active \in Charts /\ chart \in [Charts -> Chart]
  BY ChartType DEF WorkspaceInv
<1>1. /\ charts \in [Charts -> Chart] /\ charts[active] = c
      /\ \A d \in Charts \ {active} : charts[d] = chart[d]
  BY <1>0
<1>2. chart' = Settled(charts, active, chart[active]) /\ picked' = StillPicked(chart')
  BY DEF Edit, Edited
<1>3. chart[active] \in Chart
  BY <1>0
<1> HIDE DEF charts
<1>4. /\ chart' \in [Charts -> Chart] /\ LongSpot(chart'[active])
      /\ \A d \in Charts \ {active} : chart'[d] = charts[d]
      /\ chart'[active].market = c.market
      /\ \/ Key(c) = Key(chart[active]) /\ chart' = charts
         \/ chart'[active].comp = DefaultCompression(c.market)
  BY <1>0, <1>1, <1>2, <1>3, SettledFacts
<1>5. NoShortSpot' /\ CompressionBelongsToKey' /\ picked' \in [Charts -> BOOLEAN]
  BY <1>0, <1>1, <1>2, <1>4, CommitKeeps
<1>6. UNCHANGED <<active, layout, orphaned>>
  BY DEF Edit
<1>7. WorkspaceInv'
  BY <1>4, <1>5, <1>6, ChartType DEF WorkspaceInv, WorkspaceTypeOK, Chart, FocusShown
<1>8. ASSUME layout = "1", ~orphaned PROVE chart'[1] = chart[1]
  BY <1>8, <1>0, <1>1, <1>4 DEF WorkspaceInv, FocusShown, Charts
<1> QED
  BY <1>7, <1>8

\* A click into a chart: what the commit of the new focus leaves.
LEMMA FocusedFacts ==
    ASSUME WorkspaceInv, NEW c \in Charts
    PROVE  /\ Focused(c) \in [Charts -> Chart] /\ LongSpot(Focused(c)[c])
           /\ \A d \in Charts \ {c} : Focused(c)[d] = chart[d]
           /\ Focused(c)[c].market = chart[c].market
           /\ \/ Focused(c) = chart
              \/ Focused(c)[c].comp = DefaultCompression(chart[c].market)
<1>1. active \in Charts /\ chart \in [Charts -> Chart] /\ chart[active] \in Chart
  BY ChartType DEF WorkspaceInv
<1>2. LongSpot(chart[c])
  BY DEF WorkspaceInv, NoShortSpot, LongSpot
<1> QED
  BY <1>1, <1>2, SettledFacts DEF Focused

\* The market button in a chart's header always changes the key that is seen, so the default
\* compression is loaded and a minute interval is left.
LEMMA ToggledFacts ==
    ASSUME WorkspaceInv, NEW c \in Charts
    PROVE  /\ ToggledAfterFocus(c) \in [Charts -> Chart] /\ LongSpot(ToggledAfterFocus(c)[c])
           /\ \A d \in Charts \ {c} : ToggledAfterFocus(c)[d] = chart[d]
           /\ ToggledAfterFocus(c)[c].comp = DefaultCompression(ToggledAfterFocus(c)[c].market)
<1> DEFINE F == Focused(c)
           T == Toggled(F, c)
<1>1. F \in [Charts -> Chart] /\ \A d \in Charts \ {c} : F[d] = chart[d]
  BY FocusedFacts
<1> HIDE DEF F
<1>2. F[c].market \in Markets /\ F[c] \in Chart
  BY <1>1 DEF Chart
<1>3. /\ T \in [Charts -> Chart]
      /\ \A d \in Charts \ {c} : T[d] = F[d]
      /\ T[c].market # F[c].market
  BY <1>1, <1>2 DEF Toggled, Markets, Chart
<1> HIDE DEF T
<1>4. Key(T[c]) # Key(F[c])
  BY <1>3 DEF Key
<1>5. /\ Settled(T, c, F[c]) \in [Charts -> Chart]
      /\ LongSpot(Settled(T, c, F[c])[c])
      /\ \A d \in Charts \ {c} : Settled(T, c, F[c])[d] = T[d]
      /\ Settled(T, c, F[c])[c].market = T[c].market
      /\ Settled(T, c, F[c])[c].comp = DefaultCompression(T[c].market)
  BY <1>2, <1>3, <1>4, SettledFacts
<1>6. ToggledAfterFocus(c) = Settled(T, c, F[c])
  BY DEF ToggledAfterFocus, T, F
<1> QED
  BY <1>1, <1>3, <1>5, <1>6

\* What every step of the page does to the charts, kept in one place: the invariant holds
\* again, and the second chart is left alone where it is not shown.
WorkspaceStep ==
    WorkspaceInv' /\ ((layout = "1" /\ ~orphaned) => chart'[1] = chart[1])

\* A commit that moves the focus to chart c and changes that chart only.
LEMMA FocusKeeps ==
    ASSUME WorkspaceInv, NEW c \in Charts, Shown(c), active' = c,
           layout' \in {"1", "2h", "2v"}, orphaned' \in BOOLEAN, FocusShown',
           chart' \in [Charts -> Chart], LongSpot(chart'[c]),
           \A d \in Charts \ {c} : chart'[d] = chart[d],
           chart' = chart \/ chart'[c].comp = DefaultCompression(chart'[c].market),
           picked' = StillPicked(chart')
    PROVE  WorkspaceStep
<1>1. NoShortSpot' /\ CompressionBelongsToKey' /\ picked' \in [Charts -> BOOLEAN]
  BY CommitKeeps
<1>2. WorkspaceInv'
  BY <1>1 DEF WorkspaceInv, WorkspaceTypeOK, Chart
<1> QED
  BY <1>2 DEF WorkspaceStep, Shown, Charts

\* Every action of the toolbar and of the charts' own buttons, and a reload.
LEMMA WorkspaceNextStep ==
    ASSUME WorkspaceInv, WorkspaceNext \/ ReloadWorkspace
    PROVE  WorkspaceStep
<1>0. /\ active \in Charts /\ chart \in [Charts -> Chart] /\ chart[active] \in Chart
      /\ layout \in {"1", "2h", "2v"} /\ picked \in [Charts -> BOOLEAN] /\ orphaned \in BOOLEAN
      /\ LongSpot(chart[active])
  BY ChartType DEF WorkspaceInv, NoShortSpot, LongSpot
<1>1. ASSUME NEW s \in Symbols, SetPair(s) PROVE WorkspaceStep
  BY <1>0, <1>1, EditKeeps DEF SetPair, Chart, LongSpot, WorkspaceStep
<1>2. ASSUME NEW m \in Markets, SetMarketType(m) PROVE WorkspaceStep
  BY <1>0, <1>2, EditKeeps DEF SetMarketType, Chart, LongSpot, WorkspaceStep
<1>3. ASSUME NEW i \in Intervals, SetInterval(i) PROVE WorkspaceStep
  BY <1>0, <1>3, EditKeeps DEF SetInterval, Offered, Chart, LongSpot, WorkspaceStep
<1>4. ASSUME NEW y \in Styles, SetStyle(y) PROVE WorkspaceStep
  BY <1>0, <1>4, EditKeeps DEF SetStyle, Chart, LongSpot, WorkspaceStep
<1>5. ASSUME NEW n \in Multipliers, SetCompressionMultiplier(n) PROVE WorkspaceStep
  <2>0. n \in 1 .. 10
    BY WorkspaceAssumption
  <2>1. chart' \in [Charts -> Chart] /\ \A d \in Charts \ {active} : chart'[d] = chart[d]
    BY <1>0, <1>5, <2>0 DEF SetCompressionMultiplier, Chart
  <2>2. chart'[active].market = chart[active].market /\ chart'[active].interval = chart[active].interval
    BY <1>0, <1>5 DEF SetCompressionMultiplier, Chart
  <2>3. picked' \in [Charts -> BOOLEAN] /\ picked'[active] /\ \A d \in Charts \ {active} : picked'[d] = picked[d]
    BY <1>0, <1>5 DEF SetCompressionMultiplier
  <2>4. NoShortSpot' /\ CompressionBelongsToKey'
    BY <2>1, <2>2, <2>3 DEF NoShortSpot, CompressionBelongsToKey, WorkspaceInv
  <2>5. UNCHANGED <<active, layout, orphaned>>
    BY <1>5 DEF SetCompressionMultiplier
  <2>6. WorkspaceInv'
    BY <1>0, <2>1, <2>3, <2>4, <2>5 DEF WorkspaceInv, WorkspaceTypeOK, FocusShown, Chart
  <2> QED
    BY <1>0, <2>1, <2>6 DEF WorkspaceStep, FocusShown, WorkspaceInv, Charts
<1>6. ASSUME NEW c \in Charts, Focus(c) PROVE WorkspaceStep
  <2>1. FocusShown' /\ orphaned' \in BOOLEAN
    BY <1>0, <1>6 DEF Focus, FocusShown, Shown, WorkspaceInv, Charts
  <2> QED
    BY <1>0, <1>6, <2>1, FocusedFacts, FocusKeeps DEF Focus
<1>7. ASSUME NEW c \in Charts, ToggleMarket(c) PROVE WorkspaceStep
  <2>1. FocusShown' /\ orphaned' \in BOOLEAN
    BY <1>0, <1>7 DEF ToggleMarket, FocusShown, Shown, WorkspaceInv, Charts
  <2> QED
    BY <1>0, <1>7, <2>1, ToggledFacts, FocusKeeps DEF ToggleMarket
<1>8. ASSUME NEW c \in Charts, NEW l \in {"1", "2h", "2v"}, ChangeLayout(c, l) PROVE WorkspaceStep
  <2>1. FocusShown' /\ orphaned' \in BOOLEAN
    BY <1>8 DEF ChangeLayout, FocusShown, Charts
  <2> QED
    BY <1>0, <1>8, <2>1, FocusedFacts, FocusKeeps DEF ChangeLayout
<1>9. CASE ReloadWorkspace
  <2> DEFINE c == chart[0]
             d == [c EXCEPT !.interval = Snapped(c, TRUE), !.comp = DefaultCompression(c.market)]
  <2>1. 0 \in Charts /\ 1 \in Charts /\ c \in Chart
    BY <1>0 DEF Charts
  <2>2. Snapped(c, TRUE) \in Intervals /\ DefaultCompression(c.market) \in 1 .. 10
    BY <2>1, WorkspaceAssumption DEF Snapped, DefaultCompression, Chart
  <2>3. d \in Chart /\ d.market = c.market /\ d.comp = DefaultCompression(c.market) /\ LongSpot(d)
    BY <2>1, <2>2 DEF Chart, LongSpot, Snapped
  <2>4. chart' = [chart EXCEPT ![0] = d]
    BY <1>9 DEF ReloadWorkspace, Loaded
  <2>5. chart' \in [Charts -> Chart] /\ chart'[0] = d /\ chart'[1] = chart[1]
    BY <1>0, <2>1, <2>3, <2>4
  <2>6. picked' \in [Charts -> BOOLEAN] /\ picked'[1] = picked[1]
    BY <1>0, <1>9, <2>1 DEF ReloadWorkspace
  <2>7. NoShortSpot' /\ CompressionBelongsToKey'
    BY <2>1, <2>3, <2>5, <2>6 DEF NoShortSpot, CompressionBelongsToKey, WorkspaceInv, LongSpot, Charts
  <2>8. active' = 0 /\ layout' = "1" /\ orphaned' = FALSE
    BY <1>9 DEF ReloadWorkspace
  <2>9. FocusShown'
    BY <2>8 DEF FocusShown
  <2> QED
    BY <2>1, <2>5, <2>6, <2>7, <2>8, <2>9 DEF WorkspaceStep, WorkspaceInv, WorkspaceTypeOK, Chart
<1> QED
  BY <1>1, <1>2, <1>3, <1>4, <1>5, <1>6, <1>7, <1>8, <1>9 DEF WorkspaceNext

\* A step of the page is one of the charts, or leaves them alone.
LEMMA WorkspaceInvStep ==
    ASSUME WorkspaceInv, [Next]_vars
    PROVE  WorkspaceStep
<1>1. CASE UNCHANGED workspaceVars
  BY <1>1 DEF workspaceVars, WorkspaceStep, WorkspaceInv, WorkspaceTypeOK, NoShortSpot,
              CompressionBelongsToKey, FocusShown
<1>2. WorkspaceNext \/ ReloadWorkspace \/ UNCHANGED workspaceVars
  <2>1. ASSUME NEW y \in Symbols, SetPair(y) PROVE WorkspaceNext
    BY <2>1 DEF WorkspaceNext
  <2> QED
    BY <2>1 DEF Next, PageNext, ChartStep, ChangeRole, vars, pageVars
<1> QED
  BY <1>1, <1>2, WorkspaceNextStep

\* The charts start right: both on 15m spot with its default compression.
LEMMA WorkspaceInvInit == Init => WorkspaceInv
<1> SUFFICES ASSUME WorkspaceInit PROVE WorkspaceInv
  BY DEF Init
<1>1. PICK s \in Symbols, y \in Styles :
        chart = [c \in Charts |-> [symbol |-> s, interval |-> "15m", market |-> "SPOT",
                                   comp |-> 1, style |-> y]]
  BY DEF WorkspaceInit
<1>2. chart \in [Charts -> Chart]
  BY <1>1, WorkspaceAssumption DEF Chart, Markets
<1>3. active = 0 /\ layout = "1" /\ picked = [c \in Charts |-> FALSE] /\ orphaned = FALSE
  BY DEF WorkspaceInit
<1>4. WorkspaceTypeOK
  BY <1>2, <1>3 DEF WorkspaceTypeOK, Chart, Charts
<1>5. NoShortSpot /\ CompressionBelongsToKey
  BY <1>1 DEF NoShortSpot, CompressionBelongsToKey, DefaultCompression
<1>6. FocusShown
  BY <1>3 DEF FocusShown
<1> QED
  BY <1>4, <1>5, <1>6 DEF WorkspaceInv

\* No spot chart is ever on a minute interval, for every set of symbols, intervals and
\* tiers: whatever mixture of toolbar edits, clicks into the two charts, market buttons,
\* layout changes and reloads (the effects of App.tsx:386 and :405).
THEOREM NoShortSpotHolds == Spec => []NoShortSpot
<1>1. WorkspaceInv /\ [Next]_vars => WorkspaceInv'
  BY WorkspaceInvStep DEF WorkspaceStep
<1>2. WorkspaceInv => NoShortSpot
  BY DEF WorkspaceInv
<1> QED
  BY <1>1, <1>2, WorkspaceInvInit, PTL DEF Spec

\* A compression that is not the market's default was picked for the key the chart shows: it
\* is never carried over from another key or from the other chart (App.tsx:386).
THEOREM CompressionBelongsToKeyHolds == Spec => []CompressionBelongsToKey
<1>1. WorkspaceInv /\ [Next]_vars => WorkspaceInv'
  BY WorkspaceInvStep DEF WorkspaceStep
<1>2. WorkspaceInv => CompressionBelongsToKey
  BY DEF WorkspaceInv
<1> QED
  BY <1>1, <1>2, WorkspaceInvInit, PTL DEF Spec

\* No step edits the second chart while it is not on the screen, unless it was closed from
\* its own menu and still has the focus (activeChartIndex, App.tsx:111).
THEOREM HiddenChartUntouchedHolds == Spec => HiddenChartUntouched
<1>1. WorkspaceInv /\ [Next]_vars => WorkspaceInv'
  BY WorkspaceInvStep DEF WorkspaceStep
<1>2. WorkspaceInv /\ [Next]_vars => [(layout = "1" /\ ~orphaned) => chart'[1] = chart[1]]_workspaceVars
  BY WorkspaceInvStep DEF WorkspaceStep
<1> QED
  BY <1>1, <1>2, WorkspaceInvInit, PTL DEF Spec, HiddenChartUntouched

--------------------------------------------------------------------------------
(* The indicators and their window.                                             *)

\* An indicator is found in every list of them.
LEMMA PlaceFacts ==
    ASSUME NEW list, IsList(list), NEW i \in Inds
    PROVE  /\ Place(list, i) \in DOMAIN list /\ list[Place(list, i)].id = i
           /\ list[Place(list, i)] \in Indicator
  BY DEF IsList, Place

\* Writing an indicator over itself leaves a list of them.
LEMMA ListReplace ==
    ASSUME NEW list, IsList(list), NEW k \in DOMAIN list, NEW r \in Indicator, r.id = list[k].id
    PROVE  IsList([list EXCEPT ![k] = r])
<1> DEFINE new == [list EXCEPT ![k] = r]
<1>1. list \in Seq(Indicator) /\ Len(list) = Len(Order) /\ {list[j].id : j \in DOMAIN list} = Inds
  BY DEF IsList
<1>2. new \in Seq(Indicator) /\ Len(new) = Len(Order) /\ DOMAIN new = DOMAIN list
  BY <1>1
<1>3. \A j \in DOMAIN new : new[j].id = list[j].id
  BY <1>1, <1>2
<1> HIDE DEF new
<1>4. {new[j].id : j \in DOMAIN new} = {list[j].id : j \in DOMAIN list}
  BY <1>2, <1>3
<1> QED
  BY <1>1, <1>2, <1>4 DEF IsList, new

\* So does changing two of them round.
LEMMA ListSwap ==
    ASSUME NEW list, IsList(list), NEW j \in DOMAIN list, NEW k \in DOMAIN list
    PROVE  IsList([list EXCEPT ![j] = list[k], ![k] = list[j]])
<1> DEFINE new == [list EXCEPT ![j] = list[k], ![k] = list[j]]
<1>1. list \in Seq(Indicator) /\ Len(list) = Len(Order) /\ {list[n].id : n \in DOMAIN list} = Inds
  BY DEF IsList
<1>2. new \in Seq(Indicator) /\ Len(new) = Len(Order) /\ DOMAIN new = DOMAIN list
  BY <1>1
<1>3. /\ new[j] = list[k] /\ new[k] = list[j]
      /\ \A n \in DOMAIN new \ {j, k} : new[n] = list[n]
  BY <1>1, <1>2
<1> HIDE DEF new
<1>4. {new[n].id : n \in DOMAIN new} = {list[n].id : n \in DOMAIN list}
  BY <1>2, <1>3
<1> QED
  BY <1>1, <1>2, <1>4 DEF IsList, new

\* What a page load makes of a list is one.
LEMMA RestoredList ==
    ASSUME NEW list, IsList(list)
    PROVE  IsList(Restored(list))
<1> DEFINE new == Restored(list)
<1>1. Order \in Seq(Inds) /\ DOMAIN new = DOMAIN Order /\ DOMAIN Order = 1 .. Len(Order)
  BY IndicatorsAssumption DEF Restored
<1>2. ASSUME NEW k \in DOMAIN Order
      PROVE  new[k] \in Indicator /\ new[k].id = Order[k]
  <2>1. Order[k] \in Inds
    BY <1>1
  <2>2. list[Place(list, Order[k])] \in Indicator /\ list[Place(list, Order[k])].id = Order[k]
    BY <2>1, PlaceFacts
  <2> QED
    BY <2>2 DEF Restored, Indicator
<1>0. new = [k \in DOMAIN Order |-> new[k]]
  BY DEF Restored
<1> HIDE DEF new
<1>3. new \in [1 .. Len(Order) -> Indicator]
  BY <1>1, <1>2, <1>0
<1>4. Len(Order) \in Nat
  BY <1>1
<1>5. new \in Seq(Indicator) /\ Len(new) = Len(Order)
  BY <1>3, <1>4
<1>6. {new[k].id : k \in DOMAIN new} = Inds
  BY <1>1, <1>2 DEF Inds
<1> QED
  BY <1>5, <1>6 DEF IsList, new

ModalInv == ModalTypeOK /\ DraftNotStale

\* A step that changes nothing but the draft.
LEMMA RedraftKeeps ==
    ASSUME ModalInv, NEW list, IsList(list), Redrafted(list)
    PROVE  ModalInv'
<1>1. open /\ open' = open /\ draft' = list /\ UNCHANGED <<indicators, base, shown>>
  BY DEF Redrafted
<1>2. IsList(indicators) /\ IsList(base) /\ shown \in Inds /\ base = indicators
  BY <1>1 DEF ModalInv, ModalTypeOK, DraftNotStale
<1>3. IsList(indicators)' /\ IsList(base)' /\ IsList(draft)'
  BY <1>1, <1>2 DEF IsList
<1> QED
  BY <1>1, <1>2, <1>3 DEF ModalInv, ModalTypeOK, DraftNotStale

\* A step after which the window is closed, or open on a copy of the new list.
LEMMA CopyKeeps ==
    ASSUME ModalInv, NEW list, IsList(list), indicators' = list, open' \in BOOLEAN,
           Copied(list, open'), shown' \in Inds
    PROVE  ModalInv'
<1>1. IsList(indicators)'
  BY DEF IsList
<1>2. CASE open'
  <2>1. draft' = list /\ base' = list
    BY <1>2 DEF Copied
  <2>2. IsList(draft)' /\ IsList(base)'
    BY <2>1 DEF IsList
  <2> QED
    BY <1>1, <1>2, <2>1, <2>2 DEF ModalInv, ModalTypeOK, DraftNotStale
<1>3. CASE ~open'
  <2>1. draft' = <<>> /\ base' = <<>>
    BY <1>3 DEF Copied
  <2> QED
    BY <1>1, <1>3, <2>1 DEF ModalInv, ModalTypeOK, DraftNotStale
<1> QED
  BY <1>2, <1>3

\* Every action of the window, of the overlays on the chart, and a reload.
LEMMA ModalNextStep ==
    ASSUME ModalInv, ModalNext \/ ReloadModal
    PROVE  ModalInv'
<1>0. /\ IsList(indicators) /\ shown \in Inds /\ open \in BOOLEAN
      /\ open => IsList(draft)
  BY DEF ModalInv, ModalTypeOK
<1>1. CASE OpenModal \/ CloseModal
  BY <1>0, <1>1, CopyKeeps DEF OpenModal, CloseModal
<1>2. CASE Apply
  BY <1>0, <1>2, CopyKeeps DEF Apply
<1>3. CASE ToggleActive
  <2>1. IsList(draft) /\ Place(draft, shown) \in DOMAIN draft /\ draft[Place(draft, shown)] \in Indicator
    BY <1>0, <1>3, PlaceFacts DEF ToggleActive
  <2> DEFINE k == Place(draft, shown)
             r == [draft[k] EXCEPT !.active = ~@]
  <2>2. r \in Indicator /\ r.id = draft[k].id
    BY <2>1 DEF Indicator
  <2>3. IsList([draft EXCEPT ![k] = r])
    BY <2>1, <2>2, ListReplace
  <2>4. Redrafted([draft EXCEPT ![k] = r])
    BY <1>3 DEF ToggleActive
  <2> QED
    BY <2>3, <2>4, RedraftKeeps
<1>4. ASSUME NEW v \in Variants, NEW i \in Inds, open,
             Redrafted([draft EXCEPT ![Place(draft, i)].own = v])
      PROVE  ModalInv'
  <2> DEFINE k == Place(draft, i)
             r == [draft[k] EXCEPT !.own = v]
  <2>1. IsList(draft) /\ k \in DOMAIN draft /\ draft[k] \in Indicator
    BY <1>0, <1>4, PlaceFacts
  <2>2. r \in Indicator /\ r.id = draft[k].id
    BY <2>1 DEF Indicator
  <2>3. IsList([draft EXCEPT ![k] = r])
    BY <2>1, <2>2, ListReplace
  <2> QED
    BY <1>4, <2>3, RedraftKeeps
<1>5. ASSUME NEW v \in Variants, SettingsInput(v) PROVE ModalInv'
  BY <1>0, <1>4, <1>5 DEF SettingsInput, Updated
<1>6. ASSUME NEW i \in Inds, ToggleFavorite(i) PROVE ModalInv'
  BY <1>4, <1>6 DEF ToggleFavorite, Redrafted
<1>7. ASSUME NEW i \in Inds, Select(i) PROVE ModalInv'
  <2>1. shown' = i /\ UNCHANGED <<indicators, open, draft, base>>
    BY <1>7 DEF Select
  <2>2. IsList(indicators)' = IsList(indicators) /\ IsList(draft)' = IsList(draft)
        /\ IsList(base)' = IsList(base)
    BY <2>1 DEF IsList
  <2> QED
    BY <2>1, <2>2 DEF ModalInv, ModalTypeOK, DraftNotStale
<1>8. ASSUME NEW i \in Inds, DeactivateIndicator(i) PROVE ModalInv'
  <2> DEFINE k == Place(draft, i)
             r == [draft[k] EXCEPT !.active = FALSE]
  <2>1. IsList(draft) /\ k \in DOMAIN draft /\ draft[k] \in Indicator
    BY <1>0, <1>8, PlaceFacts DEF DeactivateIndicator
  <2>2. r \in Indicator /\ r.id = draft[k].id
    BY <2>1 DEF Indicator
  <2>3. IsList([draft EXCEPT ![k] = r])
    BY <2>1, <2>2, ListReplace
  <2> QED
    BY <1>8, <2>3, RedraftKeeps DEF DeactivateIndicator
<1>9. ASSUME NEW i \in Inds, ToggleVisibility(i) PROVE ModalInv'
  <2> DEFINE k == Place(draft, i)
             r == [draft[k] EXCEPT !.visible = ~@]
  <2>1. IsList(draft) /\ k \in DOMAIN draft /\ draft[k] \in Indicator
    BY <1>0, <1>9, PlaceFacts DEF ToggleVisibility
  <2>2. r \in Indicator /\ r.id = draft[k].id
    BY <2>1 DEF Indicator
  <2>3. IsList([draft EXCEPT ![k] = r])
    BY <2>1, <2>2, ListReplace
  <2> QED
    BY <1>9, <2>3, RedraftKeeps DEF ToggleVisibility
<1>10. ASSUME NEW i \in Inds, HideOnChart(i) PROVE ModalInv'
  <2> DEFINE k == Place(indicators, i)
             r == [indicators[k] EXCEPT !.active = FALSE]
             new == [indicators EXCEPT ![k] = r]
  <2>1. k \in DOMAIN indicators /\ indicators[k] \in Indicator
    BY <1>0, PlaceFacts
  <2>2. r \in Indicator /\ r.id = indicators[k].id
    BY <2>1 DEF Indicator
  <2>3. IsList(new)
    BY <1>0, <2>1, <2>2, ListReplace
  <2>4. indicators' = new /\ Copied(new, open') /\ open' = open /\ shown' = shown
    BY <1>10 DEF HideOnChart, Copied
  <2> HIDE DEF new
  <2> QED
    BY <1>0, <2>3, <2>4, CopyKeeps
<1>11. ASSUME NEW i \in Inds, NEW up \in BOOLEAN, MoveIndicator(i, up) PROVE ModalInv'
  <2> DEFINE from == Place(draft, i)
             beyond == {k \in ActiveIn(draft) : IF up THEN k < from ELSE k > from}
             to == CHOOSE k \in beyond : \A j \in beyond : IF up THEN j <= k ELSE k <= j
  <2>1. open /\ beyond # {} /\ Redrafted([draft EXCEPT ![from] = draft[to], ![to] = draft[from]])
    BY <1>11 DEF MoveIndicator
  <2>2. IsList(draft) /\ from \in DOMAIN draft
    BY <1>0, <2>1, PlaceFacts
  <2>3. to \in beyond
    <3>1. Len(draft) \in Nat /\ DOMAIN draft = 1 .. Len(draft)
      BY <2>2 DEF IsList
    <3>2. beyond \in SUBSET Nat /\ \A k \in beyond : k <= Len(draft)
      BY <3>1 DEF ActiveIn
    <3> HIDE DEF beyond
    <3>3. \E k \in beyond : \A j \in beyond : j <= k
      BY <2>1, <3>1, <3>2, GreatestNatural
    <3>4. \E k \in beyond : \A j \in beyond : k <= j
      BY <2>1, <3>2, LeastNatural
    <3> DEFINE P(k) == \A j \in beyond : IF up THEN j <= k ELSE k <= j
    <3>5. \E k \in beyond : P(k)
      BY <3>3, <3>4
    <3> HIDE DEF P
    <3>6. (CHOOSE k \in beyond : P(k)) \in beyond
      BY <3>5
    <3> QED
      BY <3>6 DEF P
  <2>4. to \in DOMAIN draft
    BY <2>3 DEF ActiveIn
  <2> HIDE DEF from, to, beyond
  <2> QED
    BY <2>1, <2>2, <2>4, ListSwap, RedraftKeeps
<1>12. CASE ReloadModal
  <2>1. Order[1] \in Inds
    BY IndicatorsAssumption DEF Inds
  <2>2. ReloadModal => Copied(Restored(indicators), open')
    BY DEF ReloadModal, Copied
  <2> QED
    BY <1>0, <1>12, <2>1, <2>2, RestoredList, CopyKeeps DEF ReloadModal
<1> QED
  BY <1>1, <1>2, <1>3, <1>5, <1>6, <1>7, <1>8, <1>9, <1>10, <1>11, <1>12 DEF ModalNext

\* A step of the page is one of the window's, or leaves it alone.
LEMMA ModalInvStep == ModalInv /\ [Next]_vars => ModalInv'
<1> SUFFICES ASSUME ModalInv, [Next]_vars PROVE ModalInv'
  OBVIOUS
<1>1. CASE UNCHANGED modalVars
  <2>1. /\ IsList(indicators)' = IsList(indicators) /\ IsList(draft)' = IsList(draft)
        /\ IsList(base)' = IsList(base)
    BY <1>1 DEF modalVars, IsList
  <2> QED
    BY <1>1, <2>1 DEF modalVars, ModalInv, ModalTypeOK, DraftNotStale
<1>2. ModalNext \/ ReloadModal \/ UNCHANGED modalVars
  BY DEF Next, PageNext, ChangeRole, vars, pageVars
<1> QED
  BY <1>1, <1>2, ModalNextStep

\* The list starts with every module in its place.
LEMMA ModalInvInit == Init => ModalInv
<1> SUFFICES ASSUME ModalInit PROVE ModalInv
  BY DEF Init
<1>1. Order \in Seq(Inds) /\ DOMAIN Order = 1 .. Len(Order) /\ Len(Order) \in Nat /\ Order[1] \in Inds
  BY IndicatorsAssumption DEF Inds
<1>2. indicators \in [1 .. Len(Order) -> Indicator] /\ \A k \in DOMAIN Order : indicators[k].id = Order[k]
  BY <1>1 DEF ModalInit
<1>3. indicators \in Seq(Indicator) /\ Len(indicators) = Len(Order)
  BY <1>1, <1>2
<1>4. {indicators[k].id : k \in DOMAIN indicators} = Inds
  BY <1>1, <1>2 DEF Inds
<1> QED
  BY <1>1, <1>3, <1>4 DEF ModalInit, ModalInv, ModalTypeOK, DraftNotStale, IsList

\* Applying the window's draft never brings back what was removed on the chart meanwhile, for
\* any list of indicators (the effect of IndicatorsModal.tsx:98).
THEOREM DraftNotStaleHolds == Spec => []DraftNotStale
<1>1. ModalInv => DraftNotStale
  BY DEF ModalInv
<1> QED
  BY <1>1, ModalInvInit, ModalInvStep, PTL DEF Spec

--------------------------------------------------------------------------------
(* The mouse on a chart.                                                        *)

\* The least and the greatest of two numbers, and a number brought between two bounds.
LEMMA MaxMin2 ==
    ASSUME NEW a \in Int, NEW b \in Int
    PROVE  /\ Max({a, b}) = IF a >= b THEN a ELSE b
           /\ Min({a, b}) = IF a <= b THEN a ELSE b
<1>1. \E m \in {a, b} : \A y \in {a, b} : m >= y
  OBVIOUS
<1>2. Max({a, b}) \in {a, b} /\ \A y \in {a, b} : Max({a, b}) >= y
  BY <1>1 DEF Max
<1>3. \E m \in {a, b} : \A y \in {a, b} : m <= y
  OBVIOUS
<1>4. Min({a, b}) \in {a, b} /\ \A y \in {a, b} : Min({a, b}) <= y
  BY <1>3 DEF Min
<1> QED
  BY <1>2, <1>4

\* A number brought between two bounds.
LEMMA ClipFacts ==
    ASSUME NEW x \in Int, NEW ext \in Nat
    PROVE  /\ Clip(x, 0, ext) \in 0 .. ext
           /\ x \in 0 .. ext => Clip(x, 0, ext) = x
           /\ x > ext => Clip(x, 0, ext) = ext
<1>1. Min({x, ext}) = IF x <= ext THEN x ELSE ext
  BY MaxMin2
<1>2. Min({x, ext}) \in Int
  BY <1>1
<1>3. Clip(x, 0, ext) = IF 0 >= Min({x, ext}) THEN 0 ELSE Min({x, ext})
  BY <1>2, MaxMin2 DEF Clip
<1> QED
  BY <1>1, <1>3

\* The extent of a list that is not empty grows with the list and with the slot.
LEMMA ExtentFacts ==
    ASSUME NEW n \in Nat, NEW s \in Nat \ {0}
    PROVE  /\ Extent(n, s) \in Nat
           /\ n > 0 => Extent(n, s) = n * s
           /\ n = 0 => Extent(n, s) = 0
<1>1. n * s \in Nat
  OBVIOUS
<1>2. Left + n * s + Pad - Port = n * s
  BY <1>1 DEF Left, Pad, Port
<1> QED
  BY <1>1, <1>2, MaxMin2 DEF Extent

\* With every slot the least is one, and the slots are bounded.
LEMMA SlotFacts ==
    /\ 1 \in Slots /\ Slots \subseteq Nat \ {0} /\ Max(Slots) \in Slots
    /\ \A s \in Slots : s <= Max(Slots)
    /\ Min(Slots) = 1
<1>1. Max(Slots) \in Nat \ {0} /\ Slots = 1 .. Max(Slots)
  BY ChartViewAssumption
<1>2. 1 \in Slots /\ \A s \in Slots : 1 <= s
  BY <1>1
<1>3. Min(Slots) \in Slots /\ \A s \in Slots : Min(Slots) <= s
  BY <1>2 DEF Min
<1> QED
  BY <1>1, <1>2, <1>3

\* The part of the type invariant that is about the list and where it is scrolled to, and the
\* part about gestures and drawings.
ScrollType ==
    /\ candles \in 0 .. MaxCandles /\ slot \in Slots /\ fitted \in Symbols \union {Null}
    /\ scrollLeft \in 0 .. Extent(candles, slot) /\ view \in Int
    /\ scrolled \in BOOLEAN /\ adrift \in BOOLEAN

GestureType ==
    /\ leaked \subseteq {"pan", "drag"}
    /\ pointer \in Positions \union {Null} /\ button \in BOOLEAN
    /\ pan \in BOOLEAN /\ grabbed \in [x : Positions, scroll : Nat]
    /\ stretch \in [x : Positions, slot : Slots, scroll : Nat] \union {Null}
    /\ scaling \in BOOLEAN
    /\ tool \in Tools \union {Null}
    /\ progress \in [id : Ids, type : Tools, stage : 0 .. 2] \union {Null}
    /\ drawings \subseteq Ids /\ selected \in drawings \union {Null} /\ drag \in Ids \union {Null}

ScrollInv == ScrollType /\ ScrollInStep

\* Where the browser scrolls to lies within the content, and the event is on its way if that
\* is another place than before.
LEMMA ScrollFacts ==
    ASSUME NEW x \in Int, NEW ext \in Nat, Scroll(x, ext)
    PROVE  /\ scrollLeft' \in 0 .. ext /\ scrolled' \in BOOLEAN
           /\ x \in 0 .. ext => scrollLeft' = x
           /\ x > ext => scrollLeft' = ext
           /\ scrollLeft' # scrollLeft => scrolled'
           /\ scrolled => scrolled'
  BY ClipFacts DEF Scroll

\* A handler that scrolls without drawing for another place.
LEMMA ScrollOnly ==
    ASSUME ScrollInv, NEW x \in Int, Scroll(x, Extent(candles', slot')),
           candles' \in 0 .. MaxCandles, slot' \in Slots, fitted' \in Symbols \union {Null},
           UNCHANGED <<view, adrift>>, candles' > 0 => candles > 0
    PROVE  ScrollInv'
<1>1. Extent(candles', slot') \in Nat
  BY ExtentFacts, SlotFacts
<1>2. /\ scrollLeft' \in 0 .. Extent(candles', slot') /\ scrolled' \in BOOLEAN
      /\ scrollLeft' # scrollLeft => scrolled'
      /\ scrolled => scrolled'
  BY <1>1, ScrollFacts
<1>3. ScrollType'
  BY <1>2 DEF ScrollInv, ScrollType
<1>4. ScrollInStep'
  BY <1>2 DEF ScrollInv, ScrollInStep
<1> QED
  BY <1>3, <1>4 DEF ScrollInv

\* The scroll event says where the chart is.
LEMMA OnScrollKeeps == ScrollInv /\ OnScroll => ScrollInv'
<1> SUFFICES ASSUME ScrollInv, OnScroll PROVE ScrollInv'
  OBVIOUS
<1>1. scrolled' = FALSE /\ view' = scrollLeft /\ adrift' = FALSE
      /\ UNCHANGED <<candles, slot, fitted, scrollLeft>>
  BY DEF OnScroll, listVars
<1>2. ScrollType'
  <2>1. Extent(candles, slot) \in Nat
    BY SlotFacts, ExtentFacts DEF ScrollInv, ScrollType
  <2>2. view' \in Int
    BY <1>1, <2>1 DEF ScrollInv, ScrollType
  <2>3. Extent(candles', slot') = Extent(candles, slot)
    BY <1>1
  <2> QED
    BY <1>1, <2>2, <2>3 DEF ScrollInv, ScrollType
<1>3. ScrollInStep'
  BY <1>1 DEF ScrollInStep
<1> QED
  BY <1>2, <1>3 DEF ScrollInv

\* Narrower candles need less room.
LEMMA LessWhenNarrower ==
    ASSUME NEW n \in Nat, NEW t \in Nat, NEW s \in Nat, t <= s
    PROVE  n * t <= n * s
  OBVIOUS

\* The effect that goes to the latest candle draws for the place it scrolls to, or the event is
\* on its way, or the candles got wider.
LEMMA AutoScrollKeeps ==
    ASSUME ScrollInv, NEW n \in 1 .. MaxCandles, NEW y \in Symbols, AutoScroll(n, y)
    PROVE  ScrollInv'
<1>0. n \in Nat /\ n > 0 /\ n \in 0 .. MaxCandles
  BY ChartViewAssumption
<1>1. PICK s \in IF fitted = y THEN {slot} ELSE Slots :
        /\ candles' = n /\ slot' = s /\ fitted' = y
        /\ Scroll(Clip(Latest(n, s), 0, Extent(n, slot)), Extent(n, s))
        /\ view' = Latest(n, s)
        /\ adrift' = (s > slot /\ view' # scrollLeft' /\ ~scrolled')
  BY DEF AutoScroll
<1> DEFINE e == Extent(n, s)
           f == Extent(n, slot)
           L == Latest(n, s)
<1>2. slot \in Slots /\ s \in Slots /\ slot \in Nat \ {0} /\ s \in Nat \ {0}
  BY <1>1, SlotFacts DEF ScrollInv, ScrollType
<1>3. e \in Nat /\ f \in Nat
  BY <1>0, <1>2, ExtentFacts
<1>4. L \in 0 .. e
  <2> DEFINE x == Left + n * s - Back
  <2>1. x \in Int
    BY <1>0, <1>2 DEF Left, Back
  <2> HIDE DEF x, e
  <2>2. Clip(x, 0, e) \in 0 .. e
    BY <1>3, <2>1, ClipFacts
  <2> QED
    BY <2>2 DEF Latest, x, e
<1>11. s <= slot => e <= f
  <2>1. e = n * s /\ f = n * slot
    BY <1>0, <1>2, ExtentFacts
  <2> HIDE DEF e, f
  <2> QED
    BY <1>0, <1>2, <2>1, LessWhenNarrower
<1> HIDE DEF e, f, L
<1>12. L \in Int
  BY <1>3, <1>4
<1>5. Clip(L, 0, f) \in 0 .. f
  BY <1>3, <1>12, ClipFacts
<1>6. Clip(L, 0, f) \in Int
  BY <1>3, <1>5
<1>7. Scroll(Clip(L, 0, f), e)
  BY <1>1 DEF e, f, L
<1>8. scrollLeft' \in 0 .. e /\ scrolled' \in BOOLEAN
  BY <1>3, <1>6, <1>7, ScrollFacts
<1>9. ScrollType'
  <2>1. scrollLeft' \in 0 .. Extent(candles', slot')
    BY <1>1, <1>8 DEF e
  <2>2. candles' \in 0 .. MaxCandles /\ slot' \in Slots /\ fitted' \in Symbols /\ adrift' \in BOOLEAN
    BY <1>0, <1>1, <1>2
  <2>3. view' \in Int
    BY <1>1, <1>12 DEF L
  <2> QED
    BY <1>8, <2>1, <2>2, <2>3 DEF ScrollType
<1>10. ScrollInStep'
  <2>1. CASE s > slot
    BY <1>1, <2>1 DEF ScrollInStep
  <2>2. CASE s <= slot
    <3>1. L \in 0 .. f
      BY <1>3, <1>4, <1>11, <2>2
    <3>2. Clip(L, 0, f) = L
      BY <1>3, <1>12, <3>1, ClipFacts
    <3>3. scrollLeft' = L
      BY <1>3, <1>4, <1>12, <1>7, <3>2, ScrollFacts
    <3> QED
      BY <1>1, <3>3 DEF ScrollInStep, L
  <2> QED
    BY <1>2, <2>1, <2>2
<1> QED
  BY <1>9, <1>10 DEF ScrollInv

\* A point's share of a narrower slot is not beyond it.
LEMMA Shrinks ==
    ASSUME NEW a \in Nat, NEW t \in Nat, NEW s \in Nat \ {0}, t <= s
    PROVE  (a * t) \div s <= a
<1> DEFINE q == (a * t) \div s
<1>1. a * t \in Nat /\ a * s \in Nat /\ a * t <= a * s
  OBVIOUS
<1>2. q \in Int /\ q * s <= a * t
  BY <1>1
<1> HIDE DEF q
<1>3. SUFFICES ASSUME q >= a + 1 PROVE FALSE
  BY <1>2 DEF q
<1>4. q * s >= (a + 1) * s
  BY <1>2, <1>3
<1>5. (a + 1) * s = a * s + s
  OBVIOUS
<1>6. q * s \in Int
  BY <1>2
<1> QED
  BY <1>1, <1>2, <1>4, <1>5, <1>6

\* Where a zoom puts the left edge is a number.
LEMMA AnchoredType ==
    ASSUME NEW x \in Positions, NEW scroll \in Nat, NEW s \in Nat \ {0}, NEW t \in Nat \ {0}
    PROVE  Anchored(x, scroll, s, t) \in Int
<1>1. x \in Int /\ (scroll + x - Left) * t \in Int
  BY DEF Positions, Left, Port
<1>2. ((scroll + x - Left) * t) \div s \in Int
  BY <1>1
<1> QED
  BY <1>1, <1>2 DEF Anchored, Left

\* A wheel that wants to go beyond the content ends at another place than before: it is wider
\* than what could be scrolled before, or the old place was not as far as that.
LEMMA WheelMoves ==
    ASSUME NEW x \in Positions, NEW n \in Nat \ {0}, NEW s \in Nat \ {0}, NEW t \in Nat \ {0},
           NEW scroll \in 0 .. n * s, s # t,
           Anchored(x, scroll, s, t) > n * t
    PROVE  scroll # n * t
<1>0. n * s \in Nat /\ n * t \in Nat /\ scroll \in Nat /\ x \in 0 .. 2
  BY DEF Positions, Port
<1>1. CASE t > s
  <2>1. n * t >= n * (s + 1)
    BY <1>1
  <2>2. n * (s + 1) = n * s + n
    OBVIOUS
  <2> QED
    BY <1>0, <2>1, <2>2
<1>2. CASE t < s
  <2> SUFFICES ASSUME scroll = n * t PROVE FALSE
    OBVIOUS
  <2>1. n * t >= 1
    OBVIOUS
  <2> DEFINE a == scroll + x - 1
             q == (a * t) \div s
  <2>2. a \in Nat
    BY <1>0, <2>1
  <2>3. q <= a
    BY <1>2, <2>2, Shrinks
  <2>4. q \in Int
    BY <2>2
  <2>5. Anchored(x, scroll, s, t) = 1 - x + q
    BY DEF Anchored, Left
  <2> HIDE DEF q
  <2>6. 1 - x + q <= scroll
    BY <1>0, <2>3, <2>4
  <2> QED
    BY <1>0, <2>4, <2>5, <2>6
<1> QED
  BY <1>1, <1>2

\* The wheel draws for the place it scrolls to, or the event is on its way.
LEMMA WheelKeeps ==
    ASSUME ScrollInv, GestureType, NEW t \in Slots, Wheel(t)
    PROVE  ScrollInv'
<1> DEFINE a == Anchored(pointer, scrollLeft, slot, t)
           next == Max({0, a})
           ext == Extent(candles, t)
<1>1. /\ pointer \in Positions /\ t # slot
      /\ slot' = t /\ Scroll(next, ext) /\ view' = next /\ adrift' = FALSE
      /\ candles' = candles /\ fitted' = fitted
  BY DEF Wheel, GestureType
<1>2. /\ slot \in Nat \ {0} /\ t \in Nat \ {0} /\ candles \in Nat /\ candles \in 0 .. MaxCandles
      /\ fitted \in Symbols \union {Null}
  BY SlotFacts, ChartViewAssumption DEF ScrollInv, ScrollType
<1>3. Extent(candles, slot) \in Nat /\ ext \in Nat
  BY <1>2, ExtentFacts
<1>4. scrollLeft \in 0 .. Extent(candles, slot) /\ scrollLeft \in Nat
  BY <1>3 DEF ScrollInv, ScrollType
<1>5. a \in Int
  BY <1>1, <1>2, <1>4, AnchoredType
<1>6. next = (IF 0 >= a THEN 0 ELSE a) /\ next \in Nat
  <2> HIDE DEF a
  <2> QED
    BY <1>5, MaxMin2
<1> HIDE DEF next, ext
<1>7. /\ scrollLeft' \in 0 .. ext /\ scrolled' \in BOOLEAN
      /\ next \in 0 .. ext => scrollLeft' = next
      /\ next > ext => scrollLeft' = ext
      /\ scrollLeft' # scrollLeft => scrolled'
  BY <1>1, <1>3, <1>6, ScrollFacts
<1>8. ScrollType'
  <2>1. scrollLeft' \in 0 .. Extent(candles', slot')
    BY <1>1, <1>7 DEF ext
  <2>2. view' \in Int
    BY <1>1, <1>6
  <2> QED
    BY <1>1, <1>2, <1>7, <2>1, <2>2 DEF ScrollType
<1>9. ASSUME candles > 0, next > ext PROVE scrollLeft # ext
  <2>1. ext = candles * t /\ Extent(candles, slot) = candles * slot
    BY <1>2, <1>9, ExtentFacts DEF ext
  <2>2. a > ext
    <3> HIDE DEF a
    <3> QED
      BY <1>3, <1>5, <1>6, <1>9
  <2>3. candles \in Nat \ {0}
    BY <1>2, <1>9
  <2>4. scrollLeft \in 0 .. candles * slot
    BY <1>4, <2>1
  <2>5. scrollLeft # candles * t
    BY <1>1, <1>2, <2>1, <2>2, <2>3, <2>4, WheelMoves
  <2> QED
    BY <2>1, <2>5
<1>10. ScrollInStep'
  BY <1>1, <1>3, <1>6, <1>7, <1>9 DEF ScrollInStep
<1> QED
  BY <1>8, <1>10 DEF ScrollInv

\* A stretched time scale.
LEMMA StretchKeeps ==
    ASSUME ScrollInv, GestureType, NEW t \in Slots, Stretch(t), stretch # Null,
           UNCHANGED <<candles, fitted>>
    PROVE  ScrollInv'
<1> DEFINE a == Anchored(stretch.x, stretch.scroll, stretch.slot, t)
           new == Extent(candles, t)
           old == Extent(candles, slot)
           next == Clip(a, 0, new)
           there == Clip(next, 0, old)
<1>1. /\ slot' = t /\ scrollLeft' = Min({there, new}) /\ view' = next
      /\ scrolled' = (scrolled \/ scrollLeft' # scrollLeft)
      /\ adrift' = (view' # scrollLeft' /\ ~scrolled')
  BY DEF Stretch
<1>2. /\ slot \in Nat \ {0} /\ t \in Nat \ {0} /\ candles \in Nat /\ candles \in 0 .. MaxCandles
      /\ fitted \in Symbols \union {Null} /\ scrolled \in BOOLEAN
  BY SlotFacts, ChartViewAssumption DEF ScrollInv, ScrollType
<1>3. old \in Nat /\ new \in Nat
  BY <1>2, ExtentFacts
<1>4. stretch.x \in Positions /\ stretch.scroll \in Nat /\ stretch.slot \in Nat \ {0}
  BY SlotFacts DEF GestureType
<1>5. a \in Int
  BY <1>2, <1>4, AnchoredType
<1> HIDE DEF a, new, old
<1>6. next \in 0 .. new
  BY <1>3, <1>5, ClipFacts
<1>7. next \in Int
  BY <1>3, <1>6
<1> HIDE DEF next
<1>8. there \in 0 .. old
  BY <1>3, <1>7, ClipFacts
<1>9. there \in Nat
  BY <1>3, <1>8
<1> HIDE DEF there
<1>10. scrollLeft' \in 0 .. new
  <2>1. there \in Int /\ new \in Int
    BY <1>3, <1>9
  <2>2. Min({there, new}) = IF there <= new THEN there ELSE new
    BY <2>1, MaxMin2
  <2> QED
    BY <1>1, <1>3, <1>9, <2>2
<1>11. scrollLeft' \in 0 .. Extent(candles', slot')
  BY <1>1, <1>10 DEF new
<1>12. ScrollType'
  BY <1>1, <1>2, <1>7, <1>11 DEF ScrollType
<1>13. ScrollInStep'
  BY <1>1 DEF ScrollInStep
<1> QED
  BY <1>12, <1>13 DEF ScrollInv

\* A pan.
LEMMA PanKeeps ==
    ASSUME ScrollInv, GestureType, NEW x \in Positions, Pan(x), UNCHANGED <<candles, fitted>>
    PROVE  ScrollInv'
<1> DEFINE next == grabbed.scroll - (x - grabbed.x)
<1>1. /\ Scroll(next, Extent(candles, slot)) /\ view' = next /\ slot' = slot
      /\ adrift' = (view' # scrollLeft' /\ ~scrolled')
  BY DEF Pan
<1>2. slot \in Nat \ {0} /\ candles \in Nat
  BY SlotFacts, ChartViewAssumption DEF ScrollInv, ScrollType
<1>3. Extent(candles, slot) \in Nat
  BY <1>2, ExtentFacts
<1>4. grabbed.scroll \in Nat /\ grabbed.x \in Int /\ x \in Int
  BY DEF GestureType, Positions, Port
<1>5. next \in Int
  BY <1>4
<1> HIDE DEF next
<1>6. scrollLeft' \in 0 .. Extent(candles, slot) /\ scrolled' \in BOOLEAN
  BY <1>1, <1>3, <1>5, ScrollFacts
<1>7. ScrollType'
  <2>1. Extent(candles', slot') = Extent(candles, slot)
    BY <1>1
  <2>2. scrollLeft' \in 0 .. Extent(candles', slot') /\ view' \in Int /\ adrift' \in BOOLEAN
    BY <1>1, <1>5, <1>6, <2>1
  <2> QED
    BY <1>1, <1>6, <2>2 DEF ScrollInv, ScrollType
<1>8. ScrollInStep'
  BY <1>1 DEF ScrollInStep
<1> QED
  BY <1>7, <1>8 DEF ScrollInv

\* The slot a stretch to position x asks for, kept within the bounds, is one of the slots.
LEMMA StretchSlot ==
    ASSUME GestureType, stretch # Null, NEW x \in Positions
    PROVE  Clip(stretch.slot + x - stretch.x, Min(Slots), Max(Slots)) \in Slots
<1> DEFINE y == stretch.slot + x - stretch.x
           m == Max(Slots)
<1>1. Slots = 1 .. m /\ m \in Nat \ {0}
  BY ChartViewAssumption
<1>2. stretch.slot \in Int /\ stretch.x \in Int /\ x \in Int
  BY <1>1 DEF GestureType, Positions, Port
<1>3. y \in Int
  BY <1>2
<1> HIDE DEF y, m
<1>4. Min({y, m}) = IF y <= m THEN y ELSE m
  BY <1>1, <1>3, MaxMin2
<1>5. Min({y, m}) \in Int /\ Min({y, m}) <= m
  BY <1>1, <1>3, <1>4
<1>6. Max({1, Min({y, m})}) = IF 1 >= Min({y, m}) THEN 1 ELSE Min({y, m})
  BY <1>5, MaxMin2
<1>7. Clip(y, 1, m) \in Slots
  BY <1>1, <1>5, <1>6 DEF Clip
<1> QED
  BY <1>7, SlotFacts DEF y, m

\* Every handler of the chart leaves the canvas drawn for where the container is, or will be
\* when the event comes.
LEMMA ScrollInvChart ==
    ASSUME ScrollInv, GestureType, chart[0].symbol \in Symbols,
           ChartNext \/ \E y \in Symbols : PairChange(y)
    PROVE  ScrollInv'
<1>0. /\ candles \in 0 .. MaxCandles /\ slot \in Slots /\ fitted \in Symbols \union {Null}
      /\ Extent(candles, slot) \in Nat /\ scrollLeft \in Int /\ candles \in Nat
  <2>1. candles \in 0 .. MaxCandles /\ slot \in Slots /\ fitted \in Symbols \union {Null}
    BY DEF ScrollInv, ScrollType
  <2>2. candles \in Nat /\ slot \in Nat \ {0}
    BY <2>1, SlotFacts, ChartViewAssumption
  <2>3. Extent(candles, slot) \in Nat
    BY <2>2, ExtentFacts
  <2> QED
    BY <2>1, <2>2, <2>3 DEF ScrollInv, ScrollType
<1>1. CASE OnScroll
  BY <1>1, OnScrollKeeps
<1>2. CASE CandlesGone
  <2>1. Extent(0, slot) = 0 /\ 0 \in 0 .. MaxCandles
    BY <1>0, SlotFacts, ExtentFacts, ChartViewAssumption
  <2> QED
    BY <1>0, <1>2, <2>1, ScrollOnly DEF CandlesGone
<1>3. ASSUME NEW n \in 1 .. MaxCandles, CandlesChange(n) PROVE ScrollInv'
  BY <1>3, AutoScrollKeeps DEF CandlesChange
<1>4. ASSUME NEW x \in 0 .. Extent(candles, slot), DragScrollBar(x) PROVE ScrollInv'
  <2>1. UNCHANGED <<candles, slot, fitted, view, adrift>> /\ x \in Int
        /\ Scroll(x, Extent(candles, slot))
    BY <1>0, <1>4 DEF DragScrollBar, listVars
  <2>2. Scroll(x, Extent(candles', slot'))
    BY <2>1
  <2> QED
    BY <1>0, <2>1, <2>2, ScrollOnly
<1>5. ASSUME NEW s \in Slots, ZoomButton(s) PROVE ScrollInv'
  BY <1>0, <1>5, ScrollOnly DEF ZoomButton
<1>6. ASSUME NEW s \in Slots, Wheel(s) PROVE ScrollInv'
  BY <1>6, WheelKeeps
<1>7. ASSUME NEW s \in Slots, MoveOutside(s) PROVE ScrollInv'
  BY <1>7, StretchKeeps DEF MoveOutside
<1>8. ASSUME NEW x \in Positions, MouseMove(x) PROVE ScrollInv'
  <2>1. UNCHANGED <<candles, fitted>>
    BY <1>8 DEF MouseMove
  <2>2. ASSUME stretch # Null,
               Stretch(Clip(stretch.slot + x - stretch.x, Min(Slots), Max(Slots)))
        PROVE  ScrollInv'
    BY <2>1, <2>2, StretchSlot, StretchKeeps
  <2>3. ASSUME Pan(x) PROVE ScrollInv'
    BY <2>1, <2>3, PanKeeps
  <2>4. ASSUME UNCHANGED <<slot, scrollVars>> PROVE ScrollInv'
    <3>1. UNCHANGED <<candles, fitted, slot, scrollLeft, view, scrolled, adrift>>
      BY <2>1, <2>4 DEF scrollVars
    <3>2. Extent(candles', slot') = Extent(candles, slot)
      BY <3>1
    <3> QED
      BY <3>1, <3>2 DEF ScrollInv, ScrollType, ScrollInStep
  <2> QED
    BY <1>8, <2>2, <2>3, <2>4 DEF MouseMove
<1>9. ASSUME UNCHANGED <<listVars, scrollVars>> PROVE ScrollInv'
  <2>1. UNCHANGED <<candles, fitted, slot, scrollLeft, view, scrolled, adrift>>
    BY <1>9 DEF scrollVars, listVars
  <2>2. Extent(candles', slot') = Extent(candles, slot)
    BY <2>1
  <2> QED
    BY <2>1, <2>2 DEF ScrollInv, ScrollType, ScrollInStep
<1>11. ASSUME NEW y \in Symbols, PairChange(y) PROVE ScrollInv'
  <2>1. ASSUME candles > 0, AutoScroll(candles, y) PROVE ScrollInv'
    <3>1. candles \in 1 .. MaxCandles
      BY <1>0, <2>1
    <3> QED
      BY <2>1, <3>1, AutoScrollKeeps
  <2> QED
    BY <1>9, <1>11, <2>1 DEF PairChange
<1>10. ASSUME \/ MouseLeave \/ MouseUp \/ ClearDrawings \/ DeleteKey
              \/ \E b \in BOOLEAN : MouseDown(b) \/ PressOutside(b)
              \/ \E t \in Tools : SelectTool(t)
       PROVE  UNCHANGED <<listVars, scrollVars>>
  BY <1>10 DEF MouseLeave, MouseUp, ClearDrawings, DeleteKey, MouseDown, PressOutside, SelectTool
<1> QED
  BY <1>1, <1>2, <1>3, <1>4, <1>5, <1>6, <1>7, <1>8, <1>9, <1>10, <1>11 DEF ChartNext

\* What the unfinished gestures are: nothing is dragged without the button or with the pointer
\* away, but for a pan or a drag of a drawing that began while another gesture waited, or
\* has another one waiting before it now.
GestureInv ==
    /\ GestureType
    /\ GestureNeedsButton
    /\ (progress # Null /\ progress.stage # 2) => pointer # Null
    /\ (drag # Null /\ (pointer = Null \/ progress # Null)) => "drag" \in leaked
    /\ (pan /\ (pointer = Null \/ progress # Null \/ drag # Null)) => "pan" \in leaked

\* The press of the button.
LEMMA MouseDownKeeps ==
    ASSUME GestureInv, NEW b \in BOOLEAN, MouseDown(b),
           slot \in Slots, scrollLeft \in Nat
    PROVE  GestureInv'
<1>0. /\ pointer # Null /\ ~button /\ button' = TRUE /\ pointer' = pointer
      /\ pointer \in Positions
  BY DEF MouseDown, GestureInv, GestureType
<1>1. /\ stretch = Null /\ ~scaling
      /\ progress # Null => progress.stage = 2
      /\ drag # Null => "drag" \in leaked
      /\ pan => "pan" \in leaked
  BY <1>0 DEF GestureInv, GestureNeedsButton
<1>2. CASE tool # Null /\ Draw
  <2>1. UNCHANGED <<selected, drag, pan, grabbed, stretch, scaling, leaked>>
    BY <1>2 DEF Draw, gestureVars
  <2>2. ASSUME NEW id \in Ids, drawings' = drawings \union {id}, tool' = Null,
               progress' = Null \/ progress' = progress
        PROVE  GestureInv'
    BY <1>0, <1>1, <2>1, <2>2 DEF GestureInv, GestureType, GestureNeedsButton
  <2>3. CASE Waiting /\ drawings' = drawings \union {progress.id} /\ progress' = Null /\ tool' = Null
    <3>1. progress.id \in Ids
      BY <2>3 DEF Waiting, GestureInv, GestureType
    <3> QED
      BY <2>2, <2>3, <3>1
  <2>4. CASE /\ tool = "horizontal"
             /\ \E id \in Fresh : drawings' = drawings \union {id}
             /\ tool' = Null /\ UNCHANGED progress
    BY <2>2, <2>4 DEF Fresh
  <2>5. ASSUME NEW id \in Fresh,
               progress' = [id |-> id, type |-> tool, stage |-> IF tool = "channel" THEN 1 ELSE 0],
               UNCHANGED <<tool, drawings>>
        PROVE  GestureInv'
    <3>1. progress' \in [id : Ids, type : Tools, stage : 0 .. 2]
      BY <1>2, <2>5 DEF Fresh, GestureInv, GestureType
    <3> QED
      BY <1>0, <1>1, <2>1, <2>5, <3>1 DEF GestureInv, GestureType, GestureNeedsButton
  <2> QED
    BY <1>2, <2>3, <2>4, <2>5 DEF Draw
<1>3. ASSUME tool = Null, NEW id \in drawings, Grab(id) PROVE GestureInv'
  <2>1. /\ selected' = id /\ drag' = id /\ leaked' = Begun("drag", progress # Null)
        /\ UNCHANGED <<tool, progress, drawings, pan, grabbed, stretch, scaling>>
    BY <1>3 DEF Grab
  <2>2. leaked' \subseteq {"pan", "drag"} /\ (progress # Null => "drag" \in leaked')
        /\ ("pan" \in leaked => "pan" \in leaked')
    BY <2>1 DEF Begun, GestureInv, GestureType
  <2> QED
    BY <1>0, <1>1, <2>1, <2>2 DEF GestureInv, GestureType, GestureNeedsButton
<1>4. ASSUME StretchOrPan(b), selected' \in {selected, Null} PROVE GestureInv'
  <2>1. UNCHANGED <<tool, progress, drawings, drag, scaling>>
    BY <1>4 DEF StretchOrPan
  <2>2. CASE b
    <3>1. /\ stretch' = [x |-> pointer, slot |-> slot, scroll |-> scrollLeft]
          /\ UNCHANGED <<pan, grabbed, leaked>>
      BY <1>4, <2>2 DEF StretchOrPan
    <3>2. stretch' \in [x : Positions, slot : Slots, scroll : Nat]
      BY <1>0, <3>1
    <3> QED
      BY <1>0, <1>1, <1>4, <2>1, <3>1, <3>2 DEF GestureInv, GestureType, GestureNeedsButton
  <2>3. CASE ~b
    <3>1. /\ pan' = TRUE /\ grabbed' = [x |-> pointer, scroll |-> scrollLeft]
          /\ leaked' = Begun("pan", progress # Null \/ drag # Null) /\ stretch' = stretch
      BY <1>4, <2>3 DEF StretchOrPan
    <3>2. grabbed' \in [x : Positions, scroll : Nat]
      BY <1>0, <3>1
    <3>3. leaked' \subseteq {"pan", "drag"} /\ (progress # Null \/ drag # Null => "pan" \in leaked')
          /\ ("drag" \in leaked => "drag" \in leaked')
      BY <3>1 DEF Begun, GestureInv, GestureType
    <3> QED
      BY <1>0, <1>1, <1>4, <2>1, <3>1, <3>2, <3>3 DEF GestureInv, GestureType, GestureNeedsButton
  <2> QED
    BY <2>2, <2>3
<1> QED
  BY <1>2, <1>3, <1>4 DEF MouseDown

\* What handleMouseUpOrLeave leaves of the gestures: it ends one of them, and the others were
\* begun while it waited.
LEMMA UpOrLeaveEnds ==
    ASSUME GestureInv, UpOrLeave, pointer # Null
    PROVE  /\ drawings \subseteq drawings' /\ drawings' \subseteq Ids
           /\ tool' \in Tools \union {Null} /\ leaked' \subseteq {"pan", "drag"}
           /\ progress' \in [id : Ids, type : Tools, stage : 0 .. 2] \union {Null}
           /\ drag' \in Ids \union {Null} /\ pan' \in BOOLEAN
           /\ grabbed' \in [x : Positions, scroll : Nat]
           /\ progress' # Null => progress'.stage = 2
           /\ drag' # Null => "drag" \in leaked'
           /\ pan' => "pan" \in leaked'
<1>1. CASE progress # Null /\ progress.stage = 1
  <2>1. /\ progress' = [progress EXCEPT !.stage = 2]
        /\ UNCHANGED <<tool, drawings, drag, pan, grabbed, leaked>>
    BY <1>1 DEF UpOrLeave
  <2>2. progress' \in [id : Ids, type : Tools, stage : 0 .. 2] /\ progress'.stage = 2
    BY <1>1, <2>1 DEF GestureInv, GestureType
  <2> QED
    BY <1>1, <2>1, <2>2 DEF GestureInv, GestureType
<1>2. CASE progress # Null /\ progress.stage # 1
  <2>1. /\ progress' = Null /\ tool' = Null
        /\ drawings' \in {drawings, drawings \union {progress.id}}
        /\ UNCHANGED <<drag, pan, grabbed, leaked>>
    BY <1>2 DEF UpOrLeave
  <2>2. progress.id \in Ids
    BY <1>2 DEF GestureInv, GestureType
  <2> QED
    BY <1>2, <2>1, <2>2 DEF GestureInv, GestureType
<1>3. CASE progress = Null /\ drag # Null
  <2>1. /\ drag' = Null /\ leaked' = leaked \ {"drag"}
        /\ UNCHANGED <<tool, progress, drawings, pan, grabbed>>
    BY <1>3 DEF UpOrLeave
  <2> QED
    BY <1>3, <2>1 DEF GestureInv, GestureType
<1>4. CASE progress = Null /\ drag = Null
  <2>1. /\ pan' = FALSE /\ grabbed' = NotGrabbed /\ leaked' = leaked \ {"pan"}
        /\ UNCHANGED <<tool, progress, drawings, drag>>
    BY <1>4 DEF UpOrLeave
  <2>2. NotGrabbed \in [x : Positions, scroll : Nat]
    BY DEF NotGrabbed, Positions, Port
  <2> QED
    BY <1>4, <2>1, <2>2 DEF GestureInv, GestureType
<1> QED
  BY <1>1, <1>2, <1>3, <1>4

\* Every handler of the chart keeps track of what is unfinished.
LEMMA GestureInvChart ==
    ASSUME GestureInv, slot \in Slots, scrollLeft \in Nat,
           ChartNext \/ \E y \in Symbols : PairChange(y)
    PROVE  GestureInv'
<1> DEFINE vs == <<leaked, pointer, button, pan, grabbed, stretch, scaling, tool, progress,
                   drawings, selected, drag>>
<1>0. GestureType /\ GestureNeedsButton
  BY DEF GestureInv
<1>1. ASSUME UNCHANGED vs PROVE GestureInv'
  BY <1>1 DEF GestureInv, GestureType, GestureNeedsButton
<1>2. ASSUME \/ OnScroll \/ CandlesGone
             \/ \E n \in 1 .. MaxCandles : CandlesChange(n)
             \/ \E y \in Symbols : PairChange(y)
             \/ \E x \in 0 .. Extent(candles, slot) : DragScrollBar(x)
             \/ \E s \in Slots : ZoomButton(s) \/ Wheel(s) \/ MoveOutside(s)
      PROVE  UNCHANGED vs
  BY <1>2 DEF OnScroll, CandlesGone, CandlesChange, PairChange, DragScrollBar, ZoomButton, Wheel, MoveOutside,
              gestureVars, drawingVars
<1>3. ASSUME NEW b \in BOOLEAN, MouseDown(b) PROVE GestureInv'
  BY <1>3, MouseDownKeeps
<1>4. ASSUME NEW x \in Positions, MouseMove(x) PROVE GestureInv'
  <2>1. pointer' = x /\ x # Null
    BY <1>4, ChartViewAssumption DEF MouseMove, Positions, Port
  <2>2. UNCHANGED <<leaked, button, pan, grabbed, stretch, scaling, tool, progress, drawings,
                    selected, drag>>
    BY <1>4 DEF MouseMove, gestureVars, drawingVars
  <2> QED
    BY <2>1, <2>2 DEF GestureInv, GestureType, GestureNeedsButton
<1>5. ASSUME NEW b \in BOOLEAN, PressOutside(b) PROVE GestureInv'
  <2>1. /\ button' = TRUE /\ scaling' = b /\ pointer = Null
        /\ UNCHANGED <<leaked, pointer, pan, grabbed, stretch, tool, progress, drawings,
                       selected, drag>>
    BY <1>5 DEF PressOutside, drawingVars
  <2> QED
    BY <2>1 DEF GestureInv, GestureType, GestureNeedsButton
<1>6. CASE MouseLeave
  <2>1. /\ pointer # Null /\ pointer' = Null /\ UpOrLeave
        /\ UNCHANGED <<button, stretch, scaling, selected>>
    BY <1>6 DEF MouseLeave
  <2> QED
    BY <1>0, <2>1, UpOrLeaveEnds DEF GestureInv, GestureType, GestureNeedsButton
<1>7. CASE MouseUp
  <2>1. button' = FALSE /\ stretch' = Null /\ scaling' = FALSE /\ pointer' = pointer
        /\ selected' = selected
    BY <1>7 DEF MouseUp
  <2>2. CASE pointer # Null /\ UpOrLeave
    BY <1>0, <2>1, <2>2, UpOrLeaveEnds DEF GestureInv, GestureType, GestureNeedsButton
  <2>3. CASE pointer = Null /\ UNCHANGED <<tool, progress, drawings, drag, pan, grabbed, leaked>>
    BY <1>0, <2>1, <2>3 DEF GestureInv, GestureType, GestureNeedsButton
  <2> QED
    BY <1>7, <2>2, <2>3 DEF MouseUp
<1>8. ASSUME NEW t \in Tools, SelectTool(t) PROVE GestureInv'
  <2>1. /\ tool' \in {Null, t}
        /\ UNCHANGED <<leaked, pointer, button, pan, grabbed, stretch, scaling, progress, drawings,
                       selected, drag>>
    BY <1>8 DEF SelectTool, gestureVars
  <2> QED
    BY <2>1 DEF GestureInv, GestureType, GestureNeedsButton
<1>9. CASE ClearDrawings \/ DeleteKey
  <2>1. /\ drawings' \subseteq drawings /\ selected' = Null
        /\ UNCHANGED <<leaked, pointer, button, pan, grabbed, stretch, scaling, tool, progress, drag>>
    BY <1>9 DEF ClearDrawings, DeleteKey, gestureVars
  <2> QED
    BY <2>1 DEF GestureInv, GestureType, GestureNeedsButton
<1> QED
  BY <1>1, <1>2, <1>3, <1>4, <1>5, <1>6, <1>7, <1>8, <1>9 DEF ChartNext

ChartInv == ScrollInv /\ GestureInv

\* A step of the page is one of the mouse's, or leaves the chart alone.
LEMMA ChartInvStep ==
    ASSUME ChartInv, WorkspaceInv, [Next]_vars
    PROVE  ChartInv'
<1>1. CASE UNCHANGED chartVars
  <2>1. /\ UNCHANGED <<candles, slot, fitted, scrollLeft, view, scrolled, adrift>>
        /\ UNCHANGED <<leaked, pointer, button, pan, grabbed, stretch, scaling, tool, progress,
                       drawings, selected, drag>>
    BY <1>1 DEF chartVars, listVars, scrollVars, gestureVars, drawingVars
  <2>2. Extent(candles', slot') = Extent(candles, slot)
    BY <2>1
  <2>3. ScrollInv'
    BY <2>1, <2>2 DEF ChartInv, ScrollInv, ScrollType, ScrollInStep
  <2>4. GestureInv'
    BY <2>1 DEF ChartInv, GestureInv, GestureType, GestureNeedsButton
  <2> QED
    BY <2>3, <2>4 DEF ChartInv
<1>2. CASE ChartNext \/ \E y \in Symbols : PairChange(y)
  <2>0. chart[0].symbol \in Symbols
    BY ChartType DEF WorkspaceInv, Charts, Chart
  <2>1. slot \in Slots /\ scrollLeft \in 0 .. Extent(candles, slot) /\ candles \in 0 .. MaxCandles
    BY DEF ChartInv, ScrollInv, ScrollType
  <2>2. Extent(candles, slot) \in Nat
    BY <2>1, SlotFacts, ExtentFacts, ChartViewAssumption
  <2>3. scrollLeft \in Nat
    BY <2>1, <2>2
  <2> QED
    BY <1>2, <2>0, <2>1, <2>3, ScrollInvChart, GestureInvChart DEF ChartInv, GestureInv
<1>3. ChartNext \/ (\E y \in Symbols : PairChange(y)) \/ UNCHANGED chartVars
  BY DEF Next, ChartStep, vars
<1> QED
  BY <1>1, <1>2, <1>3

\* A chart starts empty, with nobody's hand on it.
LEMMA ChartInvInit == Init => ChartInv
<1> SUFFICES ASSUME ChartInit PROVE ChartInv
  BY DEF Init
<1>1. slot \in Slots /\ candles = 0 /\ 0 \in 0 .. MaxCandles
  BY SlotFacts, ChartViewAssumption DEF ChartInit
<1>2. Extent(candles, slot) = 0
  BY <1>1, SlotFacts, ExtentFacts
<1>3. ScrollInv
  <2>1. scrollLeft \in 0 .. Extent(candles, slot) /\ view \in Int
    BY <1>2 DEF ChartInit
  <2>2. fitted = Null /\ scrolled = FALSE /\ adrift = FALSE /\ view = scrollLeft
    BY DEF ChartInit
  <2> QED
    BY <1>1, <2>1, <2>2 DEF ScrollInv, ScrollType, ScrollInStep
<1>4. NotGrabbed \in [x : Positions, scroll : Nat]
  BY DEF NotGrabbed, Positions, Port
<1>5. GestureInv
  BY <1>4 DEF ChartInit, GestureInv, GestureType, GestureNeedsButton
<1> QED
  BY <1>3, <1>5 DEF ChartInv

\* Nothing is dragged without the button, for any tools and any number of drawings, but for
\* the two gestures handleMouseUpOrLeave does not see to because another one waits
\* (ClusterChart.tsx:1024).
THEOREM GestureNeedsButtonHolds == Spec => []GestureNeedsButton
<1>1. ChartInv => GestureNeedsButton
  BY DEF ChartInv, GestureInv
<1> QED
  BY <1>1, ChartInvInit, ChartInvStep, WorkspaceInvInit, WorkspaceInvStep, PTL DEF Spec, WorkspaceStep

\* The canvas is drawn for where the container is scrolled to, or the event is on its way,
\* for lists of any length, any pairs and any range of zoom, but for the two gestures and the
\* default zoom of a new pair that leave the content (ClusterChart.tsx:1007, :1614, :560).
THEOREM ScrollInStepHolds == Spec => []ScrollInStep
<1>1. ChartInv => ScrollInStep
  BY DEF ChartInv, ScrollInv
<1> QED
  BY <1>1, ChartInvInit, ChartInvStep, WorkspaceInvInit, WorkspaceInvStep, PTL DEF Spec, WorkspaceStep

--------------------------------------------------------------------------------
(* The volume profile.                                                          *)

\* The last of the buckets.
LastBucket(b) == bucketCount(b) - 1

\* While there is a box: the buckets hold the volume inside it, the area is a run of them around the
\* largest, its volume is the one counted, and the bucket that joined last was needed.
ValueArea ==
    /\ bins \in [0 .. LastBucket(box) -> Nat]
    /\ SumFunctionOnSet(bins, 0 .. LastBucket(box)) = SumFunctionOnSet(Cell, Inside(box))
    /\ low \in 0 .. LastBucket(box) /\ high \in 0 .. LastBucket(box) /\ poc \in low .. high
    /\ \A i \in 0 .. LastBucket(box) : bins[i] <= bins[poc]
    /\ area = SumFunctionOnSet(bins, low .. high)
    /\ low = high \/ \E i \in {low, high} \ {poc} : 10 * (area - bins[i]) < 7 * Total(bins)

ProfileInv ==
    /\ cells \in [Candles -> [CellPrices -> Volumes]]
    /\ stage \in {"idle", "extend", "done"} /\ box \in Boxes
    /\ stage = "idle" => bins = Empty /\ poc = 0 /\ low = 0 /\ high = 0 /\ area = 0
    /\ stage # "idle" => ValueArea
    /\ stage = "done" => ~Growing

\* The greatest number of a range is its upper bound.
LEMMA MaxOfRange == ASSUME NEW n \in Nat PROVE Max(0 .. n) = n
<1>1. n \in 0 .. n /\ \A y \in 0 .. n : n >= y
  OBVIOUS
<1>2. Max(0 .. n) \in 0 .. n /\ \A y \in 0 .. n : Max(0 .. n) >= y
  BY <1>1 DEF Max
<1> QED
  BY <1>1, <1>2

\* A box has a bucket, and the volumes of its buckets add up to that of its cells, wherever
\* its edges cut a step: every cell of the box is in one bucket.
LEMMA BucketFacts ==
    ASSUME NEW b \in Boxes, cells \in [Candles -> [CellPrices -> Volumes]]
    PROVE  /\ LastBucket(b) \in Nat
           /\ profileBins(b) \in [0 .. LastBucket(b) -> Nat]
           /\ SumFunctionOnSet(profileBins(b), 0 .. LastBucket(b)) = SumFunctionOnSet(Cell, Inside(b))
<1> DEFINE I == 0 .. LastBucket(b)
           S == Inside(b)
           h == [cp \in S |-> binIdx(b, cp[2])]
           F(i) == {cp \in S : h[cp] = i}
<1>1. b.hi \in Int /\ b.lo \in Int
  BY RangeProfileAssumption DEF Boxes, Edges
<1>2. LastBucket(b) \in Nat
  BY <1>1 DEF LastBucket, bucketCount, Max2
<1>3. S \subseteq Candles \X CellPrices
  BY RangeProfileAssumption DEF Inside, Covered, Candles, Max2, Min2, Boxes
<1>4. IsFiniteSet(S)
  <2>1. CellPrices \in SUBSET (0 .. 2 * Steps)
    BY RangeProfileAssumption DEF CellPrices
  <2>2. IsFiniteSet(CellPrices)
    <3> DEFINE N == 2 * Steps
    <3>1. N \in Int
      BY RangeProfileAssumption
    <3> HIDE DEF N
    <3>2. IsFiniteSet(0 .. N)
      BY <3>1, FS_Interval
    <3>3. CellPrices \in SUBSET (0 .. N)
      BY <2>1 DEF N
    <3> QED
      BY <3>2, <3>3, FS_Subset
  <2>4. IsFiniteSet(Candles)
    <3>1. Columns - 1 \in Int
      BY RangeProfileAssumption
    <3> QED
      BY <3>1, FS_Interval DEF Candles
  <2>3. IsFiniteSet(Candles \X CellPrices)
    BY <2>2, <2>4, FS_Product
  <2> QED
    BY <1>3, <2>3, FS_Subset
<1>5. \A cp \in S : Cell[cp] \in Nat
  <2> TAKE cp \in S
  <2>1. PICK c \in Candles, p \in CellPrices : cp = <<c, p>>
    BY <1>3
  <2> QED
    BY <2>1, RangeProfileAssumption DEF Cell
<1>6. h \in [S -> I]
  <2>1. ASSUME NEW cp \in S PROVE binIdx(b, cp[2]) \in I
    <3>1. cp[2] \in Int
      BY <1>3, RangeProfileAssumption DEF CellPrices
    <3>2. (b.hi - cp[2]) \div 2 \in Int
      BY <1>1, <3>1
    <3> QED
      BY <1>2, <3>2 DEF binIdx, LastBucket, Max2, Min2
  <2> HIDE DEF I, S
  <2> QED
    BY <2>1
<1>7. \A i \in I : IsFiniteSet(F(i)) /\ \A x \in F(i) : Cell[x] \in Nat
  BY <1>4, <1>5, FS_Subset
<1>8. \A i \in I : SumFunctionOnSet(Cell, F(i)) \in Nat
  <2> HIDE DEF F, I
  <2> QED
    BY <1>7, SumType
<1>9. profileBins(b) = [i \in I |-> SumFunctionOnSet(Cell, F(i))]
  <2>1. \A i \in I : {cp \in Inside(b) : binIdx(b, cp[2]) = i} = F(i)
    OBVIOUS
  <2>2. profileBins(b) = [i \in I |-> SumFunctionOnSet(Cell, {cp \in Inside(b) : binIdx(b, cp[2]) = i})]
    BY DEF profileBins, LastBucket
  <2> HIDE DEF F, I
  <2> QED
    BY <2>1, <2>2
<1>10. IsFiniteSet(I)
  BY <1>2, FS_Interval
<1>11. /\ profileBins(b) \in [I -> Int]
       /\ \A i \in I : profileBins(b)[i] = SumFunctionOnSet(Cell, {x \in S : h[x] = i})
  <2>1. profileBins(b) \in [I -> Int]
    <3> HIDE DEF F, I
    <3> QED
      BY <1>8, <1>9
  <2>2. \A i \in I : profileBins(b)[i] = SumFunctionOnSet(Cell, F(i))
    <3> HIDE DEF F, I
    <3> QED
      BY <1>9
  <2> HIDE DEF h, I, S
  <2> QED
    BY <2>1, <2>2
<1>12. SumFunctionOnSet(profileBins(b), I) = SumFunctionOnSet(Cell, S)
  <2>1. \A x \in S : Cell[x] \in Int
    BY <1>5
  <2> HIDE DEF h, I, S
  <2> QED
    BY <1>4, <1>6, <1>10, <1>11, <2>1, SumPartition
<1>13. profileBins(b) \in [I -> Nat]
  <2> HIDE DEF F, I
  <2> QED
    BY <1>8, <1>9
<1> QED
  BY <1>2, <1>12, <1>13

\* No bucket holds more than all together, so one of them holds the most, and pocIdx is such a one.
LEMMA PeakFacts ==
    ASSUME NEW n \in Nat, NEW f \in [0 .. n -> Nat]
    PROVE  /\ pocIdx(f) \in 0 .. n
           /\ \A i \in 0 .. n : f[i] <= f[pocIdx(f)]
<1> DEFINE T == {f[i] : i \in 0 .. n}
           N == SumFunctionOnSet(f, 0 .. n)
           P == {i \in DOMAIN f : \A j \in DOMAIN f : f[j] <= f[i]}
<1>1. IsFiniteSet(0 .. n)
  BY FS_Interval
<1>2. N \in Nat
  BY <1>1, SumType
<1>3. ASSUME NEW i \in 0 .. n PROVE f[i] <= N
  <2>1. N = f[i] + SumFunctionOnSet(f, (0 .. n) \ {i})
    BY <1>1, SumRemove
  <2>2. SumFunctionOnSet(f, (0 .. n) \ {i}) \in Nat
    BY <1>1, FS_RemoveElement, SumType
  <2> QED
    BY <2>1, <2>2
<1>4. \E m \in T : \A k \in T : k <= m
  <2>1. T \in SUBSET Nat /\ T # {} /\ \A k \in T : k <= N
    BY <1>3
  <2> HIDE DEF T, N
  <2> QED
    BY <1>2, <2>1, GreatestNatural
<1>5. P # {} /\ P \in SUBSET Nat /\ P \subseteq 0 .. n
  <2>1. PICK i \in 0 .. n : \A j \in 0 .. n : f[j] <= f[i]
    BY <1>4
  <2>2. DOMAIN f = 0 .. n
    OBVIOUS
  <2> QED
    BY <2>1, <2>2
<1>6. \E m \in P : \A k \in P : m <= k
  <2> HIDE DEF P
  <2> QED
    BY <1>5, LeastNatural
<1>7. Min(P) \in P
  <2> HIDE DEF P
  <2> QED
    BY <1>6 DEF Min
<1> QED
  BY <1>5, <1>7 DEF pocIdx

\* The loop takes one neighbour into the area and counts it.
LEMMA TakesIn ==
    ASSUME NEW n \in Nat, NEW f \in [0 .. n -> Nat], NEW l \in 0 .. n, NEW u \in 0 .. n, l <= u
    PROVE  /\ SumFunctionOnSet(f, l .. u) \in Nat
           /\ l > 0 => SumFunctionOnSet(f, (l - 1) .. u) = SumFunctionOnSet(f, l .. u) + f[l - 1]
           /\ u < n => SumFunctionOnSet(f, l .. (u + 1)) = SumFunctionOnSet(f, l .. u) + f[u + 1]
<1>1. IsFiniteSet(l .. u) /\ \A i \in l .. u : f[i] \in Nat
  <2>1. l \in Int /\ u \in Int
    OBVIOUS
  <2>2. IsFiniteSet(l .. u)
    BY <2>1, FS_Interval
  <2>3. \A i \in l .. u : i \in 0 .. n
    OBVIOUS
  <2> QED
    BY <2>2, <2>3
<1>2. SumFunctionOnSet(f, l .. u) \in Nat
  BY <1>1, SumType
<1>3. ASSUME NEW i \in 0 .. n, i \notin l .. u
      PROVE  SumFunctionOnSet(f, (l .. u) \union {i}) = SumFunctionOnSet(f, l .. u) + f[i]
  <2>1. f[i] \in Nat
    OBVIOUS
  <2>2. \A y \in (l .. u) \union {i} : f[y] \in Int
    BY <1>1, <2>1
  <2>3. SumFunctionOnSet(f, (l .. u) \union {i}) = f[i] + SumFunctionOnSet(f, l .. u)
    BY <1>1, <1>3, <2>2, SumAdd
  <2> QED
    BY <1>2, <2>1, <2>3
<1>4. l > 0 => l - 1 \in 0 .. n /\ l - 1 \notin l .. u /\ (l - 1) .. u = (l .. u) \union {l - 1}
  OBVIOUS
<1>5. u < n => u + 1 \in 0 .. n /\ u + 1 \notin l .. u /\ l .. (u + 1) = (l .. u) \union {u + 1}
  OBVIOUS
<1> QED
  BY <1>2, <1>3, <1>4, <1>5

\* Everything the loop compares is a number.
LEMMA ValueAreaNumbers ==
    ASSUME ProfileInv, ValueArea
    PROVE  /\ LastBucket(box) \in Nat /\ DOMAIN bins = 0 .. LastBucket(box)
           /\ Max(DOMAIN bins) = LastBucket(box)
           /\ Total(bins) = SumFunctionOnSet(bins, 0 .. LastBucket(box)) /\ Total(bins) \in Nat
           /\ low \in Int /\ high \in Int /\ low <= high /\ area \in Nat
<1>1. LastBucket(box) \in Nat
  BY BucketFacts DEF ProfileInv
<1>2. DOMAIN bins = 0 .. LastBucket(box)
  BY DEF ValueArea
<1>3. Max(DOMAIN bins) = LastBucket(box)
  BY <1>1, <1>2, MaxOfRange
<1>4. Total(bins) = SumFunctionOnSet(bins, 0 .. LastBucket(box))
  BY <1>2 DEF Total, SumFunction
<1>5. 0 \in 0 .. LastBucket(box) /\ LastBucket(box) \in 0 .. LastBucket(box) /\ 0 <= LastBucket(box)
  BY <1>1
<1>6. bins \in [0 .. LastBucket(box) -> Nat]
  BY DEF ValueArea
<1>7. SumFunctionOnSet(bins, 0 .. LastBucket(box)) \in Nat
  BY <1>1, <1>5, <1>6, TakesIn
<1>8. low \in 0 .. LastBucket(box) /\ high \in 0 .. LastBucket(box) /\ low <= high
  BY <1>1 DEF ValueArea
<1>9. area \in Nat
  BY <1>1, <1>6, <1>8, TakesIn DEF ValueArea
<1> QED
  BY <1>1, <1>2, <1>3, <1>4, <1>7, <1>8, <1>9

\* A step of the loop, and its end, keep what is said of the area.
LEMMA ProfileInvStep == ProfileInv /\ [Next]_vars => ProfileInv'
<1> SUFFICES ASSUME ProfileInv, [Next]_vars PROVE ProfileInv'
  OBVIOUS
<1> DEFINE n == LastBucket(box)
<1>1. CASE UNCHANGED profileVars
  <2>1. UNCHANGED <<cells, stage, box, bins, poc, low, high, area>>
    BY <1>1 DEF profileVars
  <2>2. Cell' = Cell
    BY <2>1 DEF Cell
  <2>3. ValueArea' <=> ValueArea
    BY <2>1, <2>2 DEF ValueArea
  <2>4. Growing' <=> Growing
    BY <2>1 DEF Growing
  <2> QED
    BY <2>1, <2>3, <2>4 DEF ProfileInv
<1>2. ASSUME NEW b \in Boxes, Profile(b) PROVE ProfileInv'
  <2>1. /\ cells \in [Candles -> [CellPrices -> Volumes]] /\ UNCHANGED cells
        /\ stage' = "extend" /\ box' = b /\ bins' = profileBins(b)
        /\ poc' = pocIdx(bins') /\ low' = poc' /\ high' = poc' /\ area' = bins'[poc']
    BY <1>2 DEF Profile, ProfileInv
  <2>2. /\ LastBucket(b) \in Nat /\ bins' \in [0 .. LastBucket(b) -> Nat]
        /\ SumFunctionOnSet(bins', 0 .. LastBucket(b)) = SumFunctionOnSet(Cell, Inside(b))
    BY <2>1, BucketFacts
  <2>3. poc' \in 0 .. LastBucket(b) /\ \A i \in 0 .. LastBucket(b) : bins'[i] <= bins'[poc']
    BY <2>1, <2>2, PeakFacts
  <2>4. area' = SumFunctionOnSet(bins', low' .. high')
    <3>1. low' .. high' = {} \union {poc'} /\ bins'[poc'] \in Nat
      BY <2>1, <2>2, <2>3
    <3>2. SumFunctionOnSet(bins', {}) = 0
      BY FS_EmptySet, SumStep
    <3>3. SumFunctionOnSet(bins', {} \union {poc'}) = bins'[poc'] + SumFunctionOnSet(bins', {})
      BY <3>1, FS_EmptySet, SumAdd
    <3> QED
      BY <2>1, <3>1, <3>2, <3>3
  <2>5. Cell' = Cell
    BY <2>1 DEF Cell
  <2>6. poc' \in low' .. high'
    BY <2>1, <2>2, <2>3
  <2>7. ValueArea'
    BY <2>1, <2>2, <2>3, <2>4, <2>5, <2>6 DEF ValueArea
  <2> QED
    BY <2>1, <2>7 DEF ProfileInv
<1>3. CASE Extend
  <2>1. ValueArea /\ stage = "extend" /\ Growing /\ UNCHANGED <<cells, stage, box, bins, poc>>
    BY <1>3 DEF Extend, ProfileInv
  <2>2. /\ n \in Nat /\ bins \in [0 .. n -> Nat] /\ low \in 0 .. n /\ high \in 0 .. n
        /\ low <= high /\ low <= poc /\ poc <= high /\ Max(DOMAIN bins) = n /\ Total(bins) \in Nat
        /\ area = SumFunctionOnSet(bins, low .. high) /\ area \in Nat /\ poc \in 0 .. n
    BY <2>1, ValueAreaNumbers DEF ValueArea
  <2>3. 10 * area < 7 * Total(bins)
    BY <2>1 DEF Growing
  <2>4. \/ /\ low > 0 /\ area' = area + bins[low - 1] /\ low' = low - 1 /\ high' = high
        \/ /\ high < n /\ area' = area + bins[high + 1] /\ high' = high + 1 /\ low' = low
    BY <1>3, <2>2 DEF Extend
  <2>5. /\ low > 0 => SumFunctionOnSet(bins, (low - 1) .. high) = area + bins[low - 1]
        /\ high < n => SumFunctionOnSet(bins, low .. (high + 1)) = area + bins[high + 1]
    <3> HIDE DEF n
    <3>1. /\ low > 0 => SumFunctionOnSet(bins, (low - 1) .. high)
                         = SumFunctionOnSet(bins, low .. high) + bins[low - 1]
          /\ high < n => SumFunctionOnSet(bins, low .. (high + 1))
                         = SumFunctionOnSet(bins, low .. high) + bins[high + 1]
      <4>1. n \in Nat /\ bins \in [0 .. n -> Nat] /\ low \in 0 .. n /\ high \in 0 .. n /\ low <= high
        BY <2>2
      <4> QED
        BY <4>1, TakesIn
    <3> QED
      BY <2>2, <3>1
  <2>6. /\ \E i \in {low', high'} \ {poc} : area' - bins[i] = area
        /\ area' = SumFunctionOnSet(bins, low' .. high')
        /\ low' \in 0 .. n /\ high' \in 0 .. n /\ poc \in low' .. high'
    <3>1. CASE low > 0 /\ area' = area + bins[low - 1] /\ low' = low - 1 /\ high' = high
      <4>1. low - 1 \in 0 .. n /\ low - 1 # poc
        BY <2>2, <3>1
      <4>2. bins[low - 1] \in Nat
        BY <2>2, <4>1
      <4>3. area' - bins[low'] = area
        BY <2>2, <3>1, <4>2
      <4>4. poc \in low' .. high'
        BY <2>2, <3>1
      <4> HIDE DEF n
      <4> QED
        BY <2>2, <2>5, <3>1, <4>1, <4>3, <4>4
    <3>2. CASE high < n /\ area' = area + bins[high + 1] /\ high' = high + 1 /\ low' = low
      <4>1. high + 1 \in 0 .. n /\ high + 1 # poc
        BY <2>2, <3>2
      <4>2. bins[high + 1] \in Nat
        BY <2>2, <4>1
      <4>3. area' - bins[high'] = area
        BY <2>2, <3>2, <4>2
      <4>4. poc \in low' .. high'
        BY <2>2, <3>2
      <4> HIDE DEF n
      <4> QED
        BY <2>2, <2>5, <3>2, <4>1, <4>3, <4>4
    <3> QED
      BY <2>4, <3>1, <3>2
  <2>8. Cell' = Cell /\ n' = n /\ Total(bins') = Total(bins)
    BY <2>1 DEF Cell
  <2>9. \E i \in {low', high'} \ {poc} : 10 * (area' - bins[i]) < 7 * Total(bins)
    BY <2>3, <2>6
  <2>10. ValueArea'
    BY <2>1, <2>6, <2>8, <2>9 DEF ValueArea
  <2> QED
    BY <2>1, <2>10 DEF ProfileInv
<1>4. CASE Drawn
  <2>1. /\ UNCHANGED <<cells, box, bins, poc, low, high, area>> /\ stage' = "done"
        /\ stage = "extend" /\ ~Growing
    BY <1>4 DEF Drawn
  <2>2. Cell' = Cell
    BY <2>1 DEF Cell
  <2>3. ValueArea' <=> ValueArea
    BY <2>1, <2>2 DEF ValueArea
  <2>4. Growing' <=> Growing
    BY <2>1 DEF Growing
  <2> QED
    BY <2>1, <2>3, <2>4 DEF ProfileInv
<1>5. CASE Removed
  <2>1. NoBox \in Boxes
    BY RangeProfileAssumption DEF NoBox, Boxes, Edges
  <2> QED
    BY <1>5, <2>1 DEF Removed, ProfileInv
<1>6. \/ UNCHANGED profileVars
      \/ \E b \in Boxes : Profile(b)
      \/ Extend \/ Drawn \/ Removed
  BY DEF Next, vars, ProfileNext
<1> QED
  BY <1>1, <1>2, <1>3, <1>4, <1>5, <1>6

\* There is no box at first.
LEMMA ProfileInvInit == Init => ProfileInv
<1> SUFFICES ASSUME ProfileInit PROVE ProfileInv
  BY DEF Init
<1>1. NoBox \in Boxes
  BY RangeProfileAssumption DEF NoBox, Boxes, Edges
<1> QED
  BY <1>1 DEF ProfileInit, ProfileInv

\* The profile that is drawn holds every cell of its box once, and its value area is no
\* larger than it must be, for charts and boxes of any size (ClusterChart.tsx:2743-2813).
THEOREM ValueAreaRightHolds == Spec => []ValueAreaRight
<1>1. ASSUME ProfileInv, stage = "done" PROVE ValueAreaRight
  <2> DEFINE n == LastBucket(box)
             total == SumFunctionOnSet(Cell, Inside(box))
             part70 == [i \in low .. high |-> bins[i]]
  <2>1. ValueArea /\ ~Growing
    BY <1>1 DEF ProfileInv
  <2>2. /\ n \in Nat /\ Max(DOMAIN bins) = n /\ DOMAIN bins = 0 .. n
        /\ Total(bins) = total /\ Total(bins) \in Nat /\ area \in Nat
        /\ Total(bins) = SumFunctionOnSet(bins, 0 .. n)
    BY <1>1, <2>1, ValueAreaNumbers DEF ValueArea
  <2>3. /\ bins \in [0 .. n -> Nat] /\ low \in 0 .. n /\ high \in 0 .. n
        /\ low <= poc /\ poc <= high /\ area = SumFunctionOnSet(bins, low .. high)
        /\ \A i \in 0 .. n : bins[i] <= bins[poc]
        /\ low = high \/ \E i \in {low, high} \ {poc} : 10 * (area - bins[i]) < 7 * Total(bins)
    BY <2>1, <2>2 DEF ValueArea
  <2>4. 10 * area >= 7 * total
    <3>1. CASE Total(bins) = 0
      BY <2>2, <3>1
    <3>2. CASE ~(10 * area < 7 * Total(bins))
      BY <2>2, <3>2
    <3>3. CASE low = 0 /\ high = n
      BY <2>2, <2>3, <3>3
    <3>4. Total(bins) = 0 \/ ~(10 * area < 7 * Total(bins)) \/ (low = 0 /\ high = n)
      BY <2>1, <2>2, <2>3 DEF Growing
    <3> QED
      BY <3>1, <3>2, <3>3, <3>4
  <2>5. area = Total(part70)
    <3>1. \A i \in low .. high : i \in 0 .. n
      BY <2>2, <2>3
    <3>2. \A i \in low .. high : bins[i] = part70[i] /\ bins[i] \in Int
      BY <2>3, <3>1
    <3>3. IsFiniteSet(low .. high)
      <4>1. low \in Int /\ high \in Int
        BY <2>3
      <4> QED
        BY <4>1, FS_Interval
    <3>4. DOMAIN part70 = low .. high
      OBVIOUS
    <3> HIDE DEF part70
    <3>5. Total(part70) = SumFunctionOnSet(part70, low .. high)
      BY <3>4 DEF Total, SumFunction
    <3>6. SumFunctionOnSet(bins, low .. high) = SumFunctionOnSet(part70, low .. high)
      BY <3>2, <3>3, SumSame
    <3> QED
      BY <2>3, <3>5, <3>6
  <2> HIDE DEF n
  <2> QED
    BY <2>2, <2>3, <2>4, <2>5 DEF ValueAreaRight
<1>2. ProfileInv => ValueAreaRight
  BY <1>1 DEF ValueAreaRight
<1> QED
  BY <1>2, ProfileInvInit, ProfileInvStep, PTL DEF Spec

--------------------------------------------------------------------------------
(* The page.                                                                    *)

\* The page's variables have their types: all four parts, and the tier.
THEOREM TypeOKHolds == Spec => []TypeOK
<1>1. ProfileInv => ProfileTypeOK
  <2> SUFFICES ASSUME ProfileInv PROVE ProfileTypeOK
    OBVIOUS
  <2>1. cells \in [Candles -> [CellPrices -> Volumes]] /\ stage \in {"idle", "extend", "done"} /\ box \in Boxes
    BY DEF ProfileInv
  <2>2. CASE stage = "idle"
    <3>0. bins = Empty
      BY <2>2 DEF ProfileInv
    <3>1. DOMAIN bins = 0 .. Max(DOMAIN bins) /\ DOMAIN bins = {0} /\ bins[0] = 0
      <4>1. 0 .. 0 = {0} /\ DOMAIN bins = {0} /\ bins[0] = 0
        BY <3>0 DEF Empty
      <4>2. Max(0 .. 0) = 0
        BY MaxOfRange
      <4> QED
        BY <4>1, <4>2
    <3>2. poc = 0 /\ low = 0 /\ high = 0 /\ area = 0
      BY <2>2 DEF ProfileInv
    <3> QED
      BY <2>1, <3>1, <3>2 DEF ProfileTypeOK
  <2>3. CASE stage # "idle"
    <3>1. ValueArea
      BY <2>3 DEF ProfileInv
    <3>2. /\ DOMAIN bins = 0 .. Max(DOMAIN bins) /\ area \in Nat
          /\ bins \in [0 .. LastBucket(box) -> Nat] /\ DOMAIN bins = 0 .. LastBucket(box)
          /\ LastBucket(box) \in Nat
      BY <3>1, ValueAreaNumbers DEF ValueArea
    <3>3. poc \in DOMAIN bins /\ low \in DOMAIN bins /\ high \in DOMAIN bins
      BY <3>1, <3>2 DEF ValueArea
    <3> QED
      BY <2>1, <3>2, <3>3 DEF ProfileTypeOK
  <2> QED
    BY <2>2, <2>3
<1>2. ChartInv => ChartTypeOK
  BY DEF ChartInv, ScrollInv, ScrollType, GestureInv, GestureType, ChartTypeOK
<1>3. WorkspaceInv => WorkspaceTypeOK
  BY DEF WorkspaceInv
<1>4. ModalInv => ModalTypeOK
  BY DEF ModalInv
<1> DEFINE PageInv == part \in Parts /\ role \in Roles
<1>5. Init => PageInv
  BY DEF Init
<1>6. PageInv /\ [Next]_vars => PageInv'
  <2> SUFFICES ASSUME PageInv, [Next]_vars PROVE PageInv'
    OBVIOUS
  <2>1. part' = part
    BY DEF Next, vars
  <2>2. CASE PageNext
    <3>1. role' = role \/ \E r \in Roles : role' = r
      BY <2>2 DEF PageNext, ChangeRole
    <3> QED
      BY <2>1, <3>1
  <2>3. CASE UNCHANGED pageVars
    BY <2>1, <2>3 DEF pageVars
  <2> QED
    BY <2>2, <2>3 DEF Next, vars
<1>7. PageInv /\ WorkspaceInv /\ ModalInv /\ ChartInv /\ ProfileInv => TypeOK
  BY <1>1, <1>2, <1>3, <1>4 DEF TypeOK
<1>8. WorkspaceInv /\ [Next]_vars => WorkspaceInv'
  BY WorkspaceInvStep DEF WorkspaceStep
<1> HIDE DEF PageInv
<1> QED
  BY <1>5, <1>6, <1>7, <1>8, WorkspaceInvInit, ModalInvInit, ModalInvStep,
     ChartInvInit, ChartInvStep, ProfileInvInit, ProfileInvStep, PTL DEF Spec

================================================================================
