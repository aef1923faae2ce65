------------------------------- MODULE Workspace -------------------------------
(***************************************************************************)
(* The two charts of the terminal, the toolbar that edits the active one,  *)
(* and the effects that keep their settings consistent                     *)
(* (frontend-chart/src/App.tsx).                                           *)
(*                                                                         *)
(* Every toolbar setting exists twice, once per chart, and is read and     *)
(* written through activeChartIndex.  The effects depend on the value they *)
(* see through it, so moving the focus to a chart with other settings runs *)
(* them as an edit would.  A click inside a chart reaches its container's  *)
(* onClickCapture first; React commits that update, effects included,      *)
(* before the handler of the button itself runs, so a click on a button of *)
(* a chart is two commits.  Each per-chart setting is stored by an effect  *)
(* of the commit that changes it: what is stored is what is shown.         *)
(***************************************************************************)
EXTENDS Tiers, FiniteSets

CONSTANTS
    Symbols,      \* the pairs of the ticker menu
    Intervals,    \* the intervals in use, among the seven of the toolbar
    Multipliers,  \* compression levels of the select, 1 .. 10 in the code
    Styles        \* candle type, data type and palette, together

ASSUME WorkspaceAssumption ==
    /\ "15m" \in Intervals
    /\ Intervals \subseteq {"1m", "5m", "15m", "30m", "1h", "4h", "50t"}
    /\ Multipliers \subseteq 1 .. 10

VARIABLES
    chart,    \* per chart: symbol, interval, market, compression and style
    active,   \* activeChartIndex
    layout,   \* workspaceLayout: one chart, two side by side, two stacked
    picked,   \* history: the chart's compression was picked for its present key
    orphaned  \* history: the second chart was closed from its own menu and still has the focus

workspaceVars == <<chart, active, layout, picked, orphaned>>

Charts == {0, 1}
Markets == {"SPOT", "FUTURES"}

WorkspaceTypeOK ==
    /\ chart \in [Charts -> [symbol : Symbols, interval : Intervals, market : Markets,
                             comp : 1 .. 10, style : Styles]]
    /\ active \in Charts /\ layout \in {"1", "2h", "2v"}
    /\ picked \in [Charts -> BOOLEAN] /\ orphaned \in BOOLEAN

DefaultCompressionAsStep(market) == IF market = "SPOT" THEN 500 ELSE 25

(* loadDefaultCompressionForPair; nothing in the program writes the overrides it looks for. *)
DefaultCompression(market) == IF market = "SPOT" THEN 1 ELSE 5

(* What the request of a chart is made for. *)
Key(c) == <<c.symbol, c.interval, c.market>>

(* The intervals the toolbar offers. *)
Offered(market) ==
    Intervals \ (IF market = "SPOT" THEN {"1m", "5m", "50t"} ELSE {})
--------------------------------------------------------------------------------
(* A commit: the charts and the focus it leaves, once the effects have run. *)
(* The default compression is loaded when the symbol, the interval or the   *)
(* market seen through the focus changes; a change of the market also moves *)
(* a spot chart off the minute intervals the toolbar offers for futures.    *)
Snapped(c, marketChanged) ==
    IF marketChanged /\ c.market = "SPOT" /\ c.interval \in {"1m", "5m"} THEN "15m" ELSE c.interval

SettledIgnoringPair(charts, focus, seen) ==
    LET c == charts[focus]
    IN IF c.interval = seen.interval /\ c.market = seen.market
         THEN charts
         ELSE [charts EXCEPT ![focus] =
                 [c EXCEPT !.interval = Snapped(c, c.market # seen.market),
                           !.comp = DefaultCompression(c.market)]]

Settled(charts, focus, seen) ==
    LET c == charts[focus]
    IN IF Key(c) = Key(seen)
         THEN charts
         ELSE [charts EXCEPT ![focus] =
                 [c EXCEPT !.interval = Snapped(c, c.market # seen.market),
                           !.comp = DefaultCompression(c.market)]]

(* The user's own pick of a compression belongs to the key it was made for. *)
StillPicked(charts) == [c \in Charts |-> picked[c] /\ Key(charts[c]) = Key(chart[c])]

(* Only the chart that has the focus is edited from the toolbar. *)
Edited(c) == Settled([chart EXCEPT ![active] = c], active, chart[active])

Edit(c) ==
    /\ chart' = Edited(c)
    /\ picked' = StillPicked(chart')
    /\ UNCHANGED <<active, layout, orphaned>>

SetPair(s) == Edit([chart[active] EXCEPT !.symbol = s])
SetMarketType(m) == Edit([chart[active] EXCEPT !.market = m])
SetInterval(i) == i \in Offered(chart[active].market) /\ Edit([chart[active] EXCEPT !.interval = i])
SetStyle(y) == Edit([chart[active] EXCEPT !.style = y])

(* Options above the tier's level are disabled in the select. *)
SetCompressionMultiplier(n) ==
    /\ n <= LimitsOf(role).compressionLevels
    /\ chart' = [chart EXCEPT ![active].comp = n]
    /\ picked' = [picked EXCEPT ![active] = TRUE]
    /\ UNCHANGED <<active, layout, orphaned>>
--------------------------------------------------------------------------------
Shown(c) == c = 0 \/ layout # "1"

(* onClickCapture of a chart's container, as a commit of its own. *)
Focused(c) == Settled(chart, c, chart[active])

Focus(c) ==
    /\ Shown(c)
    /\ active' = c
    /\ chart' = Focused(c)
    /\ picked' = StillPicked(chart')
    /\ orphaned' = (orphaned /\ c = 1)
    /\ UNCHANGED layout

(* The market button in a chart's header: the focus, then the toggle. *)
Toggled(charts, c) ==
    [charts EXCEPT ![c].market = IF @ = "SPOT" THEN "FUTURES" ELSE "SPOT"]

ToggledInOneCommit(c) == Settled(Toggled(chart, c), c, chart[active])

ToggledAfterFocus(c) == Settled(Toggled(Focused(c), c), c, Focused(c)[c])

ToggleMarket(c) ==
    /\ Shown(c)
    /\ active' = c
    /\ chart' = ToggledAfterFocus(c)
    /\ picked' = StillPicked(chart')
    /\ orphaned' = (orphaned /\ c = 1)
    /\ UNCHANGED layout

(* An entry of the workspace menu of chart c: two charts need a tier with two workspaces. *)
ChangeLayout(c, l) ==
    /\ Shown(c)
    /\ l = "1" \/ LimitsOf(role).workspacesCount >= 2
    /\ layout' = l
    /\ active' = c
    /\ chart' = Focused(c)
    /\ picked' = StillPicked(chart')
    /\ orphaned' = (c = 1 /\ l = "1")

(* A page load: the per-chart settings are read back, layout and focus are not kept, and *)
(* every effect runs once for the first chart. *)
Loaded(charts) ==
    LET c == charts[0]
    IN [charts EXCEPT ![0] = [c EXCEPT !.interval = Snapped(c, TRUE),
                                       !.comp = DefaultCompression(c.market)]]

ReloadWorkspaceKeepingFocus ==
    /\ chart' = Loaded(chart) /\ layout' = "1" /\ active' = active
    /\ picked' = [picked EXCEPT ![0] = FALSE] /\ orphaned' = FALSE

ReloadWorkspace ==
    /\ chart' = Loaded(chart) /\ layout' = "1" /\ active' = 0
    /\ picked' = [picked EXCEPT ![0] = FALSE] /\ orphaned' = FALSE

--------------------------------------------------------------------------------
WorkspaceInit ==
    /\ \E s \in Symbols, y \in Styles :
         chart = [c \in Charts |-> [symbol |-> s, interval |-> "15m", market |-> "SPOT",
                                    comp |-> 1, style |-> y]]
    /\ active = 0 /\ layout = "1"
    /\ picked = [c \in Charts |-> FALSE] /\ orphaned = FALSE

WorkspaceNext ==
    \/ \E s \in Symbols : SetPair(s)
    \/ \E m \in Markets : SetMarketType(m)
    \/ \E i \in Intervals : SetInterval(i)
    \/ \E y \in Styles : SetStyle(y)
    \/ \E n \in Multipliers : SetCompressionMultiplier(n)
    \/ \E c \in Charts : Focus(c)
    \/ \E c \in Charts : ToggleMarket(c)
    \/ \E c \in Charts, l \in {"1", "2h", "2v"} : ChangeLayout(c, l)
--------------------------------------------------------------------------------
(* No spot chart is on 1m or 5m, whichever chart had the focus when a      *)
(* market was switched and from which of the two buttons: the toolbar does  *)
(* not offer them for spot (App.tsx:405).  A spot chart can be on 50t,      *)
(* which is not offered either: the effect does not move it off that one.   *)
NoShortSpot ==
    \A c \in Charts : chart[c].market = "SPOT" => chart[c].interval \notin {"1m", "5m"}

(* A compression other than the market's default was picked by the user    *)
(* for the very symbol, interval and market the chart shows: it is never   *)
(* carried over from another key, nor from the other chart, although       *)
(* one effect reloads it for whichever chart has the focus (App.tsx:386).  *)
CompressionBelongsToKey ==
    \A c \in Charts : chart[c].comp # DefaultCompression(chart[c].market) => picked[c]

(* A chart that is not on the screen is not edited, with one exception the  *)
(* code has: closed from its own menu the second chart keeps the focus, and *)
(* the toolbar edits it until the first chart is clicked (App.tsx:111).     *)
HiddenChartUntouched ==
    [][(layout = "1" /\ ~orphaned) => chart'[1] = chart[1]]_workspaceVars
================================================================================
