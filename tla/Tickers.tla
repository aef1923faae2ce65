-------------------------------- MODULE Tickers --------------------------------
(***************************************************************************)
(* The ticker registry: the database tab of the administrator's page       *)
(* (frontend-chart/src/components/AdminPanel.tsx), the handlers behind it   *)
(* (backend/internal/admin/handlers.go) and the table they keep             *)
(* (backend/internal/store/clickhouse.go).                                  *)
(*                                                                         *)
(* A ticker is in three places: the table, the list of the handlers, which *)
(* a history load is looked up in, and the list the page shows.  A request *)
(* writes the table and then, under a lock, the handlers' list; requests   *)
(* run concurrently.  ALTER TABLE DELETE is a mutation: it is accepted at  *)
(* once and later removes the rows that were there.  The copies the API    *)
(* and the ingest take at start-up are never changed and are left out.     *)
(***************************************************************************)
EXTENDS Naturals, FiniteSets

CONSTANTS
    Symbols,    \* tickers, a symbol with its market
    Values,     \* what is configured of one: tick size, compression, days
    Absent,     \* no such ticker
    Seed,       \* what the migration puts into an empty table
    Requests    \* bound: requests under way at once

ASSUME TickersAssumption ==
    /\ Absent \notin Symbols \union Values
    /\ Seed \in [Symbols -> Values \union {Absent}]

VARIABLES
    table,      \* per ticker, its newest row
    doomed,     \* tickers whose newest row an accepted deletion has still to remove
    configs,    \* AdminHandler.configs
    registry,   \* the page: whether it is mounted, its list and its form
    req,        \* requests of the page, by number
    disturbed,  \* history: tickers whose last change met another one, a failure or a restart
    newest,     \* history: the request that read the table last, and
    early,      \* the tickers it found that were to be deleted
    outrun,     \* history: the list shown was read before another one that was shown
    trouble     \* history: a request failed or came from an earlier mount of the page

tickerVars == <<table, doomed, configs, registry, req, disturbed, newest, early, outrun, trouble>>

Rows == [Symbols -> Values \union {Absent}]
NoRows == [t \in Symbols |-> Absent]

Idle == [kind |-> "none", at |-> "idle", t |-> Absent, v |-> Absent, read |-> NoRows,
         crossed |-> FALSE, stray |-> FALSE]
Fetch == [Idle EXCEPT !.kind = "get", !.at = "sent"]

TickersTypeOK ==
    /\ table \in Rows /\ configs \in Rows /\ doomed \subseteq Symbols
    /\ registry \in [mounted : BOOLEAN, list : Rows, symbol : Symbols \union {Absent}]
    /\ req \in [Requests -> [kind : {"none", "get", "post", "delete"},
                             at : {"idle", "sent", "stored", "ok", "error"},
                             t : Symbols \union {Absent}, v : Values \union {Absent},
                             read : Rows, crossed : BOOLEAN, stray : BOOLEAN]]
    /\ disturbed \subseteq Symbols /\ early \subseteq Symbols
    /\ newest \in Requests \union {0} /\ outrun \in BOOLEAN /\ trouble \in BOOLEAN

Unmounted == [mounted |-> FALSE, list |-> NoRows, symbol |-> Absent]

TickersInit ==
    /\ table = Seed /\ configs = Seed /\ doomed = {}
    /\ registry = Unmounted /\ req = [i \in Requests |-> Idle]
    /\ disturbed = {} /\ newest = 0 /\ early = {} /\ outrun = FALSE /\ trouble = FALSE
--------------------------------------------------------------------------------
(* The page. *)
serverSide == <<table, doomed, configs, disturbed, newest, early>>

(* Request i starts; numbers are interchangeable, so the first that is free is taken. *)
Sends(i, r) ==
    /\ req[i].at = "idle" /\ \A j \in Requests : j < i => req[j].at # "idle"
    /\ req' = [req EXCEPT ![i] = r]

MountRegistry(i) ==
    /\ ~registry.mounted
    /\ registry' = [registry EXCEPT !.mounted = TRUE]
    /\ Sends(i, Fetch)
    /\ trouble' = (\E j \in Requests : req[j].at # "idle")
    /\ UNCHANGED <<serverSide, outrun>>

(* Requests go on; their answers reach nothing. *)
UnmountRegistry ==
    /\ registry.mounted
    /\ registry' = Unmounted
    /\ req' = [i \in Requests |-> [req[i] EXCEPT !.stray = @ \/ req[i].at # "idle"]]
    /\ newest' = 0 /\ early' = {} /\ outrun' = FALSE /\ trouble' = FALSE
    /\ UNCHANGED <<table, doomed, configs, disturbed>>

TypeTicker(t) ==
    /\ registry.mounted
    /\ registry' = [registry EXCEPT !.symbol = t]
    /\ UNCHANGED <<serverSide, req, outrun, trouble>>

AddTicker(i, v) ==
    /\ registry.mounted /\ registry.symbol # Absent
    /\ Sends(i, [Idle EXCEPT !.kind = "post", !.at = "sent", !.t = registry.symbol, !.v = v])
    /\ UNCHANGED <<serverSide, registry, outrun, trouble>>

(* The rows of the list have the buttons. *)
Deletable(t) == registry.list[t] # Absent

DeleteTicker(i, t) ==
    /\ registry.mounted /\ Deletable(t)
    /\ Sends(i, [Idle EXCEPT !.kind = "delete", !.at = "sent", !.t = t])
    /\ UNCHANGED <<serverSide, registry, outrun, trouble>>

(* What the page does with a good answer: it shows the list, or fetches it; after an Add *)
(* the form loses its symbol, also one typed meanwhile. *)
Shows(r) ==
    CASE r.kind = "get"    -> [registry EXCEPT !.list = r.read]
      [] r.kind = "post"   -> [registry EXCEPT !.symbol = Absent]
      [] r.kind = "delete" -> registry

NoRefetch(r) == Idle

Follows(r) == IF r.kind = "get" THEN Idle ELSE Fetch

AnswerArrives(i) ==
    /\ req[i].at = "ok"
    /\ registry' = IF req[i].stray THEN registry ELSE Shows(req[i])
    /\ req' = [req EXCEPT ![i] = IF req[i].stray THEN Idle ELSE Follows(req[i])]
    /\ outrun' = IF req[i].kind = "get" /\ ~req[i].stray THEN i # newest ELSE outrun
    /\ UNCHANGED <<serverSide, trouble>>

(* A refusal, and an answer that is lost, change nothing on the page. *)
AnswerIsNone(i) ==
    /\ req[i].at \in {"ok", "error"}
    /\ req' = [req EXCEPT ![i] = Idle]
    /\ trouble' = (trouble \/ ~req[i].stray)
    /\ UNCHANGED <<serverSide, registry, outrun>>
--------------------------------------------------------------------------------
(* The server. *)
pageSide == <<registry, outrun, trouble>>

ReadTickers(i) ==
    /\ req[i].kind = "get" /\ req[i].at = "sent"
    /\ req' = [req EXCEPT ![i].at = "ok", ![i].read = table]
    /\ newest' = IF req[i].stray THEN newest ELSE i
    /\ early' = IF req[i].stray THEN early ELSE doomed
    /\ UNCHANGED <<pageSide, table, doomed, configs, disturbed>>

(* The requests that are between their two writes of the ticker of request i. *)
Met(i) == {j \in Requests : req[j].at = "stored" /\ req[j].t = req[i].t}

(* Request i has changed the row of its ticker and is r from now on. *)
Passed(i, r) ==
    req' = [j \in Requests |-> IF j = i THEN r
                               ELSE IF j \in Met(i) THEN [req[j] EXCEPT !.crossed = TRUE] ELSE req[j]]

(* A request that is over, as far as the server is concerned. *)
Ended(r, outcome) == [Idle EXCEPT !.kind = r.kind, !.at = outcome, !.stray = r.stray]

UpsertTickerConfig(r) == table' = [table EXCEPT ![r.t] = r.v] /\ doomed' = doomed \ {r.t}

DeleteTickerConfig(r) ==
    table' = table /\ doomed' = doomed \union {t \in {r.t} : table[t] # Absent}

Stores(r) == IF r.kind = "post" THEN UpsertTickerConfig(r) ELSE DeleteTickerConfig(r)

Store(i) ==
    /\ req[i].kind \in {"post", "delete"} /\ req[i].at = "sent"
    /\ Stores(req[i])
    /\ Passed(i, [req[i] EXCEPT !.at = "stored", !.crossed = Met(i) # {}])
    /\ UNCHANGED <<pageSide, configs, disturbed, newest, early>>

(* An error from the database; the row may have been written. *)
StoreFails(i) ==
    /\ req[i].kind \in {"post", "delete"} /\ req[i].at = "sent"
    /\ Stores(req[i]) \/ UNCHANGED <<table, doomed>>
    /\ Passed(i, Ended(req[i], "error"))
    /\ disturbed' = disturbed \union {req[i].t}
    /\ UNCHANGED <<pageSide, configs, newest, early>>

(* The handlers' list after request r: its entry is replaced or appended, or removed. *)
Listed(list, r) == [list EXCEPT ![r.t] = IF r.kind = "post" THEN r.v ELSE Absent]

UpdateConfigs(i) ==
    /\ req[i].at = "stored"
    /\ configs' = Listed(configs, req[i])
    /\ req' = [req EXCEPT ![i] = Ended(@, "ok")]
    /\ disturbed' = IF req[i].crossed THEN disturbed \union {req[i].t} ELSE disturbed \ {req[i].t}
    /\ UNCHANGED <<pageSide, table, doomed, newest, early>>

(* ClickHouse carries out a deletion. *)
Mutation(t) ==
    /\ t \in doomed
    /\ table' = [table EXCEPT ![t] = Absent] /\ doomed' = doomed \ {t}
    /\ UNCHANGED <<pageSide, configs, req, disturbed, newest, early>>

(* The server restarts: an empty table is filled by the migration, the list is the table, *)
(* or, when it cannot be read, the one in main.go; requests between their two writes end. *)
Restart ==
    LET rows == IF table = NoRows THEN Seed ELSE table
    IN /\ table' = rows /\ doomed' = doomed
       /\ \/ configs' = rows /\ disturbed' = doomed
          \/ configs' = Seed /\ disturbed' = Symbols
       /\ req' = [i \in Requests |-> IF req[i].at = "stored" THEN Ended(req[i], "error")
                                                             ELSE req[i]]
       /\ trouble' = (registry.mounted /\ (trouble \/ rows # table))
       /\ UNCHANGED <<registry, outrun, newest, early>>

TickersNext ==
    \/ \E i \in Requests :
         \/ MountRegistry(i) \/ AnswerArrives(i) \/ AnswerIsNone(i)
         \/ ReadTickers(i) \/ Store(i) \/ StoreFails(i) \/ UpdateConfigs(i)
    \/ \E i \in Requests, t \in Symbols : DeleteTicker(i, t)
    \/ \E i \in Requests, v \in Values : AddTicker(i, v)
    \/ \E t \in Symbols : TypeTicker(t)
    \/ \E t \in Symbols : Mutation(t)
    \/ UnmountRegistry \/ Restart
--------------------------------------------------------------------------------
(* What a ticker's row is once the accepted deletions are carried out. *)
Effective(t) == IF t \in doomed THEN Absent ELSE table[t]

(* The three copies of a ticker agree.  The handlers' list has what the     *)
(* table has, between any two changes of the ticker that did not overlap,   *)
(* fail or meet a restart (handlers.go:436): a history load is refused for  *)
(* nothing the table has.  And once the page is idle its list shows the     *)
(* table, in whichever order the changes and the fetches that follow them   *)
(* are carried out (AdminPanel.tsx:267, AdminPanel.tsx:278), unless the     *)
(* answers of two fetches arrive in the other order, a request failed, or   *)
(* the fetch after a deletion came before ClickHouse had carried it out.    *)
CopiesAgree ==
    /\ \A t \in Symbols \ disturbed :
         (\A i \in Requests : req[i].at = "stored" => req[i].t # t) => configs[t] = Effective(t)
    /\ (registry.mounted /\ ~trouble /\ ~outrun /\ \A i \in Requests : req[i].at = "idle")
         => \A t \in Symbols \ early : registry.list[t] = Effective(t)
================================================================================
