------------------------------ MODULE HistoryLoad ------------------------------
(***************************************************************************)
(* Loading the history of one ticker: the history tab of the               *)
(* administrator's page (frontend-chart/src/components/AdminPanel.tsx),    *)
(* the handlers that start a job and stream its progress                   *)
(* (backend/internal/admin/handlers.go) and the pipeline of a job          *)
(* (backend/internal/history): per day download an archive unless it is    *)
(* there, extract its file unless it is there, parse, aggregate, insert.   *)
(*                                                                         *)
(* Jobs run concurrently and share the files of the ticker.  A file is     *)
(* absent, empty, cut short or whole.  Inserted rows replace older ones,   *)
(* so the table holds for a day what was inserted last.                    *)
(***************************************************************************)
EXTENDS Naturals, FiniteSets

CONSTANTS
    NumDays,    \* days of the range that is loaded
    MaxJobs,    \* bound: jobs started
    MaxFaults,  \* bound: failed requests, cut copies, lost connections
    MaxCrashes  \* bound: restarts of the server

ASSUME HistoryLoadAssumption ==
    /\ NumDays \in Nat \ {0} /\ MaxJobs \in Nat \ {0}
    /\ MaxFaults \in Nat /\ MaxCrashes \in Nat

Days == 1 .. NumDays
Jobs == 1 .. MaxJobs

VARIABLES
    job,       \* per job: status, the day it works on, where it is in it and what it has parsed
    zip, csv,  \* per day: the archive and the file extracted from it
    creator,   \* per day: the job whose create or truncate of the archive was the last
    rows,      \* per day: what the table holds
    panel,     \* the tab: mounted, histJobId, histDone, histError
    sent,      \* POSTs of this mount that have not reached the server; stray: of earlier ones
    stray,
    answers,   \* jobs whose id is on the way back to this mount
    sources,   \* jobs whose EventSource this mount has open
    faults, crashes,  \* how much of the bounds is used
    torn,      \* history: days whose extracted file was cut short, or read while being written
    skipped,   \* history: per job, the days it logged and passed over
    doubled    \* history: the button was pressed while a POST of this mount was under way

serverVars == <<job, zip, csv, creator, rows, torn, skipped>>
panelVars == <<panel, sent, stray, answers, sources, doubled>>
historyVars == <<serverVars, panelVars, faults, crashes>>

HistoryTypeOK ==
    /\ job \in [Jobs -> [status : {"none", "running", "done", "lost"}, day : 1 .. NumDays + 1,
                         pc : {"stat", "get", "copy", "unzip", "extract", "read", "insert"},
                         text : {"none", "part", "full"}]]
    /\ zip \in [Days -> {"none", "empty", "part", "full"}]
    /\ csv \in [Days -> {"none", "part", "full"}] /\ rows \in [Days -> {"none", "part", "full"}]
    /\ creator \in [Days -> 0 .. MaxJobs]
    /\ panel \in [mounted : BOOLEAN, jobId : 0 .. MaxJobs, done : BOOLEAN, error : BOOLEAN]
    /\ sent \in 0 .. MaxJobs /\ stray \in 0 .. MaxJobs
    /\ answers \subseteq Jobs /\ sources \subseteq Jobs
    /\ faults \in 0 .. MaxFaults /\ crashes \in 0 .. MaxCrashes
    /\ torn \subseteq Days /\ skipped \in [Jobs -> SUBSET Days] /\ doubled \in BOOLEAN

Fresh(mounted) == [mounted |-> mounted, jobId |-> 0, done |-> FALSE, error |-> FALSE]

HistoryInit ==
    /\ job = [j \in Jobs |-> [status |-> "none", day |-> 1, pc |-> "stat", text |-> "none"]]
    /\ zip = [d \in Days |-> "none"] /\ csv = [d \in Days |-> "none"]
    /\ rows = [d \in Days |-> "none"] /\ creator = [d \in Days |-> 0]
    /\ panel = Fresh(FALSE) /\ sent = 0 /\ stray = 0 /\ answers = {} /\ sources = {}
    /\ faults = 0 /\ crashes = 0
    /\ torn = {} /\ skipped = [j \in Jobs |-> {}] /\ doubled = FALSE
--------------------------------------------------------------------------------
(* The pipeline of job j. *)
At(j, pc) == job[j].status = "running" /\ job[j].pc = pc /\ job[j].day \in Days

Goto(j, pc) == job' = [job EXCEPT ![j].pc = pc]

(* The day is finished, loaded or not; the job is done after the last. *)
NextDay(j) ==
    job' = [job EXCEPT ![j].day = @ + 1, ![j].pc = "stat", ![j].text = "none",
                       ![j].status = IF job[j].day = NumDays THEN "done" ELSE "running"]

SkipDay(j) == NextDay(j) /\ skipped' = [skipped EXCEPT ![j] = @ \union {job[j].day}]

Fault == faults < MaxFaults /\ faults' = faults + 1

(* An archive that is missing or empty is fetched; an empty one is removed first. *)
Stat(j) ==
    LET d == job[j].day
        fetch == zip[d] \in {"none", "empty"}
    IN /\ At(j, "stat")
       /\ Goto(j, IF fetch THEN "get" ELSE "unzip")
       /\ zip' = [zip EXCEPT ![d] = IF fetch THEN "none" ELSE @]
       /\ creator' = [creator EXCEPT ![d] = IF fetch THEN 0 ELSE @]
       /\ UNCHANGED <<csv, rows, torn, skipped, faults>>

(* The request is answered and the file created, which truncates one created meanwhile. *)
Create(j) ==
    LET d == job[j].day
    IN /\ At(j, "get")
       /\ Goto(j, "copy")
       /\ zip' = [zip EXCEPT ![d] = "empty"]
       /\ creator' = [creator EXCEPT ![d] = j]
       /\ UNCHANGED <<csv, rows, torn, skipped, faults>>

(* The first bytes; those of a job whose file was removed or truncated do not count. *)
Copy(j) ==
    LET d == job[j].day
    IN /\ At(j, "copy") /\ creator[d] = j /\ zip[d] = "empty"
       /\ zip' = [zip EXCEPT ![d] = "part"]
       /\ UNCHANGED <<job, csv, creator, rows, torn, skipped, faults>>

(* The last bytes: the file is whole if this job wrote all of it. *)
Copied(j) ==
    LET d == job[j].day
    IN /\ At(j, "copy")
       /\ Goto(j, "unzip")
       /\ zip' = [zip EXCEPT ![d] = IF creator[d] = j THEN "full" ELSE @]
       /\ UNCHANGED <<csv, creator, rows, torn, skipped, faults>>

(* No such day, no answer, or the connection breaks and leaves what has arrived. *)
DownloadFails(j) ==
    /\ At(j, "get") \/ At(j, "copy")
    /\ Fault
    /\ SkipDay(j)
    /\ UNCHANGED <<zip, csv, creator, rows, torn>>

UnzipAnything(j) ==
    LET d == job[j].day
    IN /\ At(j, "unzip")
       /\ \/ csv[d] # "none" /\ Goto(j, "read") /\ UNCHANGED csv
          \/ /\ csv[d] = "none" /\ zip[d] = "full"
             /\ Goto(j, "extract") /\ csv' = [csv EXCEPT ![d] = "part"]
          \/ /\ csv[d] = "none" /\ zip[d] # "full"
             /\ Goto(j, "read") /\ csv' = [csv EXCEPT ![d] = "part"]
       /\ UNCHANGED <<zip, creator, rows, torn, skipped, faults>>

(* An archive cut short has no directory and is not opened; one whose end this job wrote *)
(* while another writes it again has one, and breaks in the middle of the extraction. *)
Unzip(j) ==
    LET d == job[j].day
    IN /\ At(j, "unzip")
       /\ \/ /\ zip[d] = "full" /\ csv[d] # "none"
             /\ Goto(j, "read") /\ UNCHANGED <<csv, torn, skipped>>
          \/ /\ zip[d] = "full" /\ csv[d] = "none"
             /\ Goto(j, "extract") /\ csv' = [csv EXCEPT ![d] = "part"]
             /\ UNCHANGED <<torn, skipped>>
          \/ /\ zip[d] # "full"
             /\ SkipDay(j) /\ UNCHANGED <<csv, torn>>
          \/ /\ zip[d] = "part" /\ creator[d] # j /\ csv[d] = "none"
             /\ SkipDay(j)
             /\ csv' = [csv EXCEPT ![d] = "part"] /\ torn' = torn \union {d}
       /\ UNCHANGED <<zip, creator, rows, faults>>

Extracted(j) ==
    /\ At(j, "extract")
    /\ Goto(j, "read")
    /\ csv' = [csv EXCEPT ![job[j].day] = "full"]
    /\ UNCHANGED <<zip, creator, rows, torn, skipped, faults>>

ExtractFails(j) ==
    /\ At(j, "extract")
    /\ Fault
    /\ SkipDay(j)
    /\ torn' = torn \union {job[j].day}
    /\ UNCHANGED <<zip, csv, creator, rows>>

ReadOfArchive(j) ==
    LET d == job[j].day
    IN /\ At(j, "read")
       /\ job' = [job EXCEPT ![j].pc = "insert", ![j].text = zip[d]]
       /\ UNCHANGED <<zip, csv, creator, rows, torn, skipped, faults>>

(* parseCSV: what the file holds at this moment; a line that does not parse is left out. *)
Read(j) ==
    LET d == job[j].day
    IN /\ At(j, "read")
       /\ job' = [job EXCEPT ![j].pc = "insert", ![j].text = csv[d]]
       /\ torn' = IF \E k \in Jobs : At(k, "extract") /\ job[k].day = d
                    THEN torn \union {d} ELSE torn
       /\ UNCHANGED <<zip, csv, creator, rows, skipped, faults>>

Insert(j) ==
    /\ At(j, "insert")
    /\ rows' = [rows EXCEPT ![job[j].day] = job[j].text]
    /\ NextDay(j)
    /\ UNCHANGED <<zip, csv, creator, torn, skipped, faults>>

(* An insert that fails may have written. *)
InsertFails(j) ==
    /\ At(j, "insert")
    /\ Fault
    /\ SkipDay(j)
    /\ rows' \in {rows, [rows EXCEPT ![job[j].day] = job[j].text]}
    /\ UNCHANGED <<zip, csv, creator, torn>>

JobStep(j) ==
    /\ \/ Stat(j) \/ Create(j) \/ Copy(j) \/ Copied(j) \/ DownloadFails(j) \/ Unzip(j)
       \/ Extracted(j) \/ ExtractFails(j) \/ Read(j) \/ Insert(j) \/ InsertFails(j)
    /\ UNCHANGED <<panelVars, crashes>>
--------------------------------------------------------------------------------
(* The tab. *)
Busy == panel.jobId # 0 /\ ~panel.done /\ ~panel.error

Mount ==
    /\ ~panel.mounted
    /\ panel' = Fresh(TRUE)
    /\ UNCHANGED <<serverVars, sent, stray, answers, sources, doubled, faults, crashes>>

(* Nothing is cancelled: a POST under way still starts its job, and nobody follows it. *)
Unmount ==
    /\ panel.mounted
    /\ panel' = Fresh(FALSE)
    /\ sent' = 0 /\ stray' = stray + sent
    /\ answers' = {} /\ sources' = {} /\ doubled' = FALSE
    /\ UNCHANGED <<serverVars, faults, crashes>>

Started == Cardinality({j \in Jobs : job[j].status # "none"})

(* handleLoadHistory, up to its first await.  The button is enabled unless a job is followed *)
(* that is neither done nor in error; the bound leaves room for the job. *)
LoadHistoryAlways ==
    /\ panel.mounted
    /\ Started + sent + stray < MaxJobs
    /\ panel' = [panel EXCEPT !.done = FALSE, !.error = FALSE]
    /\ sent' = sent + 1
    /\ doubled' = (doubled \/ sent > 0 \/ answers # {})
    /\ UNCHANGED <<serverVars, stray, answers, sources, faults, crashes>>

LoadHistory ==
    /\ panel.mounted /\ ~Busy
    /\ Started + sent + stray < MaxJobs
    /\ panel' = [panel EXCEPT !.done = FALSE, !.error = FALSE]
    /\ sent' = sent + 1
    /\ doubled' = (doubled \/ sent > 0 \/ answers # {})
    /\ UNCHANGED <<serverVars, stray, answers, sources, faults, crashes>>

(* The server accepts a POST and starts the job; the answer goes to the mount that sent it. *)
StartJob(j) ==
    /\ job[j].status = "none" /\ \A k \in 1 .. j - 1 : job[k].status # "none"
    /\ job' = [job EXCEPT ![j].status = "running"]
    /\ \/ sent > 0 /\ sent' = sent - 1 /\ answers' = answers \union {j} /\ UNCHANGED stray
       \/ stray > 0 /\ stray' = stray - 1 /\ UNCHANGED <<sent, answers>>
    /\ UNCHANGED <<zip, csv, creator, rows, torn, skipped, panel, sources, doubled,
                   faults, crashes>>

(* The POST is refused or does not get there. *)
PostFails ==
    /\ sent > 0 /\ Fault
    /\ sent' = sent - 1
    /\ panel' = [panel EXCEPT !.error = TRUE]
    /\ UNCHANGED <<serverVars, stray, answers, sources, doubled, crashes>>

(* The job's id arrives and its progress is followed; or the answer is lost. *)
Answered(j) ==
    /\ j \in answers
    /\ answers' = answers \ {j}
    /\ panel' = [panel EXCEPT !.jobId = j]
    /\ sources' = sources \union {j}
    /\ UNCHANGED <<serverVars, sent, stray, doubled, faults, crashes>>

AnswerLost(j) ==
    /\ j \in answers /\ Fault
    /\ answers' = answers \ {j}
    /\ panel' = [panel EXCEPT !.error = TRUE]
    /\ UNCHANGED <<serverVars, sent, stray, sources, doubled, crashes>>

ProgressEndsWhenDone(j) ==
    /\ j \in sources /\ job[j].status = "done"
    /\ sources' = sources \ {j}
    /\ panel' = [panel EXCEPT !.done = TRUE]
    /\ UNCHANGED <<serverVars, sent, stray, answers, doubled, faults, crashes>>

(* handleHistoryProgress reports the end of a job, or that it does not know it; progress of *)
(* a running job changes what is displayed only. *)
ProgressEnds(j) ==
    /\ j \in sources /\ job[j].status \in {"done", "lost"}
    /\ sources' = sources \ {j}
    /\ panel' = IF job[j].status = "done" THEN [panel EXCEPT !.done = TRUE]
                                          ELSE [panel EXCEPT !.error = TRUE]
    /\ UNCHANGED <<serverVars, sent, stray, answers, doubled, faults, crashes>>

ConnectionLost(j) ==
    /\ j \in sources /\ Fault
    /\ sources' = sources \ {j}
    /\ panel' = [panel EXCEPT !.error = TRUE]
    /\ UNCHANGED <<serverVars, sent, stray, answers, doubled, crashes>>

(* The server restarts: the jobs are gone, the files stay as they are. *)
Crash ==
    /\ crashes < MaxCrashes
    /\ crashes' = crashes + 1
    /\ job' = [j \in Jobs |-> IF job[j].status = "none" THEN job[j]
                              ELSE [job[j] EXCEPT !.status = "lost"]]
    /\ torn' = torn \union {job[j].day : j \in {k \in Jobs : At(k, "extract")}}
    /\ UNCHANGED <<zip, csv, creator, rows, skipped, panelVars, faults>>

HistoryNext ==
    \/ \E j \in Jobs : JobStep(j)
    \/ \E j \in Jobs : StartJob(j) \/ Answered(j) \/ AnswerLost(j)
    \/ \E j \in Jobs : ProgressEnds(j) \/ ConnectionLost(j)
    \/ Mount \/ Unmount \/ LoadHistory \/ PostFails \/ Crash

(* The goroutine of a job and the requests of the browser make progress; nobody has to press *)
(* anything, leave or come back, and nothing has to fail. *)
HistoryFairness ==
    \A j \in Jobs :
      /\ WF_historyVars(JobStep(j))
      /\ WF_historyVars(StartJob(j)) /\ WF_historyVars(Answered(j))
      /\ WF_historyVars(ProgressEnds(j))

HistorySpec == HistoryInit /\ [][HistoryNext]_historyVars /\ HistoryFairness
--------------------------------------------------------------------------------
(* After a job the panel calls complete, every day is in the table as a     *)
(* whole, or the job passed over it with a line in the log, or its          *)
(* extracted file was at some time cut short or read while another job      *)
(* wrote it.  In particular a download that breaks off never leaves part of *)
(* a day in the table, in that job or in any later one                      *)
(* (downloader.go:47, downloader.go:102, pipeline.go:71).                   *)
LoadedOrExplained ==
    /\ \A j \in Jobs, d \in Days :
         job[j].status = "done" => rows[d] = "full" \/ d \in skipped[j] \/ d \in torn
    /\ \A d \in Days : rows[d] = "part" => d \in torn

(* "Complete!" is shown for the job the tab follows: events of an earlier  *)
(* job do not end it, unless the button was pressed twice before the first *)
(* answer came, when histJobId does not disable it yet                     *)
(* (AdminPanel.tsx:225, AdminPanel.tsx:550).                               *)
CompleteMeansDone ==
    (panel.done /\ ~doubled /\ panel.jobId # 0) => job[panel.jobId].status \in {"done", "lost"}

(* The button comes back: a job that is followed ends, or is lost with the *)
(* server, and either way the tab hears of it and can start another one    *)
(* (AdminPanel.tsx:227, handlers.go:240).                                  *)
PanelUsableAgain == Busy ~> ~Busy
================================================================================
