------------------------------ MODULE AdminProofs ------------------------------
(***************************************************************************)
(* Theorems about Admin: what a history load leaves in the table and what  *)
(* the panel says of it, for any number of days, jobs, failures and        *)
(* restarts; and that the copies of the ticker registry agree, for any     *)
(* tickers, values and requests under way.                                 *)
(***************************************************************************)
EXTENDS Admin, FiniteSetTheorems, TLAPS

--------------------------------------------------------------------------------
(* Loading history: types.                                                      *)

JobRecord == [status : {"none", "running", "done", "lost"}, day : 1 .. NumDays + 1,
              pc : {"stat", "get", "copy", "unzip", "extract", "read", "insert"},
              text : {"none", "part", "full"}]

FilesType ==
    /\ zip \in [Days -> {"none", "empty", "part", "full"}]
    /\ csv \in [Days -> {"none", "part", "full"}] /\ rows \in [Days -> {"none", "part", "full"}]
    /\ creator \in [Days -> 0 .. MaxJobs]
    /\ torn \subseteq Days /\ skipped \in [Jobs -> SUBSET Days]

PanelType ==
    /\ panel \in [mounted : BOOLEAN, jobId : 0 .. MaxJobs, done : BOOLEAN, error : BOOLEAN]
    /\ answers \subseteq Jobs /\ sources \subseteq Jobs /\ doubled \in BOOLEAN

BoundsType == faults \in 0 .. MaxFaults /\ crashes \in 0 .. MaxCrashes

StartedJobs == {j \in Jobs : job[j].status # "none"}

\* A POST that is under way has room for its job: this bounds sent and stray.
Room == sent \in Nat /\ stray \in Nat /\ Started + sent + stray <= MaxJobs

HistoryType == job \in [Jobs -> JobRecord] /\ FilesType /\ PanelType /\ BoundsType /\ Room

\* A job begins with the first day, runs through them and is done past the last.
DayOfStatus ==
    \A j \in Jobs : /\ job[j].status = "none" => job[j].day = 1 /\ job[j].pc = "stat"
                    /\ job[j].status = "running" => job[j].day \in Days
                    /\ job[j].status = "done" => job[j].day = NumDays + 1

\* How many jobs have been started is a number.
LEMMA StartedNumber == Started \in 0 .. MaxJobs
<1>1. IsFiniteSet(Jobs) /\ Cardinality(Jobs) = MaxJobs
  BY HistoryLoadAssumption, FS_Interval DEF Jobs
<1>2. IsFiniteSet(StartedJobs) /\ Cardinality(StartedJobs) <= Cardinality(Jobs)
  BY <1>1, FS_Subset DEF StartedJobs
<1>3. Cardinality(StartedJobs) \in Nat
  BY <1>2, FS_CardinalityType
<1> QED
  BY <1>1, <1>2, <1>3, HistoryLoadAssumption DEF Started, StartedJobs

\* The types follow.
LEMMA HistoryTypes == HistoryType => HistoryTypeOK
<1> SUFFICES ASSUME HistoryType PROVE HistoryTypeOK
  OBVIOUS
<1>1. sent \in 0 .. MaxJobs /\ stray \in 0 .. MaxJobs
  BY StartedNumber, HistoryLoadAssumption DEF HistoryType, Room
<1> QED
  BY <1>1 DEF HistoryType, HistoryTypeOK, JobRecord, FilesType, PanelType, BoundsType

\* What a step of a job does to the jobs: its record changes, its status to running or done.
LEMMA GotoType ==
    ASSUME HistoryType, DayOfStatus, NEW j \in Jobs, job[j].status = "running",
           NEW pc \in {"stat", "get", "copy", "unzip", "extract", "read", "insert"},
           NEW text \in {"none", "part", "full"},
           \/ Goto(j, pc)
           \/ NextDay(j)
           \/ job' = [job EXCEPT ![j].pc = pc, ![j].text = text]
           \/ job' = job
    PROVE  job' \in [Jobs -> JobRecord] /\ DayOfStatus' /\ Started' = Started
<1>1. job \in [Jobs -> JobRecord] /\ job[j] \in JobRecord /\ job[j].day \in Days
  BY DEF HistoryType, DayOfStatus
<1>2. /\ job' \in [Jobs -> JobRecord]
      /\ \A k \in Jobs : k # j => job'[k] = job[k]
      /\ job'[j].status \in {"running", "done"}
      /\ job'[j].status = "running" => job'[j].day \in Days
      /\ job'[j].status = "done" => job'[j].day = NumDays + 1
  <2>1. CASE Goto(j, pc)
    BY <1>1, <2>1 DEF Goto, JobRecord
  <2>2. CASE NextDay(j)
    <3>1. job[j].day + 1 \in 1 .. NumDays + 1 /\ (job[j].day # NumDays => job[j].day + 1 \in Days)
      BY <1>1, HistoryLoadAssumption DEF Days
    <3> DEFINE r == [job[j] EXCEPT !.day = @ + 1, !.pc = "stat", !.text = "none",
                        !.status = IF job[j].day = NumDays THEN "done" ELSE "running"]
    <3>2. r \in JobRecord /\ r.day = job[j].day + 1
          /\ r.status = IF job[j].day = NumDays THEN "done" ELSE "running"
      BY <1>1, <3>1 DEF JobRecord
    <3>3. job' = [job EXCEPT ![j] = r]
      BY <1>1, <2>2 DEF NextDay, JobRecord
    <3> HIDE DEF r
    <3>4. job' \in [Jobs -> JobRecord] /\ job'[j] = r /\ \A k \in Jobs : k # j => job'[k] = job[k]
      BY <1>1, <3>2, <3>3
    <3>5. r.status = "done" => r.day = NumDays + 1
      BY <3>2
    <3>6. r.status = "running" => r.day \in Days
      BY <3>1, <3>2
    <3> QED
      BY <3>2, <3>4, <3>5, <3>6
  <2>3. CASE job' = [job EXCEPT ![j].pc = pc, ![j].text = text]
    BY <1>1, <2>3 DEF JobRecord
  <2>4. CASE job' = job
    BY <1>1, <2>4
  <2> QED
    BY <2>1, <2>2, <2>3, <2>4
<1>3. DayOfStatus'
  BY <1>2 DEF DayOfStatus
<1>4. {k \in Jobs : job'[k].status # "none"} = {k \in Jobs : job[k].status # "none"}
  BY <1>2
<1> QED
  BY <1>2, <1>3, <1>4 DEF Started

\* A step of a job keeps the types: it writes the files of its day.
LEMMA JobStepTypes ==
    ASSUME HistoryType, DayOfStatus, NEW j \in Jobs, JobStep(j)
    PROVE  HistoryType' /\ DayOfStatus'
<1> DEFINE d == job[j].day
<1>1. UNCHANGED <<panel, sent, stray, answers, sources, doubled, crashes>>
  BY DEF JobStep, panelVars
<1>2. job[j].status = "running" /\ d \in Days
  BY DEF JobStep, Stat, Create, Copy, Copied, DownloadFails, Unzip, Extracted, ExtractFails,
         Read, Insert, InsertFails, At
<1>3. job' \in [Jobs -> JobRecord] /\ DayOfStatus' /\ Started' = Started
  <2>1. /\ csv[d] \in {"none", "part", "full"}
    BY <1>2 DEF HistoryType, FilesType
  <2>2. \/ \E pc \in {"stat", "get", "copy", "unzip", "extract", "read", "insert"} : Goto(j, pc)
        \/ NextDay(j)
        \/ job' = [job EXCEPT ![j].pc = "insert", ![j].text = csv[d]]
        \/ job' = job
    BY DEF JobStep, Stat, Create, Copy, Copied, DownloadFails, Unzip, Extracted, ExtractFails,
           Read, Insert, InsertFails, SkipDay
  <2> HIDE DEF d
  <2> QED
    BY <1>2, <2>1, <2>2, GotoType
<1>4. FilesType'
  <2>0. FilesType /\ job[j].text \in {"none", "part", "full"} /\ j \in 0 .. MaxJobs
    BY DEF HistoryType, JobRecord, Jobs
  <2>1. zip' \in [Days -> {"none", "empty", "part", "full"}]
    BY <1>2, <2>0 DEF FilesType, JobStep, Stat, Create, Copy, Copied, DownloadFails, Unzip, Extracted,
                      ExtractFails, Read, Insert, InsertFails
  <2>2. csv' \in [Days -> {"none", "part", "full"}]
    BY <1>2, <2>0 DEF FilesType, JobStep, Stat, Create, Copy, Copied, DownloadFails, Unzip, Extracted,
                      ExtractFails, Read, Insert, InsertFails
  <2>3. rows' \in [Days -> {"none", "part", "full"}]
    BY <1>2, <2>0 DEF FilesType, JobStep, Stat, Create, Copy, Copied, DownloadFails, Unzip, Extracted,
                      ExtractFails, Read, Insert, InsertFails
  <2>4. creator' \in [Days -> 0 .. MaxJobs]
    <3>1. 0 \in 0 .. MaxJobs
      BY HistoryLoadAssumption
    <3> QED
      BY <1>2, <2>0, <3>1 DEF FilesType, JobStep, Stat, Create, Copy, Copied, DownloadFails, Unzip,
                      Extracted, ExtractFails, Read, Insert, InsertFails
  <2>5. torn' \subseteq Days
    BY <1>2, <2>0 DEF FilesType, JobStep, Stat, Create, Copy, Copied, DownloadFails, Unzip, Extracted,
                      ExtractFails, Read, Insert, InsertFails
  <2>6. skipped' \in [Jobs -> SUBSET Days]
    <3>1. skipped' = skipped \/ skipped' = [skipped EXCEPT ![j] = @ \union {d}]
      BY DEF JobStep, Stat, Create, Copy, Copied, DownloadFails, Unzip, Extracted,
             ExtractFails, Read, Insert, InsertFails, SkipDay
    <3> HIDE DEF d
    <3> QED
      BY <1>2, <2>0, <3>1 DEF FilesType
  <2> QED
    BY <2>1, <2>2, <2>3, <2>4, <2>5, <2>6 DEF FilesType
<1>5. faults' = faults \/ (faults < MaxFaults /\ faults' = faults + 1)
  BY DEF JobStep, Stat, Create, Copy, Copied, DownloadFails, Unzip, Extracted,
         ExtractFails, Read, Insert, InsertFails, Fault
<1>6. BoundsType'
  BY <1>1, <1>5, HistoryLoadAssumption DEF HistoryType, BoundsType
<1>7. PanelType' /\ Room'
  BY <1>1, <1>3 DEF HistoryType, PanelType, Room
<1> QED
  BY <1>3, <1>4, <1>6, <1>7 DEF HistoryType

\* The server's other steps and the panel's keep the types.
LEMMA HistoryTypeStep == HistoryType /\ DayOfStatus /\ HistoryNext => HistoryType' /\ DayOfStatus'
<1> SUFFICES ASSUME HistoryType, DayOfStatus, HistoryNext PROVE HistoryType' /\ DayOfStatus'
  OBVIOUS
<1>0. /\ job \in [Jobs -> JobRecord] /\ FilesType /\ PanelType /\ BoundsType /\ Room
      /\ \A j \in Jobs : j \in 0 .. MaxJobs
  BY DEF HistoryType, Jobs
<1>1. ASSUME NEW j \in Jobs, JobStep(j) PROVE HistoryType' /\ DayOfStatus'
  BY <1>1, JobStepTypes
<1>2. ASSUME NEW j \in Jobs, StartJob(j) PROVE HistoryType' /\ DayOfStatus'
  <2>1. /\ job[j].status = "none" /\ job' = [job EXCEPT ![j].status = "running"]
        /\ UNCHANGED <<zip, csv, creator, rows, torn, skipped, panel, sources, doubled, faults, crashes>>
        /\ \/ sent > 0 /\ sent' = sent - 1 /\ answers' = answers \union {j} /\ stray' = stray
           \/ stray > 0 /\ stray' = stray - 1 /\ sent' = sent /\ answers' = answers
    BY <1>2 DEF StartJob
  <2>2. job[j] \in JobRecord
    BY <1>0
  <2>3. job' \in [Jobs -> JobRecord]
    BY <1>0, <2>1 DEF JobRecord
  <2>4. Started' = Started + 1
    <3>1. StartedJobs' = StartedJobs \union {j} /\ j \notin StartedJobs
      BY <1>0, <2>1 DEF StartedJobs, JobRecord
    <3>2. IsFiniteSet(StartedJobs)
      <4>1. IsFiniteSet(Jobs)
        BY HistoryLoadAssumption, FS_Interval DEF Jobs
      <4>2. StartedJobs \in SUBSET Jobs
        BY DEF StartedJobs
      <4> QED
        BY <4>1, <4>2, FS_Subset
    <3> QED
      BY <3>1, <3>2, FS_AddElement DEF Started, StartedJobs
  <2>5. Room'
    BY <1>0, <2>1, <2>4, StartedNumber DEF Room
  <2>6. answers' \subseteq Jobs
    BY <1>0, <2>1 DEF PanelType
  <2>7. DayOfStatus'
    <3>1. /\ \A k \in Jobs : k # j => job'[k] = job[k]
          /\ job'[j].day = job[j].day /\ job'[j].status = "running"
      BY <1>0, <2>1, <2>2 DEF JobRecord
    <3>2. job[j].day \in Days
      BY <2>1, HistoryLoadAssumption DEF DayOfStatus, Days
    <3> QED
      BY <3>1, <3>2 DEF DayOfStatus
  <2>8. FilesType' /\ PanelType' /\ BoundsType'
    BY <1>0, <2>1, <2>6 DEF FilesType, PanelType, BoundsType
  <2> QED
    BY <2>3, <2>5, <2>7, <2>8 DEF HistoryType
<1>3. CASE Crash
  <2>1. /\ job' = [j \in Jobs |-> IF job[j].status = "none" THEN job[j]
                                  ELSE [job[j] EXCEPT !.status = "lost"]]
        /\ torn' = torn \union {job[j].day : j \in {k \in Jobs : At(k, "extract")}}
        /\ crashes < MaxCrashes /\ crashes' = crashes + 1
        /\ UNCHANGED <<zip, csv, creator, rows, skipped, faults>>
        /\ UNCHANGED <<panel, sent, stray, answers, sources, doubled>>
    BY <1>3 DEF Crash, panelVars
  <2>2. job' \in [Jobs -> JobRecord]
    BY <1>0, <2>1 DEF JobRecord
  <2>3. \A j \in Jobs : job'[j].status # "none" <=> job[j].status # "none"
    BY <1>0, <2>1 DEF JobRecord
  <2>4. Started' = Started
    <3>1. StartedJobs' = StartedJobs
      BY <2>3 DEF StartedJobs
    <3> QED
      BY <3>1 DEF Started, StartedJobs
  <2>5. torn' \subseteq Days
    BY <1>0, <2>1 DEF FilesType, At
  <2>6. \A j \in Jobs : job'[j].status = "lost" \/ (job'[j].status = "none" /\ job'[j] = job[j])
    BY <1>0, <2>1 DEF JobRecord
  <2>7. crashes' \in 0 .. MaxCrashes
    BY <1>0, <2>1, HistoryLoadAssumption DEF BoundsType
  <2>8. DayOfStatus'
    BY <2>6 DEF DayOfStatus
  <2>9. FilesType' /\ PanelType' /\ BoundsType' /\ Room'
    BY <1>0, <2>1, <2>4, <2>5, <2>7 DEF FilesType, PanelType, BoundsType, Room
  <2> QED
    BY <2>2, <2>8, <2>9 DEF HistoryType
<1>4. CASE \/ \E j \in Jobs : Answered(j) \/ AnswerLost(j) \/ ProgressEnds(j) \/ ConnectionLost(j)
           \/ Mount \/ Unmount \/ LoadHistory \/ PostFails
  <2>1. UNCHANGED <<job, zip, csv, creator, rows, torn, skipped>>
    BY <1>4 DEF Answered, AnswerLost, ProgressEnds, ConnectionLost, Mount, Unmount, LoadHistory,
                PostFails, serverVars
  <2>2. Started' = Started /\ DayOfStatus' /\ FilesType' /\ job' \in [Jobs -> JobRecord]
    BY <1>0, <2>1 DEF Started, DayOfStatus, FilesType
  <2>3. crashes' = crashes /\ (faults' = faults \/ (faults < MaxFaults /\ faults' = faults + 1))
    BY <1>4 DEF Answered, AnswerLost, ProgressEnds, ConnectionLost, Mount, Unmount, LoadHistory,
                PostFails, Fault
  <2>4. BoundsType'
    BY <1>0, <2>3, HistoryLoadAssumption DEF BoundsType
  <2>5. panel' \in [mounted : BOOLEAN, jobId : 0 .. MaxJobs, done : BOOLEAN, error : BOOLEAN]
    <3>1. 0 \in 0 .. MaxJobs
      BY HistoryLoadAssumption
    <3>2. \/ panel' \in {Fresh(TRUE), Fresh(FALSE), [panel EXCEPT !.done = FALSE, !.error = FALSE],
                         [panel EXCEPT !.done = TRUE], [panel EXCEPT !.error = TRUE]}
          \/ \E j \in Jobs : panel' = [panel EXCEPT !.jobId = j]
      BY <1>4 DEF Answered, AnswerLost, ProgressEnds, ConnectionLost, Mount, Unmount,
                  LoadHistory, PostFails
    <3>3. CASE \E j \in Jobs : panel' = [panel EXCEPT !.jobId = j]
      BY <1>0, <3>3 DEF PanelType
    <3>4. CASE panel' \in {Fresh(TRUE), Fresh(FALSE)}
      <4>1. Fresh(TRUE) \in [mounted : BOOLEAN, jobId : 0 .. MaxJobs, done : BOOLEAN, error : BOOLEAN]
        BY <3>1 DEF Fresh
      <4>2. Fresh(FALSE) \in [mounted : BOOLEAN, jobId : 0 .. MaxJobs, done : BOOLEAN, error : BOOLEAN]
        BY <3>1 DEF Fresh
      <4> QED
        BY <3>4, <4>1, <4>2
    <3>5. CASE panel' \in {[panel EXCEPT !.done = FALSE, !.error = FALSE],
                           [panel EXCEPT !.done = TRUE], [panel EXCEPT !.error = TRUE]}
      <4>1. panel \in [mounted : BOOLEAN, jobId : 0 .. MaxJobs, done : BOOLEAN, error : BOOLEAN]
        BY <1>0 DEF PanelType
      <4>2. /\ [panel EXCEPT !.done = FALSE, !.error = FALSE]
                \in [mounted : BOOLEAN, jobId : 0 .. MaxJobs, done : BOOLEAN, error : BOOLEAN]
            /\ [panel EXCEPT !.done = TRUE]
                \in [mounted : BOOLEAN, jobId : 0 .. MaxJobs, done : BOOLEAN, error : BOOLEAN]
            /\ [panel EXCEPT !.error = TRUE]
                \in [mounted : BOOLEAN, jobId : 0 .. MaxJobs, done : BOOLEAN, error : BOOLEAN]
        BY <4>1
      <4> QED
        BY <3>5, <4>2
    <3> QED
      BY <3>2, <3>3, <3>4, <3>5
  <2>6. answers' \subseteq Jobs /\ sources' \subseteq Jobs
    BY <1>0, <1>4 DEF PanelType, Answered, AnswerLost, ProgressEnds, ConnectionLost, Mount, Unmount,
                LoadHistory, PostFails
  <2>7. doubled' \in BOOLEAN
    BY <1>0, <1>4 DEF PanelType, Answered, AnswerLost, ProgressEnds, ConnectionLost, Mount, Unmount,
                LoadHistory, PostFails
  <2>8. \/ sent' = sent /\ stray' = stray
        \/ sent' = 0 /\ stray' = stray + sent
        \/ sent' = sent + 1 /\ stray' = stray /\ Started + sent + stray < MaxJobs
        \/ sent > 0 /\ sent' = sent - 1 /\ stray' = stray
    BY <1>4 DEF Answered, AnswerLost, ProgressEnds, ConnectionLost, Mount, Unmount, LoadHistory, PostFails
  <2>9. Room'
    BY <1>0, <2>2, <2>8, StartedNumber, HistoryLoadAssumption DEF Room
  <2> QED
    BY <2>2, <2>4, <2>5, <2>6, <2>7, <2>9 DEF HistoryType, PanelType
<1> QED
  BY <1>1, <1>2, <1>3, <1>4 DEF HistoryNext

--------------------------------------------------------------------------------
(* Loading history: what is in the table.                                       *)

Extracting(d) == \E k \in Jobs : At(k, "extract") /\ job[k].day = d

\* A file that is cut short is being extracted or was marked; there is one to read; what is about
\* to be inserted is whole or was marked.
FilesExplained ==
    /\ \A d \in Days : csv[d] = "part" => d \in torn \/ Extracting(d)
    /\ \A j \in Jobs : At(j, "extract") \/ At(j, "read") => csv[job[j].day] # "none"
    /\ \A j \in Jobs : At(j, "insert") =>
          job[j].text = "full" \/ (job[j].text = "part" /\ job[j].day \in torn)

\* And so is what is in the table, of the days a job has behind it.
RowsExplained ==
    /\ \A d \in Days : rows[d] = "part" => d \in torn
    /\ \A j \in Jobs, d \in Days : job[j].status # "none" /\ d < job[j].day =>
          rows[d] = "full" \/ d \in skipped[j] \/ d \in torn

LoadInv == HistoryType /\ DayOfStatus /\ FilesExplained /\ RowsExplained

\* The job that moves is the only one whose record changes, and a step marks and passes over
\* days, never takes that back.
LEMMA JobStepFacts ==
    ASSUME LoadInv, NEW j \in Jobs, JobStep(j)
    PROVE  /\ job[j].status = "running" /\ job[j].day \in Days
           /\ \A k \in Jobs \ {j} : job'[k] = job[k] /\ skipped'[k] = skipped[k]
           /\ torn \subseteq torn' /\ skipped[j] \subseteq skipped'[j]
           /\ job'[j].status = "running" \/ (job'[j].status = "done" /\ job'[j].pc = "stat")
           /\ \A d \in Days : d # job[j].day => csv'[d] = csv[d] /\ rows'[d] = rows[d]
<1>1. job[j].status = "running" /\ job[j].day \in Days
  BY DEF JobStep, Stat, Create, Copy, Copied, DownloadFails, Unzip, Extracted, ExtractFails,
         Read, Insert, InsertFails, At
<1>2. job \in [Jobs -> JobRecord] /\ job[j] \in JobRecord /\ FilesType
  BY DEF LoadInv, HistoryType
<1>3. /\ \A k \in Jobs \ {j} : job'[k] = job[k]
      /\ job'[j].status = "running" \/ (job'[j].status = "done" /\ job'[j].pc = "stat")
  <2>1. \/ job' = job \/ NextDay(j) \/ \E pc : Goto(j, pc)
        \/ \E text : job' = [job EXCEPT ![j].pc = "insert", ![j].text = text]
    BY DEF JobStep, Stat, Create, Copy, Copied, DownloadFails, Unzip, Extracted,
           ExtractFails, Read, Insert, InsertFails, SkipDay
  <2> QED
    BY <1>1, <1>2, <2>1 DEF JobRecord, NextDay, Goto
<1>4. skipped' = skipped \/ skipped' = [skipped EXCEPT ![j] = @ \union {job[j].day}]
  BY DEF JobStep, Stat, Create, Copy, Copied, DownloadFails, Unzip, Extracted,
         ExtractFails, Read, Insert, InsertFails, SkipDay
<1>5. skipped[j] \subseteq skipped'[j] /\ \A k \in Jobs \ {j} : skipped'[k] = skipped[k]
  BY <1>2, <1>4 DEF FilesType
<1>6. torn \subseteq torn'
  BY DEF JobStep, Stat, Create, Copy, Copied, DownloadFails, Unzip, Extracted,
         ExtractFails, Read, Insert, InsertFails
<1>7. \A d \in Days : d # job[j].day => csv'[d] = csv[d] /\ rows'[d] = rows[d]
  <2>1. csv' = csv \/ \E x \in {"part", "full"} : csv' = [csv EXCEPT ![job[j].day] = x]
    BY DEF JobStep, Stat, Create, Copy, Copied, DownloadFails, Unzip, Extracted,
           ExtractFails, Read, Insert, InsertFails
  <2>2. rows' = rows \/ rows' = [rows EXCEPT ![job[j].day] = job[j].text]
    BY DEF JobStep, Stat, Create, Copy, Copied, DownloadFails, Unzip, Extracted,
           ExtractFails, Read, Insert, InsertFails
  <2> QED
    BY <1>2, <2>1, <2>2 DEF FilesType
<1> QED
  BY <1>1, <1>3, <1>5, <1>6, <1>7

\* What the step does to its own day.
LEMMA JobStepDay ==
    ASSUME LoadInv, NEW j \in Jobs, JobStep(j), NEW d, d = job[j].day
    PROVE  /\ \/ csv'[d] = csv[d] \/ csv'[d] = "full"
              \/ csv'[d] = "part" /\ (d \in torn' \/ (At(j, "extract")' /\ job'[j].day = d))
           /\ At(j, "extract") => csv'[d] = "full" \/ d \in torn'
           /\ At(j, "extract")' \/ At(j, "read")' => job'[j].day = d /\ csv'[d] # "none"
           /\ At(j, "insert")' => /\ job'[j].day = d /\ job'[j].text = csv[d] /\ csv[d] # "none"
                                  /\ Extracting(d) => d \in torn'
           /\ rows'[d] = rows[d] \/ (rows'[d] = job[j].text /\ At(j, "insert"))
           /\ \/ job'[j].day = d
              \/ /\ job'[j].day = d + 1
                 /\ d \in skipped'[j] \/ (rows'[d] = job[j].text /\ At(j, "insert"))
<1>1. job[j].status = "running" /\ d \in Days
  BY JobStepFacts
<1>2. /\ job \in [Jobs -> JobRecord] /\ job[j] \in JobRecord
      /\ csv \in [Days -> {"none", "part", "full"}] /\ rows \in [Days -> {"none", "part", "full"}]
      /\ torn \subseteq Days /\ skipped \in [Jobs -> SUBSET Days]
      /\ \A k \in Jobs : At(k, "extract") \/ At(k, "read") => csv[job[k].day] # "none"
  BY DEF LoadInv, HistoryType, FilesType, FilesExplained
<1>3. NextDay(j) => /\ job'[j].pc = "stat" /\ job'[j].day = d + 1
  BY <1>2 DEF NextDay, JobRecord
<1>4. SkipDay(j) => /\ job'[j].pc = "stat" /\ job'[j].day = d + 1 /\ d \in skipped'[j]
  BY <1>2, <1>3 DEF SkipDay
<1>5. \A pc : Goto(j, pc) => job'[j].pc = pc /\ job'[j].day = d /\ job'[j].status = "running"
  BY <1>1, <1>2 DEF Goto, JobRecord
<1>6. CASE Stat(j) \/ Create(j) \/ Copied(j)
  <2>1. /\ csv' = csv /\ rows' = rows /\ ~At(j, "extract")
        /\ \E pc \in {"get", "unzip", "copy"} : Goto(j, pc)
    BY <1>6 DEF Stat, Create, Copied, At
  <2> QED
    BY <1>5, <2>1 DEF At
<1>7. CASE Copy(j)
  BY <1>7 DEF Copy, At
<1>8. CASE DownloadFails(j)
  BY <1>4, <1>8 DEF DownloadFails, At
<1>9. CASE Unzip(j)
  <2>1. rows' = rows /\ ~At(j, "extract")
    BY <1>9 DEF Unzip, At
  <2>2. \/ csv[d] # "none" /\ csv' = csv /\ Goto(j, "read")
        \/ Goto(j, "extract") /\ csv' = [csv EXCEPT ![d] = "part"]
        \/ SkipDay(j) /\ csv' = csv
        \/ SkipDay(j) /\ csv' = [csv EXCEPT ![d] = "part"] /\ torn' = torn \union {d}
    BY <1>9 DEF Unzip
  <2>3. CASE csv[d] # "none" /\ csv' = csv /\ Goto(j, "read")
    BY <1>5, <2>1, <2>3 DEF At
  <2>4. CASE Goto(j, "extract") /\ csv' = [csv EXCEPT ![d] = "part"]
    BY <1>1, <1>2, <1>5, <2>1, <2>4 DEF At
  <2>5. CASE SkipDay(j) /\ csv' = csv
    BY <1>4, <2>1, <2>5 DEF At
  <2>6. CASE SkipDay(j) /\ csv' = [csv EXCEPT ![d] = "part"] /\ torn' = torn \union {d}
    BY <1>1, <1>2, <1>4, <2>1, <2>6 DEF At
  <2> QED
    BY <2>2, <2>3, <2>4, <2>5, <2>6
<1>10. CASE Extracted(j)
  <2>1. Goto(j, "read") /\ csv' = [csv EXCEPT ![d] = "full"] /\ rows' = rows
    BY <1>10 DEF Extracted
  <2> QED
    BY <1>1, <1>2, <1>5, <2>1 DEF At
<1>11. CASE ExtractFails(j)
  BY <1>4, <1>11 DEF ExtractFails, At
<1>12. CASE Read(j)
  <2>1. /\ job' = [job EXCEPT ![j].pc = "insert", ![j].text = csv[d]] /\ csv' = csv /\ rows' = rows
        /\ At(j, "read") /\ ~At(j, "extract") /\ (Extracting(d) => d \in torn')
    BY <1>12 DEF Read, At, Extracting
  <2>2. job'[j].pc = "insert" /\ job'[j].text = csv[d] /\ job'[j].day = d
    BY <1>2, <2>1 DEF JobRecord
  <2> QED
    BY <1>2, <2>1, <2>2 DEF At
<1>13. CASE Insert(j) \/ InsertFails(j)
  <2>1. /\ csv' = csv /\ At(j, "insert") /\ ~At(j, "extract")
        /\ job'[j].pc = "stat" /\ job'[j].day = d + 1
        /\ rows' = rows \/ rows' = [rows EXCEPT ![d] = job[j].text]
        /\ d \in skipped'[j] \/ rows' = [rows EXCEPT ![d] = job[j].text]
    BY <1>3, <1>4, <1>13 DEF Insert, InsertFails, At
  <2> QED
    BY <1>1, <1>2, <2>1 DEF At
<1> QED
  BY <1>6, <1>7, <1>8, <1>9, <1>10, <1>11, <1>12, <1>13 DEF JobStep

\* So a step of a job explains what it leaves in the files
LEMMA FilesStep ==
    ASSUME LoadInv, NEW j \in Jobs, JobStep(j)
    PROVE  FilesExplained'
<1> DEFINE d0 == job[j].day
<1>1. /\ d0 \in Days /\ torn \subseteq torn'
      /\ \A k \in Jobs \ {j} : job'[k] = job[k]
      /\ \A d \in Days : d # d0 => csv'[d] = csv[d]
  BY JobStepFacts
<1>2. /\ \/ csv'[d0] = csv[d0] \/ csv'[d0] = "full"
         \/ csv'[d0] = "part" /\ (d0 \in torn' \/ (At(j, "extract")' /\ job'[j].day = d0))
      /\ At(j, "extract") => csv'[d0] = "full" \/ d0 \in torn'
      /\ At(j, "extract")' \/ At(j, "read")' => job'[j].day = d0 /\ csv'[d0] # "none"
      /\ At(j, "insert")' => /\ job'[j].day = d0 /\ job'[j].text = csv[d0] /\ csv[d0] # "none"
                             /\ Extracting(d0) => d0 \in torn'
  BY JobStepDay
<1> HIDE DEF d0
<1>3. /\ \A d \in Days : csv[d] = "part" => d \in torn \/ Extracting(d)
      /\ \A k \in Jobs : At(k, "extract") \/ At(k, "read") => csv[job[k].day] # "none"
      /\ \A k \in Jobs : At(k, "insert") =>
            job[k].text = "full" \/ (job[k].text = "part" /\ job[k].day \in torn)
      /\ csv \in [Days -> {"none", "part", "full"}]
  BY DEF LoadInv, FilesExplained, HistoryType, FilesType
<1>4. \A k \in Jobs \ {j} : \A pc : At(k, pc)' <=> At(k, pc)
  BY <1>1 DEF At
<1>5. ASSUME NEW d \in Days, csv'[d] = "part" PROVE d \in torn' \/ Extracting(d)'
  <2>1. CASE csv'[d] = csv[d] /\ d \notin torn
    <3>1. PICK k \in Jobs : At(k, "extract") /\ job[k].day = d
      BY <1>3, <1>5, <2>1 DEF Extracting
    <3>2. CASE k # j
      <4>1. job'[k] = job[k] /\ At(k, "extract")'
        BY <1>1, <1>4, <3>1, <3>2
      <4> QED
        BY <3>1, <4>1 DEF Extracting
    <3>3. CASE k = j
      BY <1>2, <1>5, <3>1, <3>3 DEF d0
    <3> QED
      BY <3>2, <3>3
  <2>2. CASE csv'[d] # csv[d]
    <3>1. d = d0 /\ (d0 \in torn' \/ (At(j, "extract")' /\ job'[j].day = d0))
      BY <1>1, <1>2, <1>5, <2>2
    <3> QED
      BY <3>1 DEF Extracting
  <2> QED
    BY <1>1, <2>1, <2>2
<1>6. ASSUME NEW k \in Jobs, At(k, "extract")' \/ At(k, "read")' PROVE csv'[job'[k].day] # "none"
  <2>1. CASE k = j
    BY <1>2, <1>6, <2>1
  <2>2. CASE k # j
    <3>1. job'[k] = job[k] /\ csv[job[k].day] # "none" /\ job[k].day \in Days
      BY <1>1, <1>3, <1>4, <1>6, <2>2 DEF At
    <3> QED
      BY <1>1, <1>2, <3>1
  <2> QED
    BY <2>1, <2>2
<1>7. ASSUME NEW k \in Jobs, At(k, "insert")'
      PROVE  job'[k].text = "full" \/ (job'[k].text = "part" /\ job'[k].day \in torn')
  <2>1. CASE k = j
    <3>1. csv[d0] \in {"part", "full"}
      BY <1>1, <1>2, <1>3, <1>7, <2>1
    <3> QED
      BY <1>1, <1>2, <1>3, <1>7, <2>1, <3>1
  <2>2. CASE k # j
    <3>1. job'[k] = job[k] /\ At(k, "insert")
      BY <1>1, <1>4, <1>7, <2>2
    <3> QED
      BY <1>1, <1>3, <3>1
  <2> QED
    BY <2>1, <2>2
<1> QED
  BY <1>5, <1>6, <1>7 DEF FilesExplained

\* and in the table.
LEMMA RowsStep ==
    ASSUME LoadInv, NEW j \in Jobs, JobStep(j)
    PROVE  RowsExplained'
<1> DEFINE d0 == job[j].day
<1>1. /\ d0 \in Days /\ torn \subseteq torn' /\ skipped[j] \subseteq skipped'[j]
      /\ \A k \in Jobs \ {j} : job'[k] = job[k] /\ skipped'[k] = skipped[k]
      /\ \A d \in Days : d # d0 => rows'[d] = rows[d]
      /\ job[j].status = "running"
  BY JobStepFacts
<1>2. /\ rows'[d0] = rows[d0] \/ (rows'[d0] = job[j].text /\ At(j, "insert"))
      /\ \/ job'[j].day = d0
         \/ job'[j].day = d0 + 1 /\ (d0 \in skipped'[j] \/ (rows'[d0] = job[j].text /\ At(j, "insert")))
  BY JobStepDay
<1>3. At(j, "insert") => job[j].text = "full" \/ (job[j].text = "part" /\ d0 \in torn)
  BY DEF LoadInv, FilesExplained
<1> DEFINE Right(d) == rows[d] = "full" \/ d \in torn
<1>4. \A d \in Days : rows[d] = "part" => d \in torn
  BY DEF LoadInv, RowsExplained
<1>5. \A k \in Jobs, d \in Days : job[k].status # "none" /\ d < job[k].day => Right(d) \/ d \in skipped[k]
  BY DEF LoadInv, RowsExplained
<1>d. job[j].day = d0
  OBVIOUS
<1> HIDE DEF d0
<1>6. ASSUME NEW d \in Days PROVE /\ rows'[d] = "part" => d \in torn'
                                  /\ Right(d) => rows'[d] = "full" \/ d \in torn'
  BY <1>1, <1>2, <1>3, <1>4
<1>7. ASSUME NEW k \in Jobs, NEW d \in Days, job'[k].status # "none", d < job'[k].day
      PROVE  rows'[d] = "full" \/ d \in skipped'[k] \/ d \in torn'
  <2>1. CASE k # j
    BY <1>1, <1>5, <1>6, <1>7, <2>1
  <2>2. CASE k = j
    <3>1. CASE d < d0
      <4>1. Right(d) \/ d \in skipped[j]
        BY <1>1, <1>5, <1>d, <3>1
      <4> QED
        BY <1>1, <1>6, <2>2, <4>1
    <3>2. CASE ~(d < d0)
      <4>1. d = d0 /\ job'[j].day = d0 + 1 /\ d0 + 1 # d0
        BY <1>1, <1>2, <1>7, <2>2, <3>2 DEF Days
      <4>2. d0 \in skipped'[j] \/ rows'[d0] = "full" \/ d0 \in torn'
        BY <1>1, <1>2, <1>3, <4>1
      <4> QED
        BY <2>2, <4>1, <4>2
    <3> QED
      BY <3>1, <3>2
  <2> QED
    BY <2>1, <2>2
<1> QED
  BY <1>6, <1>7 DEF RowsExplained

\* The other steps of the server, and those of the panel, explain it too: a crash marks what it
\* cuts short.
LEMMA LoadInvStep == LoadInv /\ [Next]_vars => LoadInv'
<1> SUFFICES ASSUME LoadInv, [Next]_vars PROVE LoadInv'
  OBVIOUS
<1>0. job \in [Jobs -> JobRecord] /\ HistoryType /\ DayOfStatus /\ FilesExplained /\ RowsExplained
  BY DEF LoadInv, HistoryType
<1>1. CASE UNCHANGED historyVars
  <2>1. /\ UNCHANGED <<job, zip, csv, creator, rows, torn, skipped, panel, sent, stray, answers, sources,
                       doubled, faults, crashes>>
    BY <1>1 DEF historyVars, serverVars, panelVars
  <2>2. Started' = Started /\ (\A k \in Jobs : \A pc : At(k, pc)' <=> At(k, pc))
    BY <2>1 DEF Started, At
  <2>3. \A d : Extracting(d)' <=> Extracting(d)
    BY <2>1, <2>2 DEF Extracting
  <2>4. HistoryType'
    BY <1>0, <2>1, <2>2 DEF HistoryType, FilesType, PanelType, BoundsType, Room
  <2>5. DayOfStatus' /\ RowsExplained'
    BY <1>0, <2>1 DEF DayOfStatus, RowsExplained
  <2>6. FilesExplained'
    BY <1>0, <2>1, <2>2, <2>3 DEF FilesExplained
  <2> QED
    BY <2>4, <2>5, <2>6 DEF LoadInv
<1>2. CASE HistoryNext
  <2>0. HistoryType' /\ DayOfStatus'
    BY <1>0, <1>2, HistoryTypeStep
  <2>1. ASSUME NEW j \in Jobs, JobStep(j) PROVE LoadInv'
    BY <2>0, <2>1, FilesStep, RowsStep DEF LoadInv
  <2>2. CASE /\ UNCHANGED <<csv, rows, torn, skipped>>
             /\ \/ job' = job
                \/ \E j \in Jobs : job[j].status = "none" /\ job' = [job EXCEPT ![j].status = "running"]
    <3>1. \A k \in Jobs : \/ job'[k] = job[k]
                          \/ /\ job[k].status = "none" /\ job'[k].status = "running"
                             /\ job'[k].day = job[k].day /\ job'[k].pc = job[k].pc
      BY <1>0, <2>2 DEF JobRecord
    <3>2. \A k \in Jobs : job[k].status = "none" => job[k].day = 1 /\ job[k].pc = "stat"
      BY <1>0 DEF DayOfStatus
    <3>3. \A k \in Jobs : /\ At(k, "extract")' => At(k, "extract") /\ job'[k] = job[k]
                          /\ At(k, "read")' => At(k, "read") /\ job'[k] = job[k]
                          /\ At(k, "insert")' => At(k, "insert") /\ job'[k] = job[k]
                          /\ At(k, "extract") => At(k, "extract")' /\ job'[k] = job[k]
      BY <3>1, <3>2 DEF At
    <3>4. \A d : Extracting(d) => Extracting(d)'
      BY <3>3 DEF Extracting
    <3>5. FilesExplained'
      <4>1. \A d \in Days : csv'[d] = "part" => d \in torn' \/ Extracting(d)'
        BY <1>0, <2>2, <3>4 DEF FilesExplained
      <4>2. \A k \in Jobs : At(k, "extract")' \/ At(k, "read")' => csv'[job'[k].day] # "none"
        BY <1>0, <2>2, <3>3 DEF FilesExplained
      <4>3. \A k \in Jobs : At(k, "insert")' =>
              job'[k].text = "full" \/ (job'[k].text = "part" /\ job'[k].day \in torn')
        BY <1>0, <2>2, <3>3 DEF FilesExplained
      <4> QED
        BY <4>1, <4>2, <4>3 DEF FilesExplained
    <3>6. ASSUME NEW k \in Jobs, NEW d \in Days, job'[k].status # "none", d < job'[k].day
          PROVE  job[k].status # "none" /\ d < job[k].day
      <4>1. CASE job'[k] = job[k]
        BY <3>6, <4>1
      <4>2. CASE job[k].status = "none" /\ job'[k].day = job[k].day
        <5>1. ~(d < 1)
          BY HistoryLoadAssumption DEF Days
        <5> QED
          BY <3>2, <3>6, <4>2, <5>1
      <4> QED
        BY <3>1, <4>1, <4>2
    <3>7. RowsExplained'
      BY <1>0, <2>2, <3>6 DEF RowsExplained
    <3> QED
      BY <2>0, <3>5, <3>7 DEF LoadInv
  <2>3. CASE Crash
    <3>1. /\ job' = [j \in Jobs |-> IF job[j].status = "none" THEN job[j]
                                    ELSE [job[j] EXCEPT !.status = "lost"]]
          /\ torn' = torn \union {job[j].day : j \in {k \in Jobs : At(k, "extract")}}
          /\ UNCHANGED <<csv, rows, skipped>>
      BY <2>3 DEF Crash
    <3>2. \A k \in Jobs : /\ job'[k].status # "running" /\ job'[k].day = job[k].day
                          /\ job'[k].status # "none" => job[k].status # "none"
      BY <1>0, <3>1 DEF JobRecord
    <3>3. \A k \in Jobs : \A pc : ~At(k, pc)'
      BY <3>2 DEF At
    <3>4. \A d : Extracting(d) => d \in torn'
      BY <3>1 DEF Extracting
    <3>5. torn \subseteq torn'
      BY <3>1
    <3>6. FilesExplained'
      BY <1>0, <3>1, <3>3, <3>4, <3>5 DEF FilesExplained
    <3>7. RowsExplained'
      BY <1>0, <3>1, <3>2, <3>5 DEF RowsExplained
    <3> QED
      BY <2>0, <3>6, <3>7 DEF LoadInv
  <2>4. CASE \/ \E j \in Jobs : StartJob(j) \/ Answered(j) \/ AnswerLost(j)
             \/ \E j \in Jobs : ProgressEnds(j) \/ ConnectionLost(j)
             \/ Mount \/ Unmount \/ LoadHistory \/ PostFails
    <3>1. /\ UNCHANGED <<csv, rows, torn, skipped>>
          /\ \/ job' = job
             \/ \E j \in Jobs : job[j].status = "none" /\ job' = [job EXCEPT ![j].status = "running"]
      BY <2>4 DEF StartJob, Answered, AnswerLost, ProgressEnds, ConnectionLost, Mount, Unmount,
                  LoadHistory, PostFails, serverVars
    <3> QED
      BY <2>2, <3>1
  <2> QED
    BY <1>2, <2>1, <2>3, <2>4 DEF HistoryNext
<1>3. HistoryNext \/ UNCHANGED historyVars
  BY DEF Next, vars
<1> QED
  BY <1>1, <1>2, <1>3

\* There is nothing yet at first.
LEMMA LoadInvInit == Init => LoadInv
<1> SUFFICES ASSUME HistoryInit PROVE LoadInv
  BY DEF Init
<1>1. /\ job = [j \in Jobs |-> [status |-> "none", day |-> 1, pc |-> "stat", text |-> "none"]]
      /\ zip = [d \in Days |-> "none"] /\ csv = [d \in Days |-> "none"]
      /\ rows = [d \in Days |-> "none"] /\ creator = [d \in Days |-> 0]
      /\ panel = Fresh(FALSE) /\ sent = 0 /\ stray = 0 /\ answers = {} /\ sources = {}
      /\ faults = 0 /\ crashes = 0
      /\ torn = {} /\ skipped = [j \in Jobs |-> {}] /\ doubled = FALSE
  BY DEF HistoryInit
<1>2. 0 \in 0 .. MaxJobs /\ 0 \in 0 .. MaxFaults /\ 0 \in 0 .. MaxCrashes /\ 1 \in 1 .. NumDays + 1
  BY HistoryLoadAssumption
<1>3. job \in [Jobs -> JobRecord]
  BY <1>1, <1>2 DEF JobRecord
<1>4. FilesType /\ BoundsType
  BY <1>1, <1>2 DEF FilesType, BoundsType
<1>5. PanelType
  BY <1>1, <1>2 DEF PanelType, Fresh
<1>6. Room
  BY <1>1, StartedNumber, HistoryLoadAssumption DEF Room
<1>7. DayOfStatus /\ FilesExplained /\ RowsExplained
  BY <1>1 DEF DayOfStatus, FilesExplained, RowsExplained, At
<1> QED
  BY <1>3, <1>4, <1>5, <1>6, <1>7 DEF LoadInv, HistoryType

\* A job that is called complete has loaded every day, or logged that it passed over it, or its
\* file was marked as cut short or read while it was written; and never is part of a day in
\* the table without that mark: for any number of jobs over the same files, failures and
\* restarts (downloader.go:47, downloader.go:102, pipeline.go:71).
THEOREM LoadedOrExplainedHolds == Spec => []LoadedOrExplained
<1>1. LoadInv => LoadedOrExplained
  <2> SUFFICES ASSUME LoadInv PROVE LoadedOrExplained
    OBVIOUS
  <2>1. ASSUME NEW j \in Jobs, NEW d \in Days, job[j].status = "done"
        PROVE  rows[d] = "full" \/ d \in skipped[j] \/ d \in torn
    <3>1. d < job[j].day
      BY <2>1, HistoryLoadAssumption DEF LoadInv, DayOfStatus, Days
    <3> QED
      BY <2>1, <3>1 DEF LoadInv, RowsExplained
  <2> QED
    BY <2>1 DEF LoadInv, RowsExplained, LoadedOrExplained
<1> QED
  BY <1>1, LoadInvInit, LoadInvStep, PTL DEF Spec

--------------------------------------------------------------------------------
(* Loading history: what the panel says.                                        *)

\* A mount that has not pressed the button twice before an answer waits for one answer or follows
\* one job, the one it shows; only when it does neither can it say that the job is done.
Followed ==
    /\ ~panel.mounted => sent = 0 /\ answers = {} /\ sources = {}
    /\ ~doubled =>
         /\ sent = 0 \/ (sent = 1 /\ answers = {})
         /\ \A i, k \in answers : i = k
         /\ (sent # 0 \/ answers # {}) => sources = {} /\ ~panel.done /\ ~panel.error
         /\ \A j \in sources : j = panel.jobId
         /\ sources # {} => ~panel.done /\ ~panel.error
         /\ (panel.done /\ panel.jobId # 0) => job[panel.jobId].status \in {"done", "lost"}

\* A job that is done stays done, or is lost with the server.
LEMMA DoneStays ==
    ASSUME LoadInv, HistoryNext, NEW j \in Jobs, job[j].status \in {"done", "lost"}
    PROVE  job'[j].status \in {"done", "lost"}
<1>1. job \in [Jobs -> JobRecord]
  BY DEF LoadInv, HistoryType
<1>2. ASSUME NEW k \in Jobs, JobStep(k) PROVE job'[j].status \in {"done", "lost"}
  <2>1. job[k].status = "running" /\ \A i \in Jobs \ {k} : job'[i] = job[i]
    BY <1>2, JobStepFacts
  <2>2. j # k
    BY <2>1
  <2> QED
    BY <2>1, <2>2
<1>3. ASSUME NEW k \in Jobs, StartJob(k) PROVE job'[j].status \in {"done", "lost"}
  <2>1. job[k].status = "none" /\ job' = [job EXCEPT ![k].status = "running"]
    BY <1>3 DEF StartJob
  <2> QED
    BY <1>1, <2>1
<1>4. CASE Crash
  <2>1. job' = [k \in Jobs |-> IF job[k].status = "none" THEN job[k]
                               ELSE [job[k] EXCEPT !.status = "lost"]]
    BY <1>4 DEF Crash
  <2> QED
    BY <1>1, <2>1 DEF JobRecord
<1>5. CASE \/ \E k \in Jobs : Answered(k) \/ AnswerLost(k) \/ ProgressEnds(k) \/ ConnectionLost(k)
           \/ Mount \/ Unmount \/ LoadHistory \/ PostFails
  <2>1. job' = job
    BY <1>5 DEF Answered, AnswerLost, ProgressEnds, ConnectionLost, Mount, Unmount,
                LoadHistory, PostFails, serverVars
  <2> QED
    BY <2>1
<1> QED
  BY <1>2, <1>3, <1>4, <1>5 DEF HistoryNext

\* Every step keeps the panel to one job.
LEMMA FollowedNext == LoadInv /\ Followed /\ HistoryNext => Followed'
<1> SUFFICES ASSUME LoadInv, Followed, HistoryNext PROVE Followed'
  OBVIOUS
<1>0. /\ panel \in [mounted : BOOLEAN, jobId : 0 .. MaxJobs, done : BOOLEAN, error : BOOLEAN]
      /\ answers \subseteq Jobs /\ sources \subseteq Jobs /\ doubled \in BOOLEAN /\ sent \in Nat
  BY DEF LoadInv, HistoryType, PanelType, Room
<1>D. \A j \in Jobs : job[j].status \in {"done", "lost"} => job'[j].status \in {"done", "lost"}
  BY DoneStays
<1>J. panel.jobId # 0 => panel.jobId \in Jobs
  BY <1>0 DEF Jobs
<1>1. CASE UNCHANGED <<panel, sent, answers, sources, doubled>>
  BY <1>1, <1>D, <1>J DEF Followed
<1>2. CASE Crash \/ \E j \in Jobs : JobStep(j)
  <2>1. UNCHANGED <<panel, sent, answers, sources, doubled>>
    BY <1>2 DEF Crash, JobStep, panelVars
  <2> QED
    BY <1>1, <2>1
<1>3. ASSUME NEW j \in Jobs, StartJob(j) PROVE Followed'
  <2>1. /\ UNCHANGED <<panel, sources, doubled>>
        /\ \/ sent > 0 /\ sent' = sent - 1 /\ answers' = answers \union {j}
           \/ UNCHANGED <<sent, answers>>
    BY <1>3 DEF StartJob
  <2>2. CASE sent > 0 /\ sent' = sent - 1 /\ answers' = answers \union {j}
    <3>1. panel.mounted
      BY <1>0, <2>2 DEF Followed
    <3>2. ~doubled => sent' = 0 /\ answers' = {j} /\ sources = {} /\ ~panel.done /\ ~panel.error
      BY <1>0, <2>2 DEF Followed
    <3> QED
      BY <1>0, <2>1, <3>1, <3>2 DEF Followed
  <2>3. CASE UNCHANGED <<sent, answers>>
    BY <1>1, <2>1, <2>3
  <2> QED
    BY <2>1, <2>2, <2>3
<1>4. ASSUME NEW j \in Jobs, Answered(j) PROVE Followed'
  <2>1. /\ j \in answers /\ answers' = answers \ {j} /\ sources' = sources \union {j}
        /\ panel' = [panel EXCEPT !.jobId = j] /\ UNCHANGED <<sent, doubled>>
    BY <1>4 DEF Answered
  <2>2. panel.mounted /\ panel'.mounted = panel.mounted /\ panel'.jobId = j
        /\ panel'.done = panel.done /\ panel'.error = panel.error
    BY <1>0, <2>1 DEF Followed
  <2>3. ~doubled => /\ sent = 0 /\ answers' = {} /\ sources' = {j} /\ ~panel.done /\ ~panel.error
    BY <1>0, <2>1 DEF Followed
  <2> QED
    BY <2>1, <2>2, <2>3 DEF Followed
<1>5. ASSUME NEW j \in Jobs, AnswerLost(j) PROVE Followed'
  <2>1. /\ j \in answers /\ answers' = answers \ {j}
        /\ panel' = [panel EXCEPT !.error = TRUE] /\ UNCHANGED <<sent, sources, doubled>>
    BY <1>5 DEF AnswerLost
  <2>2. panel.mounted /\ panel'.mounted = panel.mounted /\ panel'.done = panel.done
    BY <1>0, <2>1 DEF Followed
  <2>3. ~doubled => sent = 0 /\ answers' = {} /\ sources = {} /\ ~panel.done
    BY <1>0, <2>1 DEF Followed
  <2> QED
    BY <2>1, <2>2, <2>3 DEF Followed
<1>6. ASSUME NEW j \in Jobs, ProgressEnds(j) \/ ConnectionLost(j) PROVE Followed'
  <2>1. /\ j \in sources /\ sources' = sources \ {j} /\ UNCHANGED <<sent, answers, doubled, job>>
        /\ \/ panel' = [panel EXCEPT !.done = TRUE] /\ job[j].status = "done"
           \/ panel' = [panel EXCEPT !.error = TRUE]
    BY <1>6 DEF ProgressEnds, ConnectionLost, serverVars
  <2>2. /\ panel.mounted /\ panel'.mounted = panel.mounted /\ panel'.jobId = panel.jobId
        /\ panel'.done = panel.done \/ job[j].status = "done"
    BY <1>0, <2>1 DEF Followed
  <2>3. ~doubled => sent = 0 /\ answers = {} /\ sources' = {} /\ j = panel.jobId /\ ~panel.done
    BY <1>0, <2>1 DEF Followed
  <2>4. ~doubled /\ panel'.done => job'[panel'.jobId].status = "done"
    BY <2>1, <2>2, <2>3
  <2> QED
    BY <2>1, <2>2, <2>3, <2>4 DEF Followed
<1>7. CASE Mount
  <2>1. ~panel.mounted /\ panel' = Fresh(TRUE) /\ UNCHANGED <<sent, answers, sources, doubled>>
    BY <1>7 DEF Mount
  <2>2. panel'.mounted /\ ~panel'.done /\ sent = 0 /\ answers = {} /\ sources = {}
    BY <2>1 DEF Fresh, Followed
  <2> QED
    BY <2>1, <2>2 DEF Followed
<1>8. CASE Unmount
  <2>1. panel' = Fresh(FALSE) /\ sent' = 0 /\ answers' = {} /\ sources' = {}
    BY <1>8 DEF Unmount
  <2>2. ~panel'.mounted /\ ~panel'.done
    BY <2>1 DEF Fresh
  <2> QED
    BY <2>1, <2>2 DEF Followed
<1>9. CASE LoadHistory
  <2>1. /\ panel.mounted /\ ~Busy /\ panel' = [panel EXCEPT !.done = FALSE, !.error = FALSE]
        /\ sent' = sent + 1 /\ doubled' = (doubled \/ sent > 0 \/ answers # {})
        /\ UNCHANGED <<answers, sources>>
    BY <1>9 DEF LoadHistory
  <2>2. panel'.mounted /\ ~panel'.done /\ ~panel'.error
    BY <1>0, <2>1
  <2>3. ~doubled' => ~doubled /\ sent' = 1 /\ answers = {}
    BY <1>0, <2>1
  <2>4. ~doubled => sources = {}
    <3> SUFFICES ASSUME ~doubled, sources # {} PROVE FALSE
      OBVIOUS
    <3>1. ~panel.done /\ ~panel.error /\ panel.jobId \in sources
      BY DEF Followed
    <3>2. panel.jobId # 0
      BY <1>0, <3>1 DEF Jobs
    <3> QED
      BY <2>1, <3>1, <3>2 DEF Busy
  <2> QED
    BY <2>1, <2>2, <2>3, <2>4 DEF Followed
<1>10. CASE PostFails
  <2>1. /\ sent > 0 /\ sent' = sent - 1 /\ panel' = [panel EXCEPT !.error = TRUE]
        /\ UNCHANGED <<answers, sources, doubled>>
    BY <1>10 DEF PostFails
  <2>2. panel.mounted /\ panel'.mounted = panel.mounted /\ panel'.done = panel.done
    BY <1>0, <2>1 DEF Followed
  <2>3. ~doubled => sent' = 0 /\ answers = {} /\ sources = {} /\ ~panel.done
    BY <1>0, <2>1 DEF Followed
  <2> QED
    BY <2>1, <2>2, <2>3 DEF Followed
<1> QED
  BY <1>2, <1>3, <1>4, <1>5, <1>6, <1>7, <1>8, <1>9, <1>10 DEF HistoryNext

\* "Complete!" is said of the job that is followed, and when it is done or lost, unless the button
\* was pressed twice before the first answer came (AdminPanel.tsx:225, AdminPanel.tsx:550).
THEOREM CompleteMeansDoneHolds == Spec => []CompleteMeansDone
<1>1. Init => Followed
  BY DEF Init, HistoryInit, Fresh, Followed
<1>2. LoadInv /\ Followed /\ [Next]_vars => Followed'
  <2> SUFFICES ASSUME LoadInv, Followed, [Next]_vars PROVE Followed'
    OBVIOUS
  <2>1. CASE UNCHANGED historyVars
    <3>1. UNCHANGED <<panel, sent, answers, sources, doubled, job>>
      BY <2>1 DEF historyVars, serverVars, panelVars
    <3> QED
      BY <3>1 DEF Followed
  <2>2. HistoryNext \/ UNCHANGED historyVars
    BY DEF Next, vars
  <2> QED
    BY <2>1, <2>2, FollowedNext
<1>3. Followed => CompleteMeansDone
  BY DEF Followed, CompleteMeansDone
<1> QED
  BY <1>1, <1>2, <1>3, LoadInvInit, LoadInvStep, PTL DEF Spec

--------------------------------------------------------------------------------
(* The ticker registry: types.                                                  *)

Request == [kind : {"none", "get", "post", "delete"}, at : {"idle", "sent", "stored", "ok", "error"},
            t : Symbols \union {Absent}, v : Values \union {Absent},
            read : Rows, crossed : BOOLEAN, stray : BOOLEAN]

ServerType ==
    /\ table \in Rows /\ configs \in Rows /\ doomed \subseteq Symbols
    /\ disturbed \subseteq Symbols /\ early \subseteq Symbols
    /\ newest \in Requests \union {0} /\ outrun \in BOOLEAN /\ trouble \in BOOLEAN
    /\ registry \in [mounted : BOOLEAN, list : Rows, symbol : Symbols \union {Absent}]

\* A request that changes the registry is about a ticker until it has, and one that is under
\* way is of one of the three kinds.
Means(r) ==
    /\ r.kind \in {"post", "delete"} /\ r.at \in {"sent", "stored"} => r.t \in Symbols
    /\ r.at = "stored" => r.kind \in {"post", "delete"}
    /\ r.at # "idle" => r.kind # "none"

RequestsType == req \in [Requests -> Request] /\ \A i \in Requests : Means(req[i])

\* The requests the page makes by itself are requests.
LEMMA IdleAndFetch ==
    /\ NoRows \in Rows
    /\ Idle \in Request /\ Idle.at = "idle" /\ Idle.kind = "none" /\ ~Idle.stray /\ Means(Idle)
    /\ Fetch \in Request /\ Fetch.at = "sent" /\ Fetch.kind = "get" /\ ~Fetch.stray /\ Means(Fetch)
<1>1. NoRows \in Rows
  BY DEF NoRows, Rows
<1>2. Idle \in Request /\ Idle.at = "idle" /\ Idle.kind = "none" /\ ~Idle.stray
  BY <1>1 DEF Idle, Request
<1>3. Fetch \in Request /\ Fetch.at = "sent" /\ Fetch.kind = "get" /\ ~Fetch.stray
  BY <1>1 DEF Fetch, Idle, Request
<1>4. Means(Idle) /\ Means(Fetch)
  BY <1>2, <1>3 DEF Means
<1> QED
  BY <1>1, <1>2, <1>3, <1>4

\* So is one that is over,
LEMMA EndedType ==
    ASSUME NEW r \in Request, NEW o \in {"ok", "error"}, r.kind # "none"
    PROVE  /\ Ended(r, o) \in Request /\ Ended(r, o).at = o /\ Ended(r, o).kind = r.kind
           /\ Ended(r, o).stray = r.stray /\ Means(Ended(r, o))
<1>1. NoRows \in Rows
  BY IdleAndFetch
<1>2. /\ Ended(r, o) \in Request /\ Ended(r, o).at = o /\ Ended(r, o).kind = r.kind
      /\ Ended(r, o).stray = r.stray
  BY <1>1 DEF Ended, Idle, Request
<1> QED
  BY <1>2 DEF Means

\* and one that is to change a ticker.
Add(y, v) == [Idle EXCEPT !.kind = "post", !.at = "sent", !.t = y, !.v = v]
Delete(y) == [Idle EXCEPT !.kind = "delete", !.at = "sent", !.t = y]

\* Both are requests.
LEMMA SentType ==
    ASSUME NEW y \in Symbols
    PROVE  /\ \A v \in Values :
                /\ Add(y, v) \in Request /\ Add(y, v).kind = "post" /\ Add(y, v).at = "sent"
                /\ Add(y, v).t = y /\ ~Add(y, v).stray /\ Means(Add(y, v))
           /\ Delete(y) \in Request /\ Delete(y).kind = "delete" /\ Delete(y).at = "sent"
           /\ Delete(y).t = y /\ ~Delete(y).stray /\ Means(Delete(y))
<1>1. NoRows \in Rows
  BY IdleAndFetch
<1>2. ASSUME NEW v \in Values
      PROVE  /\ Add(y, v) \in Request /\ Add(y, v).kind = "post" /\ Add(y, v).at = "sent"
             /\ Add(y, v).t = y /\ ~Add(y, v).stray
  BY <1>1 DEF Add, Idle, Request
<1>3. /\ Delete(y) \in Request /\ Delete(y).kind = "delete" /\ Delete(y).at = "sent"
      /\ Delete(y).t = y /\ ~Delete(y).stray
  BY <1>1 DEF Delete, Idle, Request
<1> QED
  BY <1>2, <1>3 DEF Means

\* One request that changes, to a request, keeps the requests' types.
LEMMA OneRequest ==
    ASSUME RequestsType, NEW i \in Requests, NEW r \in Request, Means(r), req' = [req EXCEPT ![i] = r]
    PROVE  /\ RequestsType' /\ req'[i] = r /\ \A j \in Requests \ {i} : req'[j] = req[j]
<1>1. req \in [Requests -> Request] /\ \A j \in Requests : Means(req[j])
  BY DEF RequestsType
<1>2. req' \in [Requests -> Request] /\ req'[i] = r /\ \A j \in Requests \ {i} : req'[j] = req[j]
  BY <1>1
<1>3. \A j \in Requests : Means(req'[j])
  BY <1>1, <1>2
<1> QED
  BY <1>2, <1>3 DEF RequestsType

\* As does a request that passes others.
LEMMA PassedRequest ==
    ASSUME RequestsType, NEW i \in Requests, NEW r \in Request, Means(r), Passed(i, r)
    PROVE  /\ RequestsType' /\ req'[i] = r
           /\ \A j \in Requests \ {i} : /\ j \in Met(i) => req'[j] = [req[j] EXCEPT !.crossed = TRUE]
                                        /\ j \notin Met(i) => req'[j] = req[j]
           /\ \A j \in Requests \ {i} : /\ req'[j].at = req[j].at /\ req'[j].kind = req[j].kind
                                        /\ req'[j].t = req[j].t /\ req'[j].v = req[j].v
                                        /\ req'[j].read = req[j].read /\ req'[j].stray = req[j].stray
                                        /\ j \in Met(i) => req'[j].crossed
<1>1. /\ req' = [j \in Requests |-> IF j = i THEN r ELSE IF j \in Met(i)
                                    THEN [req[j] EXCEPT !.crossed = TRUE] ELSE req[j]]
      /\ req \in [Requests -> Request] /\ \A j \in Requests : Means(req[j])
  BY DEF Passed, RequestsType
<1>2. \A j \in Requests : [req[j] EXCEPT !.crossed = TRUE] \in Request
  BY <1>1 DEF Request
<1>3. req' \in [Requests -> Request]
  BY <1>1, <1>2
<1>4. \A j \in Requests \ {i} : /\ j \in Met(i) => req'[j] = [req[j] EXCEPT !.crossed = TRUE]
                                /\ j \notin Met(i) => req'[j] = req[j]
  BY <1>1
<1>5. req'[i] = r
  BY <1>1
<1>6. \A j \in Requests \ {i} : /\ req'[j].at = req[j].at /\ req'[j].kind = req[j].kind
                                /\ req'[j].t = req[j].t /\ req'[j].v = req[j].v
                                /\ req'[j].read = req[j].read /\ req'[j].stray = req[j].stray
                                /\ j \in Met(i) => req'[j].crossed
  BY <1>1, <1>4 DEF Request
<1>7. \A j \in Requests : Means(req'[j])
  BY <1>1, <1>5, <1>6 DEF Means
<1> QED
  BY <1>3, <1>4, <1>5, <1>6, <1>7 DEF RequestsType

\* What a step can do to the requests: nothing; one starts, gets its answer, changes or ends; one
\* passes others; all become strays; or all that are between their writes end.
LEMMA RequestStep ==
    ASSUME RequestsType, table \in Rows, registry.symbol \in Symbols \union {Absent}, TickersNext
    PROVE  RequestsType'
<1>0. req \in [Requests -> Request] /\ \A i \in Requests : req[i] \in Request /\ Means(req[i])
  BY DEF RequestsType
<1>2. ASSUME NEW i \in Requests, MountRegistry(i) PROVE RequestsType'
  BY <1>2, IdleAndFetch, OneRequest DEF MountRegistry, Sends
<1>3. ASSUME NEW i \in Requests, AnswerArrives(i) \/ AnswerIsNone(i) PROVE RequestsType'
  <2>1. req' = [req EXCEPT ![i] = Idle] \/ req' = [req EXCEPT ![i] = Fetch]
    BY <1>3 DEF AnswerArrives, AnswerIsNone, Follows
  <2> QED
    BY <2>1, IdleAndFetch, OneRequest
<1>4. ASSUME NEW i \in Requests, ReadTickers(i) PROVE RequestsType'
  <2> DEFINE r == [req[i] EXCEPT !.at = "ok", !.read = table]
  <2>1. r \in Request /\ Means(r)
    BY <1>0, <1>4 DEF ReadTickers, Request, Means
  <2>2. req' = [req EXCEPT ![i] = r]
    BY <1>0, <1>4 DEF ReadTickers, Request
  <2> QED
    BY <2>1, <2>2, OneRequest
<1>5. ASSUME NEW i \in Requests, Store(i) PROVE RequestsType'
  <2> DEFINE r == [req[i] EXCEPT !.at = "stored", !.crossed = Met(i) # {}]
  <2>1. r \in Request /\ Means(r)
    BY <1>0, <1>5 DEF Store, Request, Means
  <2>2. Passed(i, r)
    BY <1>5 DEF Store
  <2> HIDE DEF r
  <2> QED
    BY <2>1, <2>2, PassedRequest
<1>6. ASSUME NEW i \in Requests, StoreFails(i) PROVE RequestsType'
  <2>1. Ended(req[i], "error") \in Request /\ Means(Ended(req[i], "error"))
    BY <1>0, <1>6, EndedType DEF StoreFails
  <2>2. Passed(i, Ended(req[i], "error"))
    BY <1>6 DEF StoreFails
  <2> QED
    BY <2>1, <2>2, PassedRequest
<1>7. ASSUME NEW i \in Requests, UpdateConfigs(i) PROVE RequestsType'
  <2>1. Ended(req[i], "ok") \in Request /\ Means(Ended(req[i], "ok"))
    <3>1. req[i].kind # "none"
      BY <1>0, <1>7 DEF UpdateConfigs, Means
    <3> QED
      BY <1>0, <3>1, EndedType
  <2>2. req' = [req EXCEPT ![i] = Ended(req[i], "ok")]
    BY <1>7 DEF UpdateConfigs
  <2> QED
    BY <2>1, <2>2, OneRequest
<1>8. ASSUME NEW i \in Requests, NEW y \in Symbols, DeleteTicker(i, y) PROVE RequestsType'
  <2>1. req' = [req EXCEPT ![i] = Delete(y)]
    BY <1>8 DEF DeleteTicker, Sends, Delete
  <2> QED
    BY <2>1, SentType, OneRequest
<1>9. ASSUME NEW i \in Requests, NEW v \in Values, AddTicker(i, v) PROVE RequestsType'
  <2>1. registry.symbol \in Symbols /\ req' = [req EXCEPT ![i] = Add(registry.symbol, v)]
    BY <1>9 DEF AddTicker, Sends, Add
  <2> QED
    BY <2>1, SentType, OneRequest
<1>10. CASE UnmountRegistry
  <2>1. req' = [i \in Requests |-> [req[i] EXCEPT !.stray = @ \/ req[i].at # "idle"]]
    BY <1>10 DEF UnmountRegistry
  <2>2. \A i \in Requests : /\ [req[i] EXCEPT !.stray = @ \/ req[i].at # "idle"] \in Request
                            /\ Means([req[i] EXCEPT !.stray = @ \/ req[i].at # "idle"])
    BY <1>0 DEF Request, Means
  <2> QED
    BY <2>1, <2>2 DEF RequestsType
<1>11. CASE Restart
  <2>1. req' = [i \in Requests |-> IF req[i].at = "stored" THEN Ended(req[i], "error") ELSE req[i]]
    BY <1>11 DEF Restart
  <2>2. \A i \in Requests : req[i].at = "stored" => /\ Ended(req[i], "error") \in Request
                                                    /\ Means(Ended(req[i], "error"))
    <3>1. \A i \in Requests : req[i].at = "stored" => req[i].kind # "none"
      BY <1>0 DEF Means
    <3> QED
      BY <1>0, <3>1, EndedType
  <2> QED
    BY <1>0, <2>1, <2>2 DEF RequestsType
<1>12. CASE \/ \E y \in Symbols : TypeTicker(y)
            \/ \E y \in Symbols : Mutation(y)
  <2>1. req' = req
    BY <1>12 DEF TypeTicker, Mutation
  <2> QED
    BY <1>0, <2>1 DEF RequestsType
<1> QED
  BY <1>2, <1>3, <1>4, <1>5, <1>6, <1>7, <1>8, <1>9, <1>10, <1>11, <1>12 DEF TickersNext

TickersType == ServerType /\ RequestsType

\* A step keeps the types of the tables, the lists and the page.
LEMMA ServerStep == TickersType /\ TickersNext => ServerType'
<1> SUFFICES ASSUME TickersType, TickersNext PROVE ServerType'
  OBVIOUS
<1>0. /\ table \in Rows /\ configs \in Rows /\ doomed \subseteq Symbols
      /\ disturbed \subseteq Symbols /\ early \subseteq Symbols
      /\ newest \in Requests \union {0} /\ outrun \in BOOLEAN /\ trouble \in BOOLEAN
      /\ registry \in [mounted : BOOLEAN, list : Rows, symbol : Symbols \union {Absent}]
      /\ \A i \in Requests : req[i] \in Request /\ Means(req[i])
      /\ NoRows \in Rows /\ Seed \in Rows
  BY TickersAssumption, IdleAndFetch DEF TickersType, ServerType, RequestsType, Rows
<1> DEFINE Stores2(i) ==
             /\ \/ UNCHANGED <<table, doomed>>
                \/ table' = [table EXCEPT ![req[i].t] = req[i].v] /\ doomed' = doomed \ {req[i].t}
                \/ table' = table /\ doomed' = doomed \union {y \in {req[i].t} : table[y] # Absent}
<1>1. ASSUME NEW i \in Requests, req[i].kind \in {"post", "delete"}, req[i].at = "sent",
             Stores(req[i]) \/ UNCHANGED <<table, doomed>>
      PROVE  table' \in Rows /\ doomed' \subseteq Symbols /\ req[i].t \in Symbols
  <2>1. req[i].t \in Symbols /\ req[i].v \in Values \union {Absent}
    BY <1>0, <1>1 DEF Means, Request
  <2>2. Stores2(i)
    BY <1>1 DEF Stores, UpsertTickerConfig, DeleteTickerConfig
  <2> QED
    BY <1>0, <2>1, <2>2 DEF Rows
<1> DEFINE Page == [mounted : BOOLEAN, list : Rows, symbol : Symbols \union {Absent}]
<1>2. ASSUME NEW i \in Requests, MountRegistry(i) PROVE ServerType'
  <2>1. registry' \in Page /\ trouble' \in BOOLEAN /\ outrun' = outrun
    BY <1>0, <1>2 DEF MountRegistry
  <2> QED
    BY <1>0, <1>2, <2>1 DEF MountRegistry, serverSide, ServerType
<1>3. ASSUME NEW i \in Requests, AnswerArrives(i) PROVE ServerType'
  <2>1. registry' \in Page
    <3>1. req[i].kind \in {"get", "post", "delete"} /\ req[i].read \in Rows
      BY <1>0, <1>3 DEF AnswerArrives, Means, Request
    <3>2. registry' = registry \/ registry' = Shows(req[i])
      BY <1>3 DEF AnswerArrives
    <3>3. Shows(req[i]) \in {[registry EXCEPT !.list = req[i].read], [registry EXCEPT !.symbol = Absent],
                             registry}
      BY <3>1 DEF Shows
    <3>4. [registry EXCEPT !.list = req[i].read] \in Page
      BY <1>0, <3>1
    <3>5. [registry EXCEPT !.symbol = Absent] \in Page
      BY <1>0
    <3> QED
      BY <1>0, <3>2, <3>3, <3>4, <3>5
  <2>2. outrun' \in BOOLEAN
    BY <1>0, <1>3 DEF AnswerArrives
  <2> QED
    BY <1>0, <1>3, <2>1, <2>2 DEF AnswerArrives, serverSide, ServerType
<1>4. ASSUME NEW i \in Requests, AnswerIsNone(i) PROVE ServerType'
  <2>1. trouble' \in BOOLEAN
    BY <1>4 DEF AnswerIsNone
  <2> QED
    BY <1>0, <1>4, <2>1 DEF AnswerIsNone, serverSide, ServerType
<1>5. ASSUME NEW i \in Requests, ReadTickers(i) PROVE ServerType'
  BY <1>0, <1>5 DEF ReadTickers, pageSide, ServerType
<1>6. ASSUME NEW i \in Requests, Store(i) PROVE ServerType'
  <2>1. table' \in Rows /\ doomed' \subseteq Symbols
    BY <1>1, <1>6 DEF Store
  <2> QED
    BY <1>0, <1>6, <2>1 DEF Store, pageSide, ServerType
<1>7. ASSUME NEW i \in Requests, StoreFails(i) PROVE ServerType'
  <2>1. table' \in Rows /\ doomed' \subseteq Symbols /\ req[i].t \in Symbols
    BY <1>1, <1>7 DEF StoreFails
  <2>2. disturbed' \subseteq Symbols
    BY <1>0, <1>7, <2>1 DEF StoreFails
  <2> QED
    BY <1>0, <1>7, <2>1, <2>2 DEF StoreFails, pageSide, ServerType
<1>8. ASSUME NEW i \in Requests, UpdateConfigs(i) PROVE ServerType'
  <2>1. req[i].t \in Symbols /\ req[i].v \in Values \union {Absent}
    BY <1>0, <1>8 DEF UpdateConfigs, Means, Request
  <2>2. configs' \in Rows
    BY <1>0, <1>8, <2>1 DEF UpdateConfigs, Listed, Rows
  <2>3. disturbed' \subseteq Symbols
    <3>1. disturbed' = disturbed \union {req[i].t} \/ disturbed' = disturbed \ {req[i].t}
      BY <1>8 DEF UpdateConfigs
    <3> QED
      BY <1>0, <2>1, <3>1
  <2> QED
    BY <1>0, <1>8, <2>2, <2>3 DEF UpdateConfigs, pageSide, ServerType
<1>9. ASSUME NEW i \in Requests, NEW y \in Symbols, DeleteTicker(i, y) PROVE ServerType'
  BY <1>0, <1>9 DEF DeleteTicker, serverSide, ServerType
<1>10. ASSUME NEW i \in Requests, NEW v \in Values, AddTicker(i, v) PROVE ServerType'
  BY <1>0, <1>10 DEF AddTicker, serverSide, ServerType
<1>11. ASSUME NEW y \in Symbols, TypeTicker(y) PROVE ServerType'
  <2>1. registry' \in Page
    BY <1>0, <1>11 DEF TypeTicker
  <2> QED
    BY <1>0, <1>11, <2>1 DEF TypeTicker, serverSide, ServerType
<1>12. ASSUME NEW y \in Symbols, Mutation(y) PROVE ServerType'
  <2>1. table' \in Rows /\ doomed' \subseteq Symbols
    BY <1>0, <1>12 DEF Mutation, Rows
  <2> QED
    BY <1>0, <1>12, <2>1 DEF Mutation, pageSide, ServerType
<1>13. CASE UnmountRegistry
  <2>1. registry' \in Page /\ newest' = 0 /\ early' = {} /\ outrun' = FALSE /\ trouble' = FALSE
    BY <1>0, <1>13 DEF UnmountRegistry, Unmounted
  <2> QED
    BY <1>0, <1>13, <2>1 DEF UnmountRegistry, ServerType
<1>14. CASE Restart
  <2>1. table' \in {Seed, table} /\ configs' \in {Seed, table} /\ disturbed' \in {doomed, Symbols} /\ doomed' = doomed
    BY <1>14 DEF Restart
  <2>2. trouble' \in BOOLEAN /\ UNCHANGED <<registry, outrun, newest, early>>
    BY <1>0, <1>14 DEF Restart
  <2> QED
    BY <1>0, <2>1, <2>2 DEF ServerType
<1> QED
  BY <1>2, <1>3, <1>4, <1>5, <1>6, <1>7, <1>8, <1>9, <1>10, <1>11, <1>12, <1>13, <1>14 DEF TickersNext

\* So the types are an invariant of the registry.
LEMMA TickersTypeStep == TickersType /\ TickersNext => TickersType'
  BY RequestStep, ServerStep DEF TickersType, ServerType

--------------------------------------------------------------------------------
(* The ticker registry: the copies agree.                                       *)

Between(i, y) == req[i].at = "stored" /\ req[i].t = y
Target(i) == IF req[i].kind = "post" THEN req[i].v ELSE Absent

\* A request between its two writes that met no other one is the only one there with its ticker,
\* and the table has what it is about to put into the list; and the list has what the table has
\* wherever no request is between its writes.
ListInv ==
    \A y \in Symbols :
      /\ \A i \in Requests : Between(i, y) /\ ~req[i].crossed =>
            /\ \A j \in Requests : Between(j, y) => j = i
            /\ Effective(y) = Target(i)
      /\ y \notin disturbed /\ (\A i \in Requests : ~Between(i, y)) => configs[y] = Effective(y)

\* Nothing is under way that will make the page fetch the list, or fetch it.
Settled == \A i \in Requests : req[i].at = "idle" \/ (req[i].kind = "get" /\ req[i].at = "ok")

\* When nothing is, the last list that was read is right and on its way, or it is on the page,
\* unless one read earlier was shown after it.
PageInv ==
    /\ \A i \in Requests : req[i].at = "idle" => ~req[i].stray
    /\ registry.mounted /\ ~trouble => \A i \in Requests : ~req[i].stray
    /\ registry.mounted /\ ~trouble /\ Settled =>
         /\ newest \in Requests
         /\ \/ req[newest].at = "ok" /\ \A y \in Symbols \ early : req[newest].read[y] = Effective(y)
            \/ /\ req[newest].at = "idle"
               /\ outrun \/ \A y \in Symbols \ early : registry.list[y] = Effective(y)

CopiesInv == TickersType /\ ListInv /\ PageInv

\* A deletion that is carried out was counted as done.
LEMMA MutationEffect ==
    ASSUME TickersType, NEW y \in Symbols, Mutation(y)
    PROVE  \A z \in Symbols : Effective(z)' = Effective(z)
<1>1. /\ table \in Rows /\ y \in doomed
      /\ table' = [table EXCEPT ![y] = Absent] /\ doomed' = doomed \ {y}
  BY DEF Mutation, TickersType, ServerType
<1> QED
  BY <1>1 DEF Effective, Rows

\* A write of the table leaves the other tickers as they are, and this one as it wants it.
LEMMA StoresEffect ==
    ASSUME TickersType, NEW i \in Requests, req[i].kind \in {"post", "delete"}, req[i].at = "sent",
           Stores(req[i])
    PROVE  /\ req[i].t \in Symbols
           /\ \A z \in Symbols \ {req[i].t} : Effective(z)' = Effective(z)
           /\ \A z \in {req[i].t} : Effective(z)' = Target(i)
<1>1. table \in Rows /\ req[i].t \in Symbols
  BY DEF TickersType, ServerType, RequestsType, Means
<1>2. CASE req[i].kind = "post"
  <2>1. table' = [table EXCEPT ![req[i].t] = req[i].v] /\ doomed' = doomed \ {req[i].t}
    BY <1>2 DEF Stores, UpsertTickerConfig
  <2>2. table'[req[i].t] = req[i].v /\ \A z \in Symbols \ {req[i].t} : table'[z] = table[z]
    BY <1>1, <2>1 DEF Rows
  <2> QED
    BY <1>1, <1>2, <2>1, <2>2 DEF Effective, Target
<1>3. CASE req[i].kind = "delete"
  <2>1. table' = table /\ doomed' = doomed \union {z \in {req[i].t} : table[z] # Absent}
    BY <1>3 DEF Stores, DeleteTickerConfig
  <2>2. \A z : z \in doomed' <=> z \in doomed \/ (z = req[i].t /\ table[z] # Absent)
    BY <2>1
  <2> QED
    BY <1>1, <1>3, <2>1, <2>2 DEF Effective, Target
<1> QED
  BY <1>1, <1>2, <1>3

\* A step that leaves the requests between their writes alone, and what a ticker is, keeps the list
\* right.
LEMMA ListSame ==
    ASSUME ListInv,
           \A i \in Requests : /\ req'[i].at = "stored" <=> req[i].at = "stored"
                               /\ req[i].at = "stored" => req'[i] = req[i],
           \A z \in Symbols : Effective(z)' = Effective(z),
           UNCHANGED <<configs, disturbed>>
    PROVE  ListInv'
<1>1. \A i \in Requests, y \in Symbols : Between(i, y)' <=> Between(i, y)
  BY DEF Between
<1>2. \A i \in Requests, y \in Symbols : Between(i, y) => Target(i)' = Target(i) /\ req'[i].crossed = req[i].crossed
  BY DEF Between, Target
<1>3. ASSUME NEW y \in Symbols, NEW i \in Requests, Between(i, y)', ~req'[i].crossed
      PROVE  (\A j \in Requests : Between(j, y)' => j = i) /\ Effective(y)' = Target(i)'
  BY <1>1, <1>2, <1>3 DEF ListInv
<1>4. ASSUME NEW y \in Symbols, y \notin disturbed', \A i \in Requests : ~Between(i, y)'
      PROVE  configs'[y] = Effective(y)'
  BY <1>1, <1>4 DEF ListInv
<1> QED
  BY <1>3, <1>4 DEF ListInv

\* Every step keeps the list right.
LEMMA ListStep == TickersType /\ ListInv /\ TickersNext => ListInv'
<1> SUFFICES ASSUME TickersType, ListInv, TickersNext PROVE ListInv'
  OBVIOUS
<1>0. /\ req \in [Requests -> Request] /\ RequestsType /\ \A i \in Requests : Means(req[i])
      /\ \A i \in Requests : req[i] \in Request
      /\ table \in Rows /\ configs \in Rows
  BY DEF TickersType, RequestsType, ServerType
<1>1. CASE /\ \A i \in Requests : /\ req'[i].at = "stored" <=> req[i].at = "stored"
                                  /\ req[i].at = "stored" => req'[i] = req[i]
           /\ UNCHANGED <<table, doomed, configs, disturbed>>
  <2>1. \A z \in Symbols : Effective(z)' = Effective(z)
    BY <1>1 DEF Effective
  <2> QED
    BY <1>1, <2>1, ListSame
<1>2. ASSUME NEW i \in Requests, NEW r, req' = [req EXCEPT ![i] = r], req[i].at # "stored", r.at # "stored"
      PROVE  \A j \in Requests : /\ req'[j].at = "stored" <=> req[j].at = "stored"
                                 /\ req[j].at = "stored" => req'[j] = req[j]
  BY <1>0, <1>2
<1>3. ASSUME NEW i \in Requests, MountRegistry(i) PROVE ListInv'
  <2>1. req[i].at = "idle" /\ req' = [req EXCEPT ![i] = Fetch] /\ UNCHANGED <<table, doomed, configs, disturbed>>
    BY <1>3 DEF MountRegistry, Sends, serverSide
  <2> QED
    BY <1>1, <1>2, <2>1, IdleAndFetch
<1>4. ASSUME NEW i \in Requests, AnswerArrives(i) \/ AnswerIsNone(i) PROVE ListInv'
  <2>1. /\ req[i].at # "stored" /\ UNCHANGED <<table, doomed, configs, disturbed>>
        /\ req' = [req EXCEPT ![i] = Idle] \/ req' = [req EXCEPT ![i] = Fetch]
    BY <1>4 DEF AnswerArrives, AnswerIsNone, Follows, serverSide
  <2> QED
    BY <1>1, <1>2, <2>1, IdleAndFetch
<1>5. ASSUME NEW i \in Requests, ReadTickers(i) PROVE ListInv'
  <2> DEFINE r == [req[i] EXCEPT !.at = "ok", !.read = table]
  <2>1. /\ req[i].at = "sent" /\ UNCHANGED <<table, doomed, configs, disturbed>>
        /\ req' = [req EXCEPT ![i] = r] /\ r.at = "ok"
    BY <1>0, <1>5 DEF ReadTickers, Request
  <2> HIDE DEF r
  <2> QED
    BY <1>1, <1>2, <2>1
<1>6. ASSUME NEW i \in Requests, NEW y \in Symbols, DeleteTicker(i, y) PROVE ListInv'
  <2>1. req[i].at = "idle" /\ req' = [req EXCEPT ![i] = Delete(y)] /\ UNCHANGED <<table, doomed, configs, disturbed>>
    BY <1>6 DEF DeleteTicker, Sends, Delete, serverSide
  <2> QED
    BY <1>1, <1>2, <2>1, SentType
<1>7. ASSUME NEW i \in Requests, NEW v \in Values, AddTicker(i, v) PROVE ListInv'
  <2>1. /\ req[i].at = "idle" /\ req' = [req EXCEPT ![i] = Add(registry.symbol, v)]
        /\ registry.symbol \in Symbols /\ UNCHANGED <<table, doomed, configs, disturbed>>
    BY <1>7 DEF AddTicker, Sends, Add, serverSide, TickersType, ServerType
  <2> QED
    BY <1>1, <1>2, <2>1, SentType
<1>8. CASE UnmountRegistry
  <2> DEFINE u(i) == [req[i] EXCEPT !.stray = @ \/ req[i].at # "idle"]
  <2>1. /\ req' = [i \in Requests |-> u(i)] /\ UNCHANGED <<table, doomed, configs, disturbed>>
    BY <1>8 DEF UnmountRegistry
  <2>2. \A i \in Requests : /\ u(i).at = req[i].at /\ u(i).t = req[i].t /\ u(i).kind = req[i].kind
                            /\ u(i).v = req[i].v /\ u(i).crossed = req[i].crossed
    BY <1>0 DEF Request
  <2> HIDE DEF u
  <2>3. \A i \in Requests : /\ req'[i].at = req[i].at /\ req'[i].t = req[i].t /\ req'[i].kind = req[i].kind
                            /\ req'[i].v = req[i].v /\ req'[i].crossed = req[i].crossed
    BY <2>1, <2>2
  <2> QED
    BY <2>1, <2>3 DEF ListInv, Between, Target, Effective
<1>9. CASE \E y \in Symbols : TypeTicker(y)
  BY <1>1, <1>9 DEF TypeTicker, serverSide
<1>10. ASSUME NEW y \in Symbols, Mutation(y) PROVE ListInv'
  BY <1>10, MutationEffect, ListSame DEF Mutation
<1>11. ASSUME NEW i \in Requests, Store(i) PROVE ListInv'
  <2> DEFINE r == [req[i] EXCEPT !.at = "stored", !.crossed = Met(i) # {}]
  <2>1. /\ req[i].kind \in {"post", "delete"} /\ req[i].at = "sent" /\ Stores(req[i]) /\ Passed(i, r)
        /\ UNCHANGED <<configs, disturbed>>
    BY <1>11 DEF Store
  <2>y. PICK y \in Symbols : y = req[i].t
    BY <2>1, StoresEffect
  <2>2. /\ Effective(y)' = Target(i) /\ \A z \in Symbols \ {y} : Effective(z)' = Effective(z)
    BY <2>1, <2>y, StoresEffect
  <2>3. /\ r \in Request /\ Means(r) /\ r.at = "stored" /\ r.t = y /\ r.kind = req[i].kind /\ r.v = req[i].v
        /\ r.crossed <=> Met(i) # {}
    BY <1>0, <2>1, <2>y DEF Request, Means
  <2> HIDE DEF r
  <2>4. /\ req'[i] = r
        /\ \A j \in Requests \ {i} : /\ req'[j].at = req[j].at /\ req'[j].t = req[j].t
                                     /\ req'[j].kind = req[j].kind /\ req'[j].v = req[j].v
                                     /\ j \in Met(i) => req'[j].crossed
                                     /\ j \notin Met(i) => req'[j] = req[j]
    BY <1>0, <2>1, <2>3, PassedRequest
  <2>5. \A j \in Requests : j \in Met(i) <=> Between(j, y)
    BY <2>y DEF Met, Between
  <2>6. Between(i, y)' /\ Target(i)' = Target(i) /\ ~Between(i, y)
    BY <2>1, <2>2, <2>3, <2>4 DEF Between, Target
  <2>7. \A j \in Requests \ {i}, z \in Symbols : /\ Between(j, z)' <=> Between(j, z)
                                                /\ Target(j)' = Target(j)
    BY <2>4 DEF Between, Target
  <2>8. \A z \in Symbols \ {y} : ~Between(i, z)' /\ ~Between(i, z)
    BY <2>1, <2>3, <2>4 DEF Between
  <2>9. ASSUME NEW z \in Symbols, NEW k \in Requests, Between(k, z)', ~req'[k].crossed
        PROVE  (\A j \in Requests : Between(j, z)' => j = k) /\ Effective(z)' = Target(k)'
    <3>1. CASE z = y /\ k = i
      <4>1. Met(i) = {}
        BY <2>3, <2>4, <2>9, <3>1
      <4>2. \A j \in Requests \ {i} : ~Between(j, y)'
        BY <2>2, <2>5, <2>7, <4>1
      <4> QED
        BY <2>2, <2>6, <3>1, <4>2
    <3>2. CASE z = y /\ k # i
      <4>1. k \in Met(i)
        BY <2>2, <2>5, <2>7, <2>9, <3>2
      <4> QED
        BY <2>4, <2>9, <3>2, <4>1
    <3>3. CASE z # y
      <4>1. k # i /\ Between(k, z)
        BY <2>7, <2>8, <2>9, <3>3
      <4>2. k \notin Met(i)
        BY <2>2, <2>5, <3>3, <4>1 DEF Between
      <4>3. req'[k] = req[k]
        BY <2>4, <4>1, <4>2
      <4> QED
        BY <2>2, <2>7, <2>8, <2>9, <3>3, <4>1, <4>3 DEF ListInv
    <3> QED
      BY <3>1, <3>2, <3>3
  <2>10. ASSUME NEW z \in Symbols, z \notin disturbed', \A j \in Requests : ~Between(j, z)'
         PROVE  configs'[z] = Effective(z)'
    <3>1. z # y
      BY <2>6, <2>10
    <3>2. \A j \in Requests : ~Between(j, z)
      BY <2>7, <2>8, <2>10, <3>1
    <3> QED
      BY <2>1, <2>2, <2>10, <3>1, <3>2 DEF ListInv
  <2> QED
    BY <2>9, <2>10 DEF ListInv
<1>12. ASSUME NEW i \in Requests, StoreFails(i) PROVE ListInv'
  <2> DEFINE r == Ended(req[i], "error")
  <2>y. PICK y \in Symbols : y = req[i].t
    BY <1>0, <1>12 DEF StoreFails, Means
  <2>1. /\ req[i].kind \in {"post", "delete"} /\ req[i].at = "sent" /\ Passed(i, r)
        /\ Stores(req[i]) \/ UNCHANGED <<table, doomed>>
        /\ configs' = configs /\ disturbed' = disturbed \union {y}
    BY <1>12, <2>y DEF StoreFails
  <2>2. \A z \in Symbols \ {y} : Effective(z)' = Effective(z)
    <3>1. CASE Stores(req[i])
      BY <2>1, <2>y, <3>1, StoresEffect
    <3>2. CASE UNCHANGED <<table, doomed>>
      BY <3>2 DEF Effective
    <3> QED
      BY <2>1, <3>1, <3>2
  <2>3. r \in Request /\ Means(r) /\ r.at = "error"
    BY <1>0, <2>1, EndedType
  <2> HIDE DEF r
  <2>p. RequestsType /\ Passed(i, r)
    BY <1>0, <2>1
  <2>4. /\ req'[i] = r
        /\ \A j \in Requests \ {i} : /\ req'[j].at = req[j].at /\ req'[j].t = req[j].t
                                     /\ req'[j].kind = req[j].kind /\ req'[j].v = req[j].v
                                     /\ j \in Met(i) => req'[j].crossed
                                     /\ j \notin Met(i) => req'[j] = req[j]
    BY <2>3, <2>p, PassedRequest
  <2>5. \A j \in Requests : j \in Met(i) <=> Between(j, y)
    BY <2>y DEF Met, Between
  <2>6. \A z \in Symbols : ~Between(i, z)' /\ ~Between(i, z)
    BY <2>1, <2>3, <2>4 DEF Between
  <2>7. \A j \in Requests \ {i}, z \in Symbols : /\ Between(j, z)' <=> Between(j, z)
                                                /\ Target(j)' = Target(j)
    BY <2>4 DEF Between, Target
  <2>8. ASSUME NEW z \in Symbols, NEW k \in Requests, Between(k, z)', ~req'[k].crossed
        PROVE  (\A j \in Requests : Between(j, z)' => j = k) /\ Effective(z)' = Target(k)'
    <3>1. k # i /\ Between(k, z)
      BY <2>6, <2>7, <2>8
    <3>2. k \notin Met(i)
      BY <2>4, <2>8, <3>1
    <3>3. z # y /\ req'[k] = req[k]
      BY <2>4, <2>5, <3>1, <3>2
    <3> QED
      BY <2>2, <2>6, <2>7, <2>8, <3>1, <3>3 DEF ListInv
  <2>9. ASSUME NEW z \in Symbols, z \notin disturbed', \A j \in Requests : ~Between(j, z)'
        PROVE  configs'[z] = Effective(z)'
    <3>1. z # y /\ z \notin disturbed /\ \A j \in Requests : ~Between(j, z)
      BY <2>1, <2>6, <2>7, <2>9
    <3> QED
      BY <2>1, <2>2, <3>1 DEF ListInv
  <2> QED
    BY <2>8, <2>9 DEF ListInv
<1>13. ASSUME NEW i \in Requests, UpdateConfigs(i) PROVE ListInv'
  <2> DEFINE r == Ended(req[i], "ok")
  <2>y. PICK y \in Symbols : y = req[i].t
    BY <1>0, <1>13 DEF UpdateConfigs, Means
  <2>1. /\ req[i].at = "stored" /\ req' = [req EXCEPT ![i] = r] /\ UNCHANGED <<table, doomed>>
        /\ configs' = [configs EXCEPT ![y] = Target(i)]
        /\ disturbed' = IF req[i].crossed THEN disturbed \union {y} ELSE disturbed \ {y}
    BY <1>13, <2>y DEF UpdateConfigs, Listed, Target
  <2>2. req[i].kind # "none" /\ Between(i, y)
    BY <1>0, <2>1, <2>y DEF Means, Between
  <2>3. r.at = "ok"
    BY <1>0, <2>2, EndedType
  <2> HIDE DEF r
  <2>4. req'[i] = r /\ \A j \in Requests \ {i} : req'[j] = req[j]
    BY <1>0, <2>1
  <2>5. \A z \in Symbols : Effective(z)' = Effective(z)
    BY <2>1 DEF Effective
  <2>6. \A z \in Symbols : ~Between(i, z)'
    BY <2>3, <2>4 DEF Between
  <2>7. \A j \in Requests \ {i}, z \in Symbols : /\ Between(j, z)' <=> Between(j, z)
                                                /\ Target(j)' = Target(j)
    BY <2>4 DEF Between, Target
  <2>8. \A z \in Symbols \ {y} : ~Between(i, z)
    BY <2>2 DEF Between
  <2>9. ASSUME NEW z \in Symbols, NEW k \in Requests, Between(k, z)', ~req'[k].crossed
        PROVE  (\A j \in Requests : Between(j, z)' => j = k) /\ Effective(z)' = Target(k)'
    <3>1. k # i /\ Between(k, z) /\ req'[k] = req[k]
      BY <2>4, <2>6, <2>7, <2>9
    <3> QED
      BY <2>5, <2>6, <2>7, <2>9, <3>1 DEF ListInv
  <2>10. ASSUME NEW z \in Symbols, z \notin disturbed', \A j \in Requests : ~Between(j, z)'
         PROVE  configs'[z] = Effective(z)'
    <3>1. CASE z = y
      <4>1. ~req[i].crossed
        BY <2>1, <2>10, <3>1
      <4>2. Effective(y) = Target(i)
        BY <2>2, <4>1 DEF ListInv
      <4> QED
        BY <1>0, <2>1, <2>2, <2>5, <3>1, <4>2 DEF Rows
    <3>2. CASE z # y
      <4>1. z \notin disturbed /\ \A j \in Requests : ~Between(j, z)
        BY <2>1, <2>7, <2>8, <2>10, <3>2
      <4>2. configs'[z] = configs[z]
        BY <1>0, <2>1, <3>2 DEF Rows
      <4> QED
        BY <2>5, <4>1, <4>2 DEF ListInv
    <3> QED
      BY <3>1, <3>2
  <2> QED
    BY <2>9, <2>10 DEF ListInv
<1>14. CASE Restart
  <2> DEFINE rows2 == IF table = NoRows THEN Seed ELSE table
  <2>1. /\ table' = rows2 /\ doomed' = doomed
        /\ (configs' = rows2 /\ disturbed' = doomed) \/ disturbed' = Symbols
        /\ req' = [i \in Requests |-> IF req[i].at = "stored" THEN Ended(req[i], "error") ELSE req[i]]
    BY <1>14 DEF Restart
  <2> HIDE DEF rows2
  <2>2. \A i \in Requests : req'[i].at # "stored"
    <3>1. ASSUME NEW i \in Requests, req[i].at = "stored" PROVE req'[i].at = "error"
      <4>1. req[i].kind # "none"
        BY <1>0, <3>1 DEF Means
      <4> QED
        BY <1>0, <2>1, <3>1, <4>1, EndedType
    <3> QED
      BY <2>1, <3>1
  <2>3. \A z \in Symbols : z \notin disturbed' => configs'[z] = Effective(z)'
    BY <2>1 DEF Effective
  <2> QED
    BY <2>2, <2>3 DEF ListInv, Between
<1> QED
  BY <1>3, <1>4, <1>5, <1>6, <1>7, <1>8, <1>9, <1>10, <1>11, <1>12, <1>13, <1>14 DEF TickersNext

\* A request that ends in a state the page has to react to leaves the page unsettled.
LEMMA NotSettled ==
    ASSUME NEW i \in Requests, req[i].at # "idle", req[i].kind # "get" \/ req[i].at # "ok"
    PROVE  ~Settled
  BY DEF Settled

\* No step takes a right list from a page that is settled, or settles it with a wrong one.
LEMMA PageStep == TickersType /\ PageInv /\ TickersNext => PageInv'
<1> SUFFICES ASSUME TickersType, PageInv, TickersNext PROVE PageInv'
  OBVIOUS
<1>0. /\ req \in [Requests -> Request] /\ RequestsType /\ \A i \in Requests : Means(req[i])
      /\ \A i \in Requests : req[i] \in Request
      /\ trouble \in BOOLEAN /\ outrun \in BOOLEAN
      /\ registry \in [mounted : BOOLEAN, list : Rows, symbol : Symbols \union {Absent}]
  BY DEF TickersType, RequestsType, ServerType
<1>P. /\ \A i \in Requests : req[i].at = "idle" => ~req[i].stray
      /\ registry.mounted /\ ~trouble => \A i \in Requests : ~req[i].stray
  BY DEF PageInv
<1>1. ASSUME NEW i \in Requests, NEW r, req' = [req EXCEPT ![i] = r],
             r.at # "idle", r.kind # "get" \/ r.at # "ok", ~r.stray \/ (r.stray = req[i].stray),
             registry'.mounted /\ ~trouble' => \A j \in Requests : ~req[j].stray
      PROVE  PageInv'
  <2>1. req'[i] = r /\ \A j \in Requests \ {i} : req'[j] = req[j]
    BY <1>0, <1>1
  <2>2. ~Settled'
    BY <1>1, <2>1 DEF Settled
  <2>3. \A j \in Requests : req'[j].at = "idle" => ~req'[j].stray
    BY <1>1, <1>P, <2>1
  <2>4. registry'.mounted /\ ~trouble' => \A j \in Requests : ~req'[j].stray
    BY <1>1, <2>1
  <2> QED
    BY <2>2, <2>3, <2>4 DEF PageInv
<1>2. ASSUME NEW i \in Requests, MountRegistry(i) PROVE PageInv'
  <2>1. /\ req' = [req EXCEPT ![i] = Fetch] /\ trouble' = (\E j \in Requests : req[j].at # "idle")
    BY <1>2 DEF MountRegistry, Sends
  <2>2. ~trouble' => \A j \in Requests : ~req[j].stray
    BY <1>P, <2>1
  <2> QED
    BY <1>1, <2>1, <2>2, IdleAndFetch
<1>3. ASSUME NEW i \in Requests, NEW y \in Symbols, DeleteTicker(i, y) PROVE PageInv'
  <2>1. req' = [req EXCEPT ![i] = Delete(y)] /\ UNCHANGED <<registry, trouble>>
    BY <1>3 DEF DeleteTicker, Sends, Delete
  <2> QED
    BY <1>1, <1>P, <2>1, SentType
<1>4. ASSUME NEW i \in Requests, NEW v \in Values, AddTicker(i, v) PROVE PageInv'
  <2>1. /\ req' = [req EXCEPT ![i] = Add(registry.symbol, v)] /\ UNCHANGED <<registry, trouble>>
        /\ registry.symbol \in Symbols
    BY <1>0, <1>4 DEF AddTicker, Sends, Add
  <2> QED
    BY <1>1, <1>P, <2>1, SentType
<1>5. ASSUME NEW i \in Requests, AnswerArrives(i) PROVE PageInv'
  <2>1. /\ req[i].at = "ok" /\ trouble' = trouble /\ UNCHANGED <<table, doomed, newest, early>>
        /\ registry' = IF req[i].stray THEN registry ELSE Shows(req[i])
        /\ req' = [req EXCEPT ![i] = IF req[i].stray THEN Idle ELSE Follows(req[i])]
        /\ outrun' = IF req[i].kind = "get" /\ ~req[i].stray THEN i # newest ELSE outrun
    BY <1>5 DEF AnswerArrives, serverSide
  <2>2. registry'.mounted = registry.mounted
    <3>1. req[i].kind \in {"get", "post", "delete"}
      BY <1>0, <2>1 DEF Means, Request
    <3>2. Shows(req[i]) \in {[registry EXCEPT !.list = req[i].read],
                            [registry EXCEPT !.symbol = Absent], registry}
      BY <3>1 DEF Shows
    <3>3. \A new \in {[registry EXCEPT !.list = req[i].read],
                      [registry EXCEPT !.symbol = Absent], registry} : new.mounted = registry.mounted
      BY <1>0
    <3> QED
      BY <2>1, <3>2, <3>3
  <2>3. CASE req[i].kind # "get" /\ ~req[i].stray
    <3>1. req' = [req EXCEPT ![i] = Fetch]
      BY <2>1, <2>3 DEF Follows
    <3> QED
      BY <1>1, <1>P, <2>1, <2>2, <3>1, IdleAndFetch
  <2>4. CASE req[i].kind = "get" \/ req[i].stray
    <3>1. req' = [req EXCEPT ![i] = Idle]
      BY <2>1, <2>4 DEF Follows
    <3>2. req'[i] = Idle /\ \A j \in Requests \ {i} : req'[j] = req[j]
      BY <1>0, <3>1
    <3>3. /\ \A j \in Requests : req'[j].at = "idle" => ~req'[j].stray
          /\ registry'.mounted /\ ~trouble' => \A j \in Requests : ~req'[j].stray
      BY <1>P, <2>1, <2>2, <3>2, IdleAndFetch
    <3>4. ASSUME registry'.mounted, ~trouble', Settled'
          PROVE  /\ newest' \in Requests
                 /\ \/ /\ req'[newest'].at = "ok"
                       /\ \A y \in Symbols \ early' : req'[newest'].read[y] = Effective(y)'
                    \/ /\ req'[newest'].at = "idle"
                       /\ outrun' \/ \A y \in Symbols \ early' : registry'.list[y] = Effective(y)'
      <4>1. ~req[i].stray /\ req[i].kind = "get"
        BY <1>P, <2>1, <2>2, <2>4, <3>4
      <4>2. registry' = [registry EXCEPT !.list = req[i].read] /\ (outrun' <=> i # newest)
        BY <2>1, <4>1 DEF Shows
      <4>3. Settled
        BY <2>1, <3>2, <3>4, <4>1 DEF Settled
      <4>4. /\ newest \in Requests /\ newest' = newest /\ early' = early
            /\ \/ req[newest].at = "ok" /\ \A y \in Symbols \ early : req[newest].read[y] = Effective(y)
               \/ req[newest].at = "idle"
        BY <2>1, <2>2, <3>4, <4>3 DEF PageInv
      <4>5. \A y : Effective(y)' = Effective(y)
        BY <2>1 DEF Effective
      <4>6. CASE newest = i
        <5>1. registry'.list = req[i].read /\ req'[i].at = "idle"
          BY <1>0, <3>2, <4>2, IdleAndFetch
        <5> QED
          BY <2>1, <4>4, <4>5, <4>6, <5>1
      <4>7. CASE newest # i
        <5>1. outrun' /\ req'[newest] = req[newest]
          BY <3>2, <4>2, <4>4, <4>7
        <5> QED
          BY <4>4, <4>5, <5>1
      <4> QED
        BY <4>6, <4>7
    <3> QED
      BY <3>3, <3>4 DEF PageInv
  <2> QED
    BY <2>3, <2>4
<1>6. ASSUME NEW i \in Requests, AnswerIsNone(i) PROVE PageInv'
  <2>1. /\ req' = [req EXCEPT ![i] = Idle] /\ registry' = registry
        /\ trouble' = (trouble \/ ~req[i].stray)
    BY <1>6 DEF AnswerIsNone
  <2>2. req'[i] = Idle /\ \A j \in Requests \ {i} : req'[j] = req[j]
    BY <1>0, <2>1
  <2>3. ~(registry'.mounted /\ ~trouble')
    BY <1>P, <2>1
  <2>4. \A j \in Requests : req'[j].at = "idle" => ~req'[j].stray
    BY <1>P, <2>2, IdleAndFetch
  <2> QED
    BY <2>3, <2>4 DEF PageInv
<1>7. ASSUME NEW i \in Requests, ReadTickers(i) PROVE PageInv'
  <2> DEFINE r == [req[i] EXCEPT !.at = "ok", !.read = table]
  <2>1. /\ req[i].kind = "get" /\ req[i].at = "sent"
        /\ newest' = IF req[i].stray THEN newest ELSE i
        /\ early' = IF req[i].stray THEN early ELSE doomed
        /\ UNCHANGED <<registry, trouble, table, doomed>>
    BY <1>7 DEF ReadTickers, pageSide
  <2>2. req' = [req EXCEPT ![i] = r] /\ r.at = "ok" /\ r.read = table /\ r.stray = req[i].stray
    BY <1>0, <1>7 DEF ReadTickers, Request
  <2> HIDE DEF r
  <2>3. req'[i] = r /\ \A j \in Requests \ {i} : req'[j] = req[j]
    BY <1>0, <2>2
  <2>4. /\ \A j \in Requests : req'[j].at = "idle" => ~req'[j].stray
        /\ registry'.mounted /\ ~trouble' => \A j \in Requests : ~req'[j].stray
    BY <1>P, <2>1, <2>2, <2>3
  <2>5. ASSUME registry'.mounted, ~trouble'
        PROVE  /\ newest' \in Requests /\ req'[newest'].at = "ok"
               /\ \A y \in Symbols \ early' : req'[newest'].read[y] = Effective(y)'
    <3>1. ~req[i].stray
      BY <1>P, <2>1, <2>5
    <3> QED
      BY <2>1, <2>2, <2>3, <3>1 DEF Effective
  <2> QED
    BY <2>4, <2>5 DEF PageInv
<1>8. ASSUME NEW i \in Requests, Store(i) \/ StoreFails(i) PROVE PageInv'
  <2>1. UNCHANGED <<registry, trouble>> /\ req[i].kind \in {"post", "delete"} /\ req[i].at = "sent"
    BY <1>8 DEF Store, StoreFails, pageSide
  <2>2. PICK r \in Request : Passed(i, r) /\ Means(r) /\ r.at \in {"stored", "error"} /\ r.stray = req[i].stray
    <3>1. CASE Store(i)
      <4> DEFINE r == [req[i] EXCEPT !.at = "stored", !.crossed = Met(i) # {}]
      <4>1. r \in Request /\ Means(r) /\ r.at = "stored" /\ r.stray = req[i].stray
        BY <1>0, <2>1 DEF Request, Means
      <4>2. Passed(i, r)
        BY <3>1 DEF Store
      <4> HIDE DEF r
      <4> QED
        BY <4>1, <4>2
    <3>2. CASE StoreFails(i)
      BY <1>0, <2>1, <3>2, EndedType DEF StoreFails
    <3> QED
      BY <1>8, <3>1, <3>2
  <2>3. /\ req'[i] = r
        /\ \A j \in Requests \ {i} : req'[j].at = req[j].at /\ req'[j].stray = req[j].stray
    BY <1>0, <2>2, PassedRequest
  <2>4. ~Settled'
    BY <2>2, <2>3 DEF Settled
  <2>5. /\ \A j \in Requests : req'[j].at = "idle" => ~req'[j].stray
        /\ registry'.mounted /\ ~trouble' => \A j \in Requests : ~req'[j].stray
    BY <1>P, <2>1, <2>2, <2>3
  <2> QED
    BY <2>4, <2>5 DEF PageInv
<1>9. ASSUME NEW i \in Requests, UpdateConfigs(i) PROVE PageInv'
  <2>1. /\ req' = [req EXCEPT ![i] = Ended(req[i], "ok")] /\ UNCHANGED <<registry, trouble>>
        /\ req[i].kind \in {"post", "delete"}
    BY <1>0, <1>9 DEF UpdateConfigs, pageSide, Means
  <2>2. Ended(req[i], "ok").at = "ok" /\ Ended(req[i], "ok").kind # "get" /\ Ended(req[i], "ok").stray = req[i].stray
    BY <1>0, <2>1, EndedType
  <2> QED
    BY <1>1, <1>P, <2>1, <2>2
<1>10. CASE UnmountRegistry
  <2> DEFINE u(i) == [req[i] EXCEPT !.stray = @ \/ req[i].at # "idle"]
  <2>1. req' = [i \in Requests |-> u(i)] /\ registry' = Unmounted
    BY <1>10 DEF UnmountRegistry
  <2>2. \A i \in Requests : u(i).at = req[i].at /\ (u(i).stray <=> req[i].stray \/ req[i].at # "idle")
    BY <1>0 DEF Request
  <2> HIDE DEF u
  <2>3. \A i \in Requests : req'[i].at = "idle" => ~req'[i].stray
    BY <1>P, <2>1, <2>2
  <2>4. ~registry'.mounted
    BY <2>1 DEF Unmounted
  <2> QED
    BY <2>3, <2>4 DEF PageInv
<1>11. ASSUME /\ UNCHANGED <<req, trouble, outrun, newest, early>>
              /\ registry'.mounted = registry.mounted /\ registry'.list = registry.list,
              \A z \in Symbols : Effective(z)' = Effective(z)
       PROVE  PageInv'
  <2>1. Settled' <=> Settled
    BY <1>11 DEF Settled
  <2> QED
    BY <1>11, <2>1 DEF PageInv
<1>12. ASSUME NEW y \in Symbols, TypeTicker(y) PROVE PageInv'
  <2>1. /\ UNCHANGED <<req, trouble, outrun, newest, early, table, doomed>>
        /\ registry'.mounted = registry.mounted /\ registry'.list = registry.list
    BY <1>0, <1>12 DEF TypeTicker, serverSide
  <2>2. \A z \in Symbols : Effective(z)' = Effective(z)
    BY <2>1 DEF Effective
  <2> QED
    BY <1>11, <2>1, <2>2
<1>13. ASSUME NEW y \in Symbols, Mutation(y) PROVE PageInv'
  <2>1. UNCHANGED <<req, trouble, outrun, newest, early, registry>>
    BY <1>13 DEF Mutation, pageSide
  <2> QED
    BY <1>11, <1>13, <2>1, MutationEffect
<1>14. CASE Restart
  <2> DEFINE rows2 == IF table = NoRows THEN Seed ELSE table
  <2>1. /\ table' = rows2 /\ doomed' = doomed
        /\ req' = [i \in Requests |-> IF req[i].at = "stored" THEN Ended(req[i], "error") ELSE req[i]]
        /\ trouble' = (registry.mounted /\ (trouble \/ rows2 # table))
        /\ UNCHANGED <<registry, outrun, newest, early>>
    BY <1>14 DEF Restart
  <2> HIDE DEF rows2
  <2>2. \A i \in Requests : /\ req[i].at = "stored" => req'[i].at = "error" /\ req'[i].stray = req[i].stray
                            /\ req[i].at # "stored" => req'[i] = req[i]
    <3>1. ASSUME NEW i \in Requests, req[i].at = "stored" PROVE req'[i].at = "error" /\ req'[i].stray = req[i].stray
      <4>1. req[i].kind # "none"
        BY <1>0, <3>1 DEF Means
      <4> QED
        BY <1>0, <2>1, <3>1, <4>1, EndedType
    <3> QED
      BY <2>1, <3>1
  <2>3. registry.mounted /\ ~trouble' => ~trouble /\ table' = table
    BY <1>0, <2>1
  <2>4. /\ \A i \in Requests : req'[i].at = "idle" => ~req'[i].stray
        /\ registry'.mounted /\ ~trouble' => \A i \in Requests : ~req'[i].stray
    BY <1>P, <2>1, <2>2, <2>3
  <2>5. ASSUME registry'.mounted, ~trouble', Settled'
        PROVE  /\ newest' \in Requests
               /\ \/ /\ req'[newest'].at = "ok"
                     /\ \A y \in Symbols \ early' : req'[newest'].read[y] = Effective(y)'
                  \/ /\ req'[newest'].at = "idle"
                     /\ outrun' \/ \A y \in Symbols \ early' : registry'.list[y] = Effective(y)'
    <3>1. \A i \in Requests : req[i].at # "stored" /\ req'[i] = req[i]
      BY <2>2, <2>5 DEF Settled
    <3>2. Settled
      BY <2>5, <3>1 DEF Settled
    <3>3. \A y : Effective(y)' = Effective(y)
      BY <2>1, <2>3, <2>5 DEF Effective
    <3> QED
      BY <2>1, <2>3, <2>5, <3>1, <3>2, <3>3 DEF PageInv
  <2> QED
    BY <2>4, <2>5 DEF PageInv
<1> QED
  BY <1>2, <1>3, <1>4, <1>5, <1>6, <1>7, <1>8, <1>9, <1>10, <1>12, <1>13, <1>14 DEF TickersNext

\* The registry begins with the seed in the table and in the list, nothing sent.
LEMMA CopiesInvInit == Init => CopiesInv
<1> SUFFICES ASSUME Init PROVE CopiesInv
  OBVIOUS
<1>1. /\ table = Seed /\ configs = Seed /\ doomed = {} /\ registry = Unmounted
      /\ req = [i \in Requests |-> Idle] /\ disturbed = {} /\ newest = 0 /\ early = {}
      /\ outrun = FALSE /\ trouble = FALSE
  BY DEF Init, TickersInit
<1>2. \A i \in Requests : req[i] = Idle
  BY <1>1
<1>3. ServerType
  BY <1>1, TickersAssumption, IdleAndFetch DEF ServerType, Rows, Unmounted
<1>4. RequestsType
  BY <1>1, <1>2, IdleAndFetch DEF RequestsType
<1>5. ListInv
  BY <1>1, <1>2, IdleAndFetch DEF ListInv, Between, Effective
<1>6. PageInv
  BY <1>1, <1>2, IdleAndFetch DEF PageInv, Unmounted
<1> QED
  BY <1>3, <1>4, <1>5, <1>6 DEF CopiesInv, TickersType

\* A step of the other part leaves the registry as it is.
LEMMA CopiesInvStep == CopiesInv /\ [Next]_vars => CopiesInv'
<1> SUFFICES ASSUME CopiesInv, [Next]_vars PROVE CopiesInv'
  OBVIOUS
<1>1. CASE TickersNext
  BY <1>1, TickersTypeStep, ListStep, PageStep DEF CopiesInv
<1>2. CASE UNCHANGED tickerVars
  <2>1. /\ table' = table /\ doomed' = doomed /\ configs' = configs /\ registry' = registry
        /\ req' = req /\ disturbed' = disturbed /\ newest' = newest /\ early' = early
        /\ outrun' = outrun /\ trouble' = trouble
    BY <1>2 DEF tickerVars
  <2>2. ServerType'
    BY <2>1 DEF CopiesInv, TickersType, ServerType
  <2>3. RequestsType'
    BY <2>1 DEF CopiesInv, TickersType, RequestsType
  <2>4. ListInv'
    BY <2>1 DEF CopiesInv, ListInv, Between, Effective, Target
  <2>5. PageInv'
    BY <2>1 DEF CopiesInv, PageInv, Settled, Effective
  <2> QED
    BY <2>2, <2>3, <2>4, <2>5 DEF CopiesInv, TickersType
<1> QED
  BY <1>1, <1>2 DEF Next, vars

\* The handlers' list (handlers.go:436) and the list of the page (AdminPanel.tsx:267) are the
\* table, between changes that did not meet and once the page is idle: for any tickers,
\* values and number of requests.
THEOREM CopiesAgreeHolds == Spec => []CopiesAgree
<1>1. CopiesInv => CopiesAgree
  <2> SUFFICES ASSUME CopiesInv PROVE CopiesAgree
    OBVIOUS
  <2>0. \A i \in Requests : Means(req[i])
    BY DEF CopiesInv, TickersType, RequestsType
  <2>1. ASSUME NEW t \in Symbols \ disturbed, \A i \in Requests : req[i].at = "stored" => req[i].t # t
        PROVE  configs[t] = Effective(t)
    <3>1. \A i \in Requests : ~Between(i, t)
      BY <2>0, <2>1 DEF Between
    <3> QED
      BY <2>1, <3>1 DEF CopiesInv, ListInv
  <2>2. ASSUME registry.mounted, ~trouble, ~outrun, \A i \in Requests : req[i].at = "idle",
               NEW t \in Symbols \ early
        PROVE  registry.list[t] = Effective(t)
    <3>1. Settled
      BY <2>2 DEF Settled
    <3> QED
      BY <2>2, <3>1 DEF CopiesInv, PageInv
  <2> QED
    BY <2>1, <2>2 DEF CopiesAgree
<1> QED
  BY <1>1, CopiesInvInit, CopiesInvStep, PTL DEF Spec

--------------------------------------------------------------------------------
(* Types.                                                                       *)

\* The types of the registry follow.
LEMMA TickersTypes == TickersType => TickersTypeOK
  BY DEF TickersType, ServerType, RequestsType, Request, TickersTypeOK

\* The page, the handlers and the files never hold anything but what their types say, in
\* particular never more jobs than there is room for (handlers.go:149).
THEOREM AdminTypeOKHolds == Spec => []AdminTypeOK
<1>1. Init => part \in Parts
  BY DEF Init
<1>2. part \in Parts /\ [Next]_vars => (part \in Parts)'
  BY DEF Next, vars
<1>3. LoadInv => HistoryTypeOK
  BY HistoryTypes DEF LoadInv
<1>4. CopiesInv => TickersTypeOK
  BY TickersTypes DEF CopiesInv
<1>5. part \in Parts /\ HistoryTypeOK /\ TickersTypeOK => AdminTypeOK
  BY DEF AdminTypeOK
<1> QED
  BY <1>1, <1>2, <1>3, <1>4, <1>5, LoadInvInit, LoadInvStep, CopiesInvInit, CopiesInvStep, PTL DEF Spec
================================================================================
