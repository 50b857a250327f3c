-------------------------- MODULE ContentJobs_proofs ---------------------------
(***************************************************************************)
(* For any number of workers, claims, edits and deaths: types, a job runs  *)
(* once unless a late edit queued it again, and the outcome on its row is  *)
(* what happened; and the composition with the rules engine, which keeps   *)
(* what each has.                                                          *)
(***************************************************************************)
EXTENDS MCBackgroundServices, Gamification_proofs

\* The workers between their claim and the end of their run; those past
\* FindJob hold a copy of the row they will save.
Running == {w \in JobWorkers : worker[w].at \in {"find", "work", "finish"}}
Holding == {w \in JobWorkers : worker[w].at \in {"work", "finish"}}

\* What may be saved over the row: the copies of workers and of an edit.
Saves == {worker[w].copy.state : w \in Holding} \cup (IF edit.open THEN {edit.copy.state} ELSE {})

\* A job that exists never ceases to.
Exists ==
  /\ claims > 0 => job.state # "none"
  /\ job.state = "none" => Running = {} /\ ~edit.open
  /\ "none" \notin Saves

\* As long as no edit queued the job again, one claim is all there is, and it
\* is behind every worker that runs.
OneClaim ==
  ~past.requeued =>
    /\ claims <= 1
    /\ claims = 0 => past.runs = 0 /\ Running = {}
    /\ claims = 1 => job.state # "queued"
    /\ past.runs <= 1
    /\ \A w \in JobWorkers : worker[w].at = "find" => past.runs = 0
    /\ \A v, w \in Running : v = w
    /\ \A w \in Holding : worker[w].copy.state # "queued"

\* Whatever calls the job completed, without an instructor, knows its content.
CompletedKnown ==
  /\ ~past.byHand /\ "completed" \in Saves \cup {job.state} => content.whole > 0
  /\ \A w \in JobWorkers : worker[w].at = "finish" /\ worker[w].ok => content.whole > 0

\* Without deaths and edits: content is there only with a worker about to
\* report it or after it has.
NothingElseLeft ==
  past.deaths = 0 /\ past.edits = 0 =>
    /\ ~past.requeued /\ ~past.byHand /\ ~edit.open
    /\ content.partial = 0
    /\ content.whole > 0 =>
         \/ \E w \in JobWorkers : worker[w].at = "finish" /\ worker[w].ok
         \/ job.state = "completed" /\ Running = {}

JobsInv == JobsTypeOK /\ Exists /\ OneClaim /\ CompletedKnown /\ NothingElseLeft

-----------------------------------------------------------------------------
\* The invariant holds before the job is created.
LEMMA JobsInitially == JobsInit => JobsInv
<1> SUFFICES ASSUME JobsInit PROVE JobsInv
  OBVIOUS
<1>1. JobsTypeOK
  BY JobBoundsAssumption DEF JobsInit, JobsTypeOK, NoJob, IdleWorker, Job, Worker
<1>2. Running = {} /\ Holding = {} /\ Saves = {}
  BY DEF JobsInit, IdleWorker, Running, Holding, Saves
<1> QED
  BY <1>1, <1>2 DEF JobsInit, JobsInv, Exists, OneClaim, CompletedKnown,
     NothingElseLeft, NoJob, IdleWorker

\* Rows and workers as the steps write them.
LEMMA JobRows ==
  ASSUME NEW z \in Job, NEW n \in Nat, NEW x \in Settled \cup {"queued", "running"}
  PROVE  /\ [z EXCEPT !.state = x] \in Job /\ [z EXCEPT !.state = x].state = x
         /\ [z EXCEPT !.state = "running", !.claim = n] \in Job
         /\ [z EXCEPT !.state = "running", !.claim = n].state = "running"
         /\ [z EXCEPT !.old = TRUE] \in Job /\ [z EXCEPT !.old = TRUE].state = z.state
BY DEF Job

LEMMA WorkerRows ==
  ASSUME NEW z \in Worker, NEW j \in Job, NEW b \in BOOLEAN,
         NEW a \in {"idle", "list", "claim", "find", "work", "finish"}
  PROVE  /\ IdleWorker \in Worker
         /\ [z EXCEPT !.at = a] \in Worker
         /\ [z EXCEPT !.at = a, !.copy = j] \in Worker
         /\ [z EXCEPT !.at = a, !.ok = b] \in Worker
BY DEF Job, Worker, IdleWorker, NoJob

LEMMA CreateJobKeeps ==
  ASSUME JobsInv, NEW w \in JobWorkers, CreateJob(w)
  PROVE  JobsInv'
<1>1. JobsTypeOK'
  <2>1. NoJob \in Job /\ job' \in Job
    BY DEF CreateJob, NoJob, Job
  <2>2. [worker[w] EXCEPT !.at = "claim"] \in Worker
    BY <2>1, WorkerRows DEF JobsInv, JobsTypeOK
  <2>3. worker' \in [JobWorkers -> Worker]
    BY <2>2, Zenon DEF JobsInv, JobsTypeOK, CreateJob, Moves
  <2> QED
    BY <2>1, <2>3 DEF JobsInv, JobsTypeOK, CreateJob
<1>2. Exists'
  BY DEF Exists, Holding, Saves, JobsInv, CreateJob, Moves
<1>3. OneClaim'
  BY DEF Exists, OneClaim, Running, Holding, JobsInv, CreateJob, Moves
<1>4. CompletedKnown'
  BY DEF CompletedKnown, Holding, Saves, JobsInv, CreateJob, Moves
<1>5. NothingElseLeft'
  BY DEF Exists, NothingElseLeft, Running, JobsInv, CreateJob
<1> QED
  BY <1>1, <1>2, <1>3, <1>4, <1>5 DEF JobsInv

LEMMA SweepKeeps ==
  ASSUME JobsInv, NEW w \in JobWorkers, Sweep(w)
  PROVE  JobsInv'
<1>1. JobsTypeOK'
  BY DEF JobsInv, JobsTypeOK, Sweep, Moves, Job, Worker, Settled
<1>2. Exists'
  BY DEF Exists, Holding, Saves, JobsInv, Sweep, Moves
<1>3. OneClaim'
  BY DEF OneClaim, Running, Holding, JobsInv, Sweep, Moves
<1>4. CompletedKnown'
  BY DEF CompletedKnown, Holding, Saves, JobsInv, Sweep, Moves
<1>5. NothingElseLeft'
  BY DEF NothingElseLeft, Running, JobsInv, Sweep, Stands, Moves, TakenForDead
<1> QED
  BY <1>1, <1>2, <1>3, <1>4, <1>5 DEF JobsInv

LEMMA ListQueuedKeeps ==
  ASSUME JobsInv, NEW w \in JobWorkers, ListQueued(w)
  PROVE  JobsInv'
<1>1. JobsTypeOK'
  BY DEF JobsInv, JobsTypeOK, ListQueued, Moves, Worker
<1>2. Exists'
  BY DEF Exists, Running, Holding, Saves, JobsInv, ListQueued, Moves
<1>3. OneClaim'
  BY DEF OneClaim, Running, Holding, JobsInv, ListQueued, Moves
<1>4. CompletedKnown'
  BY DEF CompletedKnown, Holding, Saves, JobsInv, ListQueued, Moves
<1>5. NothingElseLeft'
  BY DEF NothingElseLeft, Running, JobsInv, ListQueued, Stands, Moves
<1> QED
  BY <1>1, <1>2, <1>3, <1>4, <1>5 DEF JobsInv

LEMMA ClaimKeeps ==
  ASSUME JobsInv, NEW w \in JobWorkers, Claim(w)
  PROVE  JobsInv'
<1>1. CASE Claimable
  <2>1. /\ claims < MaxClaims /\ claims' = claims + 1 /\ job.state = "queued"
        /\ job' \in Job /\ job'.state = "running"
        /\ worker' = [worker EXCEPT ![w].at = "find"]
        /\ worker[w].at = "claim"
        /\ UNCHANGED <<kind, stale, edit, content, past>>
    <3>1. claims + 1 \in Nat /\ job \in Job
      BY JobBoundsAssumption DEF JobsInv, JobsTypeOK
    <3>2. /\ [job EXCEPT !.state = "running", !.claim = claims + 1] \in Job
          /\ [job EXCEPT !.state = "running", !.claim = claims + 1].state = "running"
      BY <3>1, JobRows
    <3> QED
      BY <1>1, <3>2 DEF Claim, Claimable, Moves, Stands
  <2>2. worker' \in [JobWorkers -> Worker]
    BY <2>1, WorkerRows DEF JobsInv, JobsTypeOK
  <2>3. JobsTypeOK'
    BY <2>1, <2>2, JobBoundsAssumption DEF JobsInv, JobsTypeOK
  <2>4. Running' = Running \cup {w} /\ w \notin Holding /\ Holding' = Holding
        /\ \A v \in Holding : worker'[v] = worker[v]
    BY <2>1 DEF JobsInv, JobsTypeOK, Worker, Running, Holding
  <2>5. Saves' = Saves
    BY <2>1, <2>4 DEF Saves
  <2>6. Exists'
    BY <2>1, <2>5 DEF JobsInv, JobsTypeOK, Exists
  <2>7. OneClaim'
    <3>1. ~past.requeued => claims = 0 /\ past.runs = 0 /\ Running = {} /\ Holding = {}
      BY <2>1 DEF JobsInv, JobsTypeOK, OneClaim, Running, Holding
    <3>2. claims' = claims + 1 /\ claims \in Nat
      BY <2>1 DEF JobsInv, JobsTypeOK
    <3> QED
      BY <2>1, <2>4, <3>1, <3>2 DEF OneClaim
  <2>8. CompletedKnown'
    BY <2>1, <2>5 DEF JobsInv, JobsTypeOK, CompletedKnown, Worker
  <2>9. NothingElseLeft'
    BY <2>1, <2>4 DEF JobsInv, JobsTypeOK, NothingElseLeft, Worker
  <2> QED
    BY <2>3, <2>6, <2>7, <2>8, <2>9 DEF JobsInv
<1>2. CASE ~Claimable
  <2>1. /\ worker' = [worker EXCEPT ![w] = IdleWorker] /\ worker[w].at = "claim"
        /\ UNCHANGED <<kind, job, claims, stale, edit, content, past>>
    BY <1>2 DEF Claim, Stops, Stands
  <2>2. JobsTypeOK'
    BY <2>1, WorkerRows DEF JobsInv, JobsTypeOK
  <2>3. Running' = Running /\ Holding' = Holding /\ \A v \in Holding : worker'[v] = worker[v]
    BY <2>1 DEF JobsInv, JobsTypeOK, Running, Holding, IdleWorker
  <2>4. Saves' = Saves
    BY <2>1, <2>3 DEF Saves
  <2> QED
    BY <2>1, <2>2, <2>3, <2>4 DEF JobsInv, JobsTypeOK, Exists, OneClaim, CompletedKnown,
       NothingElseLeft, IdleWorker
<1> QED
  BY <1>1, <1>2

LEMMA FindJobKeeps ==
  ASSUME JobsInv, NEW w \in JobWorkers, FindJob(w)
  PROVE  JobsInv'
<1>1. /\ worker' = [worker EXCEPT ![w].at = "work", ![w].copy = job] /\ worker[w].at = "find"
      /\ past' = [past EXCEPT !.runs = @ + 1]
      /\ UNCHANGED <<kind, job, claims, stale, edit, content>>
  BY DEF FindJob, Stands
<1>2. worker' \in [JobWorkers -> Worker] /\ worker'[w].at = "work" /\ worker'[w].copy = job
  <2>1. worker[w] \in Worker /\ job \in Job
    BY DEF JobsInv, JobsTypeOK
  <2>2. [worker[w] EXCEPT !.at = "work", !.copy = job] \in Worker
    BY <2>1, WorkerRows
  <2> QED
    BY <1>1, <2>1, <2>2 DEF JobsInv, JobsTypeOK, Worker
<1>3. /\ past'.runs = past.runs + 1 /\ past'.edits = past.edits /\ past'.deaths = past.deaths
      /\ past'.requeued = past.requeued /\ past'.byHand = past.byHand
  BY <1>1 DEF JobsInv, JobsTypeOK
<1>4. JobsTypeOK'
  <2>1. past' \in [edits : 0 .. MaxEdits, deaths : 0 .. MaxDeaths, runs : Nat,
                   requeued : BOOLEAN, byHand : BOOLEAN]
    BY <1>1 DEF JobsInv, JobsTypeOK
  <2> QED
    BY <1>1, <1>2, <1>3, <2>1 DEF JobsInv, JobsTypeOK
<1>5. Running' = Running /\ w \in Running /\ Holding' = Holding \cup {w}
      /\ \A v \in JobWorkers \ {w} : worker'[v] = worker[v]
  BY <1>1, <1>2 DEF JobsInv, JobsTypeOK, Running, Holding
<1>6. Saves' \subseteq Saves \cup {job.state}
  BY <1>1, <1>2, <1>5 DEF Saves, Holding
<1>7. Exists'
  BY <1>1, <1>5, <1>6 DEF JobsInv, Exists
<1>8. OneClaim'
  <2> SUFFICES ASSUME ~past'.requeued
               PROVE  /\ claims' <= 1
                      /\ claims' = 0 => past'.runs = 0 /\ Running' = {}
                      /\ claims' = 1 => job'.state # "queued"
                      /\ past'.runs <= 1
                      /\ \A v \in JobWorkers : worker'[v].at = "find" => past'.runs = 0
                      /\ \A u, v \in Running' : u = v
                      /\ \A v \in Holding' : worker'[v].copy.state # "queued"
    BY DEF OneClaim
  <2>1. past.runs = 0 /\ claims = 1 /\ job.state # "queued" /\ \A u, v \in Running : u = v
    BY <1>1, <1>3, <1>5 DEF JobsInv, JobsTypeOK, OneClaim
  <2>2. \A v \in JobWorkers : worker'[v].at # "find"
    BY <1>1, <1>2, <1>5, <2>1 DEF Running
  <2> QED
    BY <1>1, <1>2, <1>3, <1>5, <2>1, <2>2 DEF JobsInv, JobsTypeOK, OneClaim, Running, Holding
<1>9. CompletedKnown'
  BY <1>1, <1>2, <1>3, <1>5, <1>6 DEF JobsInv, CompletedKnown
<1>10. NothingElseLeft'
  BY <1>1, <1>2, <1>3, <1>5 DEF JobsInv, NothingElseLeft
<1> QED
  BY <1>4, <1>7, <1>8, <1>9, <1>10 DEF JobsInv

LEMMA ProgressKeeps ==
  ASSUME JobsInv, NEW w \in JobWorkers, Progress(w)
  PROVE  JobsInv'
<1>1. JobsTypeOK'
  BY DEF JobsInv, JobsTypeOK, Progress, Worker
<1>2. Exists'
  BY DEF Exists, Holding, Saves, JobsInv, Progress, Stands
<1>3. OneClaim'
  BY DEF OneClaim, Running, Holding, JobsInv, Progress, Stands
<1>4. CompletedKnown'
  BY DEF CompletedKnown, Holding, Saves, JobsInv, Progress, Stands
<1>5. NothingElseLeft'
  BY DEF NothingElseLeft, Running, JobsInv, Progress, Stands
<1> QED
  BY <1>1, <1>2, <1>3, <1>4, <1>5 DEF JobsInv

LEMMA ExecuteKeeps ==
  ASSUME JobsInv, NEW w \in JobWorkers, Execute(w)
  PROVE  JobsInv'
<1>1. PICK b \in BOOLEAN :
        /\ worker' = [worker EXCEPT ![w].at = "finish", ![w].ok = b]
        /\ \/ past' = past /\ content' = IF b THEN [content EXCEPT !.whole = @ + 1] ELSE content
           \/ /\ ~b /\ content' = [content EXCEPT !.partial = @ + 1]
              /\ past.deaths < MaxDeaths /\ past' = [past EXCEPT !.deaths = @ + 1]
  BY DEF Execute, Fail, FailLeaving
<1>2. worker[w].at = "work" /\ UNCHANGED <<kind, job, claims, stale, edit>>
  BY DEF Execute, Stands
<1>p. /\ past' \in [edits : 0 .. MaxEdits, deaths : 0 .. MaxDeaths, runs : Nat,
                    requeued : BOOLEAN, byHand : BOOLEAN]
      /\ past'.edits = past.edits /\ past'.runs = past.runs
      /\ past'.requeued = past.requeued /\ past'.byHand = past.byHand
      /\ past'.deaths = 0 => past' = past
  <2>1. past \in [edits : 0 .. MaxEdits, deaths : 0 .. MaxDeaths, runs : Nat,
                  requeued : BOOLEAN, byHand : BOOLEAN]
    BY DEF JobsInv, JobsTypeOK
  <2>2. CASE past' = past
    BY <2>1, <2>2
  <2>3. CASE past.deaths < MaxDeaths /\ past' = [past EXCEPT !.deaths = @ + 1]
    <3>1. past.deaths + 1 \in 0 .. MaxDeaths /\ past.deaths + 1 # 0
      BY <2>1, <2>3, JobBoundsAssumption
    <3> QED
      BY <2>1, <2>3, <3>1
  <2> QED
    BY <1>1, <2>2, <2>3
<1>3. /\ worker' \in [JobWorkers -> Worker]
      /\ worker'[w].at = "finish" /\ worker'[w].ok = b /\ worker'[w].copy = worker[w].copy
      /\ \A v \in JobWorkers \ {w} : worker'[v] = worker[v]
  <2>1. worker[w] \in Worker /\ worker[w].copy \in Job
    BY DEF JobsInv, JobsTypeOK, Worker
  <2>2. [worker[w] EXCEPT !.at = "finish", !.ok = b] \in Worker
    BY <2>1, WorkerRows
  <2> QED
    BY <1>1, <2>1, <2>2 DEF JobsInv, JobsTypeOK, Worker
<1>4. /\ content' \in [whole : Nat, partial : Nat] /\ (past' = past => content'.partial = content.partial)
      /\ b => content'.whole = content.whole + 1
      /\ ~b => content'.whole = content.whole
      /\ content.whole \in Nat
  <2>1. content \in [whole : Nat, partial : Nat] /\ past.deaths \in Nat
    BY JobBoundsAssumption DEF JobsInv, JobsTypeOK
  <2>2. past.deaths < MaxDeaths /\ past' = [past EXCEPT !.deaths = @ + 1] => past' # past
    BY <2>1 DEF JobsInv, JobsTypeOK
  <2> QED
    BY <1>1, <2>1, <2>2
<1>5. JobsTypeOK'
  BY <1>2, <1>p, <1>3, <1>4 DEF JobsInv, JobsTypeOK
<1>6. Running' = Running /\ w \in Running /\ Holding' = Holding /\ Saves' = Saves
  <2>1. Running' = Running /\ w \in Running /\ Holding' = Holding
    BY <1>2, <1>3 DEF Running, Holding
  <2>2. \A v \in Holding : worker'[v].copy = worker[v].copy
    BY <1>3 DEF Holding
  <2> QED
    BY <1>2, <2>1, <2>2 DEF Saves
<1>7. Exists'
  BY <1>2, <1>6 DEF JobsInv, Exists
<1>8. OneClaim'
  BY <1>2, <1>p, <1>3, <1>6 DEF JobsInv, OneClaim, Holding
<1>9. CompletedKnown'
  <2>1. content.whole > 0 => content'.whole > 0
    BY <1>4
  <2>2. b => content'.whole > 0
    BY <1>4
  <2> QED
    BY <1>2, <1>p, <1>3, <1>6, <2>1, <2>2 DEF JobsInv, CompletedKnown
<1>10. NothingElseLeft'
  BY <1>2, <1>p, <1>3, <1>4, <1>6 DEF JobsInv, NothingElseLeft, OneClaim, Running
<1> QED
  BY <1>5, <1>7, <1>8, <1>9, <1>10 DEF JobsInv

LEMMA FinishJobKeeps ==
  ASSUME JobsInv, NEW w \in JobWorkers, FinishJob(w)
  PROVE  JobsInv'
<1>1. JobsTypeOK'
  BY DEF JobsInv, JobsTypeOK, FinishJob, Stops, NoJob, IdleWorker, Job, Worker,
     Settled, Outcome
<1>2. Exists'
  BY DEF Exists, Holding, Saves, JobsInv, FinishJob, Stops, IdleWorker, Outcome
<1>3. OneClaim'
  BY DEF OneClaim, Running, Holding, JobsInv, FinishJob, Stops, IdleWorker, Outcome
<1>4. CompletedKnown'
  BY DEF CompletedKnown, Holding, Saves, JobsInv, FinishJob, Stands, Stops,
     IdleWorker, Outcome
<1>5. NothingElseLeft'
  BY DEF OneClaim, NothingElseLeft, Running, JobsInv, FinishJob, Stands, Stops,
     IdleWorker, Outcome
<1> QED
  BY <1>1, <1>2, <1>3, <1>4, <1>5 DEF JobsInv

LEMMA WorkerDiesKeeps ==
  ASSUME JobsInv, NEW w \in JobWorkers, WorkerDies(w)
  PROVE  JobsInv'
<1>1. JobsTypeOK'
  <2>1. IdleWorker \in Worker
    BY DEF IdleWorker, NoJob, Worker, Job
  <2>2. worker' \in [JobWorkers -> Worker]
    BY <2>1, Zenon DEF JobsInv, JobsTypeOK, WorkerDies, Stops
  <2>3. /\ content' \in [whole : Nat, partial : Nat]
        /\ past' \in [edits : 0 .. MaxEdits, deaths : 0 .. MaxDeaths, runs : Nat,
                     requeued : BOOLEAN, byHand : BOOLEAN]
        /\ past'.edits = past.edits
    BY JobBoundsAssumption DEF JobsInv, JobsTypeOK, WorkerDies
  <2> QED
    BY <2>2, <2>3 DEF JobsInv, JobsTypeOK, WorkerDies
<1>2. Exists'
  BY DEF Exists, Running, Holding, Saves, JobsInv, WorkerDies, Stops, IdleWorker
<1>3. OneClaim'
  BY DEF OneClaim, Running, Holding, JobsInv, WorkerDies, Stops, IdleWorker
<1>4. CompletedKnown'
  BY DEF CompletedKnown, Holding, Saves, JobsInv, JobsTypeOK, WorkerDies, Stops,
     IdleWorker
<1>5. NothingElseLeft'
  BY DEF NothingElseLeft, JobsInv, JobsTypeOK, WorkerDies
<1> QED
  BY <1>1, <1>2, <1>3, <1>4, <1>5 DEF JobsInv

LEMMA EditFindKeeps ==
  ASSUME JobsInv, EditFind
  PROVE  JobsInv'
<1>1. PICK state \in Settled \cup {job.state} :
        /\ edit' = [open |-> TRUE, copy |-> [job EXCEPT !.state = state]]
        /\ past' = [past EXCEPT !.edits = @ + 1, !.byHand = @ \/ state # job.state]
  BY DEF EditFind
<1>2. /\ kind = "migration" /\ job.state # "none" /\ ~edit.open /\ past.edits < MaxEdits
      /\ UNCHANGED <<kind, job, claims, stale, worker, content>>
  BY DEF EditFind, Editable
<1>3. edit' \in [open : BOOLEAN, copy : Job] /\ edit'.open /\ edit'.copy.state = state /\ state # "none"
  BY <1>1, <1>2 DEF JobsInv, JobsTypeOK, Job, Settled
<1>4. past' \in [edits : 0 .. MaxEdits, deaths : 0 .. MaxDeaths, runs : Nat,
                 requeued : BOOLEAN, byHand : BOOLEAN]
  <2>1. past.edits + 1 \in 0 .. MaxEdits
    BY <1>2, JobBoundsAssumption DEF JobsInv, JobsTypeOK
  <2>2. (past.byHand \/ state # job.state) \in BOOLEAN
    OBVIOUS
  <2> QED
    BY <1>1, <2>1, <2>2 DEF JobsInv, JobsTypeOK
<1>5. /\ past'.edits = past.edits + 1 /\ past'.runs = past.runs
      /\ past'.requeued = past.requeued
      /\ ~past'.byHand => ~past.byHand /\ state = job.state
  BY <1>1 DEF JobsInv, JobsTypeOK
<1>6. JobsTypeOK'
  BY <1>2, <1>3, <1>4 DEF JobsInv, JobsTypeOK
<1>7. Running' = Running /\ Holding' = Holding /\ Saves' \subseteq Saves \cup {state}
  BY <1>2, <1>3 DEF Running, Holding, Saves
<1>8. Exists'
  BY <1>2, <1>3, <1>7 DEF JobsInv, Exists
<1>9. OneClaim'
  BY <1>2, <1>5, <1>7 DEF JobsInv, OneClaim
<1>10. CompletedKnown'
  BY <1>2, <1>5, <1>7 DEF JobsInv, CompletedKnown
<1>11. NothingElseLeft'
  BY <1>4, <1>5 DEF JobsInv, JobsTypeOK, NothingElseLeft
<1> QED
  BY <1>6, <1>8, <1>9, <1>10, <1>11 DEF JobsInv

LEMMA EditSaveKeeps ==
  ASSUME JobsInv, EditSave
  PROVE  JobsInv'
<1>1. JobsTypeOK'
  BY DEF JobsInv, JobsTypeOK, EditSave, NoJob, Job
<1>2. Exists'
  BY DEF Exists, Holding, Saves, JobsInv, EditSave
<1>3. OneClaim'
  BY DEF OneClaim, Running, Holding, JobsInv, JobsTypeOK, EditSave
<1>4. CompletedKnown'
  BY DEF CompletedKnown, Holding, Saves, JobsInv, EditSave
<1>5. NothingElseLeft'
  BY DEF NothingElseLeft, JobsInv, EditSave
<1> QED
  BY <1>1, <1>2, <1>3, <1>4, <1>5 DEF JobsInv

LEMMA MinutePassesKeeps ==
  ASSUME JobsInv, MinutePasses
  PROVE  JobsInv'
<1>1. /\ job' = [job EXCEPT !.old = TRUE]
      /\ worker' = [w \in JobWorkers |-> [worker[w] EXCEPT !.copy.old = @ \/ worker[w].copy # NoJob]]
      /\ edit' = [edit EXCEPT !.copy.old = @ \/ edit.open]
      /\ UNCHANGED <<kind, claims, stale, content, past>>
  BY DEF MinutePasses
<1>2. ASSUME NEW w \in JobWorkers
      PROVE  /\ worker'[w] \in Worker
             /\ worker'[w].at = worker[w].at /\ worker'[w].ok = worker[w].ok
             /\ worker'[w].copy.state = worker[w].copy.state
  <2>1. worker[w] \in Worker
    BY DEF JobsInv, JobsTypeOK
  <2>2. (worker[w].copy.old \/ worker[w].copy # NoJob) \in BOOLEAN
    OBVIOUS
  <2> QED
    BY <1>1, <2>1, <2>2 DEF Worker, Job
<1>3. worker' \in [JobWorkers -> Worker]
  BY <1>1, <1>2
<1>4. job' \in Job /\ job'.state = job.state
  BY <1>1, JobRows DEF JobsInv, JobsTypeOK
<1>5. /\ edit' \in [open : BOOLEAN, copy : Job]
      /\ edit'.open = edit.open /\ edit'.copy.state = edit.copy.state
  BY <1>1 DEF JobsInv, JobsTypeOK, Job
<1>6. JobsTypeOK'
  BY <1>1, <1>3, <1>4, <1>5 DEF JobsInv, JobsTypeOK
<1>7. Running' = Running /\ Holding' = Holding
  BY <1>2 DEF Running, Holding
<1>8. Saves' = Saves
  <2>1. \A w \in Holding : worker'[w].copy.state = worker[w].copy.state
    BY <1>2 DEF Holding
  <2> QED
    BY <1>5, <1>7, <2>1 DEF Saves
<1>9. Exists'
  BY <1>1, <1>4, <1>5, <1>7, <1>8 DEF JobsInv, Exists
<1>10. /\ UNCHANGED <<claims, content, past>>
       /\ \A w \in JobWorkers : worker'[w].at = worker[w].at /\ worker'[w].ok = worker[w].ok
       /\ \A w \in Holding : worker'[w].copy.state = worker[w].copy.state
  BY <1>1, <1>2 DEF Holding
<1>11. OneClaim'
  BY <1>4, <1>7, <1>10 DEF JobsInv, OneClaim
<1>12. CompletedKnown'
  BY <1>4, <1>8, <1>10 DEF JobsInv, CompletedKnown
<1>13. NothingElseLeft'
  BY <1>4, <1>5, <1>7, <1>10 DEF JobsInv, NothingElseLeft
<1> QED
  BY <1>6, <1>9, <1>11, <1>12, <1>13 DEF JobsInv

LEMMA TwoHoursPassKeeps ==
  ASSUME JobsInv, TwoHoursPass
  PROVE  JobsInv'
<1>1. JobsTypeOK'
  BY DEF JobsInv, JobsTypeOK, TwoHoursPass
<1>2. Exists'
  BY DEF Exists, Holding, Saves, JobsInv, JobsTypeOK, TwoHoursPass
<1>3. OneClaim'
  BY DEF OneClaim, Running, Holding, JobsInv, TwoHoursPass
<1>4. CompletedKnown'
  BY DEF CompletedKnown, Holding, Saves, JobsInv, TwoHoursPass
<1>5. NothingElseLeft'
  BY DEF NothingElseLeft, Running, JobsInv, TwoHoursPass
<1> QED
  BY <1>1, <1>2, <1>3, <1>4, <1>5 DEF JobsInv

-----------------------------------------------------------------------------
LEMMA JobsInductive == JobsInv /\ [JobsNext]_jobVars => JobsInv'
<1> SUFFICES ASSUME JobsInv, [JobsNext]_jobVars PROVE JobsInv'
  OBVIOUS
<1>1. CASE UNCHANGED jobVars
  BY <1>1 DEF jobVars, JobsInv, JobsTypeOK, Exists, OneClaim, CompletedKnown,
     NothingElseLeft, Running, Holding, Saves
<1>2. CASE \E w \in JobWorkers : CreateJob(w) \/ Sweep(w) \/ Progress(w) \/ Execute(w) \/ WorkerDies(w)
  BY <1>2, CreateJobKeeps, SweepKeeps, ProgressKeeps, ExecuteKeeps, WorkerDiesKeeps
<1>3. CASE \E w \in JobWorkers : JobStep(w)
  BY <1>3, ListQueuedKeeps, ClaimKeeps, FindJobKeeps, FinishJobKeeps DEF JobStep
<1>4. CASE EditFind \/ EditSave \/ MinutePasses \/ TwoHoursPass
  BY <1>4, EditFindKeeps, EditSaveKeeps, MinutePassesKeeps, TwoHoursPassKeeps
<1> QED
  BY <1>1, <1>2, <1>3, <1>4 DEF JobsNext

(***************************************************************************)
(* The invariant holds in every behaviour: a claim only takes a queued     *)
(* job, nothing but an edit queues it again, and whoever runs after the    *)
(* one claim is the only one to write the content and the outcome.         *)
(***************************************************************************)
THEOREM JobsInvariance == JobsSpec => []JobsInv
BY JobsInitially, JobsInductive, PTL DEF JobsSpec

(***************************************************************************)
(* The row, the copies of it and the bounds keep their types.              *)
(***************************************************************************)
THEOREM JobsTyped == JobsSpec => []JobsTypeOK
<1>1. JobsInv => JobsTypeOK
  BY DEF JobsInv
<1> QED
  BY <1>1, JobsInvariance, PTL

(***************************************************************************)
(* Whatever requests, sweeps, slow workers, deaths and edits do, a second  *)
(* run of a job comes from an edit that put it back in the queue.          *)
(***************************************************************************)
THEOREM JobsRunOnce == JobsSpec => []RunsOnce
<1>1. JobsInv => RunsOnce
  BY DEF JobsInv, JobsTypeOK, OneClaim, RunsOnce
<1> QED
  BY <1>1, JobsInvariance, PTL

(***************************************************************************)
(* A completed job has its content and a failed one, with nobody at work   *)
(* and neither deaths nor edits, has none, although every save is of a     *)
(* whole copy of the row.                                                  *)
(***************************************************************************)
THEOREM JobsOutcomeIsTrue == JobsSpec => []OutcomeIsTrue
<1>1. JobsInv => CompletedIsThere
  BY DEF JobsInv, CompletedKnown, CompletedIsThere
<1>2. JobsInv => FailedLeftNothing
  <2> SUFFICES ASSUME JobsInv, job.state = "failed", past.deaths = 0, past.edits = 0,
                      \A w \in JobWorkers : worker[w].at \notin {"find", "work", "finish"}
               PROVE  content = [whole |-> 0, partial |-> 0]
    BY DEF FailedLeftNothing
  <2>1. content.partial = 0 /\ ~(content.whole > 0)
    BY DEF JobsInv, NothingElseLeft
  <2> QED
    BY <2>1 DEF JobsInv, JobsTypeOK
<1> QED
  BY <1>1, <1>2, JobsInvariance, PTL DEF OutcomeIsTrue

-----------------------------------------------------------------------------
(***************************************************************************)
(* MCBackgroundServices: whatever it is about, the rules engine and the    *)
(* job queue each go on as their own specification says, so what is proved *)
(* of one holds beside the other.                                          *)
(***************************************************************************)
THEOREM BackgroundServicesCompose == Spec => GamSpec /\ JobsSpec
<1>1. Init => GamInit /\ JobsInit
  BY DEF Init
<1>2. [Next]_vars => [GamNext]_gamVars /\ [JobsNext]_jobVars
  BY DEF Next, vars
<1> QED
  BY <1>1, <1>2, PTL DEF Spec, GamSpec, JobsSpec

(***************************************************************************)
(* Rows of both, the calls under way and the copies workers hold keep      *)
(* their types side by side.                                               *)
(***************************************************************************)
THEOREM BackgroundServicesTyped == Spec => []TypeOK
BY BackgroundServicesCompose, GamTyped, JobsTyped, PTL DEF TypeOK
================================================================================
