------------------------------ MODULE ContentJobs ------------------------------
(***************************************************************************)
(* internal/service/content_migration_runner.go, content_export_service.go *)
(* and content_migration_lane.go: one content migration (a course copy or  *)
(* a package import) or content export.  The request that creates it also  *)
(* starts it; a sweep per minute fails runs whose worker seems dead and    *)
(* starts jobs nobody started.  A worker claims the job with a conditional *)
(* update, then works with its own copy of the row and saves that whole,   *)
(* as does an instructor's edit of a migration.                            *)
(*                                                                         *)
(* Time is whether the job is a minute old and which claims are two hours  *)
(* (staleJobAfter) old.  What is copied is left out: a run adds the        *)
(* content, or fails and takes back what it added, unless that fails too.  *)
(***************************************************************************)
EXTENDS Naturals, FiniteSets

CONSTANTS
  JobWorkers,  \* goroutines of the replicas: started by requests and sweeps
  MaxClaims,   \* bound on claims
  MaxEdits,    \* bound on an instructor's edits
  MaxDeaths    \* bound on workers that die and rollbacks that fail

ASSUME JobBoundsAssumption == {MaxClaims, MaxEdits, MaxDeaths} \subseteq Nat

VARIABLES
  kind,     \* "migration" or "export"
  job,      \* its row; an export's created, exporting, exported are called
            \* queued, running, completed here
  claims,   \* claims so far
  stale,    \* claims more than two hours ago
  worker,   \* per worker: where it stands, its copy of the row, how it went
  edit,     \* UpdateMigration under way: its copy of the row
  content,  \* complete and partial results of runs in the course
  past      \* edits, deaths, runs so far; whether an edit put a job back in the
            \* queue, and whether one set its outcome

jobVars == <<kind, job, claims, stale, worker, edit, content, past>>

Settled == {"completed", "failed", "created"}
\* claim: which claim set started_at; old: created more than a minute ago.
Job == [state : {"none", "queued", "running"} \cup Settled, claim : Nat, old : BOOLEAN]
NoJob == [state |-> "none", claim |-> 0, old |-> FALSE]
Worker == [at : {"idle", "list", "claim", "find", "work", "finish"}, copy : Job, ok : BOOLEAN]
IdleWorker == [at |-> "idle", copy |-> NoJob, ok |-> FALSE]

JobsTypeOK ==
  /\ kind \in {"migration", "export"}
  /\ job \in Job
  /\ claims \in 0 .. MaxClaims /\ stale \in 0 .. claims
  /\ worker \in [JobWorkers -> Worker]
  /\ edit \in [open : BOOLEAN, copy : Job]
  /\ content \in [whole : Nat, partial : Nat]
  /\ past \in [edits : 0 .. MaxEdits, deaths : 0 .. MaxDeaths, runs : Nat,
               requeued : BOOLEAN, byHand : BOOLEAN]
  /\ kind = "export" => past.edits = 0

JobsInit ==
  /\ kind \in {"migration", "export"}
  /\ job = NoJob
  /\ claims = 0 /\ stale = 0
  /\ worker = [w \in JobWorkers |-> IdleWorker]
  /\ edit = [open |-> FALSE, copy |-> NoJob]
  /\ content = [whole |-> 0, partial |-> 0]
  /\ past = [edits |-> 0, deaths |-> 0, runs |-> 0, requeued |-> FALSE, byHand |-> FALSE]

-----------------------------------------------------------------------------
Stands(w, at) == worker[w].at = at
Moves(w, at) == worker' = [worker EXCEPT ![w].at = at]
Stops(w) == worker' = [worker EXCEPT ![w] = IdleWorker]

\* CreateMigration and Enqueue; ContentExportService.Create.
CreateJob(w) ==
  /\ job.state = "none"
  /\ Stands(w, "idle")
  /\ job' = [NoJob EXCEPT !.state = "queued"]
  /\ Moves(w, "claim")
  /\ UNCHANGED <<kind, claims, stale, edit, content, past>>

\* ProcessPending: FailStale (a sweep that finds no job does nothing), ...
NeverTakenForDead == FALSE
TakenForDead == job.state = "running" /\ job.claim <= stale

Sweep(w) ==
  /\ job.state # "none"
  /\ Stands(w, "idle")
  /\ job' = IF TakenForDead
            THEN [job EXCEPT !.state = "failed"] ELSE job
  /\ Moves(w, "list")
  /\ UNCHANGED <<kind, claims, stale, edit, content, past>>

\* ... then the jobs still queued after a minute.
ListQueued(w) ==
  /\ Stands(w, "list")
  /\ Moves(w, IF job.state = "queued" /\ job.old THEN "claim" ELSE "idle")
  /\ UNCHANGED <<kind, job, claims, stale, edit, content, past>>

\* Run: only a queued job is claimed, ...
ClaimableAlways == TRUE
Claimable == job.state = "queued"

Claim(w) ==
  /\ Stands(w, "claim")
  /\ IF Claimable
       THEN /\ claims < MaxClaims
            /\ claims' = claims + 1
            /\ job' = [job EXCEPT !.state = "running", !.claim = claims + 1]
            /\ Moves(w, "find")
       ELSE Stops(w) /\ UNCHANGED <<claims, job>>
  /\ UNCHANGED <<kind, stale, edit, content, past>>

\* ... then read, ...
FindJob(w) ==
  /\ Stands(w, "find")
  /\ worker' = [worker EXCEPT ![w].at = "work", ![w].copy = job]
  /\ past' = [past EXCEPT !.runs = @ + 1]
  /\ UNCHANGED <<kind, job, claims, stale, edit, content>>

\* ... its progress saved with the rest of the copy, ...
Progress(w) ==
  /\ Stands(w, "work")
  /\ job' = worker[w].copy
  /\ UNCHANGED <<kind, claims, stale, worker, edit, content, past>>

\* ... the work done, or failed and rolled back: CleanupFailedImport reports no
\* errors of its own, and a part may be left; ...
FailLeaving(w) ==
  /\ worker' = [worker EXCEPT ![w].at = "finish", ![w].ok = FALSE]
  /\ content' = [content EXCEPT !.partial = @ + 1]
Fail(w) ==
  /\ worker' = [worker EXCEPT ![w].at = "finish", ![w].ok = FALSE]
  /\ UNCHANGED content

Execute(w) ==
  /\ Stands(w, "work")
  /\ \/ /\ worker' = [worker EXCEPT ![w].at = "finish", ![w].ok = TRUE]
        /\ content' = [content EXCEPT !.whole = @ + 1]
        /\ UNCHANGED past
     \/ Fail(w) /\ UNCHANGED past
     \/ /\ FailLeaving(w)
        /\ kind = "migration" /\ past.deaths < MaxDeaths
        /\ past' = [past EXCEPT !.deaths = @ + 1]
  /\ UNCHANGED <<kind, job, claims, stale, edit>>

\* ... and the outcome saved, unless that fails.
Outcome(w) == IF worker[w].ok THEN "completed" ELSE "failed"

FinishJob(w) ==
  /\ Stands(w, "finish")
  /\ job' = [worker[w].copy EXCEPT !.state = Outcome(w)]
  /\ Stops(w)
  /\ UNCHANGED <<kind, claims, stale, edit, content, past>>

-----------------------------------------------------------------------------
\* UpdateMigration: settings alone, or an outcome as well; queued and running
\* cannot be given.
Editable == kind = "migration"

EditFind ==
  /\ Editable /\ job.state # "none"
  /\ ~edit.open /\ past.edits < MaxEdits
  /\ \E state \in Settled \cup {job.state} :
       /\ edit' = [open |-> TRUE, copy |-> [job EXCEPT !.state = state]]
       /\ past' = [past EXCEPT !.edits = @ + 1, !.byHand = @ \/ state # job.state]
  /\ UNCHANGED <<kind, job, claims, stale, worker, content>>

EditSave ==
  /\ edit.open
  /\ job' = edit.copy
  /\ edit' = [open |-> FALSE, copy |-> NoJob]
  /\ past' = [past EXCEPT !.requeued = @ \/ (edit.copy.state = "queued" /\ job.state # "queued")]
  /\ UNCHANGED <<kind, claims, stale, worker, content>>

\* The server of a worker dies, or a statement of its own fails: its run may
\* leave a part behind, and nobody tells the row.
WorkerDies(w) ==
  /\ ~Stands(w, "idle")
  /\ past.deaths < MaxDeaths
  /\ past' = [past EXCEPT !.deaths = @ + 1]
  /\ Stops(w)
  /\ content' \in {content} \cup (IF Stands(w, "work") THEN {[content EXCEPT !.partial = @ + 1]} ELSE {})
  /\ UNCHANGED <<kind, job, claims, stale, edit>>

MinutePasses ==
  /\ job.state # "none" /\ ~job.old
  /\ job' = [job EXCEPT !.old = TRUE]
  /\ worker' = [w \in JobWorkers |-> [worker[w] EXCEPT !.copy.old = @ \/ worker[w].copy # NoJob]]
  /\ edit' = [edit EXCEPT !.copy.old = @ \/ edit.open]
  /\ UNCHANGED <<kind, claims, stale, content, past>>

TwoHoursPass ==
  /\ stale < claims
  /\ stale' = claims
  /\ UNCHANGED <<kind, job, claims, worker, edit, content, past>>

JobStep(w) == ListQueued(w) \/ Claim(w) \/ FindJob(w) \/ FinishJob(w)
JobsNext ==
  \/ \E w \in JobWorkers :
       CreateJob(w) \/ Sweep(w) \/ JobStep(w) \/ Progress(w) \/ Execute(w) \/ WorkerDies(w)
  \/ EditFind \/ EditSave
  \/ MinutePasses \/ TwoHoursPass

JobsSpec == JobsInit /\ [][JobsNext]_jobVars
\* The scheduler sweeps, workers go on, what they do ends, and time passes.
JobsFairness ==
  /\ WF_jobVars(\E w \in JobWorkers : Sweep(w))
  /\ \A w \in JobWorkers : WF_jobVars(JobStep(w)) /\ WF_jobVars(Execute(w))
  /\ WF_jobVars(MinutePasses) /\ WF_jobVars(TwoHoursPass)

-----------------------------------------------------------------------------
(***************************************************************************)
(* A job runs at most once, however sweeps, the request's own start and    *)
(* slow workers meet, unless an edit begun while it was queued is saved    *)
(* after it was claimed and puts it back in the queue.                     *)
(***************************************************************************)
RunsOnce == past.runs > 1 => past.requeued

(***************************************************************************)
(* The outcome on the row is what happened. A job is reported completed    *)
(* only when its content is there, unless an instructor said so. One that  *)
(* failed has left nothing behind, since the sweep tells instructors to    *)
(* start it again: this holds when nobody is working on the job, no worker *)
(* died, no rollback failed and nobody edited the row; a slow worker the   *)
(* sweep took for dead sets its own outcome in the end.                    *)
(***************************************************************************)
CompletedIsThere == job.state = "completed" /\ ~past.byHand => content.whole > 0
FailedLeftNothing ==
  /\ job.state = "failed"
  /\ \A w \in JobWorkers : worker[w].at \notin {"find", "work", "finish"}
  /\ past.deaths = 0 /\ past.edits = 0
  => content = [whole |-> 0, partial |-> 0]
OutcomeIsTrue == CompletedIsThere /\ FailedLeftNothing

(***************************************************************************)
(* Every job comes to an outcome and stays there, although the worker or   *)
(* the server that started it died, or a stale copy was saved over it (in  *)
(* behaviours that stay below the bound on claims, where Claim waits).     *)
(***************************************************************************)
JobSettles ==
  [](claims < MaxClaims) => (job.state # "none" ~> [](job.state \in Settled))
=============================================================================
