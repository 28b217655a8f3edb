------------------------------ MODULE RadarRuns ------------------------------
(***************************************************************************)
(* The durable research-run queue: admission and retry (RunSubmission),    *)
(* the workers that claim, lease and execute runs (RadarWorker,            *)
(* RadarRunner, RunLifecycle, RunLease), the per-request ledger            *)
(* (RequestAccounting) and the background-response provider as the         *)
(* client uses it.  One action is one database transaction or one          *)
(* provider call; anything may happen between two steps of a worker.       *)
(* Expiry of a lease is an event, so no clock is needed: a worker that     *)
(* pauses past its lease is one that takes no step while Pause happens.    *)
(***************************************************************************)
EXTENDS Integers, FiniteSets

CONSTANTS
    Workers,      \* worker processes (worker_id is unique to a process)
    Runs,         \* run rows that can be created, numbered by started_at
    Owners,       \* accounts
    OwnerOf,      \* the account of each run
    Metered,      \* accounts whose access policy is not complimentary
    NoWorker,     \* the NULL worker_id
    Batches,      \* summary batches of a run: ceil(selected / batch size)
    Timely,       \* TRUE: a live worker renews before its lease runs out
    MaxRequests,  \* bound: ledger rows (and provider jobs) ever created
    MaxFaults,    \* bound: crashes, exceptions, provider and pause faults
    MaxRetries    \* bound: explicit retries of failed runs

ASSUME ConstantsAssumption ==
    /\ Runs \subseteq Nat \ {0}
    /\ OwnerOf \in [Runs -> Owners]
    /\ Metered \subseteq Owners
    /\ NoWorker \notin Workers
    /\ Batches \in Nat
    /\ Timely \in BOOLEAN
    /\ MaxRequests \in Nat /\ MaxFaults \in Nat /\ MaxRetries \in Nat

VARIABLES
    run,             \* digest_runs: status, worker_id, lease_expires_at
    stage,           \* digest_run_stages with the accepted output rows
    usage,           \* subscription_run_usage.state
    observed,        \* subscription_observed_runs.state
    closing,         \* users.closure_requested_at IS NOT NULL
    request,         \* radar_requests, numbered by created_at
    nextRequest,     \* the next ledger row
    job,             \* background responses held by the provider
    worker,          \* each worker's place and the rows its session holds
    faults, retries  \* spent fault and retry budgets

dbVars == <<run, stage, usage, observed, closing, request, nextRequest>>
vars   == <<run, stage, usage, observed, closing, request, nextRequest, job,
            worker, faults, retries>>

-----------------------------------------------------------------------------
(* Data *)

Discovery == 1
Summaries == 2
Trends    == 3
Briefing  == 4
Stages    == Discovery .. Briefing

NoRun      == 0
NoData     == -1                 \* result_data IS NULL
NoResponse == 0                  \* active_response_id IS NULL
Requests   == 1 .. MaxRequests

\* The number of accepted units a completed stage holds.
Full(s) == IF s = Summaries THEN Batches ELSE 1

RunRow == [status : {"absent", "queued", "running", "completed", "failed"},
           holder : Workers \cup {NoWorker},
           lease  : {"none", "live", "expired"}]

\* Mutant: the worker that ends a run does not give it up.
Unreleased(st) == [status |-> st, holder |-> NoWorker,
                   lease |-> IF st = "failed" THEN "live" ELSE "none"]

\* A row that no worker holds, as the queue and the terminal states keep it.
Unowned(st) == [status |-> st, holder |-> NoWorker, lease |-> "none"]

StageRow   == [status : {"pending", "running", "completed", "failed"},
               active : Requests \cup {NoResponse},
               saved  : {NoData, 1} \cup (0 .. Batches)]
FreshStage == [status |-> "pending", active |-> NoResponse, saved |-> NoData]

QuotaState == {"none", "reserved", "settled", "released"}

Row == [run : Runs \cup {NoRun}, stage : Stages, known : BOOLEAN,
        seen : {"submitted", "in_progress", "completed", "ended"},
        outcome : {"unconfirmed", "accepted", "rejected", "interrupted"}]
NewRow(r, s) == [run |-> r, stage |-> s, known |-> FALSE,
                 seen |-> "submitted", outcome |-> "unconfirmed"]

JobState == {"none", "in_progress", "completed", "ended", "gone"}

\* A worker's step.  TryBlock is the body of execute_run's try statement.
TryBlock == {"load", "begin", "sources", "request", "retrieve", "submit",
             "post", "persist", "observe", "accept", "discard", "finish",
             "closing"}
Step     == {"idle", "selected", "open", "failing", "failed"} \cup TryBlock

\* Steps whose transaction starts with RunLease.renew.
FencedStep == {"sources", "submit", "persist", "observe", "finish", "closing"}

Place == [pc : Step, run : Runs \cup {NoRun}, stage : Stages,
          view : StageRow, cur : Requests \cup {NoResponse}, drop : BOOLEAN]
IdleWorker == [pc |-> "idle", run |-> NoRun, stage |-> Discovery,
               view |-> FreshStage, cur |-> NoResponse, drop |-> FALSE]

Init ==
    /\ run = [r \in Runs |-> Unowned("absent")]
    /\ stage = [r \in Runs |-> [s \in Stages |-> FreshStage]]
    /\ usage = [r \in Runs |-> "none"]
    /\ observed = [r \in Runs |-> "none"]
    /\ closing = [o \in Owners |-> FALSE]
    /\ request = [q \in Requests |-> NewRow(NoRun, Discovery)]
    /\ nextRequest = 1
    /\ job = [q \in Requests |-> "none"]
    /\ worker = [w \in Workers |-> IdleWorker]
    /\ faults = 0
    /\ retries = 0

-----------------------------------------------------------------------------
(* Helpers *)

Active(r) == run[r].status \in {"queued", "running"}

\* has_running_for_owner is false; uq_digest_runs_owner_active backs it up.
NoActiveRun(o) == \A r \in Runs : OwnerOf[r] = o => ~Active(r)

\* Mutants: a live lease does not protect a run; an expired one is not picked up.
ClaimableAnyLease(r) == Active(r) /\ ~closing[OwnerOf[r]]
ClaimableUnleased(r) ==
    Active(r) /\ run[r].lease = "none" /\ ~closing[OwnerOf[r]]

\* The WHERE clause of claim_next's SELECT and of its conditional UPDATE.
Claimable(r) ==
    /\ Active(r)
    /\ run[r].lease # "live"
    /\ ~closing[OwnerOf[r]]

\* Mutants: a failure keeps its reservation; a stage that was begun counts as done.
SettleSuccess(state, success) ==
    IF state = "reserved" /\ success THEN "settled" ELSE state
BegunIsDone(row) == row.status \in {"running", "completed"} /\ row.saved # NoData

\* access.settle and observation.settle.
Settle(state, success) ==
    IF state # "reserved" THEN state
    ELSE IF success THEN "settled" ELSE "released"

\* access.reserve and observation.reserve: never a second reservation.
Reserve(state) == IF state = "settled" THEN "settled" ELSE "reserved"

\* What a flush leaves of a stage row: the session emits only the columns it
\* changed since it loaded the row as "old".
Flush(row, old, new) ==
    [status |-> IF new.status = old.status THEN row.status ELSE new.status,
     active |-> IF new.active = old.active THEN row.active ELSE new.active,
     saved  |-> IF new.saved = old.saved THEN row.saved ELSE new.saved]

\* A saved checkpoint: stage.status == COMPLETED and stage.result_data.
Done(row) == row.status = "completed" /\ row.saved # NoData

\* Mutant: beginning the summaries forgets the batches already saved.
BegunAfresh(row, s) ==
    [row EXCEPT !.status = "running",
                !.saved = IF s = Summaries THEN 0 ELSE @]

\* mark_stage_running; begin_summaries also writes the existing batches back.
Begun(row, s) ==
    [row EXCEPT !.status = "running",
                !.saved = IF s = Summaries /\ @ = NoData THEN 0 ELSE @]

\* Every paper has a summary: the batch loop has nothing left.
SummariesDone(row) == row.saved = Batches

\* Mutant: the accepted response stays the active one.
AcceptedKeepingPointer(row, s) ==
    IF s = Summaries THEN [row EXCEPT !.saved = @ + 1]
    ELSE [row EXCEPT !.status = "completed", !.saved = 1]

\* The stage row once an accepted output is in it.
Accepted(row, s) ==
    IF s = Summaries
    THEN [row EXCEPT !.saved = @ + 1, !.active = NoResponse]
    ELSE [row EXCEPT !.status = "completed", !.saved = 1, !.active = NoResponse]

\* The worker's place once the stage it is in is over.
NextStage(l) ==
    [l EXCEPT !.pc = IF l.stage = Briefing THEN "finish" ELSE "load",
              !.stage = IF l.stage = Briefing THEN Briefing ELSE @ + 1,
              !.view = FreshStage, !.cur = NoResponse]

\* The worker's place once it has read the row of its stage.
Loaded(l) ==
    LET row == stage[l.run][l.stage]
    IN  IF Done(row) THEN NextStage(l)
        ELSE [l EXCEPT !.pc = "begin", !.view = row]

\* RunLease.renew succeeds: the account is open and the row is still ours.
Fenced(w) ==
    LET r == worker[w].run
    IN  /\ ~closing[OwnerOf[r]]
        /\ run[r].holder = w
        /\ run[r].status = "running"

At(w, step)    == worker[w].pc = step
Goto(w, step)  == worker' = [worker EXCEPT ![w].pc = step]
Become(w, l)   == worker' = [worker EXCEPT ![w] = l]
Renew(w)       == run' = [run EXCEPT ![worker[w].run].lease = "live"]
Write(w, new)  ==
    stage' = [stage EXCEPT ![worker[w].run][worker[w].stage] =
                  Flush(@, worker[w].view, new)]
Fault          == faults < MaxFaults /\ faults' = faults + 1
Executing(w)   == worker[w].pc \notin {"idle", "selected"}

-----------------------------------------------------------------------------
(* Submission: each action is one transaction under the account lock.      *)

\* start_digest.  Denied by an active run, a closing account, the rate limit
\* or the allowance, it changes nothing.  started_at orders the runs.
Start(r) ==
    /\ \A p \in Runs : p >= r => run[p].status = "absent"
    /\ NoActiveRun(OwnerOf[r])
    /\ ~closing[OwnerOf[r]]
    /\ run' = [run EXCEPT ![r] = Unowned("queued")]
    /\ stage' = [stage EXCEPT ![r] = [s \in Stages |-> FreshStage]]
    /\ observed' = [observed EXCEPT ![r] = Reserve(@)]
    /\ usage' = IF OwnerOf[r] \in Metered
                THEN [usage EXCEPT ![r] = Reserve(@)] ELSE usage
    /\ UNCHANGED <<closing, request, nextRequest, job, worker, faults, retries>>

\* The failed stages of a run.
FailedStages(r) == {s \in Stages : stage[r][s].status = "failed"}

\* requeue_failed: the first failed stage.
RetriedStage(r) == CHOOSE s \in FailedStages(r) : \A t \in FailedStages(r) : s <= t

\* retry_digest.  The prefixes requeue_failed looks for belong to responses
\* that this release has already cleared, so the pointer is kept.
Retry(r) ==
    /\ retries < MaxRetries /\ retries' = retries + 1
    /\ run[r].status = "failed"
    /\ NoActiveRun(OwnerOf[r])
    /\ ~closing[OwnerOf[r]]
    /\ FailedStages(r) # {}
    /\ run' = [run EXCEPT ![r] = Unowned("queued")]
    /\ stage' = [stage EXCEPT ![r][RetriedStage(r)].status = "pending"]
    /\ observed' = [observed EXCEPT ![r] = Reserve(@)]
    /\ usage' = IF OwnerOf[r] \in Metered
                THEN [usage EXCEPT ![r] = Reserve(@)] ELSE usage
    /\ UNCHANGED <<closing, request, nextRequest, job, worker, faults>>

\* request_closure, as far as the queue sees it.
RequestClosure(o) ==
    /\ ~closing[o]
    /\ closing' = [closing EXCEPT ![o] = TRUE]
    /\ UNCHANGED <<run, stage, usage, observed, request, nextRequest, job,
                   worker, faults, retries>>

-----------------------------------------------------------------------------
(* Claiming *)

\* claim_next's SELECT: the oldest claimable run.
ClaimSelect(w) ==
    /\ At(w, "idle")
    /\ \E r \in Runs :
          /\ Claimable(r)
          /\ \A p \in Runs : p < r => ~Claimable(p)
          /\ Become(w, [IdleWorker EXCEPT !.pc = "selected", !.run = r])
    /\ UNCHANGED <<dbVars, job, faults, retries>>

\* claim_next's UPDATE: a loser finds no row and goes back to polling.
ClaimUpdate(w) ==
    /\ At(w, "selected")
    /\ IF Claimable(worker[w].run)
       THEN /\ run' = [run EXCEPT ![worker[w].run] =
                          [status |-> "running", holder |-> w, lease |-> "live"]]
            /\ Goto(w, "open")
       ELSE Become(w, IdleWorker) /\ UNCHANGED run
    /\ UNCHANGED <<stage, usage, observed, closing, request, nextRequest, job,
                   faults, retries>>

\* The run and its stages are read once, after the claim has committed and
\* before the try block; discovery is executed on what was read here.
Open(w) ==
    /\ At(w, "open")
    /\ Become(w, IF run[worker[w].run].status = "running"
                 THEN Loaded(worker[w]) ELSE IdleWorker)
    /\ UNCHANGED <<dbVars, job, faults, retries>>

-----------------------------------------------------------------------------
(* Executing a stage *)

\* lifecycle.reload at the start of a later stage.
Load(w) ==
    /\ At(w, "load")
    /\ Become(w, Loaded(worker[w]))
    /\ UNCHANGED <<dbVars, job, faults, retries>>

\* begin_stage and begin_summaries: not fenced.
BeginStage(w) ==
    LET l == worker[w]
        row == Begun(l.view, l.stage)
    IN  /\ At(w, "begin")
        /\ Write(w, row)
        /\ Become(w, [l EXCEPT !.view = row,
                         !.pc = IF l.stage = Summaries THEN "sources" ELSE "request"])
        /\ UNCHANGED <<run, usage, observed, closing, request, nextRequest, job,
                       faults, retries>>

\* prepare_source_content: every read of an external source is fenced.
Sources(w) ==
    /\ At(w, "sources") /\ Fenced(w)
    /\ Renew(w)
    /\ Goto(w, "request")
    /\ UNCHANGED <<stage, usage, observed, closing, request, nextRequest, job,
                   faults, retries>>

\* complete_summary_stage, after the last batch: not fenced.
CompleteSummaries(w) ==
    LET l == worker[w]
    IN  /\ At(w, "request") /\ l.stage = Summaries /\ SummariesDone(l.view)
        /\ Write(w, [l.view EXCEPT !.status = "completed"])
        /\ Become(w, NextStage(l))
        /\ UNCHANGED <<run, usage, observed, closing, request, nextRequest, job,
                       faults, retries>>

\* StageRequestExecutor.execute: refuse a closing account, then resume the
\* response the stage row names or submit a new one.
Request(w) ==
    LET l == worker[w]
    IN  /\ At(w, "request")
        /\ ~(l.stage = Summaries /\ SummariesDone(l.view))
        /\ Become(w,
             IF closing[OwnerOf[l.run]] THEN [l EXCEPT !.pc = "failing"]
             ELSE IF l.view.active # NoResponse
             THEN [l EXCEPT !.pc = "retrieve", !.cur = l.view.active]
             ELSE [l EXCEPT !.pc = "submit"])
        /\ UNCHANGED <<dbVars, job, faults, retries>>

\* Retrieve the saved response; a 404 clears the pointer (clear_lost_response,
\* not fenced) and falls through to a new submission.
Retrieve(w) ==
    LET l == worker[w]
        row == [l.view EXCEPT !.active = NoResponse]
    IN  /\ At(w, "retrieve")
        /\ IF job[l.cur] = "gone"
           THEN /\ Write(w, row)
                /\ Become(w, [l EXCEPT !.pc = "submit", !.view = row,
                                       !.cur = NoResponse])
           ELSE Goto(w, "observe") /\ UNCHANGED stage
        /\ UNCHANGED <<run, usage, observed, closing, request, nextRequest, job,
                       faults, retries>>

\* observe("submitted"): the ledger row commits before the provider is asked.
Submit(w) ==
    LET l == worker[w]
    IN  /\ At(w, "submit") /\ Fenced(w)
        /\ nextRequest <= MaxRequests
        /\ Renew(w)
        /\ request' = [request EXCEPT ![nextRequest] = NewRow(l.run, l.stage)]
        /\ nextRequest' = nextRequest + 1
        /\ Become(w, [l EXCEPT !.pc = "post", !.cur = nextRequest])
        /\ UNCHANGED <<stage, usage, observed, closing, job, faults, retries>>

\* responses.parse: the provider accepts the background job.
Post(w) ==
    /\ At(w, "post")
    /\ job' = [job EXCEPT ![worker[w].cur] = "in_progress"]
    /\ Goto(w, "persist")
    /\ UNCHANGED <<dbVars, faults, retries>>

\* The job is accepted but its answer, and so its identity, is lost.
PostLost(w) ==
    /\ At(w, "post") /\ Fault
    /\ job' = [job EXCEPT ![worker[w].cur] = "in_progress"]
    /\ Goto(w, "failing")
    /\ UNCHANGED <<dbVars, retries>>

\* persist_response_id: the stage row names the response.
Persist(w) ==
    LET l == worker[w]
        row == [l.view EXCEPT !.active = l.cur]
    IN  /\ At(w, "persist") /\ Fenced(w)
        /\ Renew(w)
        /\ Write(w, row)
        /\ request' = [request EXCEPT ![l.cur].known = TRUE]
        /\ Become(w, [l EXCEPT !.pc = "observe", !.view = row])
        /\ UNCHANGED <<usage, observed, closing, nextRequest, job, faults, retries>>

\* on_poll, retrieve and observe("response") of one round of the poll loop.
Observe(w) ==
    LET l == worker[w]
        seen == job[l.cur]
    IN  /\ At(w, "observe") /\ Fenced(w)
        /\ seen \in {"in_progress", "completed", "ended"}
        /\ Renew(w)
        /\ request' = [request EXCEPT ![l.cur].seen = seen]
        /\ Goto(w, CASE seen = "in_progress" -> "observe"
                     [] seen = "completed"   -> "accept"
                     [] OTHER                -> "discard")
        /\ UNCHANGED <<stage, usage, observed, closing, nextRequest, job, faults,
                       retries>>

\* Three polls in a row fail: the pointer stays for a later retry.
ObserveGone(w) ==
    /\ At(w, "observe") /\ job[worker[w].cur] = "gone"
    /\ Goto(w, "failing")
    /\ UNCHANGED <<dbVars, job, faults, retries>>

\* The response ended unsuccessfully, or (at "accept") carried no data or data
\* of the wrong shape: clear_lost_response, not fenced, then an exception.
Discard(w) ==
    LET l == worker[w]
        row == [l.view EXCEPT !.active = NoResponse]
    IN  /\ l.pc \in {"discard", "accept"}
        /\ Write(w, row)
        /\ Become(w, [l EXCEPT !.pc = "failing", !.view = row])
        /\ UNCHANGED <<run, usage, observed, closing, request, nextRequest, job,
                       faults, retries>>

\* validate_*: the output contradicts the stage's inputs.
RejectOutput(w) ==
    /\ At(w, "accept")
    /\ Become(w, [worker[w] EXCEPT !.pc = "failing", !.drop = TRUE])
    /\ UNCHANGED <<dbVars, job, faults, retries>>

\* digest_run_trend_analyses and digest_run_briefings are unique per run.
Unclaimed(r, s) == s \in {Trends, Briefing} => stage[r][s].saved = NoData

\* save_*: output rows, stage row and accepted usage commit together, not
\* fenced.  The briefing and the trend analysis are unique per run; a second
\* set of discovered papers may or may not collide with the first.
Save(w) ==
    LET l == worker[w]
        row == Accepted(l.view, l.stage)
    IN  /\ At(w, "accept")
        /\ Unclaimed(l.run, l.stage)
        /\ Write(w, row)
        /\ request' = [request EXCEPT ![l.cur].outcome = "accepted"]
        /\ Become(w, IF l.stage = Summaries
                     THEN [l EXCEPT !.pc = "request", !.view = row,
                                    !.cur = NoResponse]
                     ELSE NextStage(l))
        /\ UNCHANGED <<run, usage, observed, closing, nextRequest, job, faults,
                       retries>>

\* The unique constraint refuses the output rows.
SaveConflict(w) ==
    LET l == worker[w]
    IN  /\ At(w, "accept")
        /\ l.stage # Summaries /\ stage[l.run][l.stage].saved # NoData
        /\ Goto(w, "failing")
        /\ UNCHANGED <<dbVars, job, faults, retries>>

-----------------------------------------------------------------------------
(* The end of a run *)

\* complete_run: fenced before the bounded source verification ...
Poll(w) ==
    /\ At(w, "finish") /\ Fenced(w)
    /\ Renew(w)
    /\ Goto(w, "closing")
    /\ UNCHANGED <<stage, usage, observed, closing, request, nextRequest, job,
                   faults, retries>>

\* ... and again in the transaction that settles the quota and completes it.
Complete(w) ==
    LET r == worker[w].run
    IN  /\ At(w, "closing") /\ Fenced(w)
        /\ run' = [run EXCEPT ![r] = Unowned("completed")]
        /\ usage' = [usage EXCEPT ![r] = Settle(@, TRUE)]
        /\ observed' = [observed EXCEPT ![r] = Settle(@, TRUE)]
        /\ Become(w, IdleWorker)
        /\ UNCHANGED <<stage, closing, request, nextRequest, job, faults, retries>>

\* renew finds the account closing or the row in other hands, and raises.
LosesFence(w) ==
    /\ worker[w].pc \in FencedStep /\ ~Fenced(w)
    /\ Goto(w, "failing")
    /\ UNCHANGED <<dbVars, job, faults, retries>>

\* Any other exception of the try block: the database or the provider fails,
\* the background time limit passes, a saved output does not validate.
Raise(w) ==
    /\ worker[w].pc \in TryBlock /\ Fault
    /\ Goto(w, "failing")
    /\ UNCHANGED <<dbVars, job, retries>>

\* lifecycle.fail, up to its ownership check.
FailCheck(w) ==
    LET l == worker[w]
    IN  /\ At(w, "failing")
        /\ Become(w, IF run[l.run].holder # w THEN IdleWorker
                     ELSE [l EXCEPT !.pc = "failed",
                                    !.view = stage[l.run][l.stage]])
        /\ UNCHANGED <<dbVars, job, faults, retries>>

\* The unconfirmed ledger rows of a stage.
Unconfirmed(r, s) ==
    {q \in Requests : /\ q < nextRequest
                      /\ request[q].run = r /\ request[q].stage = s
                      /\ request[q].outcome = "unconfirmed"}

\* reject_latest: only the newest unconfirmed row changes.
RejectLatest(r, s) ==
    [q \in Requests |->
        IF q \in Unconfirmed(r, s) /\ \A p \in Unconfirmed(r, s) : p <= q
        THEN [request[q] EXCEPT !.outcome =
                 IF request[q].seen = "completed" THEN "rejected" ELSE "interrupted"]
        ELSE request[q]]

\* fail_stage; only a rejected output drops the response.
Failed(row, drop) ==
    [row EXCEPT !.status = "failed", !.active = IF drop THEN NoResponse ELSE @]

\* mark_failed and the commit.  Nothing re-checks the ownership FailCheck saw.
FailCommit(w) ==
    LET l == worker[w]
    IN  /\ At(w, "failed")
        /\ Write(w, Failed(l.view, l.drop))
        /\ request' = RejectLatest(l.run, l.stage)
        /\ usage' = [usage EXCEPT ![l.run] = Settle(@, FALSE)]
        /\ observed' = [observed EXCEPT ![l.run] = Settle(@, FALSE)]
        /\ run' = [run EXCEPT ![l.run] = Unowned("failed")]
        /\ Become(w, IdleWorker)
        /\ UNCHANGED <<closing, nextRequest, job, faults, retries>>

-----------------------------------------------------------------------------
(* The environment *)

\* The process dies between two steps; its session and its place are lost.
Crash(w) ==
    /\ ~At(w, "idle") /\ Fault
    /\ Become(w, IdleWorker)
    /\ UNCHANGED <<dbVars, job, retries>>

\* The lease of a run that no live worker executes runs out.
LeaseExpires(r) ==
    /\ run[r].lease = "live"
    /\ ~\E w \in Workers : Executing(w) /\ worker[w].run = r /\ run[r].holder = w
    /\ run' = [run EXCEPT ![r].lease = "expired"]
    /\ UNCHANGED <<stage, usage, observed, closing, request, nextRequest, job,
                   worker, faults, retries>>

\* A live worker pauses for longer than its lease.
Pause(r) ==
    /\ ~Timely /\ Fault
    /\ run[r].lease = "live"
    /\ run' = [run EXCEPT ![r].lease = "expired"]
    /\ UNCHANGED <<stage, usage, observed, closing, request, nextRequest, job,
                   worker, retries>>

ProviderCompletes(q) ==
    /\ job[q] = "in_progress"
    /\ job' = [job EXCEPT ![q] = "completed"]
    /\ UNCHANGED <<dbVars, worker, faults, retries>>

\* failed, cancelled or incomplete
ProviderEnds(q) ==
    /\ job[q] = "in_progress" /\ Fault
    /\ job' = [job EXCEPT ![q] = "ended"]
    /\ UNCHANGED <<dbVars, worker, retries>>

\* The provider no longer knows the response (404).
Vanish(q) ==
    /\ job[q] \in {"in_progress", "completed", "ended"} /\ Fault
    /\ job' = [job EXCEPT ![q] = "gone"]
    /\ UNCHANGED <<dbVars, worker, retries>>

-----------------------------------------------------------------------------
StageStep(w) ==
    \/ Load(w) \/ BeginStage(w) \/ Sources(w) \/ CompleteSummaries(w)
    \/ Request(w) \/ Retrieve(w) \/ Submit(w) \/ Post(w) \/ Persist(w)
    \/ Observe(w) \/ ObserveGone(w) \/ Discard(w) \/ RejectOutput(w)
    \/ Save(w) \/ SaveConflict(w)

\* What a live worker does next; a crash or a fault is not among it.
WorkerStep(w) ==
    \/ ClaimSelect(w) \/ ClaimUpdate(w) \/ Open(w) \/ StageStep(w)
    \/ Poll(w) \/ Complete(w) \/ LosesFence(w) \/ FailCheck(w) \/ FailCommit(w)

FaultStep(w) == PostLost(w) \/ Raise(w) \/ Crash(w)

Next ==
    \/ \E r \in Runs : Start(r) \/ Retry(r) \/ LeaseExpires(r) \/ Pause(r)
    \/ \E o \in Owners : RequestClosure(o)
    \/ \E w \in Workers : WorkerStep(w) \/ FaultStep(w)
    \/ \E q \in Requests : ProviderCompletes(q) \/ ProviderEnds(q) \/ Vanish(q)

Spec == Init /\ [][Next]_vars

\* Worker processes keep running (run_forever, restarted when they die),
\* background jobs finish and time passes.
Fairness ==
    /\ \A w \in Workers : WF_vars(WorkerStep(w))
    /\ \A r \in Runs : WF_vars(LeaseExpires(r))
    /\ \A q \in Requests : WF_vars(ProviderCompletes(q))

FairSpec == Spec /\ Fairness

-----------------------------------------------------------------------------
(* What holds however late a worker is *)

\* Every variable has its type.
TypeOK ==
    /\ run \in [Runs -> RunRow]
    /\ stage \in [Runs -> [Stages -> StageRow]]
    /\ usage \in [Runs -> QuotaState]
    /\ observed \in [Runs -> QuotaState]
    /\ closing \in [Owners -> BOOLEAN]
    /\ request \in [Requests -> Row]
    /\ nextRequest \in 1 .. MaxRequests + 1
    /\ job \in [Requests -> JobState]
    /\ worker \in [Workers -> Place]
    /\ faults \in 0 .. MaxFaults
    /\ retries \in 0 .. MaxRetries

\* An account has at most one queued or running run, whatever starts, retries,
\* claims and late failures interleave.
OneActiveRunPerOwner ==
    \A r, p \in Runs :
        Active(r) /\ Active(p) /\ OwnerOf[r] = OwnerOf[p] => r = p

\* A run has a worker and a lease exactly while it is running: what a stale
\* worker's late failure leaves behind can be retried and claimed again.
OwnedWhileRunning ==
    \A r \in Runs :
        /\ run[r].status = "running" <=> run[r].holder # NoWorker
        /\ run[r].status = "running" <=> run[r].lease # "none"

-----------------------------------------------------------------------------
(* What holds when leases are renewed in time *)

\* Two workers never execute one run: an executing worker owns it.
MutualExclusion ==
    \A v, w \in Workers :
        Executing(v) /\ Executing(w) /\ worker[v].run = worker[w].run => v = w

Charge(status) == CASE status = "absent"              -> "none"
                    [] status \in {"queued", "running"} -> "reserved"
                    [] status = "completed"           -> "settled"
                    [] status = "failed"              -> "released"

\* The allowance is charged exactly for completed runs and held exactly for
\* active ones, through every failure, crash and retry.
QuotaFollowsRun ==
    \A r \in Runs :
        /\ observed[r] = Charge(run[r].status)
        /\ usage[r] = IF OwnerOf[r] \in Metered THEN observed[r] ELSE "none"

\* A completed run has every stage completed with all of its output and no
\* response left to poll, whichever workers and attempts produced it; and nothing
\* is requested for a stage, or saved in it, before all of the output it reads
\* from the earlier stages is there.
BuiltOnWholeOutput ==
    /\ \A r \in Runs, s \in Stages : run[r].status = "completed" =>
          stage[r][s] = [status |-> "completed", active |-> NoResponse,
                         saved |-> Full(s)]
    /\ \A r \in Runs, s, t \in Stages :
          /\ t < s
          /\ \/ stage[r][s].saved # NoData
             \/ \E q \in Requests : request[q].run = r /\ request[q].stage = s
          => stage[r][t].saved = Full(t)

AcceptedRequests(r, s) ==
    {q \in Requests : /\ request[q].run = r /\ request[q].stage = s
                      /\ request[q].outcome = "accepted"}

\* Every saved unit comes from exactly one accepted request, and no accepted
\* request's output is lost: nothing is paid for twice or thrown away.
SavedWorkIsPaidOnce ==
    \A r \in Runs, s \in Stages :
        Cardinality(AcceptedRequests(r, s)) =
            IF stage[r][s].saved = NoData THEN 0 ELSE stage[r][s].saved

\* "Each stage either reuses its completed checkpoint or constructs input,
\* executes a request ..." (docs/research-orchestration.md:4): a stage whose
\* output is saved in full is never requested again.
CheckpointReused ==
    [][\A w \in Workers : Submit(w) =>
          stage[worker[w].run][worker[w].stage].saved # Full(worker[w].stage)]_vars

\* Every admitted run ends, or its account is closing (or the instance has no
\* request left to make: MaxRequests is a bound of the model).
EveryRunEnds ==
    \A r \in Runs :
        Active(r) ~> ~Active(r) \/ closing[OwnerOf[r]] \/ nextRequest > MaxRequests

-----------------------------------------------------------------------------
(* The abstract promise this queue keeps when leases are renewed in time *)

Units(row) == IF row.saved = NoData THEN 0 ELSE row.saved

Promise == INSTANCE RunPromise WITH
    Total <- Batches + 3,
    phase <- [r \in Runs |-> run[r].status],
    done  <- [r \in Runs |-> Units(stage[r][Discovery]) + Units(stage[r][Summaries])
                           + Units(stage[r][Trends]) + Units(stage[r][Briefing])],
    hold  <- observed

\* Each run keeps the promise of RunPromise.
KeepsPromise == Promise!Spec
=============================================================================
