----------------------------- MODULE BillingSync -----------------------------
(***************************************************************************)
(* Keeping the saved billing state up to date (billing_sync_service): the  *)
(* inbox of signed Stripe events, the recurring reconciliation, and the    *)
(* workers that process both, for one checkout attempt of one account.     *)
(*                                                                         *)
(* Stripe's objects are one version number that grows; the event of a      *)
(* version is the notice Stripe sends of it, late, several times, out of   *)
(* order or never.  A worker's transaction holds the job's row from its    *)
(* start and the account's row from lock_account.                          *)
(***************************************************************************)
EXTENDS Integers

CONSTANTS
    Workers,      \* the processes that run worker_loop
    MaxVersion,   \* bound: versions; with the last the subscription is over
    MaxFailures,  \* stripe_sync_max_failures
    MaxFaults     \* bound: crashes, failing calls, slow workers, manual retries

ASSUME SyncAssumption ==
    /\ Workers # {} /\ Workers \cap {"free", "closure"} = {}
    /\ MaxVersion \in Nat \ {0} /\ MaxFailures \in Nat \ {0} /\ MaxFaults \in Nat

VARIABLES
    version,  \* what Stripe would answer
    seen,     \* the version the checkout's row records; 0: no identifier is saved
    marked,   \* sandbox_stripe_events
    job,      \* billing_sync_jobs
    worker,   \* each worker's place
    rowLock,  \* who holds each job's row
    account,  \* who holds the account's row
    closing,  \* closure_requested_at is set
    erased,   \* the closure has removed the account's jobs
    faults

vars == <<version, seen, marked, job, worker, rowLock, account, closing, erased, faults>>

Free      == "free"
Closer    == "closure"
Events    == 1 .. MaxVersion
Reconcile == 0
Jobs      == Events \cup {Reconcile}

\* token names the worker of the latest claim, live says that its lease has not
\* run out; again is a next_attempt_at of a processed reconciliation.
Job    == [state : {"none", "pending", "processing", "retry", "failed", "processed"},
           token : Workers \cup {Free}, live : BOOLEAN, failures : 0 .. MaxFailures, again : BOOLEAN]
NoJob  == [state |-> "none", token |-> Free, live |-> FALSE, failures |-> 0, again |-> FALSE]
Pending == [NoJob EXCEPT !.state = "pending"]

Place == [pc : {"idle", "claimed", "begun", "fetch", "fetched", "failing"}, job : Jobs, got : 0 .. MaxVersion]
Idle  == [pc |-> "idle", job |-> Reconcile, got |-> 0]

TypeOK ==
    /\ version \in 0 .. MaxVersion /\ seen \in 0 .. version
    /\ marked \subseteq Events
    /\ job \in [Jobs -> Job]
    /\ worker \in [Workers -> Place]
    /\ rowLock \in [Jobs -> Workers \cup {Free}]
    /\ account \in Workers \cup {Free, Closer}
    /\ closing \in BOOLEAN /\ erased \in BOOLEAN
    /\ faults \in 0 .. MaxFaults

Init ==
    /\ version = 0 /\ seen = 0 /\ marked = {}
    /\ job = [j \in Jobs |-> NoJob]
    /\ worker = [w \in Workers |-> Idle]
    /\ rowLock = [j \in Jobs |-> Free] /\ account = Free
    /\ closing = FALSE /\ erased = FALSE /\ faults = 0

Fault == faults < MaxFaults /\ faults' = faults + 1

-----------------------------------------------------------------------------
(* Stripe and the account's windows.                                       *)

Advance ==
    /\ version < MaxVersion
    /\ version' = version + 1
    /\ UNCHANGED <<seen, marked, job, worker, rowLock, account, closing, erased, faults>>

\* receive: a signed event becomes a job unless its job exists already.
Receive(e) ==
    /\ e <= version /\ ~closing
    /\ job[e].state = "none"
    /\ job' = [job EXCEPT ![e] = Pending]
    /\ UNCHANGED <<version, seen, marked, worker, rowLock, account, closing, erased, faults>>

\* start_checkout and refresh read Stripe and save while they hold the account.
Refresh ==
    /\ account = Free /\ ~closing /\ version > seen
    /\ seen' = version
    /\ UNCHANGED <<version, marked, job, worker, rowLock, account, closing, erased, faults>>

-----------------------------------------------------------------------------
(* A worker's tick.                                                        *)

At(w, pc)   == worker[w].pc = pc
Mine(w)     == worker[w].job
Become(w, p) == worker' = [worker EXCEPT ![w] = p]
Step(w, pc) == Become(w, [worker[w] EXCEPT !.pc = pc])
\* owned: the claim is still this worker's and its deadline has not passed.
Owned(w)    == LET j == job[Mine(w)] IN j.state = "processing" /\ j.token = w /\ j.live
Release(w)  == /\ rowLock' = [j \in Jobs |-> IF rowLock[j] = w THEN Free ELSE rowLock[j]]
               /\ account' = IF account = w THEN Free ELSE account
Settle(j, value) == job' = [job EXCEPT ![j] = value]

\* seed_reconciliation.
Seed ==
    /\ ~closing /\ job[Reconcile].state = "none"
    /\ job' = [job EXCEPT ![Reconcile] = Pending]
    /\ UNCHANGED <<version, seen, marked, worker, rowLock, account, closing, erased, faults>>

\* Mutant: a reconciliation that is processed is over.
DueOnce(j) ==
    \/ job[j].state \in {"pending", "retry"}
    \/ job[j].state = "processing" /\ ~job[j].live

Due(j) ==
    \/ job[j].state \in {"pending", "retry"}
    \/ job[j].state = "processed" /\ job[j].again
    \/ job[j].state = "processing" /\ ~job[j].live

\* claim: committed before anything is done.
Claim(w, j) ==
    /\ At(w, "idle") /\ Due(j) /\ rowLock[j] = Free
    /\ Settle(j, [job[j] EXCEPT !.state = "processing", !.token = w, !.live = TRUE, !.again = FALSE])
    /\ Become(w, [Idle EXCEPT !.pc = "claimed", !.job = j])
    /\ UNCHANGED <<version, seen, marked, rowLock, account, closing, erased, faults>>

\* process: the job's row is locked; a closing account needs nothing more.
Begin(w) ==
    /\ At(w, "claimed") /\ rowLock[Mine(w)] = Free
    /\ IF ~Owned(w) THEN Become(w, Idle) /\ UNCHANGED <<job, rowLock>>
       ELSE IF closing
       THEN /\ Settle(Mine(w), [NoJob EXCEPT !.state = "processed", !.failures = job[Mine(w)].failures])
            /\ Become(w, Idle) /\ UNCHANGED rowLock
       ELSE /\ rowLock' = [rowLock EXCEPT ![Mine(w)] = w]
            /\ Step(w, "begun") /\ UNCHANGED job
    /\ UNCHANGED <<version, seen, marked, account, closing, erased, faults>>

\* Mutants: a closure requested since the job was begun is not noticed; Stripe is
\* read without the account's row.
RefusedUnknown(w) == Mine(w) = Reconcile /\ seen = 0
TakesNothing(w)   == UNCHANGED account

\* lock_account refuses a closing account; an attempt without an identifier
\* cannot be reconciled.
Refused(w) == closing \/ (Mine(w) = Reconcile /\ seen = 0)
Takes(w)   == account' = w

\* lock_account, and the start of handle_event: a marked event is not read again.
LockAccount(w) ==
    /\ At(w, "begun") /\ account = Free
    /\ IF Refused(w)
       THEN Step(w, "failing") /\ Release(w)
       ELSE /\ Takes(w) /\ UNCHANGED rowLock
            /\ IF Mine(w) \in marked THEN Become(w, [worker[w] EXCEPT !.pc = "fetched", !.got = seen])
               ELSE Step(w, "fetch")
    /\ UNCHANGED <<version, seen, marked, job, closing, erased, faults>>

\* handle_event and sync_attempt ask Stripe for the current state, whatever the
\* event said.
Fetch(w) ==
    /\ At(w, "fetch")
    /\ Become(w, [worker[w] EXCEPT !.pc = "fetched", !.got = version])
    /\ UNCHANGED <<version, seen, marked, job, rowLock, account, closing, erased, faults>>

\* Observation, marker and completion in one commit, or none of them when the
\* deadline has passed.  A subscription that is over is not polled again once its
\* invoices are imported.
Commit(w) ==
    /\ At(w, "fetched")
    /\ IF Owned(w)
       THEN /\ seen' = worker[w].got
            /\ marked' = marked \cup ({Mine(w)} \cap Events)
            /\ \E more \in BOOLEAN :
                  /\ more => Mine(w) = Reconcile
                  /\ Mine(w) = Reconcile /\ worker[w].got < MaxVersion => more
                  /\ Settle(Mine(w), [NoJob EXCEPT !.state = "processed", !.again = more])
       ELSE UNCHANGED <<seen, marked, job>>
    /\ Become(w, Idle) /\ Release(w)
    /\ UNCHANGED <<version, closing, erased, faults>>

\* The except clause, in a transaction of its own.
Fail(w) ==
    /\ At(w, "failing") /\ rowLock[Mine(w)] = Free
    /\ IF Owned(w)
       THEN LET n == job[Mine(w)].failures + 1 IN
            Settle(Mine(w), [NoJob EXCEPT !.state = IF n >= MaxFailures THEN "failed" ELSE "retry", !.failures = n])
       ELSE UNCHANGED job
    /\ Become(w, Idle)
    /\ UNCHANGED <<version, seen, marked, rowLock, account, closing, erased, faults>>

\* retry, by an administrator.
Retry(j) ==
    /\ rowLock[j] = Free /\ Fault
    /\ \/ job[j].state \in {"failed", "retry"}
       \/ j = Reconcile /\ job[j].state = "processed"
       \/ job[j].state = "processing" /\ ~job[j].live
    /\ Settle(j, Pending)
    /\ UNCHANGED <<version, seen, marked, worker, rowLock, account, closing, erased>>

-----------------------------------------------------------------------------
(* Closing the account (account_closure_service).                          *)

RequestClosure ==
    /\ ~closing /\ account = Free
    /\ closing' = TRUE
    /\ UNCHANGED <<version, seen, marked, job, worker, rowLock, account, erased, faults>>

CloseLock ==
    /\ closing /\ ~erased /\ account = Free
    /\ account' = Closer
    /\ UNCHANGED <<version, seen, marked, job, worker, rowLock, closing, erased, faults>>

\* erase_personal_data deletes the account's jobs, and waits for their rows.  What
\* the closure's own calls to Stripe save before is not an observation, nor `seen`.
CloseErase ==
    /\ account = Closer /\ \A j \in Jobs : rowLock[j] = Free
    /\ job' = [j \in Jobs |-> NoJob]
    /\ erased' = TRUE /\ account' = Free
    /\ UNCHANGED <<version, seen, marked, worker, rowLock, closing, faults>>

\* A worker that holds its job's row waits for the account while the closure,
\* which holds the account, waits for that row: the database aborts one of them.
BreakDeadlock(w) ==
    /\ account = Closer /\ At(w, "begun")
    /\ \/ account' = Free /\ UNCHANGED <<worker, rowLock>>
       \/ Step(w, "failing") /\ Release(w)
    /\ UNCHANGED <<version, seen, marked, job, closing, erased, faults>>

-----------------------------------------------------------------------------
(* Faults.                                                                 *)

\* A call to Stripe fails.
Raise(w) ==
    /\ At(w, "fetch") /\ Fault
    /\ Step(w, "failing") /\ Release(w)
    /\ UNCHANGED <<version, seen, marked, job, closing, erased>>

Crash(w) ==
    /\ ~At(w, "idle") /\ Fault
    /\ Become(w, Idle) /\ Release(w)
    /\ UNCHANGED <<version, seen, marked, job, closing, erased>>

\* The deadline of a claim passes: its worker is gone, or slower than it.
Working(j) == \E w \in Workers : ~At(w, "idle") /\ Mine(w) = j /\ job[j].token = w
Lapse(j) ==
    /\ job[j].state = "processing" /\ job[j].live
    /\ IF Working(j) THEN Fault ELSE UNCHANGED faults
    /\ Settle(j, [job[j] EXCEPT !.live = FALSE])
    /\ UNCHANGED <<version, seen, marked, worker, rowLock, account, closing, erased>>

Work(w) == Begin(w) \/ LockAccount(w) \/ Fetch(w) \/ Commit(w) \/ Fail(w)

\* Nothing is left to do for an account that was closed.
Closed == erased /\ (\A w \in Workers : At(w, "idle")) /\ UNCHANGED vars

Next ==
    \/ Closed
    \/ Advance \/ Refresh \/ Seed \/ RequestClosure \/ CloseLock \/ CloseErase
    \/ \E e \in Events : Receive(e)
    \/ \E w \in Workers : Work(w) \/ BreakDeadlock(w) \/ Raise(w) \/ Crash(w) \/ \E j \in Jobs : Claim(w, j)
    \/ \E j \in Jobs : Lapse(j) \/ Retry(j)

\* The loops run for ever and claim the job that has waited longest; deadlines
\* pass.  Nothing makes Stripe deliver an event or a window refresh.
Fairness ==
    /\ WF_vars(Seed)
    /\ \A w \in Workers : SF_vars(Work(w)) /\ WF_vars(BreakDeadlock(w))
    /\ \A j \in Jobs : SF_vars(\E w \in Workers : Claim(w, j)) /\ WF_vars(~Working(j) /\ Lapse(j))
    /\ WF_vars(CloseErase)

Spec == Init /\ [][Next]_vars /\ Fairness

-----------------------------------------------------------------------------
(* Properties.                                                             *)

\* Events that come late or out of order, slow workers and windows never take
\* the saved billing state back to an older one.
SeenOnlyForward == [][seen' >= seen]_seen

\* An event that is done with has had its effect: the saved state is at least
\* as new as the event, unless the account was closing.
ProcessedMeansSeen ==
    \A e \in Events : job[e].state = "processed" => seen >= e \/ closing

\* An event's marker and its job's completion stand or fall together, also when
\* the worker's claim ran out before its commit.
MarkedOnCompletion ==
    \A e \in marked : job[e].state = "processed" \/ erased

\* Nothing is observed by workers and windows for an account that is closing, not
\* even by a worker that had begun before the closure was requested.
ClosingIsSilent == [][closing => seen' = seen]_<<seen, closing>>

\* Whatever is lost, the saved state catches up with Stripe, unless the
\* reconciliation has failed for good or the account is closing.
CatchesUp == []<>(seen = version \/ job[Reconcile].state = "failed" \/ closing)
==============================================================================
