-------------------------- MODULE BillingSync_proofs --------------------------
(* The safety of the synchronisation, for any number of workers, versions,     *)
(* failures and faults. The argument is that of its locks: a worker holds its  *)
(* job's row from begun to its end and the account's row while it reads, so  *)
(* that nothing else is observed, and no closure is requested, between what it *)
(* reads at Stripe and what it saves.  After it, the theorem of BillingNotices, *)
(* with which it shares no state.                                              *)
EXTENDS BillingSync, BillingNotices, FiniteSetTheorems, SequenceTheorems, TLAPS

Busy  == {"begun", "fetch", "fetched"}
Reads == {"fetch", "fetched"}

LocksHeld ==
    \A w \in Workers :
        /\ \A j \in Jobs : rowLock[j] = w <=> worker[w].pc \in Busy /\ worker[w].job = j
        /\ account = w <=> worker[w].pc \in Reads

ReadsAreCurrent ==
    \A w \in Workers :
        /\ worker[w].job <= version
        /\ worker[w].pc \in Reads => ~closing
        /\ worker[w].pc = "fetched" =>
              seen <= worker[w].got /\ worker[w].got <= version /\ worker[w].job <= worker[w].got

JobsAreKnown ==
    /\ \A j \in Jobs : job[j].state # "failed" => job[j].failures < MaxFailures
    /\ \A e \in Events : ~job[e].again /\ (job[e].state # "none" => e <= version)

MarksAreSeen == \A e \in marked : e <= seen

SyncInv ==
    /\ TypeOK /\ LocksHeld /\ ReadsAreCurrent /\ JobsAreKnown /\ MarksAreSeen
    /\ ProcessedMeansSeen /\ MarkedOnCompletion
    /\ (erased \/ account = Closer) => closing

-----------------------------------------------------------------------------
(* Typed records.                                                              *)

LEMMA PlaceTyped ==
    ASSUME NEW p \in Place
    PROVE  /\ p.pc \in {"idle", "claimed", "begun", "fetch", "fetched", "failing"}
           /\ p.job \in Jobs /\ p.got \in 0 .. MaxVersion
  BY DEF Place

\* A place whose pc changes, alone or with what was read.
LEMMA PlaceMoves ==
    ASSUME NEW p \in Place, NEW pc \in {"begun", "fetch", "fetched", "failing"}
    PROVE  /\ [p EXCEPT !.pc = pc] \in Place
           /\ [p EXCEPT !.pc = pc].pc = pc
           /\ [p EXCEPT !.pc = pc].job = p.job
  BY DEF Place

LEMMA PlaceReads ==
    ASSUME NEW p \in Place, NEW got \in 0 .. MaxVersion
    PROVE  /\ [p EXCEPT !.pc = "fetched", !.got = got] \in Place
           /\ [p EXCEPT !.pc = "fetched", !.got = got].pc = "fetched"
           /\ [p EXCEPT !.pc = "fetched", !.got = got].job = p.job
           /\ [p EXCEPT !.pc = "fetched", !.got = got].got = got
  BY DEF Place

LEMMA PlaceClaims ==
    ASSUME NEW p \in Place, NEW j \in Jobs
    PROVE  /\ [p EXCEPT !.pc = "claimed", !.job = j] \in Place
           /\ [p EXCEPT !.pc = "claimed", !.job = j].pc = "claimed"
           /\ [p EXCEPT !.pc = "claimed", !.job = j].job = j
  BY DEF Place

LEMMA IdlePlace == Idle \in Place /\ Idle.pc = "idle" /\ Idle.job = 0
  BY SyncAssumption DEF Idle, Place, Jobs, Reconcile, Events

LEMMA NoJobTyped ==
    /\ NoJob \in Job
    /\ NoJob.state = "none" /\ NoJob.failures = 0 /\ NoJob.again = FALSE
  BY SyncAssumption DEF NoJob, Job

\* What each transition makes of a job's row.
LEMMA JobTyped ==
    ASSUME NEW row \in Job
    PROVE  /\ row.failures \in 0 .. MaxFailures /\ row.again \in BOOLEAN
           /\ row.state \in {"none", "pending", "processing", "retry", "failed", "processed"}
  BY DEF Job

LEMMA JobPends ==
    ASSUME NEW row \in Job
    PROVE  /\ [row EXCEPT !.state = "pending"] \in Job
           /\ [row EXCEPT !.state = "pending"].state = "pending"
           /\ [row EXCEPT !.state = "pending"].failures = row.failures
           /\ [row EXCEPT !.state = "pending"].again = row.again
  BY DEF Job

LEMMA JobClaims ==
    ASSUME NEW row \in Job, NEW w \in Workers
    PROVE  LET new == [row EXCEPT !.state = "processing", !.token = w, !.live = TRUE, !.again = FALSE] IN
           new \in Job /\ new.state = "processing" /\ new.failures = row.failures /\ new.again = FALSE
  BY DEF Job

LEMMA JobLapses ==
    ASSUME NEW row \in Job
    PROVE  LET new == [row EXCEPT !.live = FALSE] IN
           new \in Job /\ new.state = row.state /\ new.failures = row.failures /\ new.again = row.again
  BY DEF Job

LEMMA JobCloses ==
    ASSUME NEW row \in Job, NEW n \in 0 .. MaxFailures
    PROVE  LET new == [row EXCEPT !.state = "processed", !.failures = n] IN
           new \in Job /\ new.state = "processed" /\ new.failures = n /\ new.again = row.again
  BY DEF Job

LEMMA JobCompletes ==
    ASSUME NEW row \in Job, NEW more \in BOOLEAN
    PROVE  LET new == [row EXCEPT !.state = "processed", !.again = more] IN
           new \in Job /\ new.state = "processed" /\ new.failures = row.failures /\ new.again = more
  BY DEF Job

LEMMA JobFails ==
    ASSUME NEW row \in Job, NEW n \in 0 .. MaxFailures
    PROVE  LET new == [row EXCEPT !.state = "failed", !.failures = n] IN
           new \in Job /\ new.state = "failed" /\ new.failures = n /\ new.again = row.again
  BY DEF Job

LEMMA JobRetries ==
    ASSUME NEW row \in Job, NEW n \in 0 .. MaxFailures
    PROVE  LET new == [row EXCEPT !.state = "retry", !.failures = n] IN
           new \in Job /\ new.state = "retry" /\ new.failures = n /\ new.again = row.again
  BY DEF Job

LEMMA JobNumbers == \A j \in Jobs : j \in Nat /\ j <= MaxVersion
  BY SyncAssumption DEF Jobs, Events, Reconcile

LEMMA Typed ==
    ASSUME TypeOK
    PROVE  /\ \A w \in Workers : /\ worker[w] \in Place /\ worker[w].job \in Jobs /\ worker[w].job \in Nat
                                 /\ worker[w].got \in Nat /\ worker[w].got <= MaxVersion
           /\ \A j \in Jobs : /\ job[j] \in Job /\ job[j].failures \in 0 .. MaxFailures
           /\ version \in Nat /\ version <= MaxVersion /\ seen \in Nat /\ seen <= version
<1>1. ASSUME NEW w \in Workers
      PROVE  /\ worker[w] \in Place /\ worker[w].job \in Jobs /\ worker[w].job \in Nat
             /\ worker[w].got \in Nat /\ worker[w].got <= MaxVersion
  <2>1. worker[w] \in Place
    BY DEF TypeOK
  <2>2. worker[w].job \in Jobs /\ worker[w].got \in 0 .. MaxVersion
    BY <2>1, PlaceTyped
  <2> QED
    BY <2>1, <2>2, JobNumbers, SyncAssumption
<1>2. ASSUME NEW j \in Jobs PROVE job[j] \in Job /\ job[j].failures \in 0 .. MaxFailures
  <2>1. job[j] \in Job
    BY DEF TypeOK
  <2> QED BY <2>1, JobTyped
<1> QED
  BY <1>1, <1>2, SyncAssumption DEF TypeOK

-----------------------------------------------------------------------------
(* Steps that only change one worker's place, and give its locks up or keep them. *)

\* What a step of a worker does to its place and to the locks.
Keeps(w, p) ==
    /\ worker' = [worker EXCEPT ![w] = p]
    /\ UNCHANGED <<rowLock, account>>
Leaves(w, p) ==
    /\ worker' = [worker EXCEPT ![w] = p]
    /\ Release(w)

LEMMA KeepsLocks ==
    ASSUME TypeOK, LocksHeld, NEW w \in Workers, NEW p \in Place, Keeps(w, p),
           \/ p.pc \notin Busy /\ worker[w].pc \notin Busy
           \/ p.pc \in Busy /\ worker[w].pc \in Busy /\ p.job = worker[w].job /\ (p.pc \in Reads <=> worker[w].pc \in Reads)
    PROVE  LocksHeld'
<1>1. \A v \in Workers : worker'[v] = IF v = w THEN p ELSE worker[v]
  BY DEF Keeps, TypeOK
<1>2. rowLock' = rowLock /\ account' = account
  BY DEF Keeps
<1> QED
  BY <1>1, <1>2 DEF LocksHeld, Busy, Reads

LEMMA LeavesLocks ==
    ASSUME TypeOK, LocksHeld, NEW w \in Workers, NEW p \in Place, Leaves(w, p), p.pc \notin Busy
    PROVE  LocksHeld' /\ rowLock' \in [Jobs -> Workers \cup {Free}] /\ account' \in Workers \cup {Free, Closer}
<1>1. \A v \in Workers : worker'[v] = IF v = w THEN p ELSE worker[v]
  BY DEF Leaves, TypeOK
<1>2. /\ \A j \in Jobs : rowLock'[j] = IF rowLock[j] = w THEN Free ELSE rowLock[j]
      /\ account' = IF account = w THEN Free ELSE account
  BY DEF Leaves, Release
<1>3. \A v \in Workers : v # Free
  BY SyncAssumption DEF Free
<1>4. LocksHeld'
  BY <1>1, <1>2, <1>3 DEF LocksHeld, Busy, Reads
<1> QED
  BY <1>2, <1>4 DEF Leaves, Release, TypeOK

\* A worker that moves to a place whose job it had, or to none, and does not read.
LEMMA KeepsReads ==
    ASSUME TypeOK, ReadsAreCurrent, NEW w \in Workers, NEW p \in Place,
           worker' = [worker EXCEPT ![w] = p], p.job <= version, p.pc \notin Reads,
           UNCHANGED <<version, closing>>, seen' = seen
    PROVE  ReadsAreCurrent'
<1>1. \A v \in Workers : worker'[v] = IF v = w THEN p ELSE worker[v]
  BY DEF TypeOK
<1> QED
  BY <1>1 DEF ReadsAreCurrent, Reads

\* The jobs' part of the invariant holds where no job changes and seen may grow.
LEMMA SameJobs ==
    ASSUME SyncInv, UNCHANGED <<job, marked, erased>>, version <= version', seen <= seen',
           closing => closing', version' \in Nat, seen' \in Nat
    PROVE  JobsAreKnown' /\ MarksAreSeen' /\ ProcessedMeansSeen' /\ MarkedOnCompletion'
<1>1. \A e \in Events : e \in Nat
  BY DEF Events
<1>2. version \in Nat /\ seen \in Nat /\ marked \subseteq Events
  BY Typed DEF SyncInv, TypeOK
<1> QED
  BY <1>1, <1>2 DEF SyncInv, JobsAreKnown, MarksAreSeen, ProcessedMeansSeen, MarkedOnCompletion

\* A job that is not completed is replaced by one that is not completed.
LEMMA OneJob ==
    ASSUME SyncInv, NEW j \in Jobs, NEW value \in Job, Settle(j, value),
           UNCHANGED <<version, seen, marked, closing, erased>>,
           job[j].state # "processed" \/ j = Reconcile,
           value.state = "processed" /\ j # Reconcile => closing,
           value.state # "failed" => value.failures < MaxFailures,
           j # Reconcile => ~value.again, j <= version
    PROVE  /\ job' \in [Jobs -> Job]
           /\ JobsAreKnown' /\ MarksAreSeen' /\ ProcessedMeansSeen' /\ MarkedOnCompletion'
<1>1. \A k \in Jobs : job'[k] = IF k = j THEN value ELSE job[k]
  BY DEF Settle, SyncInv, TypeOK
<1>2. job' \in [Jobs -> Job]
  BY DEF Settle, SyncInv, TypeOK
<1>3. \A e \in Events : e \in Jobs /\ e # Reconcile
  BY DEF Events, Jobs, Reconcile
<1>4. marked \subseteq Events
  BY DEF SyncInv, TypeOK
<1>5. JobsAreKnown'
  BY <1>1, <1>3 DEF SyncInv, JobsAreKnown
<1>6. ProcessedMeansSeen' /\ MarksAreSeen'
  BY <1>1, <1>3 DEF SyncInv, ProcessedMeansSeen, MarksAreSeen
<1>7. MarkedOnCompletion'
  BY <1>1, <1>3, <1>4 DEF SyncInv, MarkedOnCompletion
<1> QED
  BY <1>2, <1>5, <1>6, <1>7

-----------------------------------------------------------------------------
(* The actions.                                                                *)

LEMMA Outside ==
    ASSUME SyncInv, Advance \/ Refresh \/ RequestClosure \/ CloseLock
    PROVE  SyncInv'
<1>1. /\ UNCHANGED <<job, marked, worker, rowLock, erased, faults>>
      /\ version <= version' /\ version' <= MaxVersion /\ version' \in Nat
      /\ seen <= seen' /\ seen' <= version' /\ seen' \in Nat
      /\ closing => closing'
  BY Typed, SyncAssumption DEF SyncInv, Advance, Refresh, RequestClosure, CloseLock
<1>2. account' \in Workers \cup {Free, Closer} /\ closing' \in BOOLEAN
  BY DEF SyncInv, TypeOK, Advance, Refresh, RequestClosure, CloseLock
<1>3. TypeOK'
  BY <1>1, <1>2, SyncAssumption DEF SyncInv, TypeOK
<1>4. \A w \in Workers : account' = w <=> account = w
  BY SyncAssumption DEF Advance, Refresh, RequestClosure, CloseLock, Free, Closer
<1>5. LocksHeld'
  BY <1>1, <1>4 DEF SyncInv, LocksHeld
<1>6. ReadsAreCurrent'
  <2>1. \A w \in Workers : worker[w].job \in Nat /\ worker[w].got \in Nat
    BY Typed DEF SyncInv
  <2>2. ASSUME NEW w \in Workers, worker[w].pc \in Reads PROVE seen' = seen /\ closing' = closing
    <3>1. account = w
      BY <2>2 DEF SyncInv, LocksHeld
    <3>2. account # Free
      BY <3>1, SyncAssumption DEF Free
    <3>3. closing = FALSE
      BY <2>2 DEF SyncInv, ReadsAreCurrent, TypeOK
    <3> QED
      BY <3>2, <3>3 DEF Advance, Refresh, RequestClosure, CloseLock
  <2> QED
    BY <1>1, <2>1, <2>2, Typed DEF SyncInv, ReadsAreCurrent, Reads
<1>7. JobsAreKnown' /\ MarksAreSeen' /\ ProcessedMeansSeen' /\ MarkedOnCompletion'
  BY <1>1, SameJobs
<1>8. (erased' \/ account' = Closer) => closing'
  BY <1>1 DEF SyncInv, Advance, Refresh, RequestClosure, CloseLock
<1> QED
  BY <1>1, <1>3, <1>5, <1>6, <1>7, <1>8 DEF SyncInv

LEMMA ReceivesAndSeeds ==
    ASSUME SyncInv, Seed \/ \E e \in Events : Receive(e)
    PROVE  SyncInv'
<1>1. PICK j \in Jobs : /\ Settle(j, Pending) /\ job[j].state = "none" /\ j <= version
                        /\ UNCHANGED <<version, seen, marked, worker, rowLock, account, closing, erased, faults>>
  BY Typed DEF SyncInv, Seed, Receive, Settle, Jobs, Reconcile
<1>2. Pending \in Job /\ Pending.state = "pending" /\ Pending.failures = 0 /\ Pending.again = FALSE
  BY NoJobTyped, JobPends DEF Pending
<1>3. /\ job' \in [Jobs -> Job]
      /\ JobsAreKnown' /\ MarksAreSeen' /\ ProcessedMeansSeen' /\ MarkedOnCompletion'
  <2>1. 0 < MaxFailures
    BY SyncAssumption
  <2> QED BY <1>1, <1>2, <2>1, OneJob
<1> QED
  BY <1>1, <1>3 DEF SyncInv, TypeOK, LocksHeld, ReadsAreCurrent

\* The job's row alone changes: nobody holds it, or it is not locked at all.
LEMMA JobOnly ==
    ASSUME SyncInv, NEW j \in Jobs, NEW value \in Job, Settle(j, value),
           UNCHANGED <<version, seen, marked, worker, rowLock, account, closing, erased>>,
           faults' \in 0 .. MaxFaults,
           job[j].state # "processed" \/ j = Reconcile,
           value.state = "processed" /\ j # Reconcile => closing,
           value.state # "failed" => value.failures < MaxFailures,
           j # Reconcile => ~value.again, j <= version
    PROVE  SyncInv'
<1>1. /\ job' \in [Jobs -> Job]
      /\ JobsAreKnown' /\ MarksAreSeen' /\ ProcessedMeansSeen' /\ MarkedOnCompletion'
  BY OneJob
<1> QED
  BY <1>1 DEF SyncInv, TypeOK, LocksHeld, ReadsAreCurrent

LEMMA Faulted == TypeOK /\ Fault => faults' \in 0 .. MaxFaults
  BY SyncAssumption DEF TypeOK, Fault

\* A job that has been received is one of a version Stripe has reached.
LEMMA Received ==
    ASSUME SyncInv, NEW j \in Jobs, job[j].state # "none"
    PROVE  j <= version
  BY Typed DEF SyncInv, JobsAreKnown, Jobs, Reconcile

LEMMA Retries ==
    ASSUME SyncInv, NEW j \in Jobs, Retry(j)
    PROVE  SyncInv'
<1>1. Pending \in Job /\ Pending.state = "pending" /\ Pending.failures = 0 /\ Pending.again = FALSE
  BY NoJobTyped, JobPends DEF Pending
<1>2. j <= version
  BY Received DEF Retry
<1>3. faults' \in 0 .. MaxFaults
  BY Faulted DEF SyncInv, Retry
<1>4. 0 < MaxFailures
  BY SyncAssumption
<1>5. /\ Settle(j, Pending) /\ (job[j].state # "processed" \/ j = Reconcile)
      /\ UNCHANGED <<version, seen, marked, worker, rowLock, account, closing, erased>>
  BY DEF Retry
<1> QED
  BY <1>1, <1>2, <1>3, <1>4, <1>5, JobOnly

LEMMA Lapses ==
    ASSUME SyncInv, NEW j \in Jobs, Lapse(j)
    PROVE  SyncInv'
<1> DEFINE value == [job[j] EXCEPT !.live = FALSE]
<1>1. /\ value \in Job /\ value.state = "processing"
      /\ value.failures = job[j].failures /\ value.again = job[j].again
  BY Typed, JobLapses DEF SyncInv, Lapse
<1>2. /\ job[j].failures < MaxFailures /\ j <= version /\ (j # Reconcile => ~job[j].again)
      /\ job[j].state = "processing"
  BY Received DEF SyncInv, JobsAreKnown, Jobs, Lapse
<1>3. faults' \in 0 .. MaxFaults
  BY Faulted DEF SyncInv, TypeOK, Lapse
<1>4. /\ Settle(j, value)
      /\ UNCHANGED <<version, seen, marked, worker, rowLock, account, closing, erased>>
  BY DEF Lapse
<1> HIDE DEF value
<1> QED
  BY <1>1, <1>2, <1>3, <1>4, JobOnly

\* A worker whose new place neither holds locks nor reads: what remains to show
\* is what becomes of the locks and of the jobs.
LEMMA Moves ==
    ASSUME SyncInv, NEW w \in Workers, NEW p \in Place, p.pc \notin Busy, p.job <= version,
           worker' = [worker EXCEPT ![w] = p],
           UNCHANGED <<version, seen, marked, closing, erased>>, faults' \in 0 .. MaxFaults,
           LocksHeld', rowLock' \in [Jobs -> Workers \cup {Free}],
           account' \in Workers \cup {Free, Closer}, account' = Closer => account = Closer,
           job' \in [Jobs -> Job],
           JobsAreKnown' /\ MarksAreSeen' /\ ProcessedMeansSeen' /\ MarkedOnCompletion'
    PROVE  SyncInv'
<1>1. worker' \in [Workers -> Place]
  BY DEF SyncInv, TypeOK
<1>2. TypeOK'
  BY <1>1 DEF SyncInv, TypeOK
<1>3. ReadsAreCurrent'
  BY KeepsReads DEF SyncInv, Reads, Busy
<1> QED
  BY <1>2, <1>3 DEF SyncInv

LEMMA MovesAndKeeps ==
    ASSUME SyncInv, NEW w \in Workers, NEW p \in Place, p.pc \notin Busy, p.job <= version,
           worker[w].pc \notin Busy, Keeps(w, p),
           UNCHANGED <<version, seen, marked, closing, erased>>, faults' \in 0 .. MaxFaults,
           job' \in [Jobs -> Job],
           JobsAreKnown' /\ MarksAreSeen' /\ ProcessedMeansSeen' /\ MarkedOnCompletion'
    PROVE  SyncInv'
<1>1. LocksHeld'
  BY KeepsLocks DEF SyncInv
<1>2. /\ worker' = [worker EXCEPT ![w] = p] /\ rowLock' = rowLock /\ account' = account
      /\ rowLock \in [Jobs -> Workers \cup {Free}] /\ account \in Workers \cup {Free, Closer}
  BY DEF Keeps, SyncInv, TypeOK
<1> QED
  BY <1>1, <1>2, Moves

LEMMA MovesAndLeaves ==
    ASSUME SyncInv, NEW w \in Workers, NEW p \in Place, p.pc \notin Busy, p.job <= version,
           Leaves(w, p), UNCHANGED <<version, seen, marked, job, closing, erased>>, faults' \in 0 .. MaxFaults
    PROVE  SyncInv'
<1>1. LocksHeld' /\ rowLock' \in [Jobs -> Workers \cup {Free}] /\ account' \in Workers \cup {Free, Closer}
  BY LeavesLocks DEF SyncInv
<1>2. worker' = [worker EXCEPT ![w] = p] /\ (account' = Closer => account = Closer)
  BY DEF Leaves, Release, Free, Closer
<1>3. JobsAreKnown' /\ MarksAreSeen' /\ ProcessedMeansSeen' /\ MarkedOnCompletion' /\ job' \in [Jobs -> Job]
  BY DEF SyncInv, TypeOK, JobsAreKnown, MarksAreSeen, ProcessedMeansSeen, MarkedOnCompletion
<1> QED
  BY <1>1, <1>2, <1>3, Moves

LEMMA Claims ==
    ASSUME SyncInv, NEW w \in Workers, NEW j \in Jobs, Claim(w, j)
    PROVE  SyncInv'
<1> DEFINE value == [job[j] EXCEPT !.state = "processing", !.token = w, !.live = TRUE, !.again = FALSE]
           p     == [Idle EXCEPT !.pc = "claimed", !.job = j]
<1>1. value \in Job /\ value.state = "processing" /\ value.failures = job[j].failures /\ value.again = FALSE
  BY Typed, JobClaims DEF SyncInv
<1>2. p \in Place /\ p.pc = "claimed" /\ p.job = j
  BY IdlePlace, PlaceClaims
<1>3. /\ job[j].state \notin {"none", "failed"} /\ (job[j].state # "processed" \/ j = Reconcile)
      /\ job[j].failures < MaxFailures
  BY DEF SyncInv, JobsAreKnown, Jobs, Claim, Due
<1>4. j <= version
  BY <1>3, Received
<1>5. /\ Settle(j, value) /\ Keeps(w, p) /\ worker[w].pc \notin Busy
      /\ UNCHANGED <<version, seen, marked, closing, erased, faults>>
  BY DEF Claim, Become, Keeps, At, Busy
<1> HIDE DEF value, p
<1>6. /\ job' \in [Jobs -> Job]
      /\ JobsAreKnown' /\ MarksAreSeen' /\ ProcessedMeansSeen' /\ MarkedOnCompletion'
  BY <1>1, <1>3, <1>4, <1>5, OneJob
<1>7. p.pc \notin Busy /\ faults' \in 0 .. MaxFaults
  BY <1>2, <1>5 DEF Busy, SyncInv, TypeOK
<1> QED
  BY <1>2, <1>4, <1>5, <1>6, <1>7, MovesAndKeeps

\* What an owner knows of its job.
LEMMA Owning ==
    ASSUME SyncInv, NEW w \in Workers
    PROVE  /\ Mine(w) \in Jobs /\ Mine(w) <= version
           /\ Owned(w) => /\ job[Mine(w)].state = "processing"
                          /\ job[Mine(w)].failures < MaxFailures /\ job[Mine(w)].failures \in 0 .. MaxFailures
                          /\ Mine(w) # Reconcile => job[Mine(w)].again = FALSE
<1>1. Mine(w) \in Jobs /\ Mine(w) <= version /\ job[Mine(w)] \in Job
  BY Typed DEF SyncInv, ReadsAreCurrent, Mine
<1>2. job[Mine(w)].failures \in 0 .. MaxFailures /\ job[Mine(w)].again \in BOOLEAN
  BY <1>1, JobTyped
<1> QED
  BY <1>1, <1>2 DEF SyncInv, JobsAreKnown, Owned, Jobs

LEMMA Begins ==
    ASSUME SyncInv, NEW w \in Workers, Begin(w)
    PROVE  SyncInv'
<1>1. /\ Mine(w) \in Jobs /\ Mine(w) <= version /\ worker[w] \in Place /\ worker[w].pc = "claimed"
      /\ rowLock[Mine(w)] = Free
      /\ UNCHANGED <<version, seen, marked, account, closing, erased, faults>>
      /\ faults' \in 0 .. MaxFaults
  BY Owning, Typed DEF SyncInv, Begin, At, TypeOK
<1>2. 0 <= version /\ Idle.pc \notin Busy /\ worker[w].pc \notin Busy
  BY <1>1, IdlePlace, Typed DEF SyncInv, Busy
<1>3. ASSUME ~Owned(w), Become(w, Idle), UNCHANGED <<job, rowLock>> PROVE SyncInv'
  <2>1. JobsAreKnown' /\ MarksAreSeen' /\ ProcessedMeansSeen' /\ MarkedOnCompletion' /\ job' \in [Jobs -> Job]
    BY <1>1, <1>3 DEF SyncInv, TypeOK, JobsAreKnown, MarksAreSeen, ProcessedMeansSeen, MarkedOnCompletion
  <2> QED
    BY <1>1, <1>2, <1>3, <2>1, IdlePlace, MovesAndKeeps DEF Keeps, Become
<1>4. ASSUME Owned(w), closing, UNCHANGED rowLock, Become(w, Idle),
             Settle(Mine(w), [NoJob EXCEPT !.state = "processed", !.failures = job[Mine(w)].failures])
      PROVE  SyncInv'
  <2> DEFINE value == [NoJob EXCEPT !.state = "processed", !.failures = job[Mine(w)].failures]
  <2>1. /\ job[Mine(w)].failures \in 0 .. MaxFailures /\ job[Mine(w)].failures < MaxFailures
        /\ job[Mine(w)].state = "processing"
    BY <1>4, Owning
  <2>2. value \in Job /\ value.state = "processed" /\ value.failures = job[Mine(w)].failures /\ value.again = FALSE
    BY <2>1, NoJobTyped, JobCloses
  <2>3. Settle(Mine(w), value)
    BY <1>4
  <2> HIDE DEF value
  <2>4. /\ job' \in [Jobs -> Job]
        /\ JobsAreKnown' /\ MarksAreSeen' /\ ProcessedMeansSeen' /\ MarkedOnCompletion'
    BY <1>1, <1>4, <2>1, <2>2, <2>3, OneJob
  <2> QED
    BY <1>1, <1>2, <1>4, <2>4, IdlePlace, MovesAndKeeps DEF Keeps, Become
<1>5. ASSUME rowLock' = [rowLock EXCEPT ![Mine(w)] = w], Step(w, "begun"), UNCHANGED job PROVE SyncInv'
  <2>1. PICK p \in Place : /\ p.pc = "begun" /\ p.job = Mine(w)
                           /\ worker' = [worker EXCEPT ![w] = p]
    <3>1. "begun" \in {"begun", "fetch", "fetched", "failing"}
      OBVIOUS
    <3> QED
      BY <1>1, <1>5, <3>1, PlaceMoves DEF Step, Become, Mine
  <2>2. \A v \in Workers : worker'[v] = IF v = w THEN p ELSE worker[v]
    BY <2>1 DEF SyncInv, TypeOK
  <2>3. \A j \in Jobs : rowLock'[j] = IF j = Mine(w) THEN w ELSE rowLock[j]
    BY <1>5 DEF SyncInv, TypeOK
  <2>4. \A v \in Workers : v # Free
    BY SyncAssumption DEF Free
  <2>5. LocksHeld'
    BY <1>1, <2>1, <2>2, <2>3, <2>4 DEF SyncInv, LocksHeld, Busy, Reads, Mine
  <2>6. ReadsAreCurrent'
    BY <1>1, <2>1, KeepsReads DEF SyncInv, Reads
  <2>7. TypeOK'
    BY <1>1, <1>5, <2>1 DEF SyncInv, TypeOK
  <2> QED
    BY <1>1, <1>5, <2>5, <2>6, <2>7
       DEF SyncInv, JobsAreKnown, MarksAreSeen, ProcessedMeansSeen, MarkedOnCompletion
<1> QED
  BY <1>3, <1>4, <1>5 DEF Begin

LEMMA LocksAccount ==
    ASSUME SyncInv, NEW w \in Workers, LockAccount(w)
    PROVE  SyncInv'
<1>1. /\ Mine(w) \in Jobs /\ Mine(w) <= version /\ worker[w] \in Place /\ worker[w].pc = "begun"
      /\ account = Free
      /\ UNCHANGED <<version, seen, marked, job, closing, erased, faults>>
      /\ faults' \in 0 .. MaxFaults
  BY Owning, Typed DEF SyncInv, LockAccount, At, TypeOK
<1>2. ASSUME Step(w, "failing"), Release(w) PROVE SyncInv'
  <2>1. "failing" \in {"begun", "fetch", "fetched", "failing"}
    OBVIOUS
  <2>2. PICK p \in Place : p.pc = "failing" /\ p.job = Mine(w) /\ Leaves(w, p)
    BY <1>1, <1>2, <2>1, PlaceMoves DEF Step, Become, Mine, Leaves
  <2> QED
    BY <1>1, <2>2, MovesAndLeaves DEF Busy
<1>3. ASSUME NEW p \in Place, worker' = [worker EXCEPT ![w] = p], p.job = Mine(w), p.pc \in Reads,
             p.pc = "fetched" => p.got = seen /\ Mine(w) \in marked,
             account' = w, UNCHANGED rowLock, ~closing
      PROVE  SyncInv'
  <2>1. \A v \in Workers : worker'[v] = IF v = w THEN p ELSE worker[v]
    BY <1>3 DEF SyncInv, TypeOK
  <2>2. \A v \in Workers : v # Free
    BY SyncAssumption DEF Free
  <2>3. LocksHeld'
    BY <1>1, <1>3, <2>1, <2>2 DEF SyncInv, LocksHeld, Busy, Reads, Mine
  <2>4. ReadsAreCurrent'
    BY <1>1, <1>3, <2>1, Typed DEF SyncInv, ReadsAreCurrent, MarksAreSeen, Mine
  <2>5. TypeOK'
    BY <1>1, <1>3 DEF SyncInv, TypeOK
  <2>6. w # Closer
    BY SyncAssumption DEF Closer
  <2> QED
    BY <1>1, <1>3, <2>3, <2>4, <2>5, <2>6
       DEF SyncInv, JobsAreKnown, MarksAreSeen, ProcessedMeansSeen, MarkedOnCompletion
<1>4. CASE Refused(w)
  BY <1>2, <1>4 DEF LockAccount
<1>5. CASE ~Refused(w)
  <2>1. account' = w /\ UNCHANGED rowLock /\ ~closing
    BY <1>5 DEF LockAccount, Takes, Refused
  <2>2. CASE Mine(w) \in marked
    <3>1. seen \in 0 .. MaxVersion
      BY Typed, SyncAssumption DEF SyncInv
    <3> DEFINE p == [worker[w] EXCEPT !.pc = "fetched", !.got = seen]
    <3>2. worker' = [worker EXCEPT ![w] = p]
      BY <1>5, <2>2 DEF LockAccount, Become
    <3>3. p \in Place /\ p.pc = "fetched" /\ p.job = Mine(w) /\ p.got = seen
      BY <1>1, <3>1, PlaceReads DEF Mine
    <3> HIDE DEF p
    <3> QED
      BY <1>3, <2>1, <2>2, <3>2, <3>3 DEF Reads
  <2>3. CASE Mine(w) \notin marked
    <3>1. "fetch" \in {"begun", "fetch", "fetched", "failing"}
      OBVIOUS
    <3>2. worker' = [worker EXCEPT ![w] = [worker[w] EXCEPT !.pc = "fetch"]]
      BY <1>5, <2>3 DEF LockAccount, Become, Step
    <3>3. PICK p \in Place : worker' = [worker EXCEPT ![w] = p] /\ p.pc = "fetch" /\ p.job = Mine(w)
      BY <1>1, <3>1, <3>2, PlaceMoves DEF Mine
    <3> QED
      BY <1>3, <2>1, <3>3 DEF Reads
  <2> QED
    BY <2>2, <2>3
<1> QED
  BY <1>4, <1>5

LEMMA Fetches ==
    ASSUME SyncInv, NEW w \in Workers, Fetch(w)
    PROVE  SyncInv'
<1>1. /\ worker[w] \in Place /\ worker[w].pc = "fetch" /\ worker[w].job \in Nat /\ worker[w].job <= version
      /\ version \in 0 .. MaxVersion /\ ~closing
      /\ UNCHANGED <<version, seen, marked, job, rowLock, account, closing, erased, faults>>
      /\ worker' = [worker EXCEPT ![w] = [worker[w] EXCEPT !.pc = "fetched", !.got = version]]
  BY Typed, SyncAssumption DEF SyncInv, ReadsAreCurrent, Reads, Fetch, At, Become
<1> DEFINE p == [worker[w] EXCEPT !.pc = "fetched", !.got = version]
<1>2. p \in Place /\ p.pc = "fetched" /\ p.job = worker[w].job /\ p.got = version
  BY <1>1, PlaceReads
<1>3. worker' = [worker EXCEPT ![w] = p]
  BY <1>1
<1> HIDE DEF p
<1>4. \A v \in Workers : worker'[v] = IF v = w THEN p ELSE worker[v]
  BY <1>3 DEF SyncInv, TypeOK
<1>5. LocksHeld'
  BY <1>1, <1>2, <1>3, KeepsLocks DEF SyncInv, Keeps, Busy, Reads
<1>6. ReadsAreCurrent'
  BY <1>1, <1>2, <1>4, Typed DEF SyncInv, ReadsAreCurrent
<1>7. TypeOK'
  BY <1>1, <1>2, <1>3 DEF SyncInv, TypeOK
<1> QED
  BY <1>1, <1>5, <1>6, <1>7
     DEF SyncInv, JobsAreKnown, MarksAreSeen, ProcessedMeansSeen, MarkedOnCompletion

LEMMA Fails ==
    ASSUME SyncInv, NEW w \in Workers, Fail(w)
    PROVE  SyncInv'
<1>1. /\ Mine(w) \in Jobs /\ Mine(w) <= version /\ worker[w].pc = "failing"
      /\ Keeps(w, Idle)
      /\ UNCHANGED <<version, seen, marked, closing, erased, faults>> /\ faults' \in 0 .. MaxFaults
  BY Owning DEF SyncInv, TypeOK, Fail, At, Become, Keeps
<1>2. /\ job' \in [Jobs -> Job]
      /\ JobsAreKnown' /\ MarksAreSeen' /\ ProcessedMeansSeen' /\ MarkedOnCompletion'
  <2>1. CASE Owned(w)
    <3>1. ASSUME NEW value \in Job, Settle(Mine(w), value), value.state # "processed",
                 value.state # "failed" => value.failures < MaxFailures, value.again = FALSE
          PROVE  /\ job' \in [Jobs -> Job]
                 /\ JobsAreKnown' /\ MarksAreSeen' /\ ProcessedMeansSeen' /\ MarkedOnCompletion'
      <4>1. job[Mine(w)].state = "processing"
        BY <2>1, Owning
      <4> QED
        BY <1>1, <3>1, <4>1, OneJob
    <3> DEFINE n == job[Mine(w)].failures + 1
    <3>2. n \in 0 .. MaxFailures
      <4>1. job[Mine(w)].failures \in 0 .. MaxFailures /\ job[Mine(w)].failures < MaxFailures
        BY <2>1, Owning
      <4> QED
        BY <4>1, SyncAssumption
    <3>3. Settle(Mine(w), [NoJob EXCEPT !.state = IF n >= MaxFailures THEN "failed" ELSE "retry", !.failures = n])
      BY <2>1 DEF Fail
    <3> HIDE DEF n
    <3>4. CASE n >= MaxFailures
      <4> DEFINE value == [NoJob EXCEPT !.state = "failed", !.failures = n]
      <4>1. value \in Job /\ value.state = "failed" /\ value.again = FALSE
        BY <3>2, NoJobTyped, JobFails
      <4>2. Settle(Mine(w), value)
        BY <3>3, <3>4
      <4> HIDE DEF value
      <4> QED
        BY <3>1, <4>1, <4>2
    <3>5. CASE ~(n >= MaxFailures)
      <4> DEFINE value == [NoJob EXCEPT !.state = "retry", !.failures = n]
      <4>1. value \in Job /\ value.state = "retry" /\ value.failures = n /\ value.again = FALSE
        BY <3>2, NoJobTyped, JobRetries
      <4>2. Settle(Mine(w), value)
        BY <3>3, <3>5
      <4>3. n < MaxFailures
        BY <3>2, <3>5, SyncAssumption
      <4> HIDE DEF value
      <4> QED
        BY <3>1, <4>1, <4>2, <4>3
    <3> QED
      BY <3>4, <3>5
  <2>2. CASE ~Owned(w)
    BY <1>1, <2>2 DEF Fail, SyncInv, TypeOK, JobsAreKnown, MarksAreSeen, ProcessedMeansSeen, MarkedOnCompletion
  <2> QED
    BY <2>1, <2>2
<1>3. Idle.pc \notin Busy /\ Idle.job <= version /\ worker[w].pc \notin Busy
  BY <1>1, IdlePlace, Typed DEF SyncInv, Busy
<1> QED
  BY <1>1, <1>2, <1>3, IdlePlace, MovesAndKeeps

\* What is observed is at least as new as what was saved and as the event itself.
LEMMA Commits ==
    ASSUME SyncInv, NEW w \in Workers, Commit(w)
    PROVE  SyncInv' /\ seen <= seen' /\ (closing => seen' = seen)
<1>1. /\ Mine(w) \in Jobs /\ worker[w].pc = "fetched" /\ Leaves(w, Idle)
      /\ UNCHANGED <<version, closing, erased, faults>>
  BY Owning DEF SyncInv, Commit, At, Become, Leaves
<1>2. /\ account = w /\ ~closing
      /\ seen <= worker[w].got /\ worker[w].got <= version /\ Mine(w) <= worker[w].got
      /\ \A v \in Workers : v # w => worker[v].pc \notin Reads
  BY <1>1 DEF SyncInv, LocksHeld, ReadsAreCurrent, Reads, Mine
<1>3. /\ Idle \in Place /\ Idle.pc \notin Reads /\ Idle.pc \notin Busy /\ Idle.job = 0 /\ 0 <= version
  BY IdlePlace, Typed DEF SyncInv, Reads, Busy
<1>4. LocksHeld' /\ rowLock' \in [Jobs -> Workers \cup {Free}] /\ account' \in Workers \cup {Free, Closer}
  BY <1>1, <1>3, LeavesLocks DEF SyncInv
<1>5. worker' \in [Workers -> Place] /\ \A v \in Workers : worker'[v] = IF v = w THEN Idle ELSE worker[v]
  BY <1>1, <1>3 DEF SyncInv, TypeOK, Leaves
<1>6. ReadsAreCurrent'
  BY <1>1, <1>2, <1>3, <1>5 DEF SyncInv, ReadsAreCurrent, Reads
<1>7. (erased' \/ account' = Closer) => closing'
  BY <1>1 DEF SyncInv, Leaves, Release, Free, Closer
<1>8. /\ seen' \in Nat /\ seen <= seen' /\ seen' <= version /\ marked' \subseteq Events
      /\ job' \in [Jobs -> Job]
      /\ JobsAreKnown' /\ MarksAreSeen' /\ ProcessedMeansSeen' /\ MarkedOnCompletion'
  <2>1. CASE ~Owned(w)
    <3>1. UNCHANGED <<seen, marked, job>>
      BY <2>1 DEF Commit
    <3> QED
      BY <1>1, <3>1, Typed
         DEF SyncInv, TypeOK, JobsAreKnown, MarksAreSeen, ProcessedMeansSeen, MarkedOnCompletion
  <2>2. CASE Owned(w)
    <3>1. PICK more \in BOOLEAN :
             /\ seen' = worker[w].got /\ marked' = marked \cup ({Mine(w)} \cap Events)
             /\ more => Mine(w) = Reconcile
             /\ Settle(Mine(w), [NoJob EXCEPT !.state = "processed", !.again = more])
      BY <2>2 DEF Commit
    <3> DEFINE value == [NoJob EXCEPT !.state = "processed", !.again = more]
    <3>2. value \in Job /\ value.state = "processed" /\ value.failures = 0 /\ value.again = more
      BY NoJobTyped, JobCompletes
    <3>3. Settle(Mine(w), value)
      BY <3>1
    <3> HIDE DEF value
    <3>4. job' \in [Jobs -> Job] /\ \A j \in Jobs : job'[j] = IF j = Mine(w) THEN value ELSE job[j]
      BY <3>2, <3>3 DEF SyncInv, TypeOK, Settle
    <3>5. /\ seen' \in Nat /\ seen \in Nat /\ version \in Nat /\ worker[w].got \in Nat
          /\ seen' = worker[w].got /\ seen <= seen' /\ seen' <= version
      BY <1>2, <3>1, Typed DEF SyncInv
    <3>6. \A e \in Events : e \in Nat /\ e \in Jobs /\ e # Reconcile
      BY DEF Events, Jobs, Reconcile
    <3>7. marked \subseteq Events /\ marked' \subseteq Events
      BY <3>1 DEF SyncInv, TypeOK
    <3>8. JobsAreKnown'
      <4>1. 0 < MaxFailures
        BY SyncAssumption
      <4>2. Mine(w) # Reconcile => value.again = FALSE
        BY <3>1, <3>2
      <4>3. Mine(w) <= version'
        BY <1>1, Owning
      <4> QED
        BY <1>1, <3>2, <3>4, <3>6, <4>1, <4>2, <4>3 DEF SyncInv, JobsAreKnown
    <3>9. MarksAreSeen'
      BY <1>2, <3>1, <3>5, <3>6, <3>7 DEF SyncInv, MarksAreSeen
    <3>10. ProcessedMeansSeen'
      BY <1>1, <1>2, <3>4, <3>5, <3>6 DEF SyncInv, ProcessedMeansSeen
    <3>11. MarkedOnCompletion'
      BY <1>1, <3>1, <3>2, <3>4, <3>6, <3>7 DEF SyncInv, MarkedOnCompletion
    <3> QED
      BY <3>4, <3>5, <3>7, <3>8, <3>9, <3>10, <3>11
  <2> QED
    BY <2>1, <2>2
<1>9. TypeOK'
  BY <1>1, <1>4, <1>5, <1>8, SyncAssumption DEF SyncInv, TypeOK
<1> QED
  BY <1>1, <1>2, <1>4, <1>6, <1>7, <1>8, <1>9 DEF SyncInv

LEMMA Erases ==
    ASSUME SyncInv, CloseErase
    PROVE  SyncInv'
<1>1. /\ UNCHANGED <<version, seen, marked, worker, rowLock, closing, faults>>
      /\ job' = [j \in Jobs |-> NoJob] /\ erased' = TRUE /\ account = Closer /\ account' = Free
  BY DEF CloseErase
<1>2. \A w \in Workers : w # Closer /\ w # Free
  BY SyncAssumption DEF Free, Closer
<1>3. LocksHeld'
  BY <1>1, <1>2 DEF SyncInv, LocksHeld
<1>4. TypeOK' /\ ReadsAreCurrent'
  BY <1>1, NoJobTyped DEF SyncInv, TypeOK, ReadsAreCurrent
<1>5. JobsAreKnown'
  <2>1. \A e \in Events : e \in Jobs
    BY DEF Jobs
  <2>2. 0 < MaxFailures
    BY SyncAssumption
  <2> QED
    BY <1>1, <2>1, <2>2, NoJobTyped DEF JobsAreKnown
<1>6. MarksAreSeen' /\ ProcessedMeansSeen' /\ MarkedOnCompletion'
  BY <1>1 DEF SyncInv, MarksAreSeen, ProcessedMeansSeen, MarkedOnCompletion
<1> QED
  BY <1>1, <1>3, <1>4, <1>5, <1>6 DEF SyncInv

\* An abort, a failing call and a crash only end what a worker does.
LEMMA Breaks ==
    ASSUME SyncInv, NEW w \in Workers, BreakDeadlock(w) \/ Raise(w) \/ Crash(w)
    PROVE  SyncInv'
<1>1. /\ Mine(w) \in Jobs /\ Mine(w) <= version /\ worker[w] \in Place
      /\ UNCHANGED <<version, seen, marked, job, closing, erased>> /\ faults' \in 0 .. MaxFaults
  BY Owning, Typed, Faulted DEF SyncInv, TypeOK, BreakDeadlock, Raise, Crash
<1>2. ASSUME NEW p \in Place, p.pc \notin Busy, p.job <= version, Leaves(w, p) PROVE SyncInv'
  BY <1>1, <1>2, MovesAndLeaves
<1>3. CASE Become(w, Idle) /\ Release(w)
  <2>1. Idle \in Place /\ Idle.pc \notin Busy /\ Idle.job <= version
    BY IdlePlace, Typed DEF SyncInv, Busy
  <2> QED
    BY <1>2, <1>3, <2>1 DEF Become, Leaves
<1>4. CASE Step(w, "failing") /\ Release(w)
  <2>1. "failing" \in {"begun", "fetch", "fetched", "failing"}
    OBVIOUS
  <2>2. PICK p \in Place : p.pc = "failing" /\ p.job = Mine(w) /\ Leaves(w, p)
    BY <1>1, <1>4, <2>1, PlaceMoves DEF Step, Become, Mine, Leaves
  <2> QED
    BY <1>1, <1>2, <2>2 DEF Busy
<1>5. CASE account = Closer /\ account' = Free /\ UNCHANGED <<worker, rowLock>>
  <2>1. \A v \in Workers : v # Closer /\ v # Free
    BY SyncAssumption DEF Free, Closer
  <2>2. LocksHeld'
    BY <1>5, <2>1 DEF SyncInv, LocksHeld
  <2>3. TypeOK' /\ ReadsAreCurrent'
    BY <1>1, <1>5 DEF SyncInv, TypeOK, ReadsAreCurrent
  <2> QED
    BY <1>1, <1>5, <2>2, <2>3
       DEF SyncInv, JobsAreKnown, MarksAreSeen, ProcessedMeansSeen, MarkedOnCompletion
<1> QED
  BY <1>3, <1>4, <1>5 DEF BreakDeadlock, Raise, Crash

-----------------------------------------------------------------------------
(* The inductive invariant.                                                    *)

LEMMA Starts == Init => SyncInv
<1> SUFFICES ASSUME Init PROVE SyncInv
  OBVIOUS
<1>1. TypeOK
  <2>1. job \in [Jobs -> Job] /\ worker \in [Workers -> Place]
    BY IdlePlace, NoJobTyped DEF Init
  <2>2. rowLock \in [Jobs -> Workers \cup {Free}] /\ account \in Workers \cup {Free, Closer}
    BY DEF Init
  <2>3. version = 0 /\ seen = 0 /\ faults = 0 /\ marked = {} /\ closing = FALSE /\ erased = FALSE
    BY DEF Init
  <2>4. MaxVersion \in Nat /\ MaxFaults \in Nat
    BY SyncAssumption
  <2>5. version \in 0 .. MaxVersion /\ seen \in 0 .. version /\ faults \in 0 .. MaxFaults
    BY <2>3, <2>4
  <2>6. marked \subseteq Events /\ closing \in BOOLEAN /\ erased \in BOOLEAN
    BY <2>3
  <2> QED
    BY <2>1, <2>2, <2>5, <2>6 DEF TypeOK
<1>2. LocksHeld
  BY IdlePlace, SyncAssumption DEF Init, LocksHeld, Busy, Reads, Free
<1>3. ReadsAreCurrent
  <2>1. \A w \in Workers : worker[w] = Idle
    BY DEF Init
  <2>2. 0 <= version /\ Idle.pc \notin Reads /\ Idle.pc # "fetched"
    BY IdlePlace DEF Init, Reads
  <2> QED
    BY <2>1, <2>2, IdlePlace DEF ReadsAreCurrent
<1>4. JobsAreKnown /\ MarksAreSeen /\ ProcessedMeansSeen /\ MarkedOnCompletion
  <2>1. \A e \in Events : e \in Jobs
    BY DEF Jobs
  <2> QED
    BY <2>1, NoJobTyped, SyncAssumption
       DEF Init, JobsAreKnown, MarksAreSeen, ProcessedMeansSeen, MarkedOnCompletion
<1> QED
  BY <1>1, <1>2, <1>3, <1>4 DEF Init, SyncInv, Free, Closer

LEMMA Stutters == SyncInv /\ UNCHANGED vars => SyncInv'
BY DEF vars, SyncInv, TypeOK, LocksHeld, ReadsAreCurrent, JobsAreKnown, MarksAreSeen, ProcessedMeansSeen,
       MarkedOnCompletion

\* What is observed changes in a commit or a window's refresh only.
LEMMA Observations ==
    ASSUME SyncInv, [Next]_vars
    PROVE  seen' = seen \/ Refresh \/ \E w \in Workers : Commit(w)
<1>1. CASE UNCHANGED vars \/ Closed
  BY <1>1 DEF vars, Closed
<1>2. CASE Advance \/ Refresh \/ RequestClosure \/ CloseLock
  BY <1>2 DEF Advance, RequestClosure, CloseLock
<1>3. CASE Seed \/ CloseErase \/ \E e \in Events : Receive(e)
  BY <1>3 DEF Seed, Receive, CloseErase
<1>4. ASSUME NEW w \in Workers, Begin(w) \/ LockAccount(w) \/ Fetch(w) \/ Fail(w) PROVE seen' = seen
  <2>1. Begin(w) => seen' = seen
    BY DEF Begin
  <2>2. LockAccount(w) => seen' = seen
    BY DEF LockAccount
  <2>3. Fetch(w) => seen' = seen
    BY DEF Fetch
  <2>4. Fail(w) => seen' = seen
    BY DEF Fail
  <2> QED
    BY <1>4, <2>1, <2>2, <2>3, <2>4
<1>5. ASSUME NEW w \in Workers, BreakDeadlock(w) \/ Raise(w) \/ Crash(w) PROVE seen' = seen
  BY <1>5 DEF BreakDeadlock, Raise, Crash
<1>6. ASSUME NEW w \in Workers, NEW j \in Jobs, Claim(w, j) PROVE seen' = seen
  BY <1>6 DEF Claim
<1>7. ASSUME NEW j \in Jobs, Lapse(j) \/ Retry(j) PROVE seen' = seen
  <2>1. Lapse(j) => seen' = seen
    BY DEF Lapse
  <2>2. Retry(j) => seen' = seen
    BY DEF Retry
  <2> QED
    BY <1>7, <2>1, <2>2
<1> QED
  BY <1>1, <1>2, <1>3, <1>4, <1>5, <1>6, <1>7 DEF Next, Work

LEMMA Moved ==
    ASSUME SyncInv, [Next]_vars
    PROVE  seen <= seen' /\ (closing => seen' = seen)
<1>1. seen \in Nat /\ version \in Nat /\ seen <= version
  BY Typed DEF SyncInv
<1>2. Refresh => seen <= seen' /\ (closing => seen' = seen)
  BY <1>1 DEF Refresh
<1>3. \A w \in Workers : Commit(w) => seen <= seen' /\ (closing => seen' = seen)
  BY Commits
<1> QED
  BY <1>1, <1>2, <1>3, Observations

LEMMA Preserved == SyncInv /\ [Next]_vars => SyncInv'
<1> SUFFICES ASSUME SyncInv, [Next]_vars PROVE SyncInv'
  OBVIOUS
<1>1. CASE UNCHANGED vars \/ Closed
  BY <1>1, Stutters DEF Closed
<1>2. CASE Advance \/ Refresh \/ RequestClosure \/ CloseLock
  BY <1>2, Outside
<1>3. CASE Seed \/ \E e \in Events : Receive(e)
  BY <1>3, ReceivesAndSeeds
<1>4. CASE CloseErase
  BY <1>4, Erases
<1>5. ASSUME NEW w \in Workers, Work(w) PROVE SyncInv'
  BY <1>5, Begins, LocksAccount, Fetches, Commits, Fails DEF Work
<1>6. ASSUME NEW w \in Workers, BreakDeadlock(w) \/ Raise(w) \/ Crash(w) PROVE SyncInv'
  BY <1>6, Breaks
<1>7. ASSUME NEW w \in Workers, NEW j \in Jobs, Claim(w, j) PROVE SyncInv'
  BY <1>7, Claims
<1>8. ASSUME NEW j \in Jobs, Lapse(j) \/ Retry(j) PROVE SyncInv'
  BY <1>8, Lapses, Retries
<1> QED
  BY <1>1, <1>2, <1>3, <1>4, <1>5, <1>6, <1>7, <1>8 DEF Next

LEMMA Inductive == Spec => []SyncInv
BY Starts, Preserved, PTL DEF Spec

-----------------------------------------------------------------------------
(* The results.                                                                *)

\* The types, and with them that the saved state is never newer than Stripe's.
THEOREM TypeCorrect == Spec => []TypeOK
<1>1. SyncInv => TypeOK
  BY DEF SyncInv
<1> QED
  BY Inductive, <1>1, PTL

\* An event that is done with has had its effect, unless the account closes.
THEOREM Effective == Spec => []ProcessedMeansSeen
<1>1. SyncInv => ProcessedMeansSeen
  BY DEF SyncInv
<1> QED
  BY Inductive, <1>1, PTL

\* The marker of an event and the completion of its job are one commit.
THEOREM Atomic == Spec => []MarkedOnCompletion
<1>1. SyncInv => MarkedOnCompletion
  BY DEF SyncInv
<1> QED
  BY Inductive, <1>1, PTL

\* Late and reordered events, slow workers and windows never take it back.
THEOREM Forward == Spec => SeenOnlyForward
<1>1. SyncInv /\ [Next]_vars => [seen' >= seen]_seen
  BY Moved, Typed DEF SyncInv
<1> QED
  BY Inductive, <1>1, PTL DEF Spec, SeenOnlyForward

\* Nothing is observed for an account that closes.
THEOREM Silent == Spec => ClosingIsSilent
<1>1. SyncInv /\ [Next]_vars => [closing => seen' = seen]_<<seen, closing>>
  BY Moved
<1> QED
  BY Inductive, <1>1, PTL DEF Spec, ClosingIsSilent

-----------------------------------------------------------------------------
(* BillingNotices.  The number of a change of the renewal is the length of the  *)
(* list of changes, so its key is free when it is enqueued; and no step of a    *)
(* sender, whatever it claims, loses or repeats, gives a key up or rewrites     *)
(* what its notice says.                                                        *)

NoticeStates == {"absent", "pending", "sending", "sent", "failed", "cancelled"}
NoticeRow    == [state : NoticeStates, says : BOOLEAN, attempts : Nat, due : BOOLEAN]
SenderRow    == [at : {"idle", "claimed", "send", "sent", "failed"}, key : NoticeKeys, claim : Nat]

NoticesTyped ==
    /\ stripe \in [cancel : BOOLEAN, ended : BOOLEAN, unpaid : BOOLEAN]
    /\ noted \in [cancel : BOOLEAN, sequence : Nat]
    /\ notices \in [NoticeKeys -> NoticeRow]
    /\ turns \in Seq(BOOLEAN) /\ Len(turns) <= MaxTurns
    /\ sender \in [Senders -> SenderRow]

\* The sequence counts the changes: the keys after it are free, and those up to it
\* are taken by the change of their number.
Numbered ==
    /\ noted.sequence = Len(turns)
    /\ \A k \in NoticeKeys : k > Len(turns) => notices[k] = NoNotice
    /\ \A n \in 1 .. Len(turns) : notices[n].state # "absent" /\ notices[n].says = turns[n]

\* What is being sent was enqueued.
SendsQueued == \A s \in Senders : sender[s].at # "idle" => notices[sender[s].key].state # "absent"

NoticesInv == NoticesTyped /\ Numbered /\ SendsQueued

\* Keys are integers, and one of them is each change's own.
LEMMA KeysAreNumbers ==
    /\ NoticeKeys \subseteq Int
    /\ EndNotice \in NoticeKeys /\ PaymentNotice \in NoticeKeys
    /\ \A n \in 1 .. MaxTurns : n \in NoticeKeys
    /\ \A n \in Int : n <= 0 => (n \in NoticeKeys => n \in {EndNotice, PaymentNotice})
  BY NoticesAssumption DEF NoticeKeys, EndNotice, PaymentNotice

\* A step of the senders or of time leaves the changes as they are, and a notice
\* stays what it says, queued if it was.
KeepsSaying ==
    \A k \in NoticeKeys :
        /\ notices'[k].says = notices[k].says
        /\ notices[k].state # "absent" => notices'[k].state # "absent"
        /\ notices[k] = NoNotice => notices'[k] = NoNotice

LEMMA SayingKept ==
    ASSUME NoticesInv, NoticesTyped', KeepsSaying, UNCHANGED <<noted, turns>>
    PROVE  Numbered'
<1>1. \A n \in 1 .. Len(turns) : n \in NoticeKeys
  BY KeysAreNumbers, NoticesAssumption DEF NoticesInv, NoticesTyped
<1>2. \A n \in 1 .. Len(turns) : notices'[n].state # "absent" /\ notices'[n].says = turns[n]
  BY <1>1 DEF KeepsSaying, NoticesInv, Numbered
<1>3. \A k \in NoticeKeys : k > Len(turns) => notices'[k] = NoNotice
  BY DEF KeepsSaying, NoticesInv, Numbered
<1> QED
  BY <1>2, <1>3 DEF NoticesInv, Numbered

LEMMA NoticesInitially == NoticesInit => NoticesInv
<1> SUFFICES ASSUME NoticesInit PROVE NoticesInv
  OBVIOUS
<1>1. NoNotice \in NoticeRow /\ Resting \in SenderRow
  BY KeysAreNumbers DEF NoNotice, NoticeRow, NoticeStates, Resting, SenderRow
<1>2. turns = <<>> /\ Len(turns) = 0 /\ turns \in Seq(BOOLEAN)
  BY DEF NoticesInit
<1>3. stripe \in [cancel : BOOLEAN, ended : BOOLEAN, unpaid : BOOLEAN] /\ noted \in [cancel : BOOLEAN, sequence : Nat]
  BY DEF NoticesInit
<1>4. NoticesTyped
  BY <1>1, <1>2, <1>3, NoticesAssumption DEF NoticesInit, NoticesTyped
<1>5. Numbered
  BY <1>2 DEF NoticesInit, Numbered
<1>6. SendsQueued
  BY DEF NoticesInit, SendsQueued, Resting
<1> QED
  BY <1>4, <1>5, <1>6 DEF NoticesInv

\* enqueue writes at most the key it is given.
LEMMA EnqueuedRow ==
    ASSUME NEW table \in [NoticeKeys -> NoticeRow], NEW key \in NoticeKeys, NEW says \in BOOLEAN
    PROVE  /\ Enqueued(table, key, says) \in [NoticeKeys -> NoticeRow]
           /\ \A k \in NoticeKeys : table[k].state # "absent"
                                    => Enqueued(table, key, says)[k].state # "absent"
           /\ table[key] = NoNotice => Enqueued(table, key, says)[key] = Queued(says)
           /\ table[key] # NoNotice => Enqueued(table, key, says) = table
           /\ \A k \in NoticeKeys \ {key} : Enqueued(table, key, says)[k] = table[k]
<1>1. Queued(says) \in NoticeRow /\ Queued(says).state # "absent"
  BY DEF Queued, NoticeRow, NoticeStates
<1>2. CASE table[key] = NoNotice
  <2>1. Enqueued(table, key, says) = [table EXCEPT ![key] = Queued(says)]
    BY <1>2 DEF Enqueued
  <2> QED
    BY <1>1, <1>2, <2>1
<1>3. CASE table[key] # NoNotice
  <2>1. Enqueued(table, key, says) = table
    BY <1>3 DEF Enqueued
  <2> QED
    BY <1>3, <2>1
<1> QED
  BY <1>2, <1>3

LEMMA CaptureNumbers == NoticesInv /\ Capture => NoticesInv'
<1> SUFFICES ASSUME NoticesInv, Capture PROVE NoticesInv'
  OBVIOUS
<1> DEFINE turned == ~stripe.ended /\ stripe.cancel # noted.cancel
<1>1. PICK number : number = IF turned THEN NextSequence(stripe.cancel) ELSE noted.sequence
  OBVIOUS
<1>2. PICK ends : ends = IF stripe.ended THEN Enqueued(notices, EndNotice, TRUE)
                         ELSE IF turned THEN Enqueued(notices, number, stripe.cancel) ELSE notices
  OBVIOUS
<1>3. /\ turned => number \in NoticeKeys /\ Len(turns) < MaxTurns
      /\ notices' = IF stripe.unpaid THEN Enqueued(ends, PaymentNotice, TRUE) ELSE ends
      /\ noted' = [cancel |-> stripe.cancel, sequence |-> number]
      /\ turns' = IF turned THEN Append(turns, stripe.cancel) ELSE turns
      /\ UNCHANGED <<stripe, closingUser, sender>>
  BY <1>1, <1>2 DEF Capture
<1>4. /\ notices \in [NoticeKeys -> NoticeRow] /\ turns \in Seq(BOOLEAN) /\ Len(turns) \in Nat
      /\ stripe.cancel \in BOOLEAN /\ noted.sequence = Len(turns)
      /\ Len(turns) <= MaxTurns /\ MaxTurns \in Nat
  BY NoticesAssumption DEF NoticesInv, NoticesTyped, Numbered
<1>5. turned => number = Len(turns) + 1
  BY <1>1, <1>4 DEF NextSequence
<1>6. ~turned => number = Len(turns)
  BY <1>1, <1>4
<1>7. ends \in [NoticeKeys -> NoticeRow]
  BY <1>2, <1>3, <1>4, EnqueuedRow, KeysAreNumbers
<1>8. notices' \in [NoticeKeys -> NoticeRow]
  BY <1>3, <1>7, EnqueuedRow, KeysAreNumbers
<1>9. /\ \A k \in NoticeKeys : k > 0 => notices'[k] = ends[k]
      /\ \A k \in NoticeKeys : ends[k].state # "absent" => notices'[k].state # "absent"
  <2>1. CASE stripe.unpaid
    <3>1. notices' = Enqueued(ends, PaymentNotice, TRUE) /\ PaymentNotice \in NoticeKeys
      BY <1>3, <2>1, KeysAreNumbers
    <3>2. /\ \A k \in NoticeKeys \ {PaymentNotice} : notices'[k] = ends[k]
          /\ \A k \in NoticeKeys : ends[k].state # "absent" => notices'[k].state # "absent"
      BY <1>7, <3>1, EnqueuedRow
    <3> QED
      BY <3>2 DEF PaymentNotice
  <2>2. CASE ~stripe.unpaid
    BY <1>3, <2>2
  <2> QED
    BY <2>1, <2>2
<1>10. CASE turned
  <2>1. number \in NoticeKeys /\ number = Len(turns) + 1 /\ notices[number] = NoNotice
    BY <1>3, <1>4, <1>5, <1>10 DEF NoticesInv, Numbered
  <2>2. ends = Enqueued(notices, number, stripe.cancel)
    BY <1>2, <1>10
  <2>3. ends[number] = Queued(stripe.cancel) /\ \A k \in NoticeKeys \ {number} : ends[k] = notices[k]
    BY <1>4, <2>1, <2>2, EnqueuedRow
  <2>4. turns' = Append(turns, stripe.cancel)
    BY <1>3, <1>10
  <2>5. /\ turns' \in Seq(BOOLEAN) /\ Len(turns') = Len(turns) + 1
        /\ turns'[Len(turns) + 1] = stripe.cancel
        /\ \A n \in 1 .. Len(turns) : turns'[n] = turns[n]
    BY <1>4, <2>4
  <2>6. \A n \in 1 .. Len(turns) : notices'[n] = notices[n]
    <3> TAKE n \in 1 .. Len(turns)
    <3>1. n \in NoticeKeys /\ n > 0 /\ n # number
      BY <1>4, <2>1, KeysAreNumbers
    <3> QED
      BY <3>1, <1>9, <2>3
  <2>7. notices'[number] = Queued(stripe.cancel)
    BY <1>9, <1>4, <2>1, <2>3
  <2>8. \A n \in 1 .. Len(turns') : notices'[n].state # "absent" /\ notices'[n].says = turns'[n]
    <3> TAKE n \in 1 .. Len(turns')
    <3>1. CASE n \in 1 .. Len(turns)
      BY <3>1, <2>5, <2>6 DEF NoticesInv, Numbered
    <3>2. CASE n = number
      BY <3>2, <2>1, <2>5, <2>7 DEF Queued
    <3> QED
      BY <3>1, <3>2, <2>1, <2>5, <1>4
  <2>9. \A k \in NoticeKeys : k > Len(turns') => notices'[k] = NoNotice
    <3> SUFFICES ASSUME NEW k \in NoticeKeys, k > Len(turns') PROVE notices'[k] = NoNotice
      OBVIOUS
    <3>1. k \in Int /\ k > 0 /\ k # number /\ k > Len(turns)
      BY <1>4, <2>1, <2>5, KeysAreNumbers
    <3> QED
      BY <3>1, <1>9, <2>3 DEF NoticesInv, Numbered
  <2>10. noted'.sequence = Len(turns')
    BY <1>3, <2>1, <2>5
  <2>11. Numbered'
    BY <2>8, <2>9, <2>10 DEF Numbered
  <2>12. Len(turns') <= MaxTurns /\ noted' \in [cancel : BOOLEAN, sequence : Nat]
    BY <1>3, <1>4, <1>10, <2>1, <2>5
  <2>13. NoticesTyped'
    BY <1>3, <1>8, <2>5, <2>12 DEF NoticesInv, NoticesTyped
  <2>14. \A k \in NoticeKeys : notices[k].state # "absent" => ends[k].state # "absent"
    BY <2>3 DEF Queued
  <2>15. SendsQueued'
    BY <1>3, <1>9, <2>14 DEF NoticesInv, NoticesTyped, SendsQueued, SenderRow
  <2> QED
    BY <2>11, <2>13, <2>15 DEF NoticesInv
<1>11. CASE ~turned
  <2>1. /\ \A k \in NoticeKeys : k > 0 => ends[k] = notices[k]
        /\ \A k \in NoticeKeys : notices[k].state # "absent" => ends[k].state # "absent"
    <3>1. CASE stripe.ended
      <4>1. ends = Enqueued(notices, EndNotice, TRUE) /\ EndNotice \in NoticeKeys
        BY <1>2, <3>1, KeysAreNumbers
      <4>2. /\ \A k \in NoticeKeys \ {EndNotice} : ends[k] = notices[k]
            /\ \A k \in NoticeKeys : notices[k].state # "absent" => ends[k].state # "absent"
        BY <1>4, <4>1, EnqueuedRow
      <4> QED
        BY <4>2 DEF EndNotice
    <3>2. CASE ~stripe.ended
      BY <1>2, <1>11, <3>2
    <3> QED
      BY <3>1, <3>2
  <2>2. turns' = turns /\ number = Len(turns)
    BY <1>3, <1>6, <1>11
  <2>3. \A n \in 1 .. Len(turns) : notices'[n] = notices[n]
    <3> TAKE n \in 1 .. Len(turns)
    <3>1. n \in NoticeKeys /\ n > 0
      BY <1>4, KeysAreNumbers
    <3> QED
      BY <3>1, <1>9, <2>1
  <2>4. \A k \in NoticeKeys : k > Len(turns) => notices'[k] = NoNotice
    <3> SUFFICES ASSUME NEW k \in NoticeKeys, k > Len(turns) PROVE notices'[k] = NoNotice
      OBVIOUS
    <3>1. k \in Int /\ k > 0
      BY <1>4, KeysAreNumbers
    <3> QED
      BY <3>1, <1>9, <2>1 DEF NoticesInv, Numbered
  <2>5. Numbered'
    BY <1>3, <2>2, <2>3, <2>4 DEF NoticesInv, Numbered
  <2>6. NoticesTyped'
    BY <1>3, <1>4, <1>8, <2>2 DEF NoticesInv, NoticesTyped
  <2>7. SendsQueued'
    BY <1>3, <1>9, <2>1 DEF NoticesInv, NoticesTyped, SendsQueued, SenderRow
  <2> QED
    BY <2>5, <2>6, <2>7 DEF NoticesInv
<1> QED
  BY <1>10, <1>11

\* A step that moves sender s to a place and the notice of key k to a state.
LEMMA SenderMoves ==
    ASSUME NoticesInv, NEW s \in Senders, NEW place \in SenderRow, NEW k \in NoticeKeys,
           NEW row \in NoticeRow, row.says = notices[k].says,
           notices[k].state # "absent", row.state # "absent", place.at = "idle" \/ place.key = k,
           sender' = [sender EXCEPT ![s] = place], notices' = [notices EXCEPT ![k] = row],
           UNCHANGED <<stripe, noted, turns>>
    PROVE  NoticesInv'
<1>1. NoticesTyped'
  BY DEF NoticesInv, NoticesTyped
<1>2. KeepsSaying
  <2>1. \A j \in NoticeKeys : notices'[j] = IF j = k THEN row ELSE notices[j]
    BY DEF NoticesInv, NoticesTyped
  <2>2. notices[k] # NoNotice
    BY DEF NoNotice
  <2> QED
    BY <2>1, <2>2 DEF KeepsSaying
<1>3. Numbered'
  BY <1>1, <1>2, SayingKept
<1>4. SendsQueued'
  BY <1>2 DEF NoticesInv, NoticesTyped, SendsQueued, SenderRow, KeepsSaying
<1> QED
  BY <1>1, <1>3, <1>4 DEF NoticesInv

LEMMA NoticesStep == NoticesInv /\ [NoticesNext]_noticeVars => NoticesInv'
<1> SUFFICES ASSUME NoticesInv, [NoticesNext]_noticeVars PROVE NoticesInv'
  OBVIOUS
<1>0. /\ notices \in [NoticeKeys -> NoticeRow] /\ sender \in [Senders -> SenderRow]
      /\ \A s \in Senders : sender[s].key \in NoticeKeys /\ sender[s].claim \in Nat
      /\ Resting \in SenderRow
  BY KeysAreNumbers DEF NoticesInv, NoticesTyped, SenderRow, Resting
<1>1. ASSUME SubscriptionTurns PROVE NoticesInv'
  <2>1. stripe' \in [cancel : BOOLEAN, ended : BOOLEAN, unpaid : BOOLEAN]
    BY <1>1 DEF SubscriptionTurns, NoticesInv, NoticesTyped
  <2> QED
    BY <1>1, <2>1 DEF SubscriptionTurns, NoticesInv, NoticesTyped, Numbered, SendsQueued
<1>2. ASSUME Capture PROVE NoticesInv'
  BY <1>2, CaptureNumbers
<1>3. ASSUME CloseUser PROVE NoticesInv'
  BY <1>3 DEF CloseUser, NoticesInv, NoticesTyped, Numbered, SendsQueued
<1>4. ASSUME NEW s \in Senders, Address(s) \/ SendNotice(s) \/ RecordSent(s) \/ SenderDies(s)
      PROVE  NoticesInv'
  <2>1. PICK k \in NoticeKeys : k = sender[s].key
    BY <1>0
  <2>2. sender[s].at # "idle"
    BY <1>4 DEF Address, SendNotice, RecordSent, SenderDies
  <2>3. notices[k].state # "absent" /\ notices[k] \in NoticeRow /\ notices = [notices EXCEPT ![k] = notices[k]]
    BY <1>0, <2>1, <2>2 DEF NoticesInv, SendsQueued
  <2>4. \A place \in {"claimed", "send", "sent", "failed"} :
           /\ [sender[s] EXCEPT !.at = place] \in SenderRow
           /\ [sender[s] EXCEPT !.at = place].key = k
    BY <1>0, <2>1 DEF SenderRow
  <2>5. \A state \in NoticeStates \ {"absent"} :
           /\ [notices[k] EXCEPT !.state = state] \in NoticeRow
           /\ [notices[k] EXCEPT !.state = state].says = notices[k].says
           /\ [notices[k] EXCEPT !.state = state].state # "absent"
    BY <2>3 DEF NoticeRow, NoticeStates
  <2>6. \A state \in NoticeStates \ {"absent"} :
           /\ [notices[k] EXCEPT !.state = state, !.due = FALSE] \in NoticeRow
           /\ [notices[k] EXCEPT !.state = state, !.due = FALSE].says = notices[k].says
           /\ [notices[k] EXCEPT !.state = state, !.due = FALSE].state # "absent"
    BY <2>3 DEF NoticeRow, NoticeStates
  <2>7. Resting.at = "idle"
    BY DEF Resting
  <2>8. ASSUME Address(s) PROVE NoticesInv'
    <3>1. CASE closingUser
      <4>1. PICK row : row = [notices[k] EXCEPT !.state = "cancelled"]
        OBVIOUS
      <4>2. notices' = [notices EXCEPT ![k] = row] /\ sender' = [sender EXCEPT ![s] = Resting]
        BY <2>1, <2>8, <3>1, <4>1 DEF Address
      <4>3. row \in NoticeRow /\ row.says = notices[k].says /\ row.state # "absent"
        BY <2>5, <4>1 DEF NoticeStates
      <4>4. UNCHANGED <<stripe, noted, turns>>
        BY <2>8 DEF Address
      <4> QED
        BY <1>0, <2>3, <2>7, <4>2, <4>3, <4>4, SenderMoves
    <3>2. CASE ~closingUser
      <4>1. PICK place : place = [sender[s] EXCEPT !.at = "send"]
        OBVIOUS
      <4>2. notices' = notices /\ sender' = [sender EXCEPT ![s] = place]
        BY <2>8, <3>2, <4>1 DEF Address
      <4>3. place \in SenderRow /\ place.key = k
        BY <2>4, <4>1
      <4>4. notices' = [notices EXCEPT ![k] = notices[k]] /\ UNCHANGED <<stripe, noted, turns>>
        BY <2>3, <2>8, <4>2 DEF Address
      <4> QED
        BY <2>3, <4>2, <4>3, <4>4, SenderMoves
    <3> QED
      BY <3>1, <3>2
  <2>9. ASSUME SendNotice(s) PROVE NoticesInv'
    <3>1. PICK answer \in {"sent", "failed"} : sender' = [sender EXCEPT ![s].at = answer]
      BY <2>9 DEF SendNotice
    <3>2. PICK place : place = [sender[s] EXCEPT !.at = answer]
      OBVIOUS
    <3>3. place \in SenderRow /\ place.key = k
      BY <2>4, <3>1, <3>2
    <3>4. sender' = [sender EXCEPT ![s] = place]
      BY <3>1, <3>2
    <3>5. notices' = [notices EXCEPT ![k] = notices[k]] /\ UNCHANGED <<stripe, noted, turns>>
      BY <2>3, <2>9 DEF SendNotice
    <3> QED
      BY <2>3, <3>3, <3>4, <3>5, SenderMoves
  <2>10. ASSUME RecordSent(s) PROVE NoticesInv'
    <3>1. PICK outcome : outcome = IF sender[s].at = "sent" THEN "sent"
                                   ELSE IF sender[s].claim >= MaxSends THEN "failed" ELSE "pending"
      OBVIOUS
    <3>2. outcome \in NoticeStates \ {"absent"}
      BY <3>1 DEF NoticeStates
    <3>3. PICK row : row = IF OwnClaim(sender[s]) THEN [notices[k] EXCEPT !.state = outcome, !.due = FALSE]
                           ELSE notices[k]
      OBVIOUS
    <3>4. row \in NoticeRow /\ row.says = notices[k].says /\ row.state # "absent"
      BY <2>3, <2>6, <3>2, <3>3
    <3>5. notices' = [notices EXCEPT ![k] = row] /\ sender' = [sender EXCEPT ![s] = Resting]
      <4>1. CASE OwnClaim(sender[s])
        BY <2>1, <2>10, <3>1, <3>3, <4>1 DEF RecordSent
      <4>2. CASE ~OwnClaim(sender[s])
        BY <2>1, <2>3, <2>10, <3>1, <3>3, <4>2 DEF RecordSent
      <4> QED
        BY <4>1, <4>2
    <3>6. UNCHANGED <<stripe, noted, turns>>
      BY <2>10 DEF RecordSent
    <3> QED
      BY <1>0, <2>3, <2>7, <3>4, <3>5, <3>6, SenderMoves
  <2>11. ASSUME SenderDies(s) PROVE NoticesInv'
    <3>1. /\ notices' = [notices EXCEPT ![k] = notices[k]] /\ UNCHANGED <<stripe, noted, turns>>
          /\ sender' = [sender EXCEPT ![s] = Resting]
      BY <2>3, <2>11 DEF SenderDies
    <3> QED
      BY <1>0, <2>3, <2>7, <3>1, SenderMoves
  <2> QED
    BY <1>4, <2>8, <2>9, <2>10, <2>11
<1>5. ASSUME NEW s \in Senders, NEW k \in NoticeKeys, ClaimNotice(s, k) PROVE NoticesInv'
  <2>1. PICK row : row = [notices[k] EXCEPT !.state = "sending", !.attempts = @ + 1, !.due = FALSE]
    OBVIOUS
  <2>2. notices[k] \in NoticeRow /\ notices[k].state # "absent" /\ notices[k].attempts + 1 \in Nat
    BY <1>0, <1>5 DEF ClaimNotice, NoticeRow
  <2>3. row \in NoticeRow /\ row.says = notices[k].says /\ row.state # "absent"
    BY <2>1, <2>2 DEF NoticeRow, NoticeStates
  <2>4. notices' = [notices EXCEPT ![k] = row]
    BY <1>5, <2>1 DEF ClaimNotice
  <2>5. PICK place : place = [at |-> "claimed", key |-> k, claim |-> notices[k].attempts + 1]
    OBVIOUS
  <2>6. place \in SenderRow /\ place.key = k
    BY <2>2, <2>5 DEF SenderRow
  <2>7. sender' = [sender EXCEPT ![s] = place]
    BY <1>5, <2>5 DEF ClaimNotice
  <2>8. UNCHANGED <<stripe, noted, turns>>
    BY <1>5 DEF ClaimNotice
  <2> QED
    BY <2>2, <2>3, <2>4, <2>6, <2>7, <2>8, SenderMoves
<1>6. ASSUME NEW k \in NoticeKeys, NoticeDue(k) PROVE NoticesInv'
  <2>1. PICK row : row = [notices[k] EXCEPT !.due = TRUE]
    OBVIOUS
  <2>2. notices[k] \in NoticeRow /\ notices[k].state # "absent"
    BY <1>0, <1>6 DEF NoticeDue
  <2>3. row \in NoticeRow /\ row.says = notices[k].says /\ row.state # "absent" /\ row.state = notices[k].state
    BY <2>1, <2>2 DEF NoticeRow, NoticeStates
  <2>4. notices' = [notices EXCEPT ![k] = row]
    BY <1>6, <2>1 DEF NoticeDue
  <2>5. NoticesTyped'
    BY <1>6, <2>3, <2>4 DEF NoticeDue, NoticesInv, NoticesTyped
  <2>6. KeepsSaying
    <3>1. \A j \in NoticeKeys : notices'[j] = IF j = k THEN row ELSE notices[j]
      BY <1>0, <2>4
    <3>2. notices[k] # NoNotice
      BY <2>2 DEF NoNotice
    <3> QED
      BY <2>2, <2>3, <3>1, <3>2 DEF KeepsSaying
  <2>7. Numbered'
    BY <1>6, <2>5, <2>6, SayingKept DEF NoticeDue
  <2>8. SendsQueued'
    BY <1>0, <1>6, <2>6 DEF NoticeDue, KeepsSaying, NoticesInv, SendsQueued
  <2> QED
    BY <2>5, <2>7, <2>8 DEF NoticesInv
<1>7. CASE UNCHANGED noticeVars
  BY <1>7 DEF noticeVars, NoticesInv, NoticesTyped, Numbered, SendsQueued
<1> QED
  BY <1>1, <1>2, <1>3, <1>4, <1>5, <1>6, <1>7 DEF NoticesNext

\* Every cancellation of a renewal that was observed and every withdrawal has a
\* notice of its own that says which it was, for any number of changes, senders,
\* lost claims and repeated mails.
THEOREM TurnsAreTold == NoticesSpec => []EveryTurnIsTold
<1>1. NoticesInv => EveryTurnIsTold
  BY DEF NoticesInv, NoticesTyped, Numbered, EveryTurnIsTold, NoNotice
<1> QED
  BY NoticesInitially, NoticesStep, <1>1, PTL DEF NoticesSpec

===============================================================================
