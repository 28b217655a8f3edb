--------------------------- MODULE BriefingDelivery ---------------------------
(***************************************************************************)
(* The outbox of scheduled briefings (BriefingDeliveryWorker.run_once):    *)
(* scheduler processes sweep, select, claim, inspect, send and record one  *)
(* letter per tick, each step a transaction or one SMTP conversation.      *)
(*                                                                         *)
(* A letter has one timer, next_attempt_at while it is pending and         *)
(* claimed_until while it is being sent.  A process compares timers with   *)
(* the clock it read when its tick began, so what it believes elapsed is   *)
(* remembered, and forgotten only when the timer is set anew.              *)
(***************************************************************************)
EXTENDS Integers, FiniteSets

CONSTANTS
    Workers,      \* scheduler processes
    Letters,      \* rows of digest_email_deliveries, one per scheduled run
    MaxAttempts,  \* five in the code
    MaxFaults,    \* bound: crashes and doubtful SMTP outcomes
    MaxLate       \* bound: ticks that outlast their five-minute claim

ASSUME DeliveryAssumption ==
    /\ Letters # {}
    /\ MaxAttempts \in Nat \ {0}
    /\ MaxFaults \in Nat
    /\ MaxLate \in Nat

VARIABLES
    run,       \* the letter's run: unfinished, completed or deleted
    blocked,   \* quality_delivery_blocked of the run
    active,    \* is_active of the account the letter goes to
    letter,    \* the delivery row
    elapsed,   \* whether the row's timer has run out
    now,       \* what each worker's clock reading says has run out
    worker,    \* each worker's place in run_once
    accepted,  \* how often SMTP has accepted the letter
    faults,    \* crashes and doubtful outcomes so far
    late       \* ticks that outlasted their claim so far

vars == <<run, blocked, active, letter, elapsed, now, worker, accepted, faults, late>>

Final     == {"sent", "failed", "held", "cancelled"}
NoClaim   == 0                      \* claim_token IS NULL
Letter    == [status : {"none", "pending", "sending"} \cup Final,
              attempts : Nat, token : Nat]
NoLetter  == [status |-> "none", attempts |-> 0, token |-> NoClaim]

\* token stands for the claim's fresh uuid4: the number of the claim; attempts
\* is the count the second session read.
Place == [pc : {"idle", "swept", "selected", "inspect", "send", "record"},
          letter : Letters, token : Nat, attempts : Nat,
          outcome : {"sent", "error", "held", "cancelled"}]
IdleWorker == [pc |-> "idle", letter |-> CHOOSE l \in Letters : TRUE,
               token |-> NoClaim, attempts |-> 0, outcome |-> "error"]

Init ==
    /\ run = [l \in Letters |-> "unfinished"]
    /\ blocked = [l \in Letters |-> FALSE]
    /\ active = [l \in Letters |-> TRUE]
    /\ letter = [l \in Letters |->
                    [status |-> "pending", attempts |-> 0, token |-> NoClaim]]
    /\ elapsed = [l \in Letters |-> TRUE]
    /\ now = [w \in Workers |-> {}]
    /\ worker = [w \in Workers |-> IdleWorker]
    /\ accepted = [l \in Letters |-> 0]
    /\ faults = 0
    /\ late = 0

-----------------------------------------------------------------------------
(* Helpers *)

At(w, step)   == worker[w].pc = step
Become(w, p)  == worker' = [worker EXCEPT ![w] = p]
Goto(w, step) == worker' = [worker EXCEPT ![w].pc = step]
Fault         == faults < MaxFaults /\ faults' = faults + 1 /\ UNCHANGED late
Late          == late < MaxLate /\ late' = late + 1 /\ UNCHANGED faults

\* Mutant: a letter whose worker died is never taken up again.
EligiblePending(w, l) == l \in now[w] /\ letter[l].status = "pending"

\* The clause shared by the SELECT and by the conditional UPDATE.
Eligible(w, l) == l \in now[w] /\ letter[l].status \in {"pending", "sending"}

\* Mutant: one attempt too few.
AllButOneSpent(attempts) == attempts >= MaxAttempts - 1
Spent(attempts)          == attempts >= MaxAttempts

\* A timer is set from the worker's clock reading: in the future for everyone,
\* unless that reading is minutes old.
SetTimer(l) ==
    \/ /\ elapsed' = [elapsed EXCEPT ![l] = FALSE]
       /\ now' = [v \in Workers |-> now[v] \ {l}]
       /\ UNCHANGED <<faults, late>>
    \/ /\ Late
       /\ elapsed' = [elapsed EXCEPT ![l] = TRUE]
       /\ UNCHANGED now

\* The worker whose claim is on the letter is still at it.
Carried(l) ==
    \E w \in Workers : /\ worker[w].pc \in {"inspect", "send", "record"}
                       /\ worker[w].letter = l /\ worker[w].token = letter[l].token

-----------------------------------------------------------------------------
(* The run and its account *)

\* complete_run: assess_run holds the letter of a blocked run in the same
\* transaction.
Complete(l, hold) ==
    /\ run[l] = "unfinished"
    /\ run' = [run EXCEPT ![l] = "completed"]
    /\ blocked' = [blocked EXCEPT ![l] = hold]
    /\ letter' = IF hold THEN [letter EXCEPT ![l].status = "held"] ELSE letter
    /\ UNCHANGED <<active, elapsed, now, worker, accepted, faults, late>>

\* Deleting a digest deletes its runs and their letters.  It is refused while a
\* run is queued or running: an unfinished run here has failed.
Delete(l) ==
    /\ run[l] # "deleted"
    /\ run' = [run EXCEPT ![l] = "deleted"]
    /\ letter' = [letter EXCEPT ![l] = NoLetter]
    /\ UNCHANGED <<blocked, active, elapsed, now, worker, accepted, faults, late>>

\* An administrator disables the account or enables it, or its owner closes it.
SetActive(l) ==
    /\ active' = [active EXCEPT ![l] = ~@]
    /\ UNCHANGED <<run, blocked, letter, elapsed, now, worker, accepted, faults, late>>

-----------------------------------------------------------------------------
(* One tick of a worker *)

\* A letter whose last attempt was never confirmed is given up.
Swept(l) ==
    IF /\ letter[l].status = "sending" /\ elapsed[l] /\ Spent(letter[l].attempts)
    THEN [letter[l] EXCEPT !.status = "failed", !.token = NoClaim]
    ELSE letter[l]

\* The clock is read, and the exhausted letters are swept.
Sweep(w) ==
    /\ At(w, "idle")
    /\ now' = [now EXCEPT ![w] = {l \in Letters : elapsed[l]}]
    /\ letter' = [l \in Letters |-> Swept(l)]
    /\ Goto(w, "swept")
    /\ UNCHANGED <<run, blocked, active, elapsed, accepted, faults, late>>

Selectable(w, l)           == Eligible(w, l) /\ run[l] = "completed"

\* Select a letter of a completed run; with none, the tick is over.
Select(w) ==
    /\ At(w, "swept")
    /\ \/ \E l \in Letters :
             Selectable(w, l) /\ Become(w, [worker[w] EXCEPT !.pc = "selected",
                                                             !.letter = l])
       \/ (\A l \in Letters : ~Selectable(w, l)) /\ Goto(w, "idle")
    /\ UNCHANGED <<run, blocked, active, letter, elapsed, now, accepted, faults, late>>

\* Mutant: the update does not look at the row's state again.
ClaimableBlind(w, l) == w \in Workers /\ letter[l].status # "none"
ClaimableRow(w, l)   == Eligible(w, l)

\* The conditional UPDATE: one worker wins the letter.
Claim(w) ==
    LET l == worker[w].letter
        n == letter[l].attempts + 1
    IN  /\ At(w, "selected") /\ ClaimableRow(w, l)
        /\ letter' = [letter EXCEPT ![l] =
                         [status |-> "sending", attempts |-> n, token |-> n]]
        /\ SetTimer(l)
        /\ Become(w, [worker[w] EXCEPT !.pc = "inspect", !.token = n])
        /\ UNCHANGED <<run, blocked, active, accepted>>

ClaimLost(w) ==
    /\ At(w, "selected") /\ ~ClaimableRow(w, worker[w].letter)
    /\ Goto(w, "idle")
    /\ UNCHANGED <<run, blocked, active, letter, elapsed, now, accepted, faults, late>>

\* Mutant: the letter is recorded as sent before it is sent.
InspectRecording(w) ==
    LET l == worker[w].letter
        read == [worker[w] EXCEPT !.attempts = letter[l].attempts]
    IN  /\ At(w, "inspect")
        /\ Become(w, IF letter[l].status = "none" THEN [read EXCEPT !.pc = "idle"]
                     ELSE [read EXCEPT !.pc = "record", !.outcome = "sent"])
        /\ UNCHANGED <<run, blocked, active, letter, elapsed, now, accepted, faults, late>>

\* The second session reads the letter, its run and the account.
Inspect(w) ==
    LET l == worker[w].letter
        read == [worker[w] EXCEPT !.attempts = letter[l].attempts]
    IN  /\ At(w, "inspect")
        /\ Become(w,
             IF letter[l].status = "none" THEN [read EXCEPT !.pc = "idle"]
             ELSE IF blocked[l] THEN [read EXCEPT !.pc = "record", !.outcome = "held"]
             ELSE IF ~active[l] THEN [read EXCEPT !.pc = "record", !.outcome = "cancelled"]
             ELSE [read EXCEPT !.pc = "send"])
        /\ UNCHANGED <<run, blocked, active, letter, elapsed, now, accepted, faults, late>>

\* SMTP accepts the message, and says so.
Send(w) ==
    /\ At(w, "send")
    /\ accepted' = [accepted EXCEPT ![worker[w].letter] = @ + 1]
    /\ Become(w, [worker[w] EXCEPT !.pc = "record", !.outcome = "sent"])
    /\ UNCHANGED <<run, blocked, active, letter, elapsed, now, faults, late>>

\* The conversation fails before SMTP has the message, or after.
SendFails(w) ==
    /\ At(w, "send")
    /\ \/ UNCHANGED <<accepted, faults, late>>
       \/ Fault /\ accepted' = [accepted EXCEPT ![worker[w].letter] = @ + 1]
    /\ Become(w, [worker[w] EXCEPT !.pc = "record", !.outcome = "error"])
    /\ UNCHANGED <<run, blocked, active, letter, elapsed, now>>

\* The status an outcome leads to.
Status(outcome, attempts) ==
    IF outcome # "error" THEN outcome
    ELSE IF Spent(attempts) THEN "failed" ELSE "pending"

Ours(w)      == letter[worker[w].letter].token = worker[w].token

\* The final UPDATE, conditional on the claim; a retry gets a new time.
Record(w) ==
    LET l == worker[w].letter
        new == Status(worker[w].outcome, worker[w].attempts)
    IN  /\ At(w, "record") /\ Ours(w)
        /\ letter' = [letter EXCEPT ![l].status = new, ![l].token = NoClaim]
        /\ IF new = "pending" THEN SetTimer(l) ELSE UNCHANGED <<elapsed, now, faults, late>>
        /\ Goto(w, "idle")
        /\ UNCHANGED <<run, blocked, active, accepted>>

RecordLost(w) ==
    /\ At(w, "record") /\ ~Ours(w)
    /\ Goto(w, "idle")
    /\ UNCHANGED <<run, blocked, active, letter, elapsed, now, accepted, faults, late>>

\* The process dies, or an exception ends the tick.
Crash(w) ==
    /\ ~At(w, "idle") /\ Fault
    /\ Goto(w, "idle")
    /\ UNCHANGED <<run, blocked, active, letter, elapsed, now, accepted>>

-----------------------------------------------------------------------------
(* Time *)

\* A timer runs out; a claim's only once its worker is gone.
Elapse(l) ==
    /\ ~elapsed[l]
    /\ letter[l].status = "sending" => ~Carried(l)
    /\ elapsed' = [elapsed EXCEPT ![l] = TRUE]
    /\ UNCHANGED <<run, blocked, active, letter, now, worker, accepted, faults, late>>

\* A claim runs out while its worker is still sending.
Overrun(l) ==
    /\ Late
    /\ ~elapsed[l] /\ letter[l].status = "sending" /\ Carried(l)
    /\ elapsed' = [elapsed EXCEPT ![l] = TRUE]
    /\ UNCHANGED <<run, blocked, active, letter, now, worker, accepted>>

-----------------------------------------------------------------------------
WorkerStep(w) ==
    \/ Sweep(w) \/ Select(w) \/ Claim(w) \/ ClaimLost(w) \/ Inspect(w)
    \/ Send(w) \/ SendFails(w) \/ Record(w) \/ RecordLost(w)

Next ==
    \/ \E l \in Letters : \/ \E hold \in BOOLEAN : Complete(l, hold)
                          \/ Delete(l) \/ SetActive(l) \/ Elapse(l) \/ Overrun(l)
    \/ \E w \in Workers : WorkerStep(w) \/ Crash(w)

Spec == Init /\ [][Next]_vars

\* The scheduler loop ticks forever under a supervisor, and time passes.
Fairness ==
    /\ \A w \in Workers : WF_vars(WorkerStep(w))
    /\ \A l \in Letters : WF_vars(Elapse(l))

FairSpec == Spec /\ Fairness

-----------------------------------------------------------------------------
(* Properties *)

\* Every variable has its type.
TypeOK ==
    /\ run \in [Letters -> {"unfinished", "completed", "deleted"}]
    /\ blocked \in [Letters -> BOOLEAN]
    /\ active \in [Letters -> BOOLEAN]
    /\ letter \in [Letters -> Letter]
    /\ elapsed \in [Letters -> BOOLEAN]
    /\ now \in [Workers -> SUBSET Letters]
    /\ worker \in [Workers -> Place]
    /\ accepted \in [Letters -> Nat]
    /\ faults \in 0 .. MaxFaults
    /\ late \in 0 .. MaxLate

\* A letter that is sent, given up, held or cancelled stays so, whatever a late
\* worker records afterwards: "normal successful attempts are not resent"
\* (README.md:250) rests on it.
FinalIsFinal ==
    [][\A l \in Letters : letter[l].status \in Final /\ run'[l] # "deleted" =>
          letter'[l].status = letter[l].status]_vars

\* The status of a letter is true: it is given up only when all of its attempts
\* have been made, even if it is the sweep of another process that gives it up,
\* and shown as sent only if SMTP accepted it.
StatusIsTrue ==
    \A l \in Letters :
        /\ letter[l].status = "failed" => letter[l].attempts >= MaxAttempts
        /\ letter[l].status = "sent" => accepted[l] > 0

\* A letter that quality checks block, or whose run has not completed, is not
\* even claimed: a failed run is mailed only once a retry has completed it.
HeldBackUnclaimed ==
    \A l \in Letters :
        blocked[l] \/ run[l] = "unfinished" => letter[l].attempts = 0

\* A letter goes to SMTP only under the claim that is on its row, unless a tick
\* outlasted its claim: none is sent that another process has sent, given up or
\* taken over.
SentUnderItsClaim ==
    [][\A w \in Workers : late = 0 /\ At(w, "send") /\ worker'[w].pc = "record" =>
          \/ run[worker[w].letter] = "deleted"
          \/ letter[worker[w].letter].token = worker[w].token]_vars

\* Every letter of a completed run is sent, given up, held, cancelled or deleted.
EveryLetterEnds ==
    \A l \in Letters : run[l] = "completed" ~> letter[l].status \in Final \cup {"none"}
=============================================================================
