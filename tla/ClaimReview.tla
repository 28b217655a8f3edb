------------------------------ MODULE ClaimReview ------------------------------
(***************************************************************************)
(* Paid reviews of claims by a language model: administrators start them   *)
(* against a daily budget (start_review), and the loop of every API        *)
(* process makes at most one paid call per tick under a lease (tick).      *)
(*                                                                         *)
(* A step is a transaction, or the provider call.  A tick reads the clock  *)
(* once; so does an admission, before it waits for the budget's row.       *)
(***************************************************************************)
EXTENDS Integers, FiniteSets

CONSTANTS
    Workers,      \* API processes, each with its review loop
    Sessions,     \* start requests that may be under way at once
    Reviews,      \* request ids chosen by clients
    Cases,        \* cases selected for a review
    DailyCalls,   \* daily_call_limit
    MaxDay,       \* bound: the clock stops on this day
    MaxVersion,   \* bound: revisions of the quality settings
    MaxFaults     \* bound: crashes, deletions, redactions, and ticks that outlast
                  \* their lease of 180 seconds

ASSUME ClaimReviewAssumption ==
    /\ Reviews # {} /\ Cases \in Nat \ {0} /\ DailyCalls \in Nat
    /\ MaxDay \in Nat \ {0} /\ MaxVersion \in Nat /\ MaxFaults \in Nat

VARIABLES
    day,
    policy,    \* the current revision of the settings
    budget,    \* the row of claim_review_budget
    review,    \* claim_reviews
    ledger,    \* claim_review_requests
    session,   \* each start request's place
    worker,    \* each loop's place in its tick
    faults

vars == <<day, policy, budget, review, ledger, session, worker, faults>>

NoToken == 0
Case    == 1 .. Cases

\* writes numbers the writes of lease_until and of lease_token.
ReviewRow == [status : {"none", "queued", "running", "completed", "failed", "deleted"},
              active : BOOLEAN, token : Nat, lease : {"none", "live", "past"},
              writes : Nat, day : Nat]
NoReview  == [status |-> "none", active |-> FALSE, token |-> NoToken, lease |-> "none",
              writes |-> 0, day |-> 0]

Entry   == [outcome : {"none", "unconfirmed", "invalid", "accepted"}, day : Nat]
NoEntry == [outcome |-> "none", day |-> 0]

Place == [pc : {"idle", "seen", "claimed", "insert", "finish", "call", "record"},
          review : Reviews, day : Nat, writes : Nat, case : Nat, view : ReviewRow,
          result : {"none", "failed", "completed"},
          answer : {"none", "lost", "invalid", "overrun", "good"}]
Idle  == [pc |-> "idle", review |-> CHOOSE r \in Reviews : TRUE, day |-> 0, writes |-> 0,
          case |-> 0, view |-> NoReview, result |-> "none", answer |-> "none"]

SessionPlace == [pc : {"idle", "admit"}, review : Reviews, version : Nat, day : Nat]
IdleSession  == [pc |-> "idle", review |-> CHOOSE r \in Reviews : TRUE,
                 version |-> 0, day |-> 0]

Init ==
    /\ day = 1
    /\ policy = [version |-> 0, observe |-> TRUE]
    /\ budget = [day |-> 1, calls |-> 0]
    /\ review = [r \in Reviews |-> NoReview]
    /\ ledger = [r \in Reviews |-> [c \in Case |-> NoEntry]]
    /\ session = [s \in Sessions |-> IdleSession]
    /\ worker = [w \in Workers |-> Idle]
    /\ faults = 0

At(w, step)  == worker[w].pc = step
Become(w, p) == worker' = [worker EXCEPT ![w] = p]
Fault        == faults < MaxFaults /\ faults' = faults + 1

-----------------------------------------------------------------------------
(* Admission *)

\* start_review up to its clock reading: a known id is answered from its row.
ReadPolicy(s, r) ==
    /\ session[s].pc = "idle"
    /\ review[r].status = "none" /\ policy.observe
    /\ session' = [session EXCEPT ![s] = [pc |-> "admit", review |-> r,
                                          version |-> policy.version, day |-> day]]
    /\ UNCHANGED <<day, policy, budget, review, ledger, worker, faults>>

\* The counters start afresh on another day than the budget's.
Reset(today) == IF budget.day = today THEN budget ELSE [day |-> today, calls |-> 0]

Affordable(today)      == Reset(today).calls + Cases <= DailyCalls

NoneActive == \A r \in Reviews : ~review[r].active

\* The settings are read again under the lock of the budget's row; the primary
\* key and the unique active_key decide what another session was faster at.
Admissible(s) ==
    LET p == session[s]
    IN  /\ policy.version = p.version /\ Affordable(p.day) /\ NoneActive
        /\ review[p.review].status = "none"

Admit(s) ==
    LET p == session[s]
    IN  /\ p.pc = "admit" /\ Admissible(s)
        /\ budget' = [Reset(p.day) EXCEPT !.calls = @ + Cases]
        /\ review' = [review EXCEPT ![p.review] =
                         [NoReview EXCEPT !.status = "queued", !.active = TRUE, !.day = p.day]]
        /\ session' = [session EXCEPT ![s] = IdleSession]
        /\ UNCHANGED <<day, policy, ledger, worker, faults>>

\* A refusal, or the row another session has inserted; all is rolled back.
Refuse(s) ==
    /\ session[s].pc = "admit" /\ ~Admissible(s)
    /\ session' = [session EXCEPT ![s] = IdleSession]
    /\ UNCHANGED <<day, policy, budget, review, ledger, worker, faults>>

-----------------------------------------------------------------------------
(* One tick *)

\* Mutant: only a review that was never leased is taken.
FreeIfNew(r) == review[r].active /\ review[r].lease = "none"
Free(r)      == review[r].active /\ review[r].lease # "live"

\* The active review, if its lease is over by the clock read now.
Look(w) ==
    /\ At(w, "idle")
    /\ \E r \in Reviews :
          /\ Free(r)
          /\ Become(w, [Idle EXCEPT !.pc = "seen", !.review = r, !.day = day,
                                    !.writes = review[r].writes])
    /\ UNCHANGED <<day, policy, budget, review, ledger, session, faults>>

\* A lease written since lies later than this tick's clock reading.
Claimable(w) ==
    LET row == review[worker[w].review]
    IN  row.active /\ row.writes = worker[w].writes

Claim(w) ==
    LET r == worker[w].review
        n == review[r].writes + 1
    IN  /\ At(w, "seen") /\ Claimable(w)
        /\ review' = [review EXCEPT ![r].status = "running", ![r].token = n,
                                    ![r].lease = "live", ![r].writes = n]
        /\ Become(w, [worker[w] EXCEPT !.pc = "claimed", !.writes = n])
        /\ UNCHANGED <<day, policy, budget, ledger, session, faults>>

ClaimLost(w) ==
    /\ At(w, "seen") /\ ~Claimable(w)
    /\ Become(w, Idle)
    /\ UNCHANGED <<day, policy, budget, review, ledger, session, faults>>

Entered(r)  == {c \in Case : ledger[r][c].outcome # "none"}
Accepted(r) == {c \in Case : ledger[r][c].outcome = "accepted"}

\* Mutant: an interrupted request does not stop the review.
MustStopUnlessOff(w) == review[worker[w].review].day # worker[w].day \/ ~policy.observe

\* A previous request was not accepted, the review is switched off, or its day is over.
MustStop(w) ==
    LET r == worker[w].review
    IN  \/ Entered(r) # Accepted(r)
        \/ ~policy.observe
        \/ review[r].day # worker[w].day

\* The claimant reads the review and its requests.  It may always have to stop: the
\* owner is closing, the administrator has lost access, the review is two hours old
\* or incompatible.
Check(w) ==
    LET r == worker[w].review
        finish(result) == [worker[w] EXCEPT !.pc = "finish", !.view = review[r], !.result = result]
    IN  /\ At(w, "claimed")
        /\ \/ review[r].status = "deleted" /\ Become(w, Idle)
           \/ review[r].status # "deleted" /\ Become(w, finish("failed"))
           \/ /\ review[r].status # "deleted" /\ ~MustStop(w)
              /\ Entered(r) = Case /\ Become(w, finish("completed"))
           \/ /\ review[r].status # "deleted" /\ ~MustStop(w)
              /\ \E c \in Case \ Entered(r) :
                    /\ \A b \in Case \ Entered(r) : c <= b
                    /\ Become(w, [worker[w] EXCEPT !.pc = "insert", !.case = c])
        /\ UNCHANGED <<day, policy, budget, review, ledger, session, faults>>

Ended(row, result) == [row EXCEPT !.status = result, !.active = FALSE, !.token = NoToken]

\* A flush writes the columns that differ from the row as the tick read it.
Flush(row, view, new) == [f \in DOMAIN row |-> IF new[f] = view[f] THEN row[f] ELSE new[f]]

\* finish, which nothing fences; a changed benchmark turns success into failure.
Finish(w) ==
    LET r == worker[w].review
        view == worker[w].view
    IN  /\ At(w, "finish")
        /\ IF review[r].status = "deleted" THEN UNCHANGED review
           ELSE \E result \in {worker[w].result, "failed"} :
                  review' = [review EXCEPT ![r] = Flush(@, view, Ended(view, result))]
        /\ Become(w, Idle)
        /\ UNCHANGED <<day, policy, budget, ledger, session, faults>>

Vacant(r, c) == review[r].status # "deleted" /\ ledger[r][c].outcome = "none"

\* The intent is committed before the call; a case has one request.
Insert(w) ==
    LET r == worker[w].review
        c == worker[w].case
    IN  /\ At(w, "insert") /\ Vacant(r, c)
        /\ ledger' = [ledger EXCEPT ![r][c] = [outcome |-> "unconfirmed", day |-> worker[w].day]]
        /\ Become(w, [worker[w] EXCEPT !.pc = "call"])
        /\ UNCHANGED <<day, policy, budget, review, session, faults>>

InsertFails(w) ==
    /\ At(w, "insert") /\ ~Vacant(worker[w].review, worker[w].case)
    /\ Become(w, Idle)
    /\ UNCHANGED <<day, policy, budget, review, ledger, session, faults>>

\* overrun: the answer is accepted, but its cost is unknown or too high.
Call(w) ==
    /\ At(w, "call")
    /\ \E answer \in {"lost", "invalid", "overrun", "good"} :
          Become(w, [worker[w] EXCEPT !.pc = "record", !.answer = answer])
    /\ UNCHANGED <<day, policy, budget, review, ledger, session, faults>>

Ours(w) == LET row == review[worker[w].review]
           IN  row.active /\ row.token = worker[w].writes

Outcome(answer) == CASE answer = "lost" -> "unconfirmed"
                     [] answer = "invalid" -> "invalid"
                     [] OTHER -> "accepted"

\* What becomes of the review: failed, finished with its last case, or released.
After(row, c, answer, result) ==
    IF answer # "good" THEN Ended(row, "failed")
    ELSE IF c = Cases THEN Ended(row, result)
    ELSE [row EXCEPT !.token = NoToken]

\* The lease row is taken first, and ends now.  The last case finishes the review:
\* completed, or failed when its benchmark has changed.
Record(w) ==
    LET r == worker[w].review
        c == worker[w].case
        row == [review[r] EXCEPT !.lease = "past", !.writes = @ + 1]
    IN  /\ At(w, "record") /\ Ours(w)
        /\ ledger' = [ledger EXCEPT ![r][c].outcome = Outcome(worker[w].answer)]
        /\ \E result \in {"completed", "failed"} :
              review' = [review EXCEPT ![r] = After(row, c, worker[w].answer, result)]
        /\ Become(w, Idle)
        /\ UNCHANGED <<day, policy, budget, session, faults>>

RecordLost(w) ==
    /\ At(w, "record") /\ ~Ours(w)
    /\ Become(w, Idle)
    /\ UNCHANGED <<day, policy, budget, review, ledger, session, faults>>

Crash(w) ==
    /\ ~At(w, "idle") /\ Fault
    /\ Become(w, Idle)
    /\ UNCHANGED <<day, policy, budget, review, ledger, session>>

-----------------------------------------------------------------------------
(* Settings, closure, deletion and time *)

\* A revision of the quality settings switches reviews on or off, or neither.
Revise(observe) ==
    /\ policy.version < MaxVersion
    /\ policy' = [version |-> policy.version + 1, observe |-> observe]
    /\ UNCHANGED <<day, budget, review, ledger, session, worker, faults>>

\* Erasure ends the reviews of a closing administrator and redacted publications.
Redact(r) ==
    /\ review[r].active \/ review[r].status = "completed"
    /\ Fault
    /\ review' = [review EXCEPT ![r] = Ended(@, "failed")]
    /\ UNCHANGED <<day, policy, budget, ledger, session, worker>>

\* A review goes with its run.  Its requests go too; the ledger keeps them for the
\* properties, and nothing else reads them.
Delete(r) ==
    /\ review[r].status \notin {"none", "deleted"} /\ Fault
    /\ review' = [review EXCEPT ![r] = Ended(@, "deleted")]
    /\ UNCHANGED <<day, policy, budget, ledger, session, worker>>

\* A tick that holds the lease of a review.
Carried(r) ==
    \E w \in Workers : /\ worker[w].pc \in {"claimed", "insert", "finish", "call", "record"}
                       /\ worker[w].review = r /\ worker[w].writes = review[r].token

LeaseExpires(r) ==
    /\ review[r].lease = "live"
    /\ IF Carried(r) THEN Fault ELSE UNCHANGED faults
    /\ review' = [review EXCEPT ![r].lease = "past"]
    /\ UNCHANGED <<day, policy, budget, ledger, session, worker>>

Midnight ==
    /\ day < MaxDay
    /\ day' = day + 1
    /\ UNCHANGED <<policy, budget, review, ledger, session, worker, faults>>

-----------------------------------------------------------------------------
WorkerStep(w) ==
    \/ Look(w) \/ Claim(w) \/ ClaimLost(w) \/ Check(w) \/ Finish(w) \/ Insert(w)
    \/ InsertFails(w) \/ Call(w) \/ Record(w) \/ RecordLost(w)

Next ==
    \/ \E s \in Sessions : (\E r \in Reviews : ReadPolicy(s, r)) \/ Admit(s) \/ Refuse(s)
    \/ \E w \in Workers : WorkerStep(w) \/ Crash(w)
    \/ \E observe \in BOOLEAN : Revise(observe)
    \/ \E r \in Reviews : Redact(r) \/ Delete(r) \/ LeaseExpires(r)
    \/ Midnight

Spec == Init /\ [][Next]_vars

\* The loop of each API process ticks every two seconds for ever, and leases run out.
Fairness ==
    /\ \A w \in Workers : WF_vars(WorkerStep(w))
    /\ \A r \in Reviews : WF_vars(LeaseExpires(r))

FairSpec == Spec /\ Fairness

-----------------------------------------------------------------------------
(* Properties *)

\* Every variable has its type.
TypeOK ==
    /\ day \in 1 .. MaxDay
    /\ policy \in [version : 0 .. MaxVersion, observe : BOOLEAN]
    /\ budget \in [day : Nat, calls : 0 .. DailyCalls]
    /\ review \in [Reviews -> ReviewRow]
    /\ ledger \in [Reviews -> [Case -> Entry]]
    /\ session \in [Sessions -> SessionPlace]
    /\ worker \in [Workers -> Place]
    /\ faults \in 0 .. MaxFaults

\* "An uncertain submission is never automatically repeated" (claim_review_worker.py:1)
\* nor followed by another: a request that was not accepted is the review's last,
\* whatever ticks crashed or outlasted their lease.
UncertainIsLast ==
    \A r \in Reviews, b, c \in Case :
        b < c /\ ledger[r][c].outcome # "none" => ledger[r][b].outcome = "accepted"

\* A completed review has an accepted verdict for each of its cases.
CompletedIsReviewed ==
    \A r \in Reviews : review[r].status = "completed" => Accepted(r) = Case

\* A review that was admitted ends, and makes room for the next.
EveryReviewEnds == \A r \in Reviews : review[r].active ~> ~review[r].active
=============================================================================
