---------------------------- MODULE AccountClosure ----------------------------
(***************************************************************************)
(* Closing an account (account_closure_service): access ends at once, a    *)
(* loop in every API process removes the personal data, ends the billing   *)
(* at Stripe (account_closure_billing) and writes two notices.             *)
(*                                                                         *)
(* Composed with Checkout: the account's windows may be in the middle of   *)
(* buying when the closure is requested.  A tick is two transactions, each *)
(* under the account's row; the second calls Stripe.                       *)
(***************************************************************************)
EXTENDS Checkout

CONSTANTS Tries  \* attempts after which an operator is needed (8 in the code)

ASSUME ClosureAssumption == Tries \in Nat \ {0}

VARIABLES
    closure,  \* the row of account_closures
    tick,     \* each loop's place
    work,     \* research or a review of the account holds a live lease
    notice    \* the notices' part of the closure's row

closureVars == <<closure, tick, work, notice>>
allVars == <<vars, closureVars>>

\* removed is data_removed_at, done completed_at.  A pending or waiting closure
\* has a next_attempt_at, which may come at any time.
Closure == [state : {"none", "pending", "waiting", "needs_review", "completed"},
            attempts : 0 .. Tries, removed : BOOLEAN, done : BOOLEAN]
\* Mutant: a closure that waits is not taken up again.
OpenNew == closure.state = "pending"
Open == closure.state \in {"pending", "waiting"}

\* attempt is the checkout attempt looked at; issues says that something needs
\* an operator.
TickPlace == [pc : {"idle", "relock", "look", "expire", "stop", "finish", "failed"},
              attempt : 1 .. MaxAttempts + 1, issues : BOOLEAN]
Asleep == [pc |-> "idle", attempt |-> 1, issues |-> FALSE]

\* email is notification_email; tries is kept while another may follow.
Notice == [state : {"pending", "sent", "retry", "failed", "expired"},
           email : BOOLEAN, tries : 0 .. Tries]

ClosureTypeOK ==
    /\ TypeOK
    /\ closure \in Closure /\ tick \in [Ticks -> TickPlace] /\ work \in BOOLEAN
    /\ notice \in Notice

ClosureInit ==
    /\ Init
    /\ closure = [state |-> "none", attempts |-> 0, removed |-> FALSE, done |-> FALSE]
    /\ tick = [k \in Ticks |-> Asleep]
    /\ work \in BOOLEAN
    /\ notice = [state |-> "pending", email |-> FALSE, tries |-> 0]

-----------------------------------------------------------------------------
On(k, pc)   == tick[k].pc = pc
Goes(k, pc) == tick' = [tick EXCEPT ![k].pc = pc]
Sleeps(k)   == tick' = [tick EXCEPT ![k] = Asleep]
\* The closure's row is locked while a tick's second transaction lasts.
RowFree     == lock \notin Ticks
Same        == UNCHANGED <<closing, call, sessions, age, flying, intents, faults>>

\* request_closure: the owner or an administrator, with the password checked
\* under the locks.
RequestClosure ==
    /\ lock = Free /\ ~closing
    /\ closing' = TRUE
    /\ closure' = [closure EXCEPT !.state = "pending"]
    /\ notice' = [notice EXCEPT !.email = TRUE]
    /\ UNCHANGED <<rows, draft, lock, call, sessions, age, flying, intents, faults, tick, work>>

\* retry, by an operator.
Retry ==
    /\ closing /\ RowFree /\ closure.state # "completed"
    /\ closure' = [closure EXCEPT !.state = "pending", !.attempts = 0]
    /\ UNCHANGED <<vars, tick, work, notice>>

\* recover_checkout binds a session that exists, and retries.
Recover(a, s) ==
    /\ closing /\ lock = Free /\ closure.state # "completed" /\ a <= Len(rows)
    /\ rows[a].session = NoSession /\ s \in Answers(a)
    /\ Commit([rows EXCEPT ![a].session = s])
    /\ closure' = [closure EXCEPT !.state = "pending", !.attempts = 0]
    /\ Same /\ UNCHANGED <<tick, work, notice>>

-----------------------------------------------------------------------------
(* process_one.                                                            *)

\* The first transaction: the attempt is counted and, when nothing is running,
\* the personal data is removed.  A failing removal waits for an operator.
EraseFirst(k) ==
    /\ On(k, "idle") /\ lock = Free /\ Open
    /\ LET n == IF closure.attempts = Tries THEN Tries ELSE closure.attempts + 1
           erasing == ~closure.removed /\ ~work IN
       \/ /\ closure' = [closure EXCEPT !.attempts = n, !.removed = @ \/ erasing]
          /\ Goes(k, "relock")
          /\ UNCHANGED faults
       \/ /\ erasing /\ Fault
          /\ closure' = [closure EXCEPT !.attempts = n, !.state = "needs_review"]
          /\ UNCHANGED tick
    /\ UNCHANGED <<rows, draft, lock, closing, call, sessions, age, flying, intents, work, notice>>

\* The second transaction.
RelockTick(k) ==
    /\ On(k, "relock") /\ lock = Free
    /\ IF Open THEN lock' = k /\ Goes(k, "look") ELSE Sleeps(k) /\ UNCHANGED lock
    /\ UNCHANGED <<rows, draft, closing, call, sessions, age, flying, intents, faults, closure, work, notice>>

Next1(k, issue) == tick' = [tick EXCEPT ![k].pc = "look", ![k].attempt = @ + 1, ![k].issues = @ \/ issue]

\* An error rolls the transaction back and gives the locks up.
Fails(k) == Rollback /\ Goes(k, "failed")

\* Mutant: what is not there yet will not come.
NothingMore(a) == FALSE
\* Until expires_at a creation may still reach Stripe and be accepted.
MayArrive(a) == age[a] = 0

\* close_attempt up to the session's end.  A creation that may still be on its
\* way is never replayed: once its expires_at has passed the sessions Stripe
\* lists tell, before that an operator must.
Look(k) ==
    /\ On(k, "look") /\ lock = k
    /\ LET a == tick[k].attempt IN
       IF a > Len(draft) THEN Goes(k, "finish") /\ UNCHANGED <<rows, draft, lock>>
       ELSE LET row == draft[a]
                s == row.session IN
            IF s # NoSession
            THEN IF sessions[s].status = "open" THEN Goes(k, "expire") /\ UNCHANGED <<rows, draft, lock>>
                 ELSE IF ~Accepts(row, s) THEN Fails(k)
                 ELSE Write([draft EXCEPT ![a] = Observed(@, s)]) /\ Goes(k, "stop")
            ELSE IF row.sub # "none" THEN Goes(k, "stop") /\ UNCHANGED <<rows, draft, lock>>
            ELSE IF MayArrive(a) THEN Next1(k, TRUE) /\ UNCHANGED <<rows, draft, lock>>
            ELSE IF Answers(a) = {} THEN Write([draft EXCEPT ![a].status = "expired"]) /\ Next1(k, FALSE)
            ELSE /\ \E found \in Answers(a) : Write([draft EXCEPT ![a].session = found])
                 /\ UNCHANGED tick
    /\ Same /\ UNCHANGED <<closure, work, notice>>

\* POST expire; the customer may have paid since the session was read.
ExpireSession(k) ==
    /\ On(k, "expire") /\ lock = k
    /\ LET a == tick[k].attempt
           s == draft[a].session IN
       IF sessions[s].status = "open"
       THEN /\ sessions' = [sessions EXCEPT ![s].status = "expired"]
            /\ Write([draft EXCEPT ![a].status = "expired"])
            /\ Next1(k, FALSE)
       ELSE Fails(k) /\ UNCHANGED sessions
    /\ UNCHANGED <<closing, call, age, flying, intents, faults, closure, work, notice>>

\* The subscription is cancelled, read again, and its invoices are listed: an
\* unsettled one is an issue.
StopSubscription(k) ==
    /\ On(k, "stop") /\ lock = k
    /\ LET a == tick[k].attempt
           ended == {s \in Answers(a) : draft[a].sub # "none"} IN
       /\ sessions' = [s \in DOMAIN sessions |->
                          IF s \in ended THEN [sessions[s] EXCEPT !.sub = "ended"] ELSE sessions[s]]
       /\ Write([draft EXCEPT ![a].sub = IF ended = {} THEN @ ELSE "ended"])
       /\ \E unsettled \in BOOLEAN : Next1(k, ended # {} /\ unsettled)
    /\ UNCHANGED <<closing, call, age, flying, intents, faults, closure, work, notice>>

\* The end of the second transaction.  A message from the account's address that
\* nobody has attributed asks for an operator too (contact_review).
Finish(k) ==
    /\ On(k, "finish") /\ lock = k
    /\ \/ /\ work
          /\ closure' = [closure EXCEPT !.state = "waiting"]
          /\ Commit(draft) /\ UNCHANGED notice
       \/ \E contact \in BOOLEAN :
             /\ ~work /\ (tick[k].issues \/ contact)
             /\ closure' = [closure EXCEPT !.state = "needs_review", !.removed = TRUE]
             /\ Commit(draft) /\ UNCHANGED notice
       \/ /\ ~work /\ ~tick[k].issues
          /\ closure' = [closure EXCEPT !.state = "completed", !.removed = TRUE, !.done = TRUE]
          /\ Commit(<<>>)
          /\ notice' = IF notice.email THEN [notice EXCEPT !.state = "pending", !.tries = 0] ELSE notice
    /\ Sleeps(k)
    /\ Same /\ UNCHANGED work

\* The except clause takes the locks again, and writes whatever it finds there.
FailTick(k) ==
    /\ On(k, "failed") /\ lock = Free
    /\ closure' = IF closure.attempts >= Tries THEN [closure EXCEPT !.state = "needs_review"]
                  ELSE [closure EXCEPT !.state = "waiting"]
    /\ Sleeps(k)
    /\ UNCHANGED <<vars, work, notice>>

\* A call of the second transaction fails, or its erasure; the process dies.
LoseTick(k) ==
    /\ Fault
    /\ \/ tick[k].pc \in {"look", "expire", "stop"} /\ tick[k].attempt \in DOMAIN draft
       \/ On(k, "finish") /\ ~closure.removed
    /\ Fails(k)
    /\ UNCHANGED <<closing, call, sessions, age, flying, intents, closure, work, notice>>

CrashTick(k) ==
    /\ ~On(k, "idle") /\ Fault
    /\ Sleeps(k)
    /\ IF lock = k THEN Rollback ELSE UNCHANGED <<rows, draft, lock>>
    /\ UNCHANGED <<closing, call, sessions, age, flying, intents, closure, work, notice>>

-----------------------------------------------------------------------------
(* notify_one, under the closure's row, after the deadline and before it.    *)

Forget ==
    /\ RowFree /\ notice.email
    /\ notice' = [state |-> IF notice.state = "sent" THEN "sent" ELSE "expired", email |-> FALSE, tries |-> 0]
    /\ UNCHANGED <<vars, closure, tick, work>>

Notify ==
    /\ RowFree /\ notice.email /\ notice.state \in {"pending", "retry"}
    /\ LET n == IF notice.tries = Tries THEN Tries ELSE notice.tries + 1 IN
       \/ notice' = [state |-> "sent", email |-> closure.state # "completed", tries |-> 0]
       \/ /\ n < Tries
          /\ notice' = [notice EXCEPT !.state = "retry", !.tries = n]
       \/ /\ n = Tries
          /\ notice' = [notice EXCEPT !.state = "failed", !.tries = 0]
    /\ UNCHANGED <<vars, closure, tick, work>>

-----------------------------------------------------------------------------
(* Research.                                                               *)

Start == /\ ~closing /\ ~work /\ work' = TRUE
         /\ UNCHANGED <<vars, closure, tick, notice>>
End   == /\ work /\ work' = FALSE
         /\ UNCHANGED <<vars, closure, tick, notice>>

Process(k) == \/ EraseFirst(k) \/ RelockTick(k) \/ Look(k) \/ ExpireSession(k) \/ StopSubscription(k)
              \/ Finish(k) \/ FailTick(k)

ClosureNext ==
    \/ Next /\ UNCHANGED closureVars
    \/ RequestClosure \/ Retry \/ Notify \/ Forget \/ Start \/ End
    \/ \E a \in Attempts, s \in DOMAIN sessions : Recover(a, s)
    \/ \E k \in Ticks : Process(k) \/ LoseTick(k) \/ CrashTick(k)

\* The loops of the processes run for ever, requests end, and leases and
\* deadlines pass.  Stripe links a paid session to its subscription.
ClosureFairness ==
    /\ \A k \in Ticks : SF_allVars(Process(k))
    /\ SF_allVars(Forget)
    /\ WF_allVars(closing /\ End)
    /\ \A h \in Requests : WF_allVars(~At(h, "idle") /\ Request(h) /\ UNCHANGED closureVars)
    /\ \A s \in SessionIds : WF_allVars(s \in DOMAIN sessions /\ Link(s) /\ UNCHANGED closureVars)

ClosureSpec == ClosureInit /\ [][ClosureNext]_allVars /\ ClosureFairness

-----------------------------------------------------------------------------
(* Properties.                                                             *)

\* When a closure has completed, Stripe can take no more money for the account:
\* no session of any attempt can be paid, no subscription runs, and none comes
\* to life later, from a window that was buying or a creation still on its way.
ClosedMeansStopped == closure.done => \A s \in DOMAIN sessions : ~Payable(s)

\* Every requested closure comes to an end of its own or asks an operator.
ClosureEnds == closing ~> (closure.done \/ closure.state = "needs_review")

==============================================================================
