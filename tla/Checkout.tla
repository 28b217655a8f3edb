------------------------------- MODULE Checkout -------------------------------
(***************************************************************************)
(* Buying a subscription: one account's checkout attempts                  *)
(* (stripe_sandbox_service.start_checkout), the replacement of an          *)
(* unfinished attempt (checkout_replacement_service), the observations of  *)
(* webhooks and reconciliation, and the sessions Stripe keeps for them.    *)
(*                                                                         *)
(* Every transaction holds the account's row (lock_account), also while it *)
(* calls Stripe.  draft is what the transaction holding it has written, and*)
(* rows what is committed.  A step is a call to Stripe with the decisions  *)
(* taken on its answer, or a commit.                                       *)
(***************************************************************************)
EXTENDS Integers, Sequences

CONSTANTS
    Requests,     \* requests of the account's windows that may overlap
    Ticks,        \* transactions of other modules that take the account's row
    Targets,      \* plan revision and interval, what a checkout buys
    MaxAttempts,  \* bound: rows of sandbox_checkouts
    MaxIntents,   \* bound: replacement intents accepted
    MaxFaults     \* bound: lost calls, withdrawn targets and crashes

Free == "free"

ASSUME CheckoutAssumption ==
    /\ Targets # {} /\ MaxAttempts \in Nat \ {0} /\ MaxIntents \in Nat /\ MaxFaults \in Nat
    /\ Requests \cap Ticks = {} /\ Free \notin Requests \cup Ticks

VARIABLES
    rows,      \* sandbox_checkouts, oldest first
    draft,     \* the same, as the holder of the account's row sees it
    lock,      \* who holds the account's row
    closing,   \* closure_requested_at is set
    call,      \* each request's place
    sessions,  \* Stripe's checkout sessions, each with its subscription
    age,       \* each attempt: 0 until expires_at, 1 until 23 hours, 2
    flying,    \* attempts whose creation is still on its way from a dead process
    intents,   \* replacement intents accepted so far
    faults

vars == <<rows, draft, lock, closing, call, sessions, age, flying, intents, faults>>
stripe == <<sessions, age, flying>>

Attempts   == 1 .. MaxAttempts
NoAttempt  == 0
NoSession  == 0
NoTarget   == "none"
\* A process that did not reuse its key could create a second session.
SessionIds == 1 .. MaxAttempts + 1

\* session is checkout_id; sub is subscription_id with its status; wanted and
\* intent are replacement_intent, number its id.
Row == [target : Targets, session : SessionIds \cup {NoSession},
        status : {"creating", "open", "complete", "expired"}, sub : {"none", "live", "ended"},
        intent : {"none", "pending", "blocked", "replaced"}, wanted : Targets, number : Nat]

\* A session's subscription exists before the completed session links to it.
Session == [attempt : Attempts, status : {"open", "complete", "expired"},
            sub : {"none", "live", "ended"}, linked : BOOLEAN]

\* seen is the attempt the browser showed (none: it showed no checkout);
\* handoff marks a start made by a replacement; number is its intent_id.
Place == [pc : {"idle", "lock", "sync", "plan", "relock", "post", "record", "reopen",
                "canonical", "replay", "judge", "expire", "confirm", "failed"},
          op : {"start", "replace"}, target : Targets \cup {NoTarget}, seen : Attempts \cup {NoAttempt},
          row : Attempts \cup {NoAttempt}, handoff : BOOLEAN, number : Nat]
Idle  == [pc |-> "idle", op |-> "start", target |-> NoTarget, seen |-> NoAttempt,
          row |-> NoAttempt, handoff |-> FALSE, number |-> 0]

TypeOK ==
    /\ rows \in Seq(Row) /\ draft \in Seq(Row) /\ Len(rows) <= MaxAttempts
    /\ lock \in Requests \cup Ticks \cup {Free} /\ closing \in BOOLEAN
    /\ call \in [Requests -> Place]
    /\ sessions \in Seq(Session) /\ Len(sessions) <= MaxAttempts + 1
    /\ age \in [Attempts -> 0 .. 2] /\ flying \subseteq Attempts
    /\ intents \in 0 .. MaxIntents /\ faults \in 0 .. MaxFaults

-----------------------------------------------------------------------------
(* What Stripe answers, and what is saved of it.                           *)

Payable(s) == sessions[s].status = "open" \/ sessions[s].sub = "live"

Answers(a) == {s \in DOMAIN sessions : sessions[s].attempt = a}

\* An idempotency key answers with its session, whatever became of it; a new
\* session needs an expires_at in the future.
Creates(a) ==
    IF Answers(a) # {} \/ age[a] > 0 \/ Len(sessions) = MaxAttempts + 1 THEN UNCHANGED sessions
    ELSE sessions' = Append(sessions, [attempt |-> a, status |-> "open", sub |-> "none", linked |-> FALSE])

\* observe_checkout accepts session s for the row, else it raises.
Accepts(row, s) ==
    /\ row.session \in {NoSession, s}
    /\ sessions[s].status = "complete" => sessions[s].linked

\* Mutant: an attempt past its expires_at is taken for expired.
ObservedByClock(row, s) ==
    [row EXCEPT !.session = s, !.status = IF age[sessions[s].attempt] > 0 THEN "expired" ELSE sessions[s].status,
                !.sub = IF sessions[s].linked \/ row.sub # "none" THEN sessions[s].sub ELSE @]

\* sync_attempt: the session, then a subscription that is already saved.
Observed(row, s) ==
    [row EXCEPT !.session = s, !.status = sessions[s].status,
                !.sub = IF sessions[s].linked \/ row.sub # "none" THEN sessions[s].sub ELSE @]

\* observe_subscription alone, from a subscription's event or a saved id.
Subscribed(row, s) == [row EXCEPT !.sub = sessions[s].sub]

\* The answer to the creation is a snapshot: the session as it was created.
Created(row, s) == [row EXCEPT !.session = s, !.status = "open"]

Synced(rs, a) ==
    IF rs[a].session # NoSession THEN [rs EXCEPT ![a] = Observed(@, rs[a].session)]
    ELSE IF rs[a].sub # "none"
         THEN [rs EXCEPT ![a] = Subscribed(@, CHOOSE s \in Answers(a) : sessions[s].sub # "none")]
         ELSE rs

Readable(row) == row.session # NoSession => Accepts(row, row.session)

Live(row)     == row.sub = "live"
Pending(row)  == row.intent = "pending"
Old(a)        == age[a] = 2
NewRow(t)     == [target |-> t, session |-> NoSession, status |-> "creating", sub |-> "none",
                  intent |-> "none", wanted |-> t, number |-> 0]

-----------------------------------------------------------------------------
(* Ends of a transaction.                                                  *)

At(h, pc)   == call[h].pc = pc
Holds(h)    == lock = h
Move(h, l)  == call' = [call EXCEPT ![h] = l]
Step(h, pc) == Move(h, [call[h] EXCEPT !.pc = pc])
Over(h)     == Move(h, Idle)
Write(rs)   == draft' = rs /\ UNCHANGED <<rows, lock>>
Commit(rs)  == rows' = rs /\ draft' = rs /\ lock' = Free
Rollback    == draft' = rows /\ lock' = Free /\ UNCHANGED rows
Fault       == faults < MaxFaults /\ faults' = faults + 1

\* An error of the replacement itself goes to its except clause, with what it
\* has flushed; any other ends the request.
Handled(h) == call[h].op = "replace" /\ call[h].number # 0
Abort(h) ==
    IF Handled(h) THEN Step(h, "failed") /\ UNCHANGED <<rows, draft, lock>>
    ELSE Over(h) /\ Rollback
\* "Preserve this verified observation even when creation is blocked."
Stop(h, rs) == Commit(rs) /\ IF Handled(h) THEN Step(h, "failed") ELSE Over(h)

Init ==
    /\ rows = <<>> /\ draft = <<>> /\ lock = Free /\ closing = FALSE
    /\ call = [h \in Requests |-> Idle]
    /\ sessions = <<>> /\ age = [a \in Attempts |-> 0] /\ flying = {}
    /\ intents = 0 /\ faults = 0

-----------------------------------------------------------------------------
(* start_checkout.                                                         *)

\* A window asks to buy t, seeing attempt a as its latest or none.  After the
\* closure every request is refused before it reads anything: none is made.
Ask(h, op, t, a) ==
    /\ At(h, "idle") /\ ~closing /\ a <= Len(rows) /\ (op = "replace" => a # NoAttempt)
    /\ Move(h, [Idle EXCEPT !.pc = "lock", !.op = op, !.target = t, !.seen = a])
    /\ UNCHANGED <<rows, draft, lock, closing, intents, faults, stripe>>

\* resume: what to buy is read from the latest attempt, in the transaction
\* that goes on.
Resume(h) ==
    /\ At(h, "idle") /\ lock = Free /\ ~closing /\ Len(rows) > 0
    /\ LET a == Len(rows)
           row == rows[a] IN
       /\ Pending(row) \/ row.status \in {"creating", "open"}
       /\ Move(h, [Idle EXCEPT !.pc = "lock", !.op = IF Pending(row) THEN "replace" ELSE "start",
                               !.target = IF Pending(row) THEN row.wanted ELSE row.target, !.seen = a])
    /\ UNCHANGED <<rows, draft, lock, closing, intents, faults, stripe>>

\* lock_account, then the checks before Stripe is called.
LockStart(h) ==
    /\ At(h, "lock") /\ call[h].op = "start" /\ lock = Free
    /\ IF \/ closing
          \/ call[h].seen \notin {NoAttempt, Len(rows)}
          \/ Len(rows) > 0 /\ Pending(rows[Len(rows)])
       THEN Over(h) /\ UNCHANGED lock
       ELSE Step(h, IF rows = <<>> THEN "plan" ELSE "sync") /\ lock' = h
    /\ UNCHANGED <<rows, draft, closing, intents, faults, stripe>>

\* sync_attempt of the latest row, and what to do with it.
Sync(h) ==
    /\ At(h, "sync") /\ Holds(h)
    /\ LET a  == Len(draft)
           rs == Synced(draft, a)
           row == rs[a]
       IN  IF ~Readable(draft[a]) THEN Abort(h)
           ELSE IF \/ Live(row)
                   \/ row.status \in {"creating", "open"}
                      /\ (row.target # call[h].target \/ row.session # NoSession \/ Old(a))
                   \/ row.status \in {"complete", "expired"} /\ call[h].seen # NoAttempt
           THEN Stop(h, rs)
           ELSE /\ Write(rs)
                /\ Move(h, [call[h] EXCEPT !.pc = IF row.status = "creating" THEN "post" ELSE "plan",
                                           !.row = IF row.status = "creating" THEN a ELSE NoAttempt])
    /\ UNCHANGED <<closing, intents, faults, stripe>>

\* Mutant: every successor marks its predecessor replaced.
InsertReplacing(h) ==
    /\ At(h, "plan") /\ Holds(h) /\ Len(draft) < MaxAttempts
    /\ LET n == Len(draft) IN
       /\ Commit(Append([a \in 1 .. n |-> [draft[a] EXCEPT !.intent = IF a = n THEN "replaced" ELSE @]],
                        NewRow(call[h].target)))
       /\ Move(h, [call[h] EXCEPT !.pc = "relock", !.row = n + 1])
    /\ UNCHANGED <<closing, intents, faults, stripe>>

\* checkout_plan has validated the target: the attempt and its parameters are
\* committed before Stripe is called, with the predecessor's linkage.
Insert(h) ==
    /\ At(h, "plan") /\ Holds(h) /\ Len(draft) < MaxAttempts
    /\ LET n == Len(draft)
           linked == IF call[h].handoff THEN [draft EXCEPT ![n].intent = "replaced"] ELSE draft
       IN  /\ Commit(Append(linked, NewRow(call[h].target)))
           /\ Move(h, [call[h] EXCEPT !.pc = "relock", !.row = n + 1])
    /\ UNCHANGED <<closing, intents, faults, stripe>>

Relock(h) ==
    /\ At(h, "relock") /\ lock = Free
    /\ LET a == call[h].row IN
       IF closing \/ Len(rows) # a \/ Pending(rows[a]) \/ Live(rows[a])
       THEN Over(h) /\ UNCHANGED <<rows, draft, lock>>
       ELSE IF rows[a].session # NoSession  \* a concurrent retry already received it
       THEN /\ IF Readable(rows[a]) THEN Commit(Synced(rows, a)) ELSE UNCHANGED <<rows, draft, lock>>
            /\ Over(h)
       ELSE lock' = h /\ Step(h, "post") /\ UNCHANGED <<rows, draft>>
    /\ UNCHANGED <<closing, intents, faults, stripe>>

\* POST checkout/sessions with the attempt's own key.
Post(h) ==
    /\ At(h, "post") /\ Holds(h)
    /\ Creates(call[h].row)
    /\ Step(h, "record")
    /\ UNCHANGED <<rows, draft, lock, closing, intents, faults, age, flying>>

Record(h) ==
    /\ At(h, "record") /\ Holds(h)
    /\ LET a == call[h].row IN
       \/ /\ Answers(a) = {} /\ Abort(h)
       \/ \E s \in Answers(a) :
             IF draft[a].session \in {NoSession, s}
             THEN Commit([draft EXCEPT ![a] = Created(@, s)]) /\ Over(h)
             ELSE Abort(h)
    /\ UNCHANGED <<closing, intents, faults, stripe>>

-----------------------------------------------------------------------------
(* checkout_replacement_service.                                           *)

\* replace, up to the commit of the reviewed intent.
LockReplace(h) ==
    /\ At(h, "lock") /\ call[h].op = "replace" /\ lock = Free
    /\ LET a == call[h].seen
           row == rows[a]
           start(seen) == Move(h, [call[h] EXCEPT !.op = "start", !.pc = "sync", !.seen = seen])
           same == /\ lock' = h /\ UNCHANGED <<rows, draft, intents>>
           refused == Over(h) /\ UNCHANGED <<rows, draft, lock, intents>>
       IN  IF closing THEN refused
           ELSE IF a # Len(rows)
           \* an exact retry goes on with its own successor
           THEN IF row.intent = "replaced" /\ row.wanted = call[h].target /\ Len(rows) = a + 1
                THEN same /\ start(Len(rows)) ELSE refused
           ELSE IF Pending(row)
           THEN IF row.wanted = call[h].target
                THEN same /\ Move(h, [call[h] EXCEPT !.pc = "canonical", !.number = row.number])
                ELSE refused
           ELSE IF row.target = call[h].target THEN same /\ start(a)
           ELSE IF row.sub # "none" \/ row.status = "complete" \/ intents = MaxIntents THEN refused
           ELSE /\ Commit([rows EXCEPT ![a].intent = "pending", ![a].wanted = call[h].target,
                                       ![a].number = intents + 1])
                /\ intents' = intents + 1
                /\ Step(h, "reopen")
    /\ UNCHANGED <<closing, faults, stripe>>

\* The lock is taken again; another window may have finished the same handoff.
Reopen(h) ==
    /\ At(h, "reopen") /\ lock = Free
    /\ LET a == call[h].seen IN
       IF closing THEN Over(h) /\ UNCHANGED lock
       ELSE IF a # Len(rows) THEN Step(h, "lock") /\ UNCHANGED lock
       ELSE IF ~Pending(rows[a]) THEN Over(h) /\ UNCHANGED lock
       ELSE lock' = h /\ Move(h, [call[h] EXCEPT !.pc = "canonical", !.number = rows[a].number])
    /\ UNCHANGED <<rows, draft, closing, intents, faults, stripe>>

\* start_checkout for a replacement: the intent must be to buy what is asked for,
\* as another may have been accepted while the lock was released.
HandOver(h, row) ==
    IF row.wanted = call[h].target THEN Move(h, [call[h] EXCEPT !.pc = "plan", !.handoff = TRUE])
    ELSE Step(h, "failed")

\* Mutant: a session that was asked to expire counts as expired.
JudgeHopeful(h, rs, unexpired) ==
    LET a == call[h].seen
        row == rs[a] IN
    IF row.sub # "none" \/ row.status = "complete" THEN Stop(h, [rs EXCEPT ![a].intent = "blocked"])
    ELSE /\ Write(rs)
         /\ IF row.status = "expired" \/ unexpired = "failed" THEN HandOver(h, row) ELSE Step(h, unexpired)

\* What a verified old session allows.  A purchase that won the race stops the
\* replacement; only an expired session hands over.  A payment status or a recovery
\* link without a purchase, which also stop it, are left out.
Judge(h, rs, unexpired) ==
    LET a == call[h].seen
        row == rs[a] IN
    IF row.sub # "none" \/ row.status = "complete" THEN Stop(h, [rs EXCEPT ![a].intent = "blocked"])
    ELSE /\ Write(rs)
         /\ IF row.status = "expired" THEN HandOver(h, row) ELSE Step(h, unexpired)

\* _canonical: a row without identifiers recovers the original response first.
Canonical(h) ==
    /\ At(h, "canonical") /\ Holds(h)
    /\ LET a == call[h].seen IN
       IF draft[a].session = NoSession /\ draft[a].sub = "none"
       THEN IF Old(a) THEN Abort(h) ELSE Step(h, "replay") /\ UNCHANGED <<rows, draft, lock>>
       ELSE IF Readable(draft[a]) THEN Judge(h, Synced(draft, a), "expire") ELSE Abort(h)
    /\ UNCHANGED <<closing, intents, faults, stripe>>

Replay(h) ==
    /\ At(h, "replay") /\ Holds(h)
    /\ Creates(call[h].seen)
    /\ Step(h, "judge")
    /\ UNCHANGED <<rows, draft, lock, closing, intents, faults, age, flying>>

\* An idempotent answer may be an older snapshot: the session is retrieved.
Retrieve(h) ==
    /\ At(h, "judge") /\ Holds(h)
    /\ LET a == call[h].seen IN
       \/ Answers(a) = {} /\ Abort(h)
       \/ \E s \in Answers(a) :
             LET rs == [draft EXCEPT ![a] = Created(@, s)] IN
             IF Readable(rs[a]) THEN Judge(h, Synced(rs, a), "expire") ELSE Abort(h)
    /\ UNCHANGED <<closing, intents, faults, stripe>>

\* POST expire: an error is reconciled exactly as a success is.
Expire(h) ==
    /\ At(h, "expire") /\ Holds(h)
    /\ LET s == draft[call[h].seen].session IN
       \/ /\ sessions' = IF sessions[s].status = "open" THEN [sessions EXCEPT ![s].status = "expired"] ELSE sessions
          /\ UNCHANGED faults
       \/ Fault /\ UNCHANGED sessions
    /\ Step(h, "confirm")
    /\ UNCHANGED <<rows, draft, lock, closing, intents, age, flying>>

Confirm(h) ==
    /\ At(h, "confirm") /\ Holds(h)
    /\ LET a == call[h].seen IN
       IF Readable(draft[a]) THEN Judge(h, Synced(draft, a), "failed") ELSE Abort(h)
    /\ UNCHANGED <<closing, intents, faults, stripe>>

\* The except clause: a withdrawn target must not trap the account.
Failed(h) ==
    /\ At(h, "failed") /\ lock \in {Free, h}
    /\ LET a == call[h].seen
           row == draft[a] IN
       IF closing THEN UNCHANGED <<rows, draft, lock>>
       ELSE IF a = Len(draft) /\ row.status = "expired" /\ Pending(row) /\ row.number = call[h].number
       THEN Commit([draft EXCEPT ![a].intent = "blocked"])
       ELSE Rollback
    /\ Over(h)
    /\ UNCHANGED <<closing, intents, faults, stripe>>

-----------------------------------------------------------------------------
(* Observers: each holds the account's row while it reads Stripe.          *)

\* handle_event of a checkout event, handle_event of a subscription's or an
\* invoice's event, and a reconciliation.
Observe(a) ==
    /\ lock = Free /\ ~closing /\ a <= Len(rows)
    /\ \/ \E s \in Answers(a) : /\ Accepts(rows[a], s)
                                /\ Commit([rows EXCEPT ![a] = Observed(@, s)])
       \/ \E s \in Answers(a) : /\ sessions[s].sub # "none"
                                /\ Commit([rows EXCEPT ![a] = Subscribed(@, s)])
       \/ /\ rows[a].session # NoSession \/ rows[a].sub # "none"
          /\ Readable(rows[a])
          /\ Commit(Synced(rows, a))
    /\ UNCHANGED <<closing, call, intents, faults, stripe>>

-----------------------------------------------------------------------------
(* Stripe and its customer.                                                *)

Becomes(s, new) == /\ sessions' = [sessions EXCEPT ![s] = new]
                   /\ UNCHANGED <<rows, draft, lock, closing, call, age, flying, intents, faults>>

Pay(s)    == /\ sessions[s].status = "open"
             /\ Becomes(s, [sessions[s] EXCEPT !.status = "complete", !.sub = "live"])
Link(s)   == /\ sessions[s].status = "complete" /\ ~sessions[s].linked
             /\ Becomes(s, [sessions[s] EXCEPT !.linked = TRUE])
Cancel(s) == /\ sessions[s].sub = "live"
             /\ Becomes(s, [sessions[s] EXCEPT !.sub = "ended"])
Lapse(s)  == /\ sessions[s].status = "open" /\ age[sessions[s].attempt] > 0
             /\ Becomes(s, [sessions[s] EXCEPT !.status = "expired"])

Grow(a) ==
    /\ a <= Len(rows) /\ age[a] < 2
    /\ age' = [age EXCEPT ![a] = @ + 1]
    /\ UNCHANGED <<rows, draft, lock, closing, call, sessions, flying, intents, faults>>

\* The creation of a process that died while calling reaches Stripe.
Arrive(a) ==
    /\ a \in flying
    /\ flying' = flying \ {a}
    /\ Creates(a)
    /\ UNCHANGED <<rows, draft, lock, closing, call, age, intents, faults>>

-----------------------------------------------------------------------------
(* Faults.                                                                 *)

\* A call fails: before Stripe acted, or (record, judge) after it.
Lose(h) ==
    /\ call[h].pc \in {"sync", "plan", "post", "record", "canonical", "replay", "judge", "confirm"}
    /\ Holds(h) /\ Fault
    /\ Abort(h)
    /\ UNCHANGED <<closing, intents, stripe>>

\* The process dies: its transaction is rolled back, its call may arrive yet.
Crash(h) ==
    /\ ~At(h, "idle") /\ Fault
    /\ Over(h)
    /\ IF Holds(h) THEN Rollback ELSE UNCHANGED <<rows, draft, lock>>
    /\ \/ UNCHANGED flying
       \/ At(h, "post") /\ flying' = flying \cup {call[h].row}
       \/ At(h, "replay") /\ flying' = flying \cup {call[h].seen}
    /\ UNCHANGED <<closing, sessions, age, intents>>

Request(h) ==
    \/ \E op \in {"start", "replace"}, t \in Targets, a \in 0 .. Len(rows) : Ask(h, op, t, a)
    \/ Resume(h) \/ LockStart(h) \/ Sync(h) \/ Insert(h) \/ Relock(h) \/ Post(h) \/ Record(h)
    \/ LockReplace(h) \/ Reopen(h) \/ Canonical(h) \/ Replay(h) \/ Retrieve(h)
    \/ Expire(h) \/ Confirm(h) \/ Failed(h)

Outside ==
    \/ \E s \in DOMAIN sessions : Pay(s) \/ Link(s) \/ Cancel(s) \/ Lapse(s)
    \/ \E a \in Attempts : Grow(a) \/ Arrive(a)

Next ==
    \/ \E h \in Requests : Request(h) \/ Lose(h) \/ Crash(h)
    \/ \E a \in Attempts : Observe(a)
    \/ Outside

Spec == Init /\ [][Next]_vars

-----------------------------------------------------------------------------
(* Properties.                                                             *)

\* The account never has two checkouts it could pay for or two running
\* subscriptions, however its windows, retries, replacements and late answers
\* interleave: the attempt is committed before its creation is sent under a key
\* of its own, and a successor waits for the confirmed end of its predecessor.
PayableOnce == \A s, t \in DOMAIN sessions : Payable(s) /\ Payable(t) => s = t

\* What the rows say is over is over at Stripe: an attempt recorded as expired
\* can no longer be paid, and a subscription recorded as ended no longer bills.
EndsAreTrue ==
    \A a \in DOMAIN rows :
        /\ rows[a].status = "expired" => \A s \in Answers(a) : sessions[s].status = "expired"
        /\ rows[a].sub = "ended" => \A s \in Answers(a) : sessions[s].sub # "live"

\* A successor buys what the replaced attempt's owner agreed to, and an attempt
\* whose replacement was stopped by a purchase keeps its purchase.
ConsentKept ==
    \A a \in DOMAIN rows :
        rows[a].intent = "replaced" => /\ a < Len(rows)
                                       /\ rows[a + 1].target = rows[a].wanted
                                       /\ rows[a].sub = "none"

==============================================================================
