----------------------------- MODULE PlanChanges -----------------------------
(***************************************************************************)
(* Changing a subscription: a change at renewal, through a Stripe schedule *)
(* (subscription_change_service), and an immediate paid upgrade, through a *)
(* pending Stripe update (subscription_upgrade_service), for one account   *)
(* whose purchase is complete; what the observations make of both          *)
(* (billing_change_observation, billing_upgrade_observation), and the plan *)
(* the verified invoices allow (billing_invoice_service).                  *)
(*                                                                         *)
(* Every transaction holds the account's row, also while it calls Stripe.  *)
(* The calls of one observation read one state of Stripe; between an       *)
(* observation and a POST, Stripe's clock, the owner's payments and an     *)
(* operator go on.                                                         *)
(***************************************************************************)
EXTENDS Integers, Sequences

CONSTANTS
    MaxPeriod,    \* bound: billing periods of the subscription
    MaxIntents,   \* bound: rows of subscription_changes and subscription_upgrades
    MaxFailures,  \* 10 in the code: failures before an operator is asked
    MaxFaults     \* bound: lost calls and crashes

ASSUME PlanAssumption ==
    MaxPeriod \in Nat \ {0} /\ MaxIntents \in Nat /\ MaxFailures \in Nat \ {0} /\ MaxFaults \in Nat

VARIABLES
    sub,       \* Stripe's subscription
    invoices,  \* Stripe's invoices of it, the last one is its latest
    sched,     \* Stripe's schedule made for each change
    near,      \* the renewal is less than the code's margins away
    done,      \* upgrades whose POST Stripe has carried out: their idempotency keys
    db,        \* what is saved
    tx,        \* the transaction that holds the account's row while it calls Stripe
    calls,     \* requests between two of their transactions
    faults

planVars == <<sub, invoices, sched, near, done, db, tx, calls, faults>>

Low     == "low"
High    == "high"
Prices  == {Low, High}
Periods == 1 .. MaxPeriod
Ids     == 1 .. MaxIntents
NoId    == 0

\* pending is the upgrade whose update waits for its payment.
Subscription == [price : Prices, period : Periods, status : {"active", "past_due", "canceled"},
                 pending : Ids \cup {NoId}]
\* by is the upgrade that a prorated invoice pays for; a renewal's has none.
Invoice  == [price : Prices, period : Periods, status : {"open", "paid", "void"}, tried : BOOLEAN,
             by : Ids \cup {NoId}]
\* phases: 1 as created, 2 once configured; early: released before its boundary.
Schedule == [status : {"none", "active", "released", "canceled"}, phases : 1 .. 2, early : BOOLEAN]

ChangeTerminal == {"applied", "undone", "stopped"}
Work == {"preparing", "undoing", "finalizing"}
Open == {"submitting", "pending_payment", "needs_review"}

\* at is the period at whose end the change takes effect; known is schedule_id,
\* applied is applied_at, old marks 23 hours since it was made.
Change  == [state : Work \cup ChangeTerminal \cup {"scheduled", "awaiting_payment", "needs_review"},
            source : Prices, target : Prices, at : Periods, known : BOOLEAN, applied : BOOLEAN,
            attempts : Nat, old : BOOLEAN]
\* base is source_invoice_id, invoice is invoice_id.
Upgrade == [state : Open \cup {"preview", "applied", "expired"}, submitted : BOOLEAN, base : Nat,
            invoice : Nat, period : Periods, applied : BOOLEAN, attempts : Nat, old : BOOLEAN]
\* A saved invoice: its status, whether payment was tried, and its issue.
Paper   == [status : {"open", "paid", "void"}, tried : BOOLEAN, issue : BOOLEAN]
Saved   == [plan : Prices, matches : BOOLEAN, period : Periods,
            status : {"active", "past_due", "canceled"}, papers : Seq(Paper),
            changes : Seq(Change), upgrades : Seq(Upgrade)]

PlanTypeOK ==
    /\ sub \in Subscription
    /\ invoices \in Seq(Invoice)
    /\ sched \in [Ids -> Schedule]
    /\ near \in BOOLEAN /\ done \subseteq Ids
    /\ db \in Saved /\ tx.draft \in Saved
    /\ tx.pc \in {"idle", "create", "configure", "release", "released", "charge", "charged"}
    /\ calls \subseteq [what : {"configure", "change failed", "upgrade failed"}, id : Ids]
    /\ faults \in 0 .. MaxFaults

-----------------------------------------------------------------------------
(* The plan that saved invoices allow.                                     *)

Latest(d) == Len(d.papers)
PaidBy(d, k) == {j \in DOMAIN d.upgrades : d.upgrades[j].invoice = k}

\* settled_chain: a paid invoice, and below an upgrade's invoice its source; an
\* expired upgrade's void invoice stands for its source.
SettledBy(d, chain, k) ==
    /\ k > 0
    /\ ~d.papers[k].issue
    /\ IF PaidBy(d, k) = {} THEN d.papers[k].status = "paid"
       ELSE \A j \in PaidBy(d, k) :
               LET u == d.upgrades[j] IN
               /\ \/ u.applied /\ d.papers[k].status = "paid"
                  \/ ~u.applied /\ u.state = "expired" /\ d.papers[k].status = "void"
               /\ chain[u.base]

\* ... for every saved invoice.
Settled(d) == LET chain[k \in 0 .. Latest(d)] == SettledBy(d, chain, k) IN chain

\* Mutant: any unpaid renewal of an account that has paid before is in grace.
GraceBorrowed(d, k, plan) ==
    /\ d.papers[k].status = "open" /\ d.papers[k].tried
    /\ \E p \in 1 .. Latest(d) : invoices[p].period + 1 = d.period /\ Settled(d)[p]

\* A renewal that is open after a failed payment keeps the plan for the days of
\* grace if the period before it was settled, but a change to a higher tier
\* borrows no grace from the lower one.
Grace(d, k, plan) ==
    /\ d.papers[k].status = "open" /\ d.papers[k].tried
    /\ ~\E i \in DOMAIN d.changes :
          LET c == d.changes[i] IN
          c.applied /\ c.target = plan /\ c.at + 1 = invoices[k].period /\ c.source = Low /\ c.target = High
    /\ LET before == {j \in DOMAIN d.upgrades : d.upgrades[j].applied /\ d.upgrades[j].period + 1 = d.period}
       IN  IF before # {} THEN \E j \in before : /\ \A h \in before : h <= j
                                                 /\ Settled(d)[d.upgrades[j].invoice]
           ELSE \E p \in 1 .. Latest(d) : invoices[p].period + 1 = d.period /\ Settled(d)[p]

\* Mutant: an unpaid upgrade is an unpaid subscription.
SourceFalls(plan, matches) == FALSE
\* While an upgrade is not applied the plan it was asked on stands.
SourceStands(plan, matches) == plan = Low /\ matches

\* assessment of invoice k for a plan, after an upgrade's invoice that of the
\* invoice it was bought on, which is always judged for the lower plan.
AssessedBy(d, source, k, plan, matches) ==
    IF k = 0 THEN "none"
    ELSE IF PaidBy(d, k) # {}
    THEN LET u == d.upgrades[CHOOSE j \in PaidBy(d, k) : TRUE] IN
         IF ~u.applied
         THEN IF SourceStands(plan, matches) THEN source[u.base] ELSE "none"
         ELSE IF /\ ~d.papers[k].issue /\ d.papers[k].status = "paid"
                 /\ d.period = u.period
                 /\ source[u.base] = "covered"
              THEN "covered" ELSE "none"
    ELSE IF d.papers[k].issue \/ invoices[k].period # d.period THEN "none"
    ELSE IF d.papers[k].status = "paid" THEN "covered"
    ELSE IF Grace(d, k, plan) THEN "grace" ELSE "none"

Sources(d) == LET source[k \in 0 .. Latest(d)] == AssessedBy(d, source, k, Low, TRUE) IN source
Assessment(d, latest) == AssessedBy(d, Sources(d), latest, d.plan, d.matches)

Covered(d) == Assessment(d, Latest(d)) = "covered"

\* _resolve_billing: the plan in force now, or the free plan.
Access(d) ==
    IF /\ d.matches /\ d.period = sub.period
       /\ \/ d.status = "active" /\ Covered(d)
          \/ d.status \in {"active", "past_due"} /\ Assessment(d, Latest(d)) = "grace"
    THEN d.plan ELSE "free"

-----------------------------------------------------------------------------
(* observe_subscription: what is saved of Stripe's state.                  *)

\* The bindings that took effect, a change at a boundary, an upgrade within its
\* period: each with its place in their order, and the prices before and after.
Bindings(d) ==
    {<<2 * (d.changes[i].at + 1), d.changes[i].source, d.changes[i].target>> :
         i \in {h \in DOMAIN d.changes : d.changes[h].applied}}
    \cup {<<2 * d.upgrades[j].period + 1, Low, High>> :
         j \in {h \in DOMAIN d.upgrades : d.upgrades[h].applied}}

\* expected_invoice_price: what the last binding before the invoice has made of it.
ExpectedPrice(d, period) ==
    LET past == {e \in Bindings(d) : e[1] <= 2 * period}
    IN  IF Bindings(d) = {} THEN d.plan
        ELSE IF past = {} THEN (CHOOSE e \in Bindings(d) : \A f \in Bindings(d) : e[1] <= f[1])[2]
        ELSE (CHOOSE e \in past : \A f \in past : f[1] <= e[1])[3]

\* validate_upgrade_invoice: the invoice is that of upgrade j, at its price and
\* for the period it was quoted for.
Quoted(d, k, j) ==
    invoices[k].by = j /\ invoices[k].price = High /\ invoices[k].period = d.upgrades[j].period

\* What an operator has to look at: an upgrade's invoice that is not as quoted, a
\* prorated one of no upgrade, one at another price than was bound for its period.
InvoiceIssue(d, k) ==
    IF PaidBy(d, k) # {} THEN \E j \in PaidBy(d, k) : ~Quoted(d, k, j)
    ELSE invoices[k].by # NoId \/ invoices[k].price # ExpectedPrice(d, invoices[k].period)

\* invoices.observe of every invoice.
ObservedPapers(d) ==
    [k \in DOMAIN invoices |->
        [status |-> invoices[k].status, tried |-> invoices[k].tried, issue |-> InvoiceIssue(d, k)]]

\* evidence: the invoices below an upgrade are read again before it is judged.
Evidence(d) == [d EXCEPT !.papers = ObservedPapers(d)]

Last(set) == CHOOSE i \in set : \A h \in set : h <= i

HasTarget(i) == sched[i].phases = 2

\* billing_change_observation.observe.
ObserveChange(d) ==
    LET unfinished == {h \in DOMAIN d.changes : d.changes[h].state \notin ChangeTerminal}
        i == Last(unfinished)
        c == d.changes[i]
        stopped == [d EXCEPT !.changes[i].state = "stopped"]
    IN  IF unfinished = {} \/ ~c.known THEN d
        ELSE IF sub.status = "canceled" THEN stopped
        ELSE IF sub.price = c.target /\ sub.period > c.at
        THEN IF ~HasTarget(i) \/ (sched[i].status = "released" /\ sched[i].early) THEN d
             ELSE IF c.applied THEN [d EXCEPT !.plan = c.target]
             ELSE [d EXCEPT !.plan = c.target, !.changes[i].applied = TRUE,
                            !.changes[i].state = "awaiting_payment"]
        ELSE IF /\ c.state \in {"scheduled", "preparing", "needs_review"} /\ sub.price = c.source
                /\ sched[i].status \in {"released", "canceled"}
        THEN stopped
        ELSE d

\* billing_upgrade_observation.observe, with the invoice already attached: what
\* its payment and the subscription say together.
Judged(d, j) ==
    LET u == d.upgrades[j]
        status == invoices[u.invoice].status
        became(state) == [d EXCEPT !.upgrades[j].state = state]
    IN  IF status = "paid" /\ sub.pending = NoId /\ sub.price = High /\ sub.status = "active"
        THEN IF sub.period = u.period /\ Assessment(d, u.base) = "covered"
             THEN [d EXCEPT !.plan = High, !.upgrades[j].state = "applied", !.upgrades[j].applied = TRUE]
             ELSE became("needs_review")
        ELSE IF status = "void" /\ sub.pending = NoId /\ sub.price = Low THEN became("expired")
        ELSE IF status = "open" /\ sub.pending # NoId /\ sub.price = Low THEN became("pending_payment")
        ELSE became("needs_review")

\* The invoice of a submitted upgrade is recognised by its quote.
ObserveUpgrade(d) ==
    LET submitted == {h \in DOMAIN d.upgrades : d.upgrades[h].submitted}
        j == Last(submitted)
        u == d.upgrades[j]
        k == Len(invoices)
    IN  IF submitted = {} THEN d
        ELSE IF u.state \in {"applied", "expired"} THEN d
        ELSE IF u.invoice # NoId THEN Judged(Evidence(d), j)
        ELSE IF k = u.base THEN d
        ELSE IF Quoted(d, k, j) THEN Judged(Evidence([d EXCEPT !.upgrades[j].invoice = k]), j)
        ELSE [d EXCEPT !.upgrades[j].state = "needs_review"]

\* The subscription's own fields, and reconcile: its invoices under the bindings.
Reconciled(d) ==
    [d EXCEPT !.matches = (sub.price = d.plan), !.period = sub.period, !.status = sub.status,
              !.papers = ObservedPapers(d)]

\* billing_change_observation.paid: the change's first payment is verified.
Paid(d) ==
    IF d.matches /\ d.status = "active" /\ Covered(d)
    THEN [d EXCEPT !.changes = [i \in DOMAIN @ |->
             IF @[i].state = "awaiting_payment" THEN [@[i] EXCEPT !.state = "finalizing"] ELSE @[i]]]
    ELSE d

\* One after the other: each works on what the one before it has written.
Observed(d) ==
    LET noted == {ObserveUpgrade(c) : c \in {ObserveChange(d)}}
    IN  CHOOSE e \in {Paid(r) : r \in {Reconciled(u) : u \in noted}} : TRUE

-----------------------------------------------------------------------------
(* Transactions.                                                           *)

NoTransaction == [pc |-> "idle", id |-> NoId, draft |-> db]
Quiet == tx.pc = "idle"
Stripe == <<sub, invoices, sched, near, done>>

Fault == faults < MaxFaults /\ faults' = faults + 1

\* The transaction ends with d saved, also as the draft of the next.
Commit(d) == db' = d /\ tx' = [pc |-> "idle", id |-> NoId, draft |-> db']
Hold(pc, i, d) == tx' = [pc |-> pc, id |-> i, draft |-> d] /\ UNCHANGED db
\* billing.Error: rolled back; the failure is counted in a transaction to come.
Raise(what, i) == Commit(db) /\ calls' = calls \cup {[what |-> what, id |-> i]}

Attached == {i \in Ids : sched[i].status = "active"}
Late(c) == sub.period > c.at \/ (sub.period = c.at /\ near)
\* The subscription is still the one that the change was made for.
IsSource(c) == sub.status = "active" /\ sub.price = c.source /\ sub.period = c.at

\* simple_subscription: nothing at Stripe that a change could not account for.
Simple == sub.pending = NoId

Blocked(d) ==
    \/ \E i \in DOMAIN d.changes : d.changes[i].state \notin ChangeTerminal
    \/ \E j \in DOMAIN d.upgrades : d.upgrades[j].state \in Open

\* What schedule and preflight both require of the observed state; a subscription
\* that is to end with its period (cancel_at_period_end) is left out.
Changeable(d) ==
    /\ d.status = "active" /\ d.matches /\ Covered(d)
    /\ Simple /\ Attached = {} /\ ~near

\* options: the plan a change at renewal leads to, a downgrade or a higher tier;
\* an immediate upgrade costs more.
Choice(plan)   == IF plan = Low THEN High ELSE Low
Eligible(plan) == plan = Low

Room == Len(db.changes) + Len(db.upgrades) < MaxIntents

PlanInit ==
    \E p \in Prices :
        /\ sub = [price |-> p, period |-> 1, status |-> "active", pending |-> NoId]
        /\ invoices = <<[price |-> p, period |-> 1, status |-> "paid", tried |-> TRUE, by |-> NoId]>>
        /\ sched = [i \in Ids |-> [status |-> "none", phases |-> 1, early |-> FALSE]]
        /\ near = FALSE /\ done = {}
        /\ db = [plan |-> p, matches |-> TRUE, period |-> 1, status |-> "active",
                 papers |-> <<[status |-> "paid", tried |-> TRUE, issue |-> FALSE]>>,
                 changes |-> <<>>, upgrades |-> <<>>]
        /\ tx = NoTransaction /\ calls = {} /\ faults = 0

-----------------------------------------------------------------------------
(* A change at renewal.                                                    *)

\* schedule: the intent is saved before Stripe hears of it.
Submit ==
    /\ Quiet /\ Room /\ ~Blocked(db)
    /\ LET d == Observed(db) IN
       /\ ~Blocked(d) /\ Changeable(d)
       /\ Commit([d EXCEPT !.changes = Append(@,
             [state |-> "preparing", source |-> d.plan, target |-> Choice(d.plan),
              at |-> d.period, known |-> FALSE, applied |-> FALSE, attempts |-> 0, old |-> FALSE])])
    /\ UNCHANGED <<Stripe, calls, faults>>

In(i, states) == Quiet /\ i \in DOMAIN db.changes /\ db.changes[i].state \in states
Became(d, i, state) == [d EXCEPT !.changes[i].state = state]

\* advance, before a schedule is known: an unresolved creation is replayed under
\* its own key, for 23 hours.
StartCreate(i) ==
    /\ In(i, {"preparing"}) /\ ~db.changes[i].known
    /\ LET c == db.changes[i] IN
       IF ~IsSource(c) \/ c.old THEN Commit(Became(db, i, "needs_review")) /\ UNCHANGED calls
       ELSE IF ~Simple THEN Raise("change failed", i)
       ELSE Hold("create", i, db) /\ UNCHANGED calls
    /\ UNCHANGED <<Stripe, faults>>

\* At Stripe: a key answers with its schedule; a second schedule is refused.
Creatable(i) == sched[i].status # "none" \/ (Attached = {} /\ sub.status # "canceled")
Created(i) ==
    sched' = IF sched[i].status = "none" THEN [sched EXCEPT ![i].status = "active"] ELSE sched

\* POST subscription_schedules; its id is saved before the phases are set.
Create ==
    /\ tx.pc = "create"
    /\ LET i == tx.id IN
       \/ /\ Creatable(i) /\ Attached \subseteq {i}
          /\ Created(i) /\ Commit([db EXCEPT !.changes[i].known = TRUE])
          /\ UNCHANGED <<calls, faults>>
       \/ ~Creatable(i) /\ Raise("change failed", i) /\ UNCHANGED <<sched, faults>>
       \/ Creatable(i) /\ Fault /\ Created(i) /\ Raise("change failed", i)
    /\ UNCHANGED <<sub, invoices, near, done>>

\* advance, with the schedule: the parameters are saved before they are sent.
VerifyChange(i) ==
    /\ In(i, {"preparing"}) /\ db.changes[i].known
    /\ LET c == db.changes[i] IN
       IF sched[i].status # "active" THEN Commit(Became(db, i, "stopped")) /\ UNCHANGED calls
       ELSE IF HasTarget(i) THEN Commit(Became(db, i, "scheduled")) /\ UNCHANGED calls
       ELSE IF Late(c) THEN Commit(Became(db, i, "needs_review")) /\ UNCHANGED calls
       ELSE IF ~IsSource(c) \/ ~Simple THEN Raise("change failed", i)
       ELSE calls' = calls \cup {[what |-> "configure", id |-> i]} /\ UNCHANGED <<db, tx>>
    /\ UNCHANGED <<Stripe, faults>>

\* The account's row is taken again.
Relock(i) ==
    LET call == [what |-> "configure", id |-> i] IN
    /\ Quiet /\ call \in calls
    /\ calls' = calls \ {call}
    /\ IF db.changes[i].state = "preparing" THEN Hold("configure", i, db) ELSE UNCHANGED <<db, tx>>
    /\ UNCHANGED <<Stripe, faults>>

\* Stripe refuses phases of a schedule that is over or past its boundary.
Configure ==
    /\ tx.pc = "configure"
    /\ LET i == tx.id
           accepts == sched[i].status = "active" /\ sub.period = db.changes[i].at
           configured == sched' = [sched EXCEPT ![i].phases = 2]
       IN  \/ accepts /\ configured /\ Commit(Became(db, i, "scheduled")) /\ UNCHANGED <<calls, faults>>
           \/ ~accepts /\ UNCHANGED <<sched, faults>> /\ Raise("change failed", i)
           \/ accepts /\ Fault /\ configured /\ Raise("change failed", i)
    /\ UNCHANGED <<sub, invoices, near, done>>

\* undo, of a change that has not begun.
Undo(i) ==
    /\ In(i, {"scheduled"}) /\ ~Late(db.changes[i])
    /\ Commit(Became(db, i, "undoing"))
    /\ UNCHANGED <<Stripe, calls, faults>>

\* Mutant: a released schedule is a change undone.
FinishUnread(i) ==
    Commit(Became(db, i, IF db.changes[i].state = "undoing" THEN "undone" ELSE "applied"))

\* The schedule is over: what became of the change is read from the subscription.
Finish(i) ==
    LET d == Observed(db)
        undoing == db.changes[i].state = "undoing" /\ ~d.changes[i].applied
    IN  Commit(IF undoing
               THEN Became(d, i, IF d.matches /\ d.status # "canceled" THEN "undone" ELSE "needs_review")
               ELSE IF d.changes[i].state = "finalizing" THEN Became(d, i, "applied") ELSE d)

\* Mutant: an undo too close to the boundary is left as it is.
StartReleaseLeaving(i) ==
    /\ In(i, {"undoing", "finalizing"})
    /\ IF sched[i].status # "active" THEN Finish(i)
       ELSE IF db.changes[i].state = "undoing" /\ Late(db.changes[i]) THEN Commit(Observed(db))
       ELSE Hold("release", i, db)
    /\ UNCHANGED <<Stripe, calls, faults>>

\* advance of an undo or a verified change: not released within the margin of
\* the boundary, where the release could leave the new price in place.
StartRelease(i) ==
    /\ In(i, {"undoing", "finalizing"})
    /\ IF sched[i].status # "active" THEN Finish(i)
       ELSE IF db.changes[i].state = "undoing" /\ Late(db.changes[i])
       THEN LET d == Observed(db) IN
            Commit(IF d.changes[i].state = "undoing" THEN Became(d, i, "scheduled") ELSE d)
       ELSE Hold("release", i, db)
    /\ UNCHANGED <<Stripe, calls, faults>>

\* POST release.  The answer, and the observation after it, come after Stripe has
\* acted; the renewal may come before.
Release ==
    /\ tx.pc = "release"
    /\ LET i == tx.id IN
       \/ /\ sched[i].status # "active" /\ Raise("change failed", i)
          /\ UNCHANGED <<sched, faults>>
       \/ /\ sched[i].status = "active" /\ Fault
          /\ sched' = [sched EXCEPT ![i].status = "released", ![i].early = (sub.period = db.changes[i].at)]
          /\ Raise("change failed", i)
       \/ /\ sched[i].status = "active"
          /\ sched' = [sched EXCEPT ![i].status = "released", ![i].early = (sub.period = db.changes[i].at)]
          /\ Hold("released", i, db) /\ UNCHANGED <<calls, faults>>
    /\ UNCHANGED <<sub, invoices, near, done>>

\* The answer's observation, in the same transaction.
Released == tx.pc = "released" /\ Finish(tx.id) /\ UNCHANGED <<Stripe, calls, faults>>

\* advance of a change an operator was asked about: it is only read.  The code runs
\* the change's part of the observation; here the whole one follows at once.
ReviewChange(i) ==
    /\ In(i, {"needs_review"})
    /\ IF db.changes[i].known THEN Commit(Observed(db))
       ELSE Attached = {} /\ db.changes[i].old /\ Commit(Became(db, i, "stopped"))
    /\ UNCHANGED <<Stripe, calls, faults>>

\* retry's except clause: the row is read again, whatever it has become.
Fail(i) ==
    LET call == [what |-> "change failed", id |-> i]
        n == db.changes[i].attempts + 1 IN
    /\ Quiet /\ call \in calls
    /\ calls' = calls \ {call}
    /\ Commit([db EXCEPT !.changes[i].attempts = n,
                          !.changes[i].state = IF n >= MaxFailures THEN "needs_review" ELSE @])
    /\ UNCHANGED <<Stripe, faults>>

-----------------------------------------------------------------------------
(* An immediate upgrade.                                                   *)

\* preview: a quote for the rest of the period, on the latest invoice.
Preview ==
    /\ Quiet /\ Room /\ ~Blocked(db)
    /\ LET d == Observed(db) IN
       /\ Changeable(d) /\ Eligible(d.plan)
       /\ Commit([d EXCEPT !.upgrades = Append(
             [j \in DOMAIN @ |-> IF @[j].state = "preview" THEN [@[j] EXCEPT !.state = "expired"] ELSE @[j]],
             [state |-> "preview", submitted |-> FALSE, base |-> Latest(d), invoice |-> NoId,
              period |-> d.period, applied |-> FALSE, attempts |-> 0, old |-> FALSE])])
    /\ UNCHANGED <<Stripe, calls, faults>>

UpgradeIn(j, states) == Quiet /\ j \in DOMAIN db.upgrades /\ db.upgrades[j].state \in states
Turned(d, j, state) == [d EXCEPT !.upgrades[j].state = state]

\* confirm: the quote must still be what it was reviewed on.
ConfirmQuote(j) ==
    /\ UpgradeIn(j, {"preview"}) /\ ~Blocked(db)
    /\ LET d == Observed(db)
           u == db.upgrades[j] IN
       /\ Changeable(d) /\ Eligible(d.plan) /\ Latest(d) = u.base /\ d.period = u.period
       /\ Commit([Turned(d, j, "submitting") EXCEPT !.upgrades[j].submitted = TRUE])
    /\ UNCHANGED <<Stripe, calls, faults>>

\* confirm, after ten minutes or with another charge: a new quote is needed.
ExpireQuote(j) ==
    /\ UpgradeIn(j, {"preview"})
    /\ Commit(Turned(db, j, "expired"))
    /\ UNCHANGED <<Stripe, calls, faults>>

\* retry: observed first; the POST is made only while the subscription is still
\* the one that was quoted, and for 23 hours.
RetryUpgrade(j) ==
    /\ UpgradeIn(j, Open)
    /\ LET d == Observed(db)
           u == d.upgrades[j] IN
       IF u.state # "submitting" \/ u.invoice # NoId THEN Commit(d)
       ELSE IF \/ u.old \/ ~Covered(d) \/ sub.pending # NoId \/ Attached # {} \/ sub.status # "active"
               \/ sub.price # Low \/ Len(invoices) # u.base \/ sub.period # u.period
       THEN Commit(Turned(d, j, "needs_review"))
       ELSE Hold("charge", j, d)
    /\ UNCHANGED <<Stripe, calls, faults>>

\* At Stripe: the invoice is paid and the price changes, or the update waits for
\* its payment; a key answers with what it has done.
Chargeable(j) == j \in done \/ (sub.status = "active" /\ sub.pending = NoId /\ sub.period = db.upgrades[j].period)
Charged(j) ==
    IF j \in done THEN UNCHANGED <<sub, invoices, done>>
    ELSE \E paid \in BOOLEAN :
            /\ sub' = IF paid THEN [sub EXCEPT !.price = High] ELSE [sub EXCEPT !.pending = j]
            /\ invoices' = Append(invoices, [price |-> High, period |-> sub.period,
                   status |-> IF paid THEN "paid" ELSE "open", tried |-> TRUE, by |-> j])
            /\ done' = done \cup {j}

ChargeUpgrade ==
    /\ tx.pc = "charge"
    /\ LET j == tx.id IN
       \/ Chargeable(j) /\ Charged(j) /\ Hold("charged", j, tx.draft) /\ UNCHANGED <<calls, faults>>
       \/ ~Chargeable(j) /\ Raise("upgrade failed", j) /\ UNCHANGED <<sub, invoices, done, faults>>
       \/ Chargeable(j) /\ Fault /\ Charged(j) /\ Raise("upgrade failed", j)
    /\ UNCHANGED <<sched, near>>

\* The observation after the charge, and the commit.
ChargeSeen ==
    /\ tx.pc = "charged"
    /\ Commit(Observed(tx.draft))
    /\ UNCHANGED <<Stripe, calls, faults>>

FailUpgrade(j) ==
    LET call == [what |-> "upgrade failed", id |-> j]
        n == db.upgrades[j].attempts + 1 IN
    /\ Quiet /\ call \in calls
    /\ calls' = calls \ {call}
    /\ Commit([db EXCEPT !.upgrades[j].attempts = n,
                          !.upgrades[j].state = IF n >= MaxFailures THEN "needs_review" ELSE @])
    /\ UNCHANGED <<Stripe, faults>>

-----------------------------------------------------------------------------
(* Observations, faults and time.                                          *)

\* An event, a reconciliation or a window's refresh.
Observe ==
    /\ Quiet /\ Observed(db) # db
    /\ Commit(Observed(db))
    /\ UNCHANGED <<Stripe, calls, faults>>

\* The holder's call is lost before Stripe acts, or its process ends.
Lose ==
    /\ ~Quiet /\ Fault
    /\ \/ Commit(db) /\ UNCHANGED calls
       \/ Raise(IF tx.pc \in {"charge", "charged"} THEN "upgrade failed" ELSE "change failed", tx.id)
    /\ UNCHANGED Stripe

Drop(call) ==
    /\ call \in calls /\ Fault
    /\ calls' = calls \ {call}
    /\ UNCHANGED <<Stripe, db, tx>>

\* A day passes for an unresolved intent, longer than any call; Stripe's keys may
\* be forgotten after it.
AgeChange(i) ==
    /\ In(i, {"preparing", "needs_review"}) /\ ~db.changes[i].old
    /\ ~\E call \in calls : call.id = i
    /\ Commit([db EXCEPT !.changes[i].old = TRUE])
    /\ UNCHANGED <<Stripe, calls, faults>>
AgeUpgrade(j) ==
    /\ UpgradeIn(j, {"submitting"}) /\ ~db.upgrades[j].old
    /\ ~\E call \in calls : call.id = j
    /\ Commit([db EXCEPT !.upgrades[j].old = TRUE])
    /\ done' = done \ {j}
    /\ UNCHANGED <<sub, invoices, sched, near, calls, faults>>

-----------------------------------------------------------------------------
(* Stripe, its clock, the owner's payments and an operator at Stripe.      *)

Local == <<done, db, tx, calls, faults>>

Near ==
    /\ ~near /\ sub.status # "canceled" /\ sub.period < MaxPeriod
    /\ near' = TRUE
    /\ UNCHANGED <<sub, invoices, sched, Local>>

Voided(set) == [k \in DOMAIN invoices |->
    IF invoices[k].by \in set \ {NoId} /\ invoices[k].status = "open"
    THEN [invoices[k] EXCEPT !.status = "void"] ELSE invoices[k]]

\* The period ends: a schedule with its second phase sets the new price, one
\* without releases the subscription, a pending update is discarded.
Renew ==
    /\ near /\ sub.status # "canceled"
    /\ near' = FALSE
    /\ LET turning == {i \in Attached : sched[i].phases = 2 /\ db.changes[i].at = sub.period}
           price == IF turning # {} THEN db.changes[Last(turning)].target ELSE sub.price IN
       /\ sched' = [i \in Ids |-> IF i \in Attached \ turning THEN [sched[i] EXCEPT !.status = "released"]
                                 ELSE sched[i]]
       /\ sub' = [sub EXCEPT !.price = price, !.period = @ + 1, !.pending = NoId]
       /\ invoices' = Append(Voided({sub.pending}), [price |-> price, period |-> sub.period + 1,
                             status |-> "open", tried |-> FALSE, by |-> NoId])
    /\ UNCHANGED Local

Renewal == Last({k \in DOMAIN invoices : invoices[k].by = NoId})
Collect(paid) ==
    /\ invoices[Renewal].status = "open" /\ sub.status # "canceled"
    /\ paid \/ ~invoices[Renewal].tried
    /\ invoices' = [invoices EXCEPT ![Renewal].tried = TRUE, ![Renewal].status = IF paid THEN "paid" ELSE @]
    /\ sub' = [sub EXCEPT !.status = IF paid THEN "active" ELSE "past_due"]
    /\ UNCHANGED <<sched, near, Local>>

\* The owner pays the upgrade's invoice, or Stripe discards the update in time.
PayUpgrade ==
    /\ sub.pending # NoId /\ sub.status # "canceled"
    /\ sub' = [sub EXCEPT !.price = High, !.pending = NoId]
    /\ invoices' = [k \in DOMAIN invoices |-> IF invoices[k].by = sub.pending
                       THEN [invoices[k] EXCEPT !.status = "paid"] ELSE invoices[k]]
    /\ UNCHANGED <<sched, near, Local>>
DiscardUpgrade ==
    /\ sub.pending # NoId
    /\ sub' = [sub EXCEPT !.pending = NoId] /\ invoices' = Voided({sub.pending})
    /\ UNCHANGED <<sched, near, Local>>

\* The subscription is canceled at Stripe.
Cancel ==
    /\ sub.status # "canceled"
    /\ sub' = [sub EXCEPT !.status = "canceled", !.pending = NoId]
    /\ invoices' = Voided({sub.pending})
    /\ sched' = [i \in Ids |-> IF i \in Attached THEN [sched[i] EXCEPT !.status = "canceled"] ELSE sched[i]]
    /\ near' = FALSE
    /\ UNCHANGED Local

\* An operator releases a stranded schedule.
OperatorRelease(i) ==
    /\ i \in Attached /\ i \in DOMAIN db.changes /\ db.changes[i].state = "needs_review"
    /\ sched' = [sched EXCEPT ![i].status = "released", ![i].early = (sub.period = db.changes[i].at)]
    /\ UNCHANGED <<sub, invoices, near, Local>>

-----------------------------------------------------------------------------

Advance(i) == StartCreate(i) \/ VerifyChange(i) \/ Relock(i) \/ StartRelease(i) \/ Fail(i)
Pursue(j) == RetryUpgrade(j) \/ FailUpgrade(j)
Holder == Create \/ Configure \/ Release \/ Released \/ ChargeUpgrade \/ ChargeSeen

PlanNext ==
    \/ Submit \/ Preview \/ Observe \/ Holder \/ Lose
    \/ \E i \in Ids : \/ Advance(i) \/ Undo(i) \/ ReviewChange(i) \/ AgeChange(i) \/ OperatorRelease(i)
                      \/ Pursue(i) \/ ConfirmQuote(i) \/ ExpireQuote(i) \/ AgeUpgrade(i)
    \/ \E call \in calls : Drop(call)
    \/ Near \/ Renew \/ PayUpgrade \/ DiscardUpgrade \/ Cancel
    \/ \E paid \in BOOLEAN : Collect(paid)

\* The ticks take up whatever is due of the unfinished changes, and of the
\* upgrades that are submitted or wait for their payment; a transaction comes to
\* its end; Stripe discards an update that is not paid.  Nobody has to pay, undo,
\* confirm or review.
PlanFairness ==
    /\ WF_planVars(Holder)
    /\ WF_planVars(DiscardUpgrade)
    /\ SF_planVars(\E i \in Ids : Advance(i) \/ (UpgradeIn(i, {"submitting", "pending_payment"}) /\ RetryUpgrade(i)))

PlanSpec == PlanInit /\ [][PlanNext]_planVars /\ PlanFairness

-----------------------------------------------------------------------------
(* Properties.                                                             *)

\* The higher plan is in force only while its owner has paid for it: this
\* period's upgrade or renewal, or the period before at that price (which the
\* code accepts in grace; the formula does not ask for it).
HigherPlanIsPaid ==
    Access(db) = High =>
        \E k \in DOMAIN invoices :
            /\ invoices[k].status = "paid" /\ invoices[k].price = High
            /\ invoices[k].period \in {sub.period, sub.period - 1}

\* An upgrade that is unpaid, discarded or unresolved takes nothing away: who has
\* paid this period at the lower price keeps that plan.  The price is both charged
\* and bound: where they disagree an operator is asked (invoice_issue).
PaidPlanIsKept ==
    /\ Quiet /\ db = Observed(db)
    /\ sub.status = "active" /\ sub.price = Low /\ db.plan = Low
    /\ ExpectedPrice(db, sub.period) = Low
    /\ invoices[Renewal].status = "paid"
    => Access(db) = Low

\* A change that is called undone never takes effect: its schedule was given up
\* before its boundary.
UndoneIsTrue ==
    \A i \in DOMAIN db.changes : db.changes[i].state = "undone" =>
        sched[i].status # "active" /\ (HasTarget(i) => sched[i].early) /\ ~db.changes[i].applied

\* Every intent comes to rest: on its renewal, in an end of its own, or with an
\* operator.
IntentWaits ==
    \/ \E i \in DOMAIN db.changes : db.changes[i].state \in Work
    \/ \E j \in DOMAIN db.upgrades : db.upgrades[j].state \in {"submitting", "pending_payment"}
IntentsSettle == IntentWaits ~> ~IntentWaits
==============================================================================
