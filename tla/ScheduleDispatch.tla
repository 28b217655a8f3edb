--------------------------- MODULE ScheduleDispatch ---------------------------
(***************************************************************************)
(* Schedules of digests and the dispatchers that turn due occurrences into *)
(* runs (ScheduleDispatcher.tick), against API sessions that save or       *)
(* delete schedules, billing that pauses them, and runs of the same        *)
(* account.                                                                *)
(*                                                                         *)
(* Dispatch, saving, pausing and closing hold the account's lock from      *)
(* their first statement to their commit; reading a digest, deleting a     *)
(* schedule and disabling an account do not take it.  A schedule has the   *)
(* set of its occurrences here; Recurrence has the calendar.               *)
(***************************************************************************)
EXTENDS Integers, Sequences, FiniteSetsExt

CONSTANTS
    Owners,
    Digests,      \* digest ids, numbers because the page is ordered by id
    OwnerOf,      \* [Digests -> Owners]
    Dispatchers,  \* scheduler processes
    Sessions,     \* API requests that may be under way at once
    Schedules,    \* the schedules a user may save
    NoSchedule,   \* schedule IS NULL
    Plans,        \* the access an account may get, of Access
    Page,         \* LIMIT of the tick's query, 100 in the code
    MaxTime,      \* bound: the clock stops here
    Crashes       \* whether dispatchers may crash

Never  == 0       \* a timestamp that IS NULL
Nobody == "nobody"

\* open and free (the Free plan as a fallback) admit runs; limited is a spent
\* rate limit, exhausted a spent allowance, blocked an unverified payment.
Access == {"open", "free", "limited", "exhausted", "blocked"}

ASSUME ScheduleAssumption ==
    /\ Digests \subseteq Nat /\ Digests # {}
    /\ OwnerOf \in [Digests -> Owners]
    /\ \A s \in Schedules : /\ s.dates \subseteq Nat \ {0} /\ s.ends \in Nat
                            /\ s.email \in BOOLEAN
    /\ NoSchedule \notin Schedules /\ Nobody \notin Dispatchers
    /\ Plans \subseteq Access
    /\ MaxTime \in Nat \ {0} /\ Page \in Nat \ {0} /\ Crashes \in BOOLEAN

VARIABLES
    clock,
    row,      \* the digests' schedule columns
    since,    \* when the schedule of a digest was last saved
    access,   \* what the plan of an account admits
    active,   \* is_active of an account
    closing,  \* closure was requested
    running,  \* whether an account has a queued or running run
    runs,     \* scheduled runs, in the order in which they were started
    lock,     \* the dispatcher that holds an account's lock
    tick,     \* each dispatcher's place in tick
    session   \* each API session's place in its request

vars == <<clock, row, since, access, active, closing, running, runs, lock,
          tick, session>>

Row == [schedule : Schedules \cup {NoSchedule}, next : Nat,
        paused : BOOLEAN, deferred : BOOLEAN]
EmptyRow == [schedule |-> NoSchedule, next |-> Never,
             paused |-> FALSE, deferred |-> FALSE]

ScheduledRun == [digest : Digests, due : Nat]

Tick == [pc : {"idle", "examine", "claim", "defer"}, now : Nat,
         page : Seq(Digests), cursor : Nat]
IdleTick == [pc |-> "idle", now |-> 0, page |-> <<>>, cursor |-> Never]

SessionPlace == [pc : {"idle", "save", "delete"}, digest : Digests, view : Row]
IdleSession == [pc |-> "idle", digest |-> CHOOSE d \in Digests : TRUE,
                view |-> EmptyRow]

Init ==
    /\ clock = 1
    /\ row = [d \in Digests |-> EmptyRow]
    /\ since = [d \in Digests |-> 0]
    /\ access = [o \in Owners |-> "open"]
    /\ active = [o \in Owners |-> TRUE]
    /\ closing = [o \in Owners |-> FALSE]
    /\ running = [o \in Owners |-> FALSE]
    /\ runs = <<>>
    /\ lock = [o \in Owners |-> Nobody]
    /\ tick = [w \in Dispatchers |-> IdleTick]
    /\ session = [s \in Sessions |-> IdleSession]

-----------------------------------------------------------------------------
(* Occurrences *)

Over(s, t)    == s.ends # Never /\ t >= s.ends
Past(s, t)    == {o \in s.dates : o <= t}
ToCome(s, t)  == {o \in s.dates : o > t}

\* around: the latest occurrence so far and the next, cut off by the end.
Latest(s, t) == IF Over(s, t) \/ Past(s, t) = {} THEN Never ELSE Max(Past(s, t))

\* Mutant: the cursor is left on the occurrence that has just been run.
FollowingLatest(s, t) ==
    IF Over(s, t) THEN Never
    ELSE IF Past(s, t) # {} THEN Max(Past(s, t)) ELSE Min(ToCome(s, t))

Following(s, t) ==
    IF Over(s, t) \/ ToCome(s, t) = {} \/ Over(s, Min(ToCome(s, t)))
    THEN Never ELSE Min(ToCome(s, t))

-----------------------------------------------------------------------------
(* Plans *)

\* The Free plan has no email.
Incompatible(o, s) == access[o] = "free" /\ s # NoSchedule /\ s.email

Paused(r) == [r EXCEPT !.paused = TRUE, !.next = Never, !.deferred = FALSE]

\* resolve pauses every schedule of the account that the Free plan excludes.
Resolved(o, rows) ==
    [d \in Digests |-> IF OwnerOf[d] = o /\ Incompatible(o, rows[d].schedule)
                       THEN Paused(rows[d]) ELSE rows[d]]

\* A flush writes the columns that differ from the row as the session knows it.
Flush(table, view, new) ==
    [c \in DOMAIN table |-> IF new[c] = view[c] THEN table[c] ELSE new[c]]

-----------------------------------------------------------------------------
(* The dispatcher *)

At(w, step) == tick[w].pc = step

Due(d, t) ==
    /\ row[d].next # Never /\ row[d].next <= t
    /\ ~row[d].paused /\ ~row[d].deferred /\ active[OwnerOf[d]]

Earlier(d, e) == row[d].next < row[e].next \/ (row[d].next = row[e].next /\ d < e)

\* The first due digests, in order, and all of them unless the page is full.
IsPage(p) ==
    /\ \A i \in DOMAIN p : Due(p[i], clock)
    /\ \A i, j \in DOMAIN p : i < j => Earlier(p[i], p[j])
    /\ \A d \in Digests : Due(d, clock) => (\E i \in DOMAIN p : p[i] = d) \/ (Len(p) = Page /\ Earlier(p[Page], d))

\* The clock is read and the first Page due digests are selected.
Select(w) ==
    /\ At(w, "idle")
    /\ \E n \in 1 .. Page : \E page \in [1 .. n -> Digests] :
          /\ IsPage(page)
          /\ tick' = [tick EXCEPT ![w] = [pc |-> "examine", now |-> clock, page |-> page, cursor |-> Never]]
    /\ UNCHANGED <<clock, row, since, access, active, closing, running, runs, lock, session>>

\* The digest at hand is done with: back to the page, or the tick is over.
Advanced(t) == [t EXCEPT !.page = Tail(@), !.cursor = Never,
                         !.pc = IF Len(t.page) = 1 THEN "idle" ELSE "examine"]

StillDue(r, t) == r.schedule # NoSchedule /\ r.next # Never /\ r.next <= t

\* Lock the account, read the digest again and resolve the plan.
Examine(w) ==
    LET d == Head(tick[w].page)
        o == OwnerOf[d]
        due == StillDue(row[d], tick[w].now)
        resolved == Resolved(o, row)
    IN  /\ At(w, "examine") /\ lock[o] = Nobody
        /\ IF due /\ ~resolved[d].paused
           THEN /\ tick' = [tick EXCEPT ![w].pc = "claim", ![w].cursor = row[d].next]
                /\ lock' = [lock EXCEPT ![o] = w]
                /\ UNCHANGED row
           ELSE /\ tick' = [tick EXCEPT ![w] = Advanced(@)]
                /\ row' = IF due THEN resolved ELSE row
                /\ UNCHANGED lock
        /\ UNCHANGED <<clock, since, access, active, closing, running, runs, session>>

\* Mutant: the transaction is left open.
RollbackForgotten(w, o) ==
    /\ w \in Dispatchers /\ o \in Owners
    /\ UNCHANGED <<clock, row, since, access, active, closing, running, runs, lock, session>>

\* Nothing of the transaction remains.
Rollback(w, o) ==
    /\ lock' = [lock EXCEPT ![o] = Nobody]
    /\ UNCHANGED <<clock, row, since, access, active, closing, running, runs, session>>

\* What comes of the transaction, in the order in which the code finds out.
Outcome(w) ==
    LET d == Head(tick[w].page)
        o == OwnerOf[d]
        s == row[d].schedule
    IN  IF row[d].next # tick[w].cursor THEN "lost"
        ELSE IF s = NoSchedule THEN "broken"
        ELSE IF ~active[o] THEN "lost"
        ELSE IF Latest(s, tick[w].now) = Never THEN "over"
        ELSE IF running[o] \/ access[o] = "limited" THEN "busy"
        ELSE IF access[o] \in {"exhausted", "blocked"} \/ Incompatible(o, s) THEN "refused"
        ELSE "started"

\* The occurrence stays due; an exception gives up the rest of the page as well.
GiveUp(w) ==
    /\ At(w, "claim") /\ Outcome(w) \in {"lost", "busy", "broken"}
    /\ tick' = [tick EXCEPT ![w] = IF Outcome(w) = "broken" THEN IdleTick ELSE Advanced(@)]
    /\ Rollback(w, OwnerOf[Head(tick[w].page)])

\* The plan refuses the run: roll back, and ask again in a minute.
Refuse(w) ==
    /\ At(w, "claim") /\ Outcome(w) = "refused"
    /\ tick' = [tick EXCEPT ![w].pc = "defer"]
    /\ Rollback(w, OwnerOf[Head(tick[w].page)])

\* The deferral is conditional on the cursor: an edit may have come in between.
Defer(w) ==
    LET d == Head(tick[w].page)
    IN  /\ At(w, "defer")
        /\ row' = IF row[d].next = tick[w].cursor THEN [row EXCEPT ![d].deferred = TRUE] ELSE row
        /\ tick' = [tick EXCEPT ![w] = Advanced(@)]
        /\ UNCHANGED <<clock, since, access, active, closing, running, runs, lock, session>>

\* Cursor, run and letter are committed together; an occurrence cut off by the
\* end only moves the cursor.
Dispatch(w) ==
    LET d == Head(tick[w].page)
        o == OwnerOf[d]
        due == Latest(row[d].schedule, tick[w].now)
        cursor == [row EXCEPT ![d].next = Following(row[d].schedule, tick[w].now)]
    IN  /\ At(w, "claim") /\ Outcome(w) \in {"over", "started"}
        /\ IF Outcome(w) = "over"
           THEN /\ row' = Resolved(o, cursor)
                /\ UNCHANGED <<running, runs>>
           ELSE /\ row' = Resolved(o, [cursor EXCEPT ![d].deferred = FALSE])
                /\ running' = [running EXCEPT ![o] = TRUE]
                /\ runs' = Append(runs, [digest |-> d, due |-> due])
        /\ lock' = [lock EXCEPT ![o] = Nobody]
        /\ tick' = [tick EXCEPT ![w] = Advanced(@)]
        /\ UNCHANGED <<clock, since, access, active, closing, session>>

\* The process dies: its transaction is rolled back and its page forgotten.
Crash(w) ==
    /\ Crashes /\ ~At(w, "idle")
    /\ tick' = [tick EXCEPT ![w] = IdleTick]
    /\ lock' = [o \in Owners |-> IF lock[o] = w THEN Nobody ELSE lock[o]]
    /\ UNCHANGED <<clock, row, since, access, active, closing, running, runs, session>>

-----------------------------------------------------------------------------
(* API sessions *)

\* The request reads the digest, without a lock.
Read(s, op, d) ==
    /\ session[s].pc = "idle"
    /\ session' = [session EXCEPT ![s] = [pc |-> op, digest |-> d, view |-> row[d]]]
    /\ UNCHANGED <<clock, row, since, access, active, closing, running, runs, lock, tick>>

\* The digest's own session resolves the plan on the row as it read it, and then
\* writes the new schedule over the result.
Saved(o, d, view, schedule) ==
    LET known == IF Incompatible(o, view.schedule) THEN Paused(view) ELSE view
        new == [schedule |-> schedule, next |-> Following(schedule, clock),
                paused |-> FALSE, deferred |-> FALSE]
        rows == [Resolved(o, row) EXCEPT ![d] = row[d]]
    IN  [rows EXCEPT ![d] = Flush(Flush(row[d], view, known), known, new)]

\* save_schedule: check_details locks the account and may refuse.
Save(s, schedule) ==
    LET d == session[s].digest
        o == OwnerOf[d]
    IN  /\ session[s].pc = "save" /\ lock[o] = Nobody
        /\ IF closing[o] \/ access[o] = "blocked" \/ Incompatible(o, schedule)
           THEN UNCHANGED <<row, since>>
           ELSE /\ row' = Saved(o, d, session[s].view, schedule)
                /\ since' = [since EXCEPT ![d] = clock]
        /\ session' = [session EXCEPT ![s] = IdleSession]
        /\ UNCHANGED <<clock, access, active, closing, running, runs, lock, tick>>

\* delete_schedule takes no lock; it waits only for a dispatch in its last step.
Delete(s) ==
    LET d == session[s].digest
    IN  /\ session[s].pc = "delete"
        /\ row' = [row EXCEPT ![d] = Flush(row[d], session[s].view, EmptyRow)]
        /\ session' = [session EXCEPT ![s] = IdleSession]
        /\ UNCHANGED <<clock, since, access, active, closing, running, runs, lock, tick>>

\* Any page that shows the subscription resolves it and commits.
Overview(o) ==
    /\ lock[o] = Nobody /\ ~closing[o] /\ Resolved(o, row) # row
    /\ row' = Resolved(o, row)
    /\ UNCHANGED <<clock, since, access, active, closing, running, runs, lock, tick, session>>

\* A closing account loses its schedules' cursors for good.
Close(o) ==
    /\ lock[o] = Nobody /\ ~closing[o]
    /\ closing' = [closing EXCEPT ![o] = TRUE]
    /\ active' = [active EXCEPT ![o] = FALSE]
    /\ row' = [d \in Digests |-> IF OwnerOf[d] = o THEN Paused(row[d]) ELSE row[d]]
    /\ UNCHANGED <<clock, since, access, running, runs, lock, tick, session>>

\* An administrator disables or enables an account, without the account lock.
SetActive(o) ==
    /\ ~closing[o]
    /\ active' = [active EXCEPT ![o] = ~@]
    /\ UNCHANGED <<clock, row, since, access, closing, running, runs, lock, tick, session>>

\* A run of the account starts by hand, or ends.
StartManual(o) ==
    /\ lock[o] = Nobody /\ active[o] /\ ~running[o] /\ access[o] \in {"open", "free"}
    /\ running' = [running EXCEPT ![o] = TRUE]
    /\ UNCHANGED <<clock, row, since, access, active, closing, runs, lock, tick, session>>

RunEnds(o) ==
    /\ lock[o] = Nobody /\ running[o]
    /\ running' = [running EXCEPT ![o] = FALSE]
    /\ UNCHANGED <<clock, row, since, access, active, closing, runs, lock, tick, session>>

-----------------------------------------------------------------------------
(* The preview, billing and time *)

\* Mutant: the preview forgets that missed dates coalesce.
PreviewFromCursor(d, t) == IF Over(row[d].schedule, t) THEN Never ELSE row[d].next

\* The first date schedule_preview shows.
Preview(d, t) ==
    LET r == row[d]
        candidate == IF r.next <= t THEN Latest(r.schedule, t) ELSE r.next
    IN  IF r.next = Never \/ Over(r.schedule, t) \/ candidate < r.next
        THEN Never ELSE candidate

SetAccess(o, a) ==
    /\ access[o] # a
    /\ access' = [access EXCEPT ![o] = a]
    /\ UNCHANGED <<clock, row, since, active, closing, running, runs, lock, tick, session>>

Advance ==
    /\ clock < MaxTime
    /\ clock' = clock + 1
    /\ UNCHANGED <<row, since, access, active, closing, running, runs, lock, tick, session>>

\* A minute after a refusal.
RetryElapses(d) ==
    /\ row[d].deferred
    /\ row' = [row EXCEPT ![d].deferred = FALSE]
    /\ UNCHANGED <<clock, since, access, active, closing, running, runs, lock, tick, session>>

-----------------------------------------------------------------------------
TickStep(w) == Select(w) \/ Examine(w) \/ GiveUp(w) \/ Refuse(w) \/ Defer(w) \/ Dispatch(w)

Request(s) ==
    \/ \E d \in Digests, op \in {"save", "delete"} : Read(s, op, d)
    \/ \E schedule \in Schedules : Save(s, schedule)
    \/ Delete(s)

Next ==
    \/ \E w \in Dispatchers : TickStep(w) \/ Crash(w)
    \/ \E s \in Sessions : Request(s)
    \/ \E o \in Owners : \/ Overview(o) \/ Close(o) \/ SetActive(o)
                         \/ StartManual(o) \/ RunEnds(o)
                         \/ \E a \in Plans : SetAccess(o, a)
    \/ Advance
    \/ \E d \in Digests : RetryElapses(d)

Spec == Init /\ [][Next]_vars

\* The scheduler loops under a supervisor, and a minute passes.
Fairness ==
    /\ \A w \in Dispatchers : WF_vars(TickStep(w))
    /\ \A d \in Digests : WF_vars(RetryElapses(d))

FairSpec == Spec /\ Fairness

-----------------------------------------------------------------------------
(* Properties *)

\* Every variable has its type, and a dispatcher is idle exactly without a page.
TypeOK ==
    /\ clock \in 1 .. MaxTime
    /\ row \in [Digests -> Row]
    /\ since \in [Digests -> Nat]
    /\ access \in [Owners -> Access]
    /\ active \in [Owners -> BOOLEAN]
    /\ closing \in [Owners -> BOOLEAN]
    /\ running \in [Owners -> BOOLEAN]
    /\ runs \in Seq(ScheduledRun)
    /\ lock \in [Owners -> Dispatchers \cup {Nobody}]
    /\ tick \in [Dispatchers -> Tick]
    /\ \A w \in Dispatchers : At(w, "idle") <=> tick[w].page = <<>>
    /\ session \in [Sessions -> SessionPlace]

\* The runs of a digest are for ever later occurrences, none from before its
\* schedule was last saved: competing dispatchers, edits, crashes and delays run
\* none twice, and "past starts do not immediately enqueue work" (README.md:246).
OccurrencesRunOnce ==
    [][\A i \in Len(runs) + 1 .. Len(runs') : LET d == runs'[i].digest IN
          /\ runs'[i].due > since[d]
          /\ \A j \in 1 .. Len(runs) : runs[j].digest = d => runs[j].due < runs'[i].due]_vars

\* The preview shows the very occurrence that a dispatch at that time would run.
PreviewIsWhatRuns ==
    \A d \in Digests :
        row[d].schedule # NoSchedule /\ Due(d, clock) =>
            Preview(d, clock) = Latest(row[d].schedule, clock)

Overdue(d) == row[d].next # Never /\ row[d].next <= clock /\ ~row[d].paused

\* Nothing of the account keeps a digest of it from being run.
Clear(d) == LET o == OwnerOf[d] IN access[o] = "open" /\ active[o] /\ ~running[o]

\* Once nothing of its own account stands in its way and dispatchers no longer
\* crash, an overdue occurrence is run, if fewer digests than fill a page are held
\* up by their accounts: a digest that is refused stays at the head of the page,
\* and a full page of those keeps all others out (tick's LIMIT).
OverdueIsServed ==
    \A d \in Digests :
        /\ <>[]Clear(d)
        /\ \E held \in SUBSET (Digests \ {d}) :
              /\ Cardinality(held) < Page
              /\ \A e \in Digests \ (held \cup {d}) : <>[]Clear(e) \/ <>[]~Due(e, clock)
        /\ <>[][\A w \in Dispatchers : ~Crash(w)]_vars
        => []<>~Overdue(d)

=============================================================================
