------------------------- MODULE ScheduleDispatch_proofs -------------------------
(* That no occurrence runs twice and the preview tells the truth, for any number *)
(* of owners, digests, dispatchers and requests, any schedules and any length of *)
(* time: while no two requests save one digest at once, a cursor is a date of    *)
(* its schedule, ahead of the last save and of every run.                        *)
EXTENDS ScheduleDispatch, FiniteSetTheorems, NaturalsInduction, SequenceTheorems, TLAPS

-----------------------------------------------------------------------------
(* Least and greatest numbers, and what Latest and Following return.           *)

Below == {p \in Nat \X Nat : p[1] < p[2]}

LEMMA BelowIsWellFounded == IsWellFoundedOn(Below, Nat)
<1>1. IsWellFoundedOn(OpToRel(<, Nat), Nat)
  BY NatLessThanWellFounded
<1>2. OpToRel(<, Nat) = Below
  BY DEF OpToRel, Below
<1> QED
  BY <1>1, <1>2

LEMMA LeastExists ==
    ASSUME NEW S \in SUBSET Nat, S # {}
    PROVE  Min(S) \in S /\ \A y \in S : Min(S) <= y
<1>1. PICK x \in S : \A y \in S : ~ (<<y, x>> \in Below)
  BY BelowIsWellFounded, WFMin
<1>2. ASSUME NEW y \in S PROVE x <= y
  <2>1. x \in Nat /\ y \in Nat
    OBVIOUS
  <2>2. <<y, x>> \notin Below
    BY <1>1
  <2>3. ~ (y < x)
    <3> SUFFICES ASSUME y < x PROVE <<y, x>> \in Below
      BY <2>2
    <3>1. <<y, x>> \in Nat \X Nat /\ <<y, x>>[1] < <<y, x>>[2]
      BY <2>1
    <3> QED
      BY <3>1 DEF Below
  <2> QED
    BY <2>1, <2>3
<1> QED
  BY <1>2 DEF Min

LEMMA GreatestExists ==
    ASSUME NEW S \in SUBSET Nat, S # {}, NEW n \in Nat, \A x \in S : x <= n
    PROVE  Max(S) \in S /\ \A y \in S : y <= Max(S)
<1> DEFINE T == {n - x : x \in S}
<1>1. T \in SUBSET Nat /\ T # {}
  <2>1. \A x \in S : n - x \in Nat
    OBVIOUS
  <2>2. T \in SUBSET Nat
    BY <2>1
  <2>3. PICK x \in S : TRUE
    OBVIOUS
  <2>4. n - x \in T
    OBVIOUS
  <2> QED
    BY <2>2, <2>4
<1>2. Min(T) \in T /\ \A y \in T : Min(T) <= y
  BY <1>1, LeastExists
<1>3. PICK x \in S : Min(T) = n - x
  BY <1>2
<1>4. \A y \in S : n - x <= n - y
  BY <1>2, <1>3
<1>5. \A y \in S : x >= y
  BY <1>4
<1> QED
  BY <1>5 DEF Max

LEMMA FollowingIsAhead ==
    ASSUME NEW s \in Schedules, NEW t \in Nat
    PROVE  /\ Following(s, t) \in Nat
           /\ Following(s, t) # Never => Following(s, t) \in s.dates /\ t < Following(s, t)
<1>1. ToCome(s, t) \in SUBSET Nat
  BY ScheduleAssumption DEF ToCome
<1>2. CASE Following(s, t) = Never
  BY <1>2 DEF Never
<1>3. CASE Following(s, t) # Never
  <2>1. ToCome(s, t) # {} /\ Following(s, t) = Min(ToCome(s, t))
    BY <1>3 DEF Following
  <2>2. Following(s, t) \in ToCome(s, t)
    BY <1>1, <2>1, LeastExists
  <2> QED
    BY <1>1, <2>2 DEF ToCome
<1> QED
  BY <1>2, <1>3

LEMMA LatestIsGreatest ==
    ASSUME NEW s \in Schedules, NEW t \in Nat
    PROVE  /\ Latest(s, t) \in Nat
           /\ Latest(s, t) # Never => Latest(s, t) <= t
           /\ ~Over(s, t) => \A o \in s.dates : o <= t => o <= Latest(s, t)
<1>1. Past(s, t) \in SUBSET Nat /\ \A x \in Past(s, t) : x <= t
  BY ScheduleAssumption DEF Past
<1>2. CASE Over(s, t) \/ Past(s, t) = {}
  BY <1>2 DEF Latest, Never, Past
<1>3. CASE ~Over(s, t) /\ Past(s, t) # {}
  <2>1. Latest(s, t) = Max(Past(s, t))
    BY <1>3 DEF Latest
  <2>2. Latest(s, t) \in Past(s, t) /\ \A y \in Past(s, t) : y <= Latest(s, t)
    BY <1>1, <1>3, <2>1, GreatestExists
  <2> QED
    BY <1>1, <2>2 DEF Past
<1> QED
  BY <1>2, <1>3

-----------------------------------------------------------------------------
(* Rows.                                                                       *)

LEMMA RowFacts ==
    ASSUME NEW r \in Row
    PROVE  /\ r.schedule \in Schedules \cup {NoSchedule} /\ r.next \in Nat
           /\ r.paused \in BOOLEAN /\ r.deferred \in BOOLEAN
  BY DEF Row

LEMMA PausedRow ==
    ASSUME NEW r \in Row
    PROVE  Paused(r) \in Row /\ Paused(r).next = Never /\ Paused(r).schedule = r.schedule
  BY DEF Row, Paused, Never

LEMMA DeferredRow ==
    ASSUME NEW r \in Row, NEW b \in BOOLEAN
    PROVE  /\ [r EXCEPT !.deferred = b] \in Row
           /\ [r EXCEPT !.deferred = b].next = r.next /\ [r EXCEPT !.deferred = b].schedule = r.schedule
  BY DEF Row

LEMMA MovedRow ==
    ASSUME NEW r \in Row, NEW n \in Nat
    PROVE  /\ [r EXCEPT !.next = n] \in Row
           /\ [r EXCEPT !.next = n].next = n /\ [r EXCEPT !.next = n].schedule = r.schedule
  BY DEF Row

\* What a flush leaves in each column.
LEMMA FlushedRow ==
    ASSUME NEW table \in Row, NEW view \in Row, NEW new \in Row
    PROVE  /\ Flush(table, view, new) \in Row
           /\ Flush(table, view, new).schedule = IF new.schedule = view.schedule THEN table.schedule ELSE new.schedule
           /\ Flush(table, view, new).next = IF new.next = view.next THEN table.next ELSE new.next
<1>1. DOMAIN table = {"schedule", "next", "paused", "deferred"}
  BY DEF Row
<1> DEFINE flushed == [schedule |-> IF new.schedule = view.schedule THEN table.schedule ELSE new.schedule,
                       next |-> IF new.next = view.next THEN table.next ELSE new.next,
                       paused |-> IF new.paused = view.paused THEN table.paused ELSE new.paused,
                       deferred |-> IF new.deferred = view.deferred THEN table.deferred ELSE new.deferred]
<1>2. Flush(table, view, new) = flushed
  BY <1>1 DEF Flush
<1>3. flushed \in Row
  BY DEF Row
<1> QED
  BY <1>2, <1>3

LEMMA NoRow == EmptyRow \in Row /\ EmptyRow.next = Never /\ EmptyRow.schedule = NoSchedule
  BY DEF EmptyRow, Row, Never

\* Outside a save and a dispatch a row keeps its cursor and its schedule, or loses them.
Rests(before, after) ==
    /\ after \in Row
    /\ after.next \in {before.next, Never} /\ after.schedule \in {before.schedule, NoSchedule}

LEMMA Resolves ==
    ASSUME NEW o, NEW rows \in [Digests -> Row]
    PROVE  /\ Resolved(o, rows) \in [Digests -> Row]
           /\ \A d \in Digests : /\ Rests(rows[d], Resolved(o, rows)[d])
                                 /\ Resolved(o, rows)[d].schedule = rows[d].schedule
<1>1. \A d \in Digests : Resolved(o, rows)[d] = IF OwnerOf[d] = o /\ Incompatible(o, rows[d].schedule)
                                                THEN Paused(rows[d]) ELSE rows[d]
  BY DEF Resolved
<1>2. \A d \in Digests : rows[d] \in Row
  OBVIOUS
<1>3. \A d \in Digests : /\ Resolved(o, rows)[d] \in Row
                         /\ Resolved(o, rows)[d].schedule = rows[d].schedule
                         /\ Resolved(o, rows)[d].next \in {rows[d].next, Never}
  BY <1>1, <1>2, PausedRow
<1>4. Resolved(o, rows) \in [Digests -> Row]
  BY <1>3 DEF Resolved
<1> QED
  BY <1>3, <1>4 DEF Rests

\* What a request that is going to save still knows of a digest: the cursor, if it
\* is neither spent nor gone, and the schedule, if it has not been deleted.
ViewKept(view, d) ==
    /\ view.next = Never \/ view.next > clock => row[d].next \in {view.next, Never}
    /\ row[d].schedule \in {view.schedule, NoSchedule}

\* A save leaves its own schedule with its own cursor, or one of them removed, if
\* no other save came between the reading of the digest and this one.
LEMMA SavedRow ==
    ASSUME row \in [Digests -> Row], clock \in Nat, NEW o, NEW d \in Digests, NEW view \in Row,
           NEW schedule \in Schedules
    PROVE  /\ Saved(o, d, view, schedule) \in [Digests -> Row]
           /\ ViewKept(view, d) => /\ Saved(o, d, view, schedule)[d].schedule \in {schedule, NoSchedule}
                                   /\ Saved(o, d, view, schedule)[d].next \in {Following(schedule, clock), Never}
           /\ \A e \in Digests \ {d} : Rests(row[e], Saved(o, d, view, schedule)[e])
<1> DEFINE known == IF Incompatible(o, view.schedule) THEN Paused(view) ELSE view
           new   == [schedule |-> schedule, next |-> Following(schedule, clock), paused |-> FALSE, deferred |-> FALSE]
           rows  == [Resolved(o, row) EXCEPT ![d] = row[d]]
           once  == Flush(row[d], view, known)
           twice == Flush(once, known, new)
<1>1. Saved(o, d, view, schedule) = [rows EXCEPT ![d] = twice]
  BY DEF Saved
<1>2. /\ Following(schedule, clock) \in Nat
      /\ Following(schedule, clock) # Never => clock < Following(schedule, clock)
  BY FollowingIsAhead
<1>3. known \in Row /\ known.schedule = view.schedule /\ known.next \in {view.next, Never}
  BY PausedRow
<1>4. /\ new \in Row /\ new.schedule = schedule /\ new.next = Following(schedule, clock)
  BY <1>2 DEF Row
<1>5. row[d] \in Row
  OBVIOUS
<1>6. rows \in [Digests -> Row] /\ \A e \in Digests : e # d => Rests(row[e], rows[e])
  BY <1>5, Resolves
<1> HIDE DEF known, new, rows
<1>7. /\ once \in Row
      /\ once.schedule = row[d].schedule
      /\ once.next = IF known.next = view.next THEN row[d].next ELSE known.next
  BY <1>3, <1>5, FlushedRow
<1> HIDE DEF once
<1>8. /\ twice \in Row
      /\ twice.schedule = IF new.schedule = known.schedule THEN once.schedule ELSE new.schedule
      /\ twice.next = IF new.next = known.next THEN once.next ELSE new.next
  BY <1>3, <1>4, <1>7, FlushedRow
<1> HIDE DEF twice
<1>9. ViewKept(view, d) => twice.schedule \in {schedule, NoSchedule}
  BY <1>3, <1>4, <1>7, <1>8 DEF ViewKept
<1>10. ViewKept(view, d) => twice.next \in {Following(schedule, clock), Never}
  <2> SUFFICES ASSUME ViewKept(view, d) PROVE twice.next \in {Following(schedule, clock), Never}
    OBVIOUS
  <2>1. CASE new.next # known.next
    BY <1>4, <1>8, <2>1
  <2>2. CASE new.next = known.next /\ known.next = view.next
    <3>1. view.next = Never \/ view.next > clock
      BY <1>2, <1>4, <2>2
    <3> QED
      BY <1>4, <1>7, <1>8, <2>2, <3>1 DEF ViewKept
  <2>3. CASE new.next = known.next /\ known.next # view.next
    BY <1>3, <1>7, <1>8, <2>3
  <2> QED
    BY <2>1, <2>2, <2>3
<1> QED
  BY <1>1, <1>6, <1>8, <1>9, <1>10

-----------------------------------------------------------------------------
(* Types, and that nothing is ahead of the clock.                              *)

TickFits(t, time) ==
    /\ t.pc = "idle" <=> t.page = <<>>
    /\ t.now <= time
    /\ t.pc = "claim" => t.cursor # Never /\ t.cursor <= t.now

InTime ==
    /\ \A d \in Digests : since[d] <= clock
    /\ \A i \in 1 .. Len(runs) : runs[i].due <= clock
    /\ \A w \in Dispatchers : TickFits(tick[w], clock)

BaseInv == TypeOK /\ InTime

LEMMA TickIsIdle == IdleTick \in Tick /\ \A time \in Nat : TickFits(IdleTick, time)
<1>1. <<>> \in Seq(Digests)
  OBVIOUS
<1> QED
  BY <1>1 DEF IdleTick, Tick, TickFits, Never

LEMMA TickFacts ==
    ASSUME NEW t \in Tick
    PROVE  /\ t.pc \in {"idle", "examine", "claim", "defer"} /\ t.now \in Nat /\ t.page \in Seq(Digests)
           /\ t.cursor \in Nat
  BY DEF Tick

LEMMA TickAdvances ==
    ASSUME NEW t \in Tick, NEW time \in Nat, TickFits(t, time), t.pc # "idle"
    PROVE  Advanced(t) \in Tick /\ TickFits(Advanced(t), time)
<1> DEFINE pc == IF Len(t.page) = 1 THEN "idle" ELSE "examine"
<1>1. t.page \in Seq(Digests) /\ t.page # <<>>
  BY TickFacts DEF TickFits
<1>2. Tail(t.page) \in Seq(Digests) /\ Len(Tail(t.page)) = Len(t.page) - 1 /\ Len(t.page) \in Nat
  BY <1>1
<1>3. Len(t.page) = 1 <=> Tail(t.page) = <<>>
  <2> DEFINE rest == Tail(t.page)
  <2>1. rest \in Seq(Digests) /\ Len(rest) = Len(t.page) - 1
    BY <1>2
  <2> HIDE DEF rest
  <2>2. rest = <<>> <=> Len(rest) = 0
    BY <2>1, EmptySeq
  <2> QED
    BY <1>2, <2>1, <2>2 DEF rest
<1>4. pc \in {"idle", "examine"} /\ (pc = "idle" <=> Tail(t.page) = <<>>)
  BY <1>3
<1>5. Advanced(t) = [t EXCEPT !.page = Tail(t.page), !.cursor = Never, !.pc = pc]
  BY DEF Advanced
<1> HIDE DEF pc
<1>6. Advanced(t) = [pc |-> pc, now |-> t.now, page |-> Tail(t.page), cursor |-> Never]
  BY <1>5 DEF Tick
<1>7. t.now \in Nat /\ t.now <= time
  BY TickFacts DEF TickFits
<1> QED
  BY <1>2, <1>4, <1>6, <1>7 DEF Tick, TickFits, Never

LEMMA TickClaims ==
    ASSUME NEW t \in Tick, NEW time \in Nat, TickFits(t, time), t.pc = "examine", NEW c \in Nat,
           c # Never, c <= t.now
    PROVE  /\ [t EXCEPT !.pc = "claim", !.cursor = c] \in Tick
           /\ TickFits([t EXCEPT !.pc = "claim", !.cursor = c], time)
  BY DEF Tick, TickFits

LEMMA TickDefers ==
    ASSUME NEW t \in Tick, NEW time \in Nat, TickFits(t, time), t.pc = "claim"
    PROVE  [t EXCEPT !.pc = "defer"] \in Tick /\ TickFits([t EXCEPT !.pc = "defer"], time)
  BY DEF Tick, TickFits

LEMMA TicksFit ==
    ASSUME BaseInv, NEW w \in Dispatchers, NEW t \in Tick, TickFits(t, clock), tick' = [tick EXCEPT ![w] = t]
    PROVE  tick' \in [Dispatchers -> Tick] /\ \A v \in Dispatchers : TickFits(tick'[v], clock)
  BY DEF BaseInv, TypeOK, InTime

LEMMA CarryingTick ==
    ASSUME BaseInv, NEW w \in Dispatchers, ~At(w, "idle")
    PROVE  /\ tick[w] \in Tick /\ TickFits(tick[w], clock) /\ clock \in Nat
           /\ Head(tick[w].page) \in Digests /\ OwnerOf[Head(tick[w].page)] \in Owners
           /\ row[Head(tick[w].page)] \in Row /\ tick[w].now \in Nat
<1>1. tick[w] \in Tick /\ TickFits(tick[w], clock) /\ clock \in Nat
  BY ScheduleAssumption DEF BaseInv, TypeOK, InTime
<1>2. tick[w].page \in Seq(Digests) /\ tick[w].page # <<>> /\ tick[w].now \in Nat
  BY <1>1, TickFacts DEF At, TickFits
<1>3. Head(tick[w].page) \in Digests
  BY <1>2
<1> QED
  BY <1>1, <1>2, <1>3, ScheduleAssumption DEF BaseInv, TypeOK

\* A step of a dispatcher: its tick, the lock, the rows and perhaps one more run.
LEMMA DispatcherStep ==
    ASSUME BaseInv, NEW w \in Dispatchers, NEW t \in Tick, TickFits(t, clock), tick' = [tick EXCEPT ![w] = t],
           UNCHANGED <<clock, since, access, active, closing, session>>,
           row' \in [Digests -> Row], lock' \in [Owners -> Dispatchers \cup {Nobody}],
           running' \in [Owners -> BOOLEAN], runs' \in Seq(ScheduledRun),
           \A i \in 1 .. Len(runs') : runs'[i].due <= clock
    PROVE  BaseInv'
<1>1. tick' \in [Dispatchers -> Tick] /\ \A v \in Dispatchers : TickFits(tick'[v], clock)
  BY TicksFit
<1>2. TypeOK'
  BY <1>1 DEF BaseInv, TypeOK, At, TickFits
<1>3. InTime'
  BY <1>1 DEF BaseInv, InTime
<1> QED
  BY <1>2, <1>3 DEF BaseInv

\* Any other step leaves the ticks alone.
LEMMA OtherStep ==
    ASSUME BaseInv, UNCHANGED <<runs, tick>>, clock' \in 1 .. MaxTime, clock <= clock',
           row' \in [Digests -> Row], since' \in [Digests -> Nat], \A d \in Digests : since'[d] <= clock',
           access' \in [Owners -> Access], active' \in [Owners -> BOOLEAN], closing' \in [Owners -> BOOLEAN],
           running' \in [Owners -> BOOLEAN], lock' \in [Owners -> Dispatchers \cup {Nobody}],
           session' \in [Sessions -> SessionPlace]
    PROVE  BaseInv'
<1>1. TypeOK'
  BY DEF BaseInv, TypeOK, At
<1>2. clock \in Nat /\ clock' \in Nat
  BY ScheduleAssumption DEF BaseInv, TypeOK
<1>3. \A i \in 1 .. Len(runs') : runs'[i].due <= clock'
  <2> SUFFICES ASSUME NEW i \in 1 .. Len(runs) PROVE runs[i].due <= clock'
    OBVIOUS
  <2>1. runs[i] \in ScheduledRun
    BY DEF BaseInv, TypeOK
  <2>2. runs[i].due \in Nat /\ runs[i].due <= clock
    BY <2>1 DEF ScheduledRun, BaseInv, InTime
  <2> QED
    BY <1>2, <2>2
<1>4. \A w \in Dispatchers : TickFits(tick'[w], clock')
  <2> SUFFICES ASSUME NEW w \in Dispatchers PROVE TickFits(tick[w], clock')
    OBVIOUS
  <2>1. tick[w] \in Tick /\ TickFits(tick[w], clock)
    BY DEF BaseInv, TypeOK, InTime
  <2>2. tick[w].now \in Nat
    BY <2>1, TickFacts
  <2> QED
    BY <1>2, <2>1, <2>2 DEF TickFits
<1> QED
  BY <1>1, <1>3, <1>4 DEF BaseInv, InTime

\* What a dispatcher does to the rows, the lock and the runs.
LEMMA Selecting ==
    ASSUME BaseInv, NEW w \in Dispatchers, Select(w)
    PROVE  BaseInv' /\ UNCHANGED <<row, since, runs, session, clock>>
<1>1. PICK n \in 1 .. Page : \E page \in [1 .. n -> Digests] :
          tick' = [tick EXCEPT ![w] = [pc |-> "examine", now |-> clock, page |-> page, cursor |-> Never]]
  BY DEF Select
<1>2. PICK page \in [1 .. n -> Digests] :
          tick' = [tick EXCEPT ![w] = [pc |-> "examine", now |-> clock, page |-> page, cursor |-> Never]]
  BY <1>1
<1>3. n \in Nat \ {0} /\ clock \in Nat
  BY ScheduleAssumption DEF BaseInv, TypeOK
<1>4. page \in Seq(Digests) /\ page # <<>>
  <2>1. page \in Seq(Digests) /\ Len(page) = n
    BY <1>3
  <2> QED
    BY <1>3, <2>1, EmptySeq
<1> DEFINE t == [pc |-> "examine", now |-> clock, page |-> page, cursor |-> Never]
<1>5. t \in Tick /\ TickFits(t, clock)
  BY <1>3, <1>4 DEF Tick, TickFits, Never
<1>6. UNCHANGED <<clock, row, since, access, active, closing, running, runs, lock, session>>
  BY DEF Select
<1> HIDE DEF t
<1>7. BaseInv'
  <2>1. tick' = [tick EXCEPT ![w] = t]
    BY <1>2 DEF t
  <2> QED
    BY <1>5, <1>6, <2>1, DispatcherStep DEF BaseInv, TypeOK, InTime
<1> QED
  BY <1>6, <1>7

LEMMA Examining ==
    ASSUME BaseInv, NEW w \in Dispatchers, Examine(w)
    PROVE  BaseInv' /\ UNCHANGED <<since, runs, session, clock>> /\ \A d \in Digests : Rests(row[d], row'[d])
<1> DEFINE d == Head(tick[w].page)
           o == OwnerOf[d]
<1>1. /\ tick[w] \in Tick /\ TickFits(tick[w], clock) /\ clock \in Nat /\ tick[w].pc = "examine"
      /\ d \in Digests /\ o \in Owners /\ row[d] \in Row /\ tick[w].now \in Nat
  BY CarryingTick DEF Examine, At
<1>2. row \in [Digests -> Row] /\ lock \in [Owners -> Dispatchers \cup {Nobody}]
  BY DEF BaseInv, TypeOK
<1>3. /\ Resolved(o, row) \in [Digests -> Row]
      /\ \A e \in Digests : Rests(row[e], Resolved(o, row)[e]) /\ Rests(row[e], row[e])
  BY <1>2, Resolves DEF Rests
<1>4. UNCHANGED <<clock, since, access, active, closing, running, runs, session>>
  BY DEF Examine
<1>5. \/ /\ StillDue(row[d], tick[w].now)
         /\ tick' = [tick EXCEPT ![w].pc = "claim", ![w].cursor = row[d].next]
         /\ lock' = [lock EXCEPT ![o] = w] /\ UNCHANGED row
      \/ /\ tick' = [tick EXCEPT ![w] = Advanced(tick[w])]
         /\ row' \in {Resolved(o, row), row} /\ UNCHANGED lock
  BY <1>1 DEF Examine, BaseInv, TypeOK
<1> HIDE DEF o
<1>6. /\ row' \in [Digests -> Row] /\ \A e \in Digests : Rests(row[e], row'[e])
      /\ lock' \in [Owners -> Dispatchers \cup {Nobody}]
  BY <1>1, <1>2, <1>3, <1>5
<1>7. \E t \in Tick : TickFits(t, clock) /\ tick' = [tick EXCEPT ![w] = t]
  <2>1. CASE tick' = [tick EXCEPT ![w] = Advanced(tick[w])]
    BY <1>1, <2>1, TickAdvances
  <2>2. CASE StillDue(row[d], tick[w].now) /\ tick' = [tick EXCEPT ![w].pc = "claim", ![w].cursor = row[d].next]
    <3>1. row[d].next \in Nat /\ row[d].next # Never /\ row[d].next <= tick[w].now
      BY <1>1, <2>2, RowFacts DEF StillDue
    <3> DEFINE t == [tick[w] EXCEPT !.pc = "claim", !.cursor = row[d].next]
    <3>2. tick' = [tick EXCEPT ![w] = t]
      BY <2>2
    <3>3. t \in Tick /\ TickFits(t, clock)
      BY <1>1, <3>1, TickClaims
    <3> QED
      BY <3>2, <3>3
  <2> QED
    BY <1>5, <2>1, <2>2
<1>8. PICK t \in Tick : TickFits(t, clock) /\ tick' = [tick EXCEPT ![w] = t]
  BY <1>7
<1>9. BaseInv'
  BY <1>4, <1>6, <1>8, DispatcherStep DEF BaseInv, TypeOK, InTime
<1> QED
  BY <1>4, <1>6, <1>9

LEMMA GivingWay ==
    ASSUME BaseInv, NEW w \in Dispatchers, GiveUp(w) \/ Refuse(w)
    PROVE  BaseInv' /\ UNCHANGED <<row, since, runs, session, clock>>
<1> DEFINE o == OwnerOf[Head(tick[w].page)]
<1>1. /\ tick[w] \in Tick /\ TickFits(tick[w], clock) /\ clock \in Nat /\ tick[w].pc = "claim" /\ o \in Owners
  BY CarryingTick DEF GiveUp, Refuse, At
<1>2. /\ tick' \in {[tick EXCEPT ![w] = IdleTick], [tick EXCEPT ![w] = Advanced(tick[w])],
                    [tick EXCEPT ![w] = [tick[w] EXCEPT !.pc = "defer"]]}
      /\ lock' = [lock EXCEPT ![o] = Nobody]
      /\ UNCHANGED <<clock, row, since, access, active, closing, running, runs, session>>
  <2>1. CASE GiveUp(w)
    BY <2>1 DEF GiveUp, Rollback, BaseInv, TypeOK
  <2>2. CASE Refuse(w)
    BY <2>2 DEF Refuse, Rollback, BaseInv, TypeOK
  <2> QED
    BY <2>1, <2>2
<1>3. /\ Advanced(tick[w]) \in Tick /\ TickFits(Advanced(tick[w]), clock)
      /\ [tick[w] EXCEPT !.pc = "defer"] \in Tick /\ TickFits([tick[w] EXCEPT !.pc = "defer"], clock)
      /\ IdleTick \in Tick /\ TickFits(IdleTick, clock)
  BY <1>1, TickAdvances, TickDefers, TickIsIdle
<1>4. PICK t \in Tick : TickFits(t, clock) /\ tick' = [tick EXCEPT ![w] = t]
  BY <1>2, <1>3
<1>5. lock' \in [Owners -> Dispatchers \cup {Nobody}]
  BY <1>1, <1>2 DEF BaseInv, TypeOK
<1> QED
  BY <1>2, <1>4, <1>5, DispatcherStep DEF BaseInv, TypeOK, InTime

LEMMA Deferring ==
    ASSUME BaseInv, NEW w \in Dispatchers, Defer(w)
    PROVE  BaseInv' /\ UNCHANGED <<since, runs, session, clock>> /\ \A d \in Digests : Rests(row[d], row'[d])
<1> DEFINE d == Head(tick[w].page)
<1>1. /\ tick[w] \in Tick /\ TickFits(tick[w], clock) /\ clock \in Nat /\ tick[w].pc = "defer"
      /\ d \in Digests /\ row[d] \in Row
  BY CarryingTick DEF Defer, At
<1> DEFINE later == [row[d] EXCEPT !.deferred = TRUE]
<1>2. /\ row' \in {row, [row EXCEPT ![d] = later]} /\ tick' = [tick EXCEPT ![w] = Advanced(tick[w])]
      /\ UNCHANGED <<clock, since, access, active, closing, running, runs, lock, session>>
  BY <1>1 DEF Defer, BaseInv, TypeOK
<1>3. later \in Row /\ later.next = row[d].next /\ later.schedule = row[d].schedule
  BY <1>1, DeferredRow
<1> HIDE DEF later, d
<1>4. row' \in [Digests -> Row] /\ \A e \in Digests : Rests(row[e], row'[e])
  BY <1>1, <1>2, <1>3 DEF BaseInv, TypeOK, Rests
<1>5. Advanced(tick[w]) \in Tick /\ TickFits(Advanced(tick[w]), clock)
  BY <1>1, TickAdvances
<1>6. BaseInv'
  BY <1>2, <1>4, <1>5, DispatcherStep DEF BaseInv, TypeOK, InTime
<1> QED
  BY <1>2, <1>4, <1>6

LEMMA Crashing ==
    ASSUME BaseInv, NEW w \in Dispatchers, Crash(w)
    PROVE  BaseInv' /\ UNCHANGED <<row, since, runs, session, clock>>
<1>1. /\ tick' = [tick EXCEPT ![w] = IdleTick] /\ lock' = [o \in Owners |-> IF lock[o] = w THEN Nobody ELSE lock[o]]
      /\ UNCHANGED <<clock, row, since, access, active, closing, running, runs, session>>
  BY DEF Crash
<1>2. lock' \in [Owners -> Dispatchers \cup {Nobody}] /\ clock \in Nat
  BY <1>1, ScheduleAssumption DEF BaseInv, TypeOK
<1>3. IdleTick \in Tick /\ TickFits(IdleTick, clock)
  BY <1>2, TickIsIdle
<1> QED
  BY <1>1, <1>2, <1>3, DispatcherStep DEF BaseInv, TypeOK, InTime

\* A dispatch moves the cursor of one digest on, past the occurrence it runs.
Moves(d, now) ==
    /\ row[d].schedule \in Schedules /\ row[d].next # Never /\ row[d].next <= now /\ now <= clock
    /\ row'[d].next \in {Following(row[d].schedule, now), Never} /\ row'[d].schedule = row[d].schedule
    /\ \A e \in Digests \ {d} : Rests(row[e], row'[e])
    /\ \/ UNCHANGED runs
       \/ /\ runs' = Append(runs, [digest |-> d, due |-> Latest(row[d].schedule, now)])
          /\ Latest(row[d].schedule, now) # Never

LEMMA Dispatching ==
    ASSUME BaseInv, NEW w \in Dispatchers, Dispatch(w)
    PROVE  BaseInv' /\ UNCHANGED <<since, session, clock>> /\ \E d \in Digests, now \in Nat : Moves(d, now)
<1> DEFINE d == Head(tick[w].page)
           o == OwnerOf[d]
           now == tick[w].now
           due == Latest(row[d].schedule, now)
           moved == [row[d] EXCEPT !.next = Following(row[d].schedule, now)]
           run == [digest |-> d, due |-> due]
<1>1. /\ tick[w] \in Tick /\ TickFits(tick[w], clock) /\ clock \in Nat /\ tick[w].pc = "claim"
      /\ d \in Digests /\ o \in Owners /\ row[d] \in Row /\ now \in Nat
  BY CarryingTick DEF Dispatch, At
<1>2. row[d].next # Never /\ row[d].next <= now /\ now <= clock
  <2>1. tick[w].cursor # Never /\ tick[w].cursor <= now /\ now <= clock
    BY <1>1 DEF TickFits
  <2>2. row[d].next = tick[w].cursor
    BY DEF Dispatch, Outcome
  <2> QED
    BY <2>1, <2>2
<1>3. row[d].schedule \in Schedules
  <2>1. row[d].schedule # NoSchedule
    BY DEF Dispatch, Outcome
  <2> QED
    BY <1>1, <2>1, RowFacts
<1>4. Following(row[d].schedule, now) \in Nat /\ due \in Nat /\ (due # Never => due <= now)
  BY <1>1, <1>3, FollowingIsAhead, LatestIsGreatest
<1>5. moved \in Row /\ moved.next = Following(row[d].schedule, now) /\ moved.schedule = row[d].schedule
  BY <1>1, <1>4, MovedRow
<1>6. /\ [moved EXCEPT !.deferred = FALSE] \in Row
      /\ [moved EXCEPT !.deferred = FALSE].next = Following(row[d].schedule, now)
      /\ [moved EXCEPT !.deferred = FALSE].schedule = row[d].schedule
  <2> HIDE DEF moved
  <2> QED
    BY <1>5, DeferredRow
<1>7. /\ \/ row' = Resolved(o, [row EXCEPT ![d] = moved]) /\ UNCHANGED <<running, runs>>
         \/ /\ Outcome(w) = "started" /\ row' = Resolved(o, [row EXCEPT ![d] = [moved EXCEPT !.deferred = FALSE]])
            /\ running' = [running EXCEPT ![o] = TRUE] /\ runs' = Append(runs, run)
      /\ tick' = [tick EXCEPT ![w] = Advanced(tick[w])] /\ lock' = [lock EXCEPT ![o] = Nobody]
      /\ UNCHANGED <<clock, since, access, active, closing, session>>
  <2>1. row \in [Digests -> Row]
    BY DEF BaseInv, TypeOK
  <2>2. [[row EXCEPT ![d].next = Following(row[d].schedule, now)] EXCEPT ![d].deferred = FALSE]
            = [row EXCEPT ![d] = [moved EXCEPT !.deferred = FALSE]]
    BY <1>1, <2>1
  <2>3. [row EXCEPT ![d].next = Following(row[d].schedule, now)] = [row EXCEPT ![d] = moved]
    BY <1>1, <2>1
  <2>4. Outcome(w) \in {"over", "started"}
    BY DEF Dispatch
  <2>5. /\ IF Outcome(w) = "over"
           THEN /\ row' = Resolved(o, [row EXCEPT ![d].next = Following(row[d].schedule, now)])
                /\ UNCHANGED <<running, runs>>
           ELSE /\ row' = Resolved(o, [[row EXCEPT ![d].next = Following(row[d].schedule, now)]
                                          EXCEPT ![d].deferred = FALSE])
                /\ running' = [running EXCEPT ![o] = TRUE] /\ runs' = Append(runs, run)
        /\ tick' = [tick EXCEPT ![w] = Advanced(tick[w])] /\ lock' = [lock EXCEPT ![o] = Nobody]
        /\ UNCHANGED <<clock, since, access, active, closing, session>>
    BY DEF Dispatch
  <2> HIDE DEF moved, o, now, run
  <2> QED
    BY <2>2, <2>3, <2>4, <2>5
<1>8. Outcome(w) = "started" => due # Never
  BY DEF Outcome
<1>9. Advanced(tick[w]) \in Tick /\ TickFits(Advanced(tick[w]), clock)
  BY <1>1, TickAdvances
<1> DEFINE n == Following(row[d].schedule, now)
<1>10. PICK r \in Row : /\ r.next = n /\ r.schedule = row[d].schedule
                        /\ row' = Resolved(o, [row EXCEPT ![d] = r])
  BY <1>5, <1>6, <1>7
<1> HIDE DEF moved, n
<1>11. [row EXCEPT ![d] = r] \in [Digests -> Row]
  BY DEF BaseInv, TypeOK
<1> DEFINE rows == [row EXCEPT ![d] = r]
<1>12. rows[d] = r /\ \A e \in Digests : e # d => rows[e] = row[e]
  BY <1>1 DEF BaseInv, TypeOK
<1> HIDE DEF rows, d, o
<1>13. /\ row' \in [Digests -> Row]
       /\ \A e \in Digests : Rests(rows[e], row'[e]) /\ row'[e].schedule = rows[e].schedule
  BY <1>10, <1>11, Resolves DEF rows
<1>14. /\ row'[d].next \in {n, Never} /\ row'[d].schedule = row[d].schedule
       /\ \A e \in Digests \ {d} : Rests(row[e], row'[e])
  BY <1>1, <1>10, <1>12, <1>13 DEF Rests
<1>15. run \in ScheduledRun /\ run.due = due
  BY <1>1, <1>4 DEF ScheduledRun
<1>16. runs \in Seq(ScheduledRun) /\ \A i \in 1 .. Len(runs) : runs[i].due <= clock
  BY DEF BaseInv, TypeOK, InTime
<1>17. runs' \in Seq(ScheduledRun) /\ \A i \in 1 .. Len(runs') : runs'[i].due <= clock
  <2>1. CASE UNCHANGED runs
    BY <1>16, <2>1
  <2>2. CASE runs' = Append(runs, run) /\ due # Never
    <3>1. due <= clock
      BY <1>1, <1>2, <1>4, <2>2
    <3> HIDE DEF run
    <3>2. runs' \in Seq(ScheduledRun) /\ Len(runs') = Len(runs) + 1 /\ Len(runs) \in Nat
      BY <1>15, <1>16, <2>2
    <3>3. \A i \in 1 .. Len(runs') : runs'[i] = IF i <= Len(runs) THEN runs[i] ELSE run
      BY <1>15, <1>16, <2>2
    <3> QED
      BY <1>15, <1>16, <3>1, <3>2, <3>3
  <2> QED
    BY <1>7, <1>8, <2>1, <2>2
<1>18. /\ lock' \in [Owners -> Dispatchers \cup {Nobody}] /\ running' \in [Owners -> BOOLEAN]
  BY <1>1, <1>7 DEF BaseInv, TypeOK
<1>19. BaseInv'
  BY <1>7, <1>9, <1>13, <1>17, <1>18, DispatcherStep
<1>20. Moves(d, now)
  BY <1>2, <1>3, <1>7, <1>8, <1>14 DEF Moves, n
<1> QED
  BY <1>1, <1>7, <1>19, <1>20

-----------------------------------------------------------------------------
(* Requests, and everything that is neither a dispatcher nor a request.        *)

\* A request that reads a digest; one that saves or deletes ends.
SessionMoves ==
    \A s \in Sessions : session'[s].pc = "save" =>
        \/ session'[s] = session[s]
        \/ session'[s].view = row[session'[s].digest] /\ UNCHANGED <<row, clock>>

LEMMA SessionFacts ==
    ASSUME BaseInv, NEW s \in Sessions
    PROVE  /\ session[s].digest \in Digests /\ session[s].view \in Row /\ OwnerOf[session[s].digest] \in Owners
           /\ row[session[s].digest] \in Row /\ clock \in Nat /\ clock \in 1 .. MaxTime
<1>1. clock \in 1 .. MaxTime /\ clock \in Nat
  BY ScheduleAssumption DEF BaseInv, TypeOK
<1>2. session[s] \in SessionPlace
  BY DEF BaseInv, TypeOK
<1>3. session[s].digest \in Digests /\ session[s].view \in Row
  BY <1>2 DEF SessionPlace
<1>4. row[session[s].digest] \in Row /\ OwnerOf[session[s].digest] \in Owners
  BY <1>3, ScheduleAssumption DEF BaseInv, TypeOK
<1> QED
  BY <1>1, <1>3, <1>4

LEMMA SessionEnds ==
    ASSUME BaseInv, NEW s \in Sessions, session' = [session EXCEPT ![s] = IdleSession]
    PROVE  session' \in [Sessions -> SessionPlace] /\ SessionMoves
<1>1. IdleSession \in SessionPlace /\ IdleSession.pc = "idle"
  BY ScheduleAssumption, NoRow DEF IdleSession, SessionPlace
<1>2. session' \in [Sessions -> SessionPlace]
  BY <1>1 DEF BaseInv, TypeOK
<1>3. \A v \in Sessions : session'[v] = IF v = s THEN IdleSession ELSE session[v]
  BY DEF BaseInv, TypeOK
<1>4. \A v \in Sessions : session'[v].pc = "save" => session'[v] = session[v]
  BY <1>1, <1>3
<1> QED
  BY <1>2, <1>4 DEF SessionMoves

LEMMA Reading ==
    ASSUME BaseInv, NEW s \in Sessions, NEW op \in {"save", "delete"}, NEW d \in Digests, Read(s, op, d)
    PROVE  BaseInv' /\ SessionMoves /\ UNCHANGED <<row, since, runs, clock>>
<1> DEFINE place == [pc |-> op, digest |-> d, view |-> row[d]]
<1>1. place \in SessionPlace /\ place.view = row[place.digest]
  BY DEF BaseInv, TypeOK, SessionPlace
<1>2. /\ session' = [session EXCEPT ![s] = place]
      /\ UNCHANGED <<clock, row, since, access, active, closing, running, runs, lock, tick>>
  BY DEF Read
<1> HIDE DEF place
<1>3. session' \in [Sessions -> SessionPlace] /\ \A v \in Sessions : session'[v] = IF v = s THEN place ELSE session[v]
  BY <1>1, <1>2 DEF BaseInv, TypeOK
<1>4. SessionMoves
  BY <1>1, <1>2, <1>3 DEF SessionMoves
<1>5. BaseInv'
  BY <1>2, <1>3, OtherStep, ScheduleAssumption DEF BaseInv, TypeOK, InTime
<1> QED
  BY <1>2, <1>4, <1>5

LEMMA Saving ==
    ASSUME BaseInv, NEW s \in Sessions, NEW schedule \in Schedules, Save(s, schedule)
    PROVE  /\ BaseInv' /\ SessionMoves /\ UNCHANGED <<runs, clock>> /\ session'[s].pc = "idle"
           /\ session[s].pc = "save"
           /\ \/ UNCHANGED <<row, since>>
              \/ /\ row' = Saved(OwnerOf[session[s].digest], session[s].digest, session[s].view, schedule)
                 /\ since' = [since EXCEPT ![session[s].digest] = clock]
<1> DEFINE d == session[s].digest
           o == OwnerOf[d]
<1>1. d \in Digests /\ session[s].view \in Row /\ clock \in Nat /\ row \in [Digests -> Row] /\ clock \in 1 .. MaxTime
  BY SessionFacts DEF BaseInv, TypeOK
<1>2. /\ \/ UNCHANGED <<row, since>>
         \/ row' = Saved(o, d, session[s].view, schedule) /\ since' = [since EXCEPT ![d] = clock]
      /\ session' = [session EXCEPT ![s] = IdleSession] /\ session[s].pc = "save"
      /\ UNCHANGED <<clock, access, active, closing, running, runs, lock, tick>>
  BY DEF Save
<1>3. Saved(o, d, session[s].view, schedule) \in [Digests -> Row]
  BY <1>1, SavedRow
<1> HIDE DEF d, o
<1>4. session' \in [Sessions -> SessionPlace] /\ SessionMoves
  BY <1>2, SessionEnds
<1>5. row' \in [Digests -> Row]
  BY <1>1, <1>2, <1>3
<1>6. since' \in [Digests -> Nat] /\ \A e \in Digests : since'[e] <= clock
  <2>1. since \in [Digests -> Nat] /\ \A e \in Digests : since[e] <= clock
    BY DEF BaseInv, TypeOK, InTime
  <2>2. CASE UNCHANGED since
    BY <2>1, <2>2
  <2>3. CASE since' = [since EXCEPT ![d] = clock]
    BY <1>1, <2>1, <2>3
  <2> QED
    BY <1>2, <2>2, <2>3
<1>7. BaseInv'
  BY <1>1, <1>2, <1>4, <1>5, <1>6, OtherStep DEF BaseInv, TypeOK
<1>8. session'[s].pc = "idle"
  BY <1>2 DEF BaseInv, TypeOK, IdleSession
<1> QED
  BY <1>2, <1>4, <1>7, <1>8 DEF d, o

LEMMA Deleting ==
    ASSUME BaseInv, NEW s \in Sessions, Delete(s)
    PROVE  BaseInv' /\ SessionMoves /\ UNCHANGED <<since, runs, clock>> /\ \A d \in Digests : Rests(row[d], row'[d])
<1> DEFINE d == session[s].digest
           left == Flush(row[d], session[s].view, EmptyRow)
<1>1. d \in Digests /\ session[s].view \in Row /\ row[d] \in Row /\ clock \in Nat /\ clock \in 1 .. MaxTime
  BY SessionFacts
<1>2. left \in Row /\ left.schedule \in {row[d].schedule, NoSchedule} /\ left.next \in {row[d].next, Never}
  BY <1>1, NoRow, FlushedRow
<1>3. /\ row' = [row EXCEPT ![d] = left] /\ session' = [session EXCEPT ![s] = IdleSession]
      /\ UNCHANGED <<clock, since, access, active, closing, running, runs, lock, tick>>
  BY DEF Delete
<1> HIDE DEF left, d
<1>4. session' \in [Sessions -> SessionPlace] /\ SessionMoves
  BY <1>3, SessionEnds
<1>5. row' \in [Digests -> Row] /\ \A e \in Digests : Rests(row[e], row'[e])
  BY <1>1, <1>2, <1>3 DEF BaseInv, TypeOK, Rests
<1>6. BaseInv'
  BY <1>1, <1>3, <1>4, <1>5, OtherStep DEF BaseInv, TypeOK, InTime
<1> QED
  BY <1>3, <1>4, <1>5, <1>6

\* The rest of the world.
Elsewhere ==
    \/ \E o \in Owners : \/ Overview(o) \/ Close(o) \/ SetActive(o)
                         \/ StartManual(o) \/ RunEnds(o)
                         \/ \E a \in Plans : SetAccess(o, a)
    \/ Advance
    \/ \E d \in Digests : RetryElapses(d)

LEMMA Elsewheres ==
    ASSUME BaseInv, Elsewhere
    PROVE  /\ BaseInv' /\ UNCHANGED <<since, runs, session>> /\ clock <= clock'
           /\ \A d \in Digests : Rests(row[d], row'[d])
<1>1. /\ clock \in Nat /\ clock \in 1 .. MaxTime /\ row \in [Digests -> Row] /\ \A d \in Digests : row[d] \in Row
      /\ \A d \in Digests : Rests(row[d], row[d])
  BY ScheduleAssumption DEF BaseInv, TypeOK, Rests
<1>2. ASSUME NEW o \in Owners, Overview(o) PROVE row' \in [Digests -> Row] /\ \A d \in Digests : Rests(row[d], row'[d])
  BY <1>1, <1>2, Resolves DEF Overview
<1>3. ASSUME NEW o \in Owners, Close(o) PROVE row' \in [Digests -> Row] /\ \A d \in Digests : Rests(row[d], row'[d])
  <2>1. \A d \in Digests : row'[d] = IF OwnerOf[d] = o THEN Paused(row[d]) ELSE row[d]
    BY <1>3 DEF Close
  <2>2. \A d \in Digests : Rests(row[d], row'[d])
    BY <1>1, <2>1, PausedRow DEF Rests
  <2>3. row' = [d \in Digests |-> IF OwnerOf[d] = o THEN Paused(row[d]) ELSE row[d]]
    BY <1>3 DEF Close
  <2> QED
    BY <1>1, <2>2, <2>3, PausedRow
<1>4. ASSUME NEW d \in Digests, RetryElapses(d)
      PROVE  row' \in [Digests -> Row] /\ \A e \in Digests : Rests(row[e], row'[e])
  <2> DEFINE later == [row[d] EXCEPT !.deferred = FALSE]
  <2>1. row' = [row EXCEPT ![d] = later]
    BY <1>4 DEF RetryElapses
  <2>2. later \in Row /\ later.next = row[d].next /\ later.schedule = row[d].schedule
    BY <1>1, DeferredRow
  <2> HIDE DEF later
  <2> QED
    BY <1>1, <2>1, <2>2 DEF Rests
<1>5. row' \in [Digests -> Row] /\ \A d \in Digests : Rests(row[d], row'[d])
  <2>1. CASE UNCHANGED row
    BY <1>1, <2>1
  <2> QED
    BY <1>2, <1>3, <1>4, <2>1 DEF Elsewhere, SetActive, StartManual, RunEnds, SetAccess, Advance
<1>6. UNCHANGED <<since, runs, session, lock, tick>>
  BY DEF Elsewhere, Overview, Close, SetActive, StartManual, RunEnds, SetAccess, Advance, RetryElapses
<1>7. clock' \in 1 .. MaxTime /\ clock <= clock'
  <2>1. CASE UNCHANGED clock
    BY <1>1, <2>1
  <2>2. CASE Advance
    BY <1>1, <2>2, ScheduleAssumption DEF Advance
  <2> QED
    BY <2>1, <2>2 DEF Elsewhere, Overview, Close, SetActive, StartManual, RunEnds, SetAccess, RetryElapses
<1>8. access' \in [Owners -> Access]
  <2>1. CASE UNCHANGED access
    BY <2>1 DEF BaseInv, TypeOK
  <2>2. ASSUME NEW o \in Owners, NEW a \in Plans, SetAccess(o, a) PROVE access' \in [Owners -> Access]
    BY <2>2, ScheduleAssumption DEF SetAccess, BaseInv, TypeOK
  <2> QED
    BY <2>1, <2>2 DEF Elsewhere, Overview, Close, SetActive, StartManual, RunEnds, Advance, RetryElapses
<1>9. /\ active' \in [Owners -> BOOLEAN] /\ closing' \in [Owners -> BOOLEAN] /\ running' \in [Owners -> BOOLEAN]
  <2>1. /\ active \in [Owners -> BOOLEAN] /\ closing \in [Owners -> BOOLEAN] /\ running \in [Owners -> BOOLEAN]
    BY DEF BaseInv, TypeOK
  <2>2. CASE UNCHANGED <<active, closing, running>>
    BY <2>1, <2>2
  <2>3. ASSUME NEW o \in Owners, Close(o) \/ SetActive(o) \/ StartManual(o) \/ RunEnds(o)
        PROVE  /\ active' \in [Owners -> BOOLEAN] /\ closing' \in [Owners -> BOOLEAN]
               /\ running' \in [Owners -> BOOLEAN]
    BY <2>1, <2>3 DEF Close, SetActive, StartManual, RunEnds
  <2> QED
    BY <2>2, <2>3 DEF Elsewhere, Overview, SetAccess, Advance, RetryElapses
<1>10. \A d \in Digests : since'[d] <= clock'
  <2>1. \A d \in Digests : since[d] \in Nat /\ since[d] <= clock
    BY DEF BaseInv, TypeOK, InTime
  <2>2. clock' \in Nat
    BY <1>7, ScheduleAssumption
  <2> QED
    BY <1>1, <1>6, <1>7, <2>1, <2>2
<1>11. BaseInv'
  BY <1>5, <1>6, <1>7, <1>8, <1>9, <1>10, OtherStep DEF BaseInv, TypeOK
<1> QED
  BY <1>5, <1>6, <1>7, <1>11

LEMMA Stuttering == BaseInv /\ UNCHANGED vars => BaseInv'
<1> SUFFICES ASSUME BaseInv, UNCHANGED vars PROVE BaseInv'
  OBVIOUS
<1>1. UNCHANGED <<clock, row, since, access, active, closing, running, runs, lock, tick, session>>
  BY DEF vars
<1> QED
  BY <1>1 DEF BaseInv, TypeOK, InTime, At

\* A step is one of these.
LEMMA StepKinds ==
    ASSUME BaseInv, Next
    PROVE  \/ \E s \in Sessions, schedule \in Schedules : Save(s, schedule)
           \/ \E w \in Dispatchers : Dispatch(w)
           \/ /\ BaseInv' /\ UNCHANGED <<since, runs>> /\ clock <= clock' /\ SessionMoves
              /\ \A d \in Digests : Rests(row[d], row'[d])
<1>1. /\ clock <= clock /\ \A d \in Digests : Rests(row[d], row[d])
  BY ScheduleAssumption DEF BaseInv, TypeOK, Rests
<1>2. ASSUME UNCHANGED session PROVE SessionMoves
  BY <1>2 DEF SessionMoves
<1>3. ASSUME NEW w \in Dispatchers,
             Select(w) \/ Examine(w) \/ GiveUp(w) \/ Refuse(w) \/ Defer(w) \/ Crash(w)
      PROVE  /\ BaseInv' /\ UNCHANGED <<since, runs>> /\ clock <= clock' /\ SessionMoves
             /\ \A d \in Digests : Rests(row[d], row'[d])
  BY <1>1, <1>2, <1>3, Selecting, Examining, GivingWay, Deferring, Crashing
<1>4. ASSUME NEW s \in Sessions, Delete(s) \/ \E d \in Digests, op \in {"save", "delete"} : Read(s, op, d)
      PROVE  /\ BaseInv' /\ UNCHANGED <<since, runs>> /\ clock <= clock' /\ SessionMoves
             /\ \A d \in Digests : Rests(row[d], row'[d])
  BY <1>1, <1>4, Reading, Deleting
<1>5. CASE Elsewhere
  BY <1>2, <1>5, Elsewheres
<1> QED
  BY <1>3, <1>4, <1>5 DEF Next, TickStep, Request, Elsewhere

LEMMA BaseInitially == Init => BaseInv
<1> SUFFICES ASSUME Init PROVE BaseInv
  OBVIOUS
<1>1. /\ IdleSession \in SessionPlace /\ EmptyRow \in Row /\ IdleTick \in Tick /\ TickFits(IdleTick, 1)
  BY ScheduleAssumption, NoRow, TickIsIdle DEF IdleSession, SessionPlace
<1>2. runs \in Seq(ScheduledRun) /\ Len(runs) = 0
  BY DEF Init
<1>3. \A w \in Dispatchers : tick[w] = IdleTick
  BY DEF Init
<1>4. TypeOK
  BY <1>1, <1>2, ScheduleAssumption DEF Init, TypeOK, Access, At, TickFits
<1>5. InTime
  BY <1>1, <1>2, <1>3 DEF Init, InTime
<1> QED
  BY <1>4, <1>5 DEF BaseInv

LEMMA BaseKept == BaseInv /\ [Next]_vars => BaseInv'
BY StepKinds, Saving, Dispatching, Stuttering

\* Every variable has its type, whatever is saved at once.
THEOREM ScheduleTyped == Spec => []TypeOK
<1>1. BaseInv => TypeOK
  BY DEF BaseInv
<1> QED
  BY BaseInitially, BaseKept, <1>1, PTL DEF Spec

-----------------------------------------------------------------------------
(* Cursors.                                                                    *)

\* No two requests that save one digest are under way at once.
OneSaveAtATime ==
    \A s, v \in Sessions :
        session[s].pc = "save" /\ session[v].pc = "save" /\ session[s].digest = session[v].digest => s = v

CursorIsDate ==
    \A d \in Digests :
        row[d].next # Never /\ row[d].schedule # NoSchedule => row[d].next \in row[d].schedule.dates

CursorIsAhead ==
    \A d \in Digests : row[d].next # Never =>
        /\ since[d] < row[d].next
        /\ \A i \in 1 .. Len(runs) : runs[i].digest = d => runs[i].due < row[d].next

ViewsAreKept ==
    \A s \in Sessions : session[s].pc = "save" => ViewKept(session[s].view, session[s].digest)

CursorInv == BaseInv /\ CursorIsDate /\ CursorIsAhead /\ ViewsAreKept

LEMMA DigestFacts ==
    ASSUME BaseInv
    PROVE  /\ clock \in Nat /\ \A d \in Digests : row[d].next \in Nat /\ since[d] \in Nat
           /\ runs \in Seq(ScheduledRun) /\ \A i \in 1 .. Len(runs) : runs[i].due \in Nat /\ runs[i].due <= clock
<1>1. clock \in Nat /\ runs \in Seq(ScheduledRun) /\ \A i \in 1 .. Len(runs) : runs[i].due <= clock
  BY ScheduleAssumption DEF BaseInv, TypeOK, InTime
<1>2. \A i \in 1 .. Len(runs) : runs[i] \in ScheduledRun
  BY <1>1
<1>3. \A i \in 1 .. Len(runs) : runs[i].due \in Nat
  BY <1>2 DEF ScheduledRun
<1>4. \A d \in Digests : row[d] \in Row /\ since[d] \in Nat
  BY DEF BaseInv, TypeOK
<1> QED
  BY <1>1, <1>3, <1>4, RowFacts

LEMMA CursorsInitially == Init => CursorInv
<1> SUFFICES ASSUME Init PROVE CursorInv
  OBVIOUS
<1>1. BaseInv
  BY BaseInitially
<1>2. /\ \A d \in Digests : row[d] = EmptyRow
      /\ \A s \in Sessions : session[s].pc = "idle"
  BY DEF Init, IdleSession
<1> QED
  BY <1>1, <1>2, NoRow DEF CursorInv, CursorIsDate, CursorIsAhead, ViewsAreKept

LEMMA CursorsRest ==
    ASSUME CursorInv, BaseInv', UNCHANGED <<since, runs>>, clock <= clock', SessionMoves,
           \A d \in Digests : Rests(row[d], row'[d])
    PROVE  CursorInv'
<1>1. CursorIsDate' /\ CursorIsAhead'
  BY DEF CursorInv, CursorIsDate, CursorIsAhead, Rests
<1>2. ASSUME NEW s \in Sessions, session'[s].pc = "save" PROVE ViewKept(session[s].view, session[s].digest)'
  <2> DEFINE d == session'[s].digest
             view == session'[s].view
  <2>1. d \in Digests /\ view \in Row /\ clock \in Nat /\ clock' \in Nat
    BY ScheduleAssumption DEF CursorInv, BaseInv, TypeOK, SessionPlace
  <2>2. view.next \in Nat
    BY <2>1, RowFacts
  <2>3. CASE view = row[d] /\ UNCHANGED <<row, clock>>
    BY <2>3 DEF ViewKept
  <2>4. CASE session'[s] = session[s]
    <3>1. ViewKept(view, d)
      BY <1>2, <2>4 DEF CursorInv, ViewsAreKept
    <3>2. view.next > clock' => view.next > clock
      BY <2>1, <2>2
    <3>3. row'[d].next \in {row[d].next, Never} /\ row'[d].schedule \in {row[d].schedule, NoSchedule}
      BY <2>1 DEF Rests
    <3> QED
      BY <3>1, <3>2, <3>3 DEF ViewKept
  <2> QED
    BY <1>2, <2>3, <2>4 DEF SessionMoves
<1> QED
  BY <1>1, <1>2 DEF CursorInv, ViewsAreKept

LEMMA CursorsSaved ==
    ASSUME CursorInv, OneSaveAtATime, NEW s \in Sessions, NEW schedule \in Schedules, Save(s, schedule)
    PROVE  CursorInv'
<1> DEFINE d == session[s].digest
           o == OwnerOf[d]
           view == session[s].view
<1>1. /\ BaseInv' /\ SessionMoves /\ UNCHANGED <<runs, clock>> /\ session'[s].pc = "idle" /\ session[s].pc = "save"
      /\ \/ UNCHANGED <<row, since>>
         \/ row' = Saved(o, d, view, schedule) /\ since' = [since EXCEPT ![d] = clock]
  BY Saving DEF CursorInv
<1>2. d \in Digests /\ view \in Row /\ clock \in Nat /\ row \in [Digests -> Row]
  BY SessionFacts DEF CursorInv, BaseInv, TypeOK
<1>3. CASE UNCHANGED <<row, since>>
  <2>1. clock <= clock' /\ \A e \in Digests : Rests(row[e], row'[e])
    BY <1>1, <1>2, <1>3 DEF Rests
  <2> QED
    BY <1>1, <1>3, <2>1, CursorsRest
<1>4. CASE row' = Saved(o, d, view, schedule) /\ since' = [since EXCEPT ![d] = clock]
  <2> DEFINE n == Following(schedule, clock)
  <2>1. ViewKept(view, d)
    BY <1>1 DEF CursorInv, ViewsAreKept
  <2>2. /\ row'[d].schedule \in {schedule, NoSchedule} /\ row'[d].next \in {n, Never}
        /\ \A e \in Digests \ {d} : Rests(row[e], row'[e])
    BY <1>2, <1>4, <2>1, SavedRow
  <2>3. n \in Nat /\ (n # Never => n \in schedule.dates /\ clock < n)
    BY <1>2, FollowingIsAhead
  <2> HIDE DEF n
  <2>4. since'[d] = clock /\ \A e \in Digests : e # d => since'[e] = since[e]
    BY <1>2, <1>4 DEF CursorInv, BaseInv, TypeOK
  <2>5. \A i \in 1 .. Len(runs) : runs[i].due \in Nat /\ runs[i].due <= clock
    BY DigestFacts DEF CursorInv
  <2> HIDE DEF d, view, o
  <2>6. CursorIsDate'
    BY <2>2, <2>3 DEF CursorInv, CursorIsDate, Rests
  <2>7. CursorIsAhead'
    <3>1. ASSUME row'[d].next # Never
          PROVE  /\ since'[d] < row'[d].next
                 /\ \A i \in 1 .. Len(runs) : runs[i].due < row'[d].next
      <4>1. row'[d].next = n /\ clock < n
        BY <2>2, <2>3, <3>1
      <4> QED
        BY <1>2, <2>3, <2>4, <2>5, <4>1
    <3> QED
      BY <1>1, <2>2, <2>4, <3>1 DEF CursorInv, CursorIsAhead, Rests
  <2>8. ASSUME NEW v \in Sessions, session'[v].pc = "save" PROVE ViewKept(session[v].view, session[v].digest)'
    <3>1. v # s
      BY <1>1, <2>8
    <3>2. session'[v] = session[v] /\ session[v].pc = "save"
      BY <2>8, <3>1 DEF Save, CursorInv, BaseInv, TypeOK
    <3>3. session[v].digest \in Digests /\ session[v].digest # d
      BY <1>1, <3>1, <3>2, SessionFacts DEF OneSaveAtATime, CursorInv, d
    <3>4. Rests(row[session[v].digest], row'[session[v].digest])
      BY <2>2, <3>3
    <3>5. ViewKept(session[v].view, session[v].digest)
      BY <3>2 DEF CursorInv, ViewsAreKept
    <3> QED
      BY <1>1, <3>2, <3>4, <3>5 DEF ViewKept, Rests
  <2> QED
    BY <1>1, <2>6, <2>7, <2>8 DEF CursorInv, ViewsAreKept
<1> QED
  BY <1>1, <1>3, <1>4

\* What a dispatch runs is at its cursor or after it.
LEMMA DueAtCursor ==
    ASSUME CursorInv, NEW d \in Digests, NEW now \in Nat, Moves(d, now)
    PROVE  /\ Latest(row[d].schedule, now) # Never => row[d].next <= Latest(row[d].schedule, now)
           /\ Latest(row[d].schedule, now) \in Nat
           /\ Latest(row[d].schedule, now) # Never => Latest(row[d].schedule, now) <= now
<1> DEFINE due == Latest(row[d].schedule, now)
<1>1. row[d].schedule \in Schedules /\ row[d].next # Never /\ row[d].next <= now
  BY DEF Moves
<1>2. row[d].schedule # NoSchedule
  BY <1>1, ScheduleAssumption
<1>3. row[d].next \in row[d].schedule.dates
  BY <1>1, <1>2 DEF CursorInv, CursorIsDate
<1>4. due # Never => ~Over(row[d].schedule, now)
  BY DEF Latest
<1> QED
  BY <1>1, <1>3, <1>4, LatestIsGreatest

LEMMA CursorsMoved ==
    ASSUME CursorInv, BaseInv', NEW d \in Digests, NEW now \in Nat, Moves(d, now),
           UNCHANGED <<since, session, clock>>
    PROVE  CursorInv'
<1> DEFINE n == Following(row[d].schedule, now)
           due == Latest(row[d].schedule, now)
           run == [digest |-> d, due |-> due]
<1>1. /\ row[d].schedule \in Schedules /\ row[d].next # Never /\ row[d].next <= now /\ now <= clock
      /\ row'[d].next \in {n, Never} /\ row'[d].schedule = row[d].schedule
      /\ \A e \in Digests \ {d} : Rests(row[e], row'[e])
      /\ UNCHANGED runs \/ (runs' = Append(runs, run) /\ due # Never)
  BY DEF Moves
<1>2. n \in Nat /\ (n # Never => n \in row[d].schedule.dates /\ now < n)
  BY <1>1, FollowingIsAhead
<1>3. due \in Nat /\ (due # Never => row[d].next <= due /\ due <= now)
  BY DueAtCursor
<1>4. /\ clock \in Nat /\ row[d].next \in Nat /\ since[d] \in Nat /\ runs \in Seq(ScheduledRun)
      /\ \A i \in 1 .. Len(runs) : runs[i].due \in Nat
      /\ since[d] < row[d].next /\ \A i \in 1 .. Len(runs) : runs[i].digest = d => runs[i].due < row[d].next
  BY <1>1, DigestFacts DEF CursorInv, CursorIsAhead
<1>5. run \in ScheduledRun /\ run.digest = d /\ run.due = due
  BY <1>3 DEF ScheduledRun
<1> HIDE DEF n, due, run
<1>6. \A i \in 1 .. Len(runs') : \/ i \in 1 .. Len(runs) /\ runs'[i] = runs[i]
                                 \/ runs'[i] = run /\ due # Never
  <2>1. CASE UNCHANGED runs
    BY <2>1
  <2>2. CASE runs' = Append(runs, run) /\ due # Never
    BY <1>4, <1>5, <2>2
  <2> QED
    BY <1>1, <2>1, <2>2
<1>7. CursorIsDate'
  BY <1>1, <1>2 DEF CursorInv, CursorIsDate, Rests
<1>8. ASSUME row'[d].next # Never
      PROVE  /\ since'[d] < row'[d].next
             /\ \A i \in 1 .. Len(runs') : runs'[i].digest = d => runs'[i].due < row'[d].next
  <2>1. row'[d].next = n /\ now < n
    BY <1>1, <1>2, <1>8
  <2>2. since[d] < n
    BY <1>1, <1>2, <1>4, <2>1
  <2>3. \A i \in 1 .. Len(runs) : runs[i].digest = d => runs[i].due < n
    BY <1>1, <1>2, <1>4, <2>1
  <2>4. due # Never => due < n
    BY <1>2, <1>3, <2>1
  <2> QED
    BY <1>5, <1>6, <2>1, <2>2, <2>3, <2>4
<1>9. ASSUME NEW e \in Digests, e # d, row'[e].next # Never
      PROVE  /\ since'[e] < row'[e].next
             /\ \A i \in 1 .. Len(runs') : runs'[i].digest = e => runs'[i].due < row'[e].next
  <2>1. row'[e].next = row[e].next
    BY <1>1, <1>9 DEF Rests
  <2>2. /\ since[e] < row[e].next /\ \A i \in 1 .. Len(runs) : runs[i].digest = e => runs[i].due < row[e].next
    BY <1>9, <2>1 DEF CursorInv, CursorIsAhead
  <2> QED
    BY <1>5, <1>6, <1>9, <2>1, <2>2
<1>10. CursorIsAhead'
  BY <1>8, <1>9 DEF CursorIsAhead
<1>11. ASSUME NEW s \in Sessions, session'[s].pc = "save" PROVE ViewKept(session[s].view, session[s].digest)'
  <2>1. session[s].pc = "save" /\ ViewKept(session[s].view, session[s].digest)
    BY <1>11 DEF CursorInv, ViewsAreKept
  <2>2. session[s].digest \in Digests
    BY SessionFacts DEF CursorInv
  <2>3. CASE session[s].digest # d
    BY <1>1, <2>1, <2>2, <2>3 DEF ViewKept, Rests
  <2>4. CASE session[s].digest = d
    <3>1. session[s].view.next \in Nat
      BY SessionFacts, RowFacts DEF CursorInv
    <3>2. session[s].view.next # Never /\ ~(session[s].view.next > clock)
      BY <1>1, <1>4, <2>1, <2>4, <3>1 DEF ViewKept
    <3> QED
      BY <1>1, <2>1, <2>4, <3>2 DEF ViewKept
  <2> QED
    BY <2>3, <2>4
<1> QED
  BY <1>7, <1>10, <1>11 DEF CursorInv, ViewsAreKept

LEMMA CursorsKept == CursorInv /\ OneSaveAtATime /\ [Next]_vars => CursorInv'
<1> SUFFICES ASSUME CursorInv, OneSaveAtATime, [Next]_vars PROVE CursorInv'
  OBVIOUS
<1>1. BaseInv
  BY DEF CursorInv
<1>2. ASSUME NEW w \in Dispatchers, Dispatch(w) PROVE CursorInv'
  BY <1>1, <1>2, Dispatching, CursorsMoved
<1>3. CASE UNCHANGED vars
  <2>1. /\ BaseInv' /\ UNCHANGED <<since, runs, clock, row, session>>
    BY <1>1, <1>3, Stuttering DEF vars
  <2> QED
    BY <2>1 DEF CursorInv, CursorIsDate, CursorIsAhead, ViewsAreKept, ViewKept
<1>4. CASE Next
  BY <1>1, <1>2, <1>4, StepKinds, CursorsSaved, CursorsRest
<1> QED
  BY <1>3, <1>4

LEMMA CursorsAlways == Spec /\ []OneSaveAtATime => []CursorInv
BY CursorsInitially, CursorsKept, PTL DEF Spec

\* While no two requests save one digest at once, no occurrence runs twice and none
\* from before the schedule was saved, for any number of digests, schedules,
\* dispatchers, crashes and requests.
THEOREM OnceAndInOrder == Spec /\ []OneSaveAtATime => OccurrencesRunOnce
<1>1. CursorInv /\ [Next]_vars
        => [\A i \in Len(runs) + 1 .. Len(runs') : LET d == runs'[i].digest IN
              /\ runs'[i].due > since[d]
              /\ \A j \in 1 .. Len(runs) : runs[j].digest = d => runs[j].due < runs'[i].due]_vars
  <2> SUFFICES ASSUME CursorInv, [Next]_vars, NEW i \in Len(runs) + 1 .. Len(runs')
               PROVE  /\ runs'[i].due > since[runs'[i].digest]
                      /\ \A j \in 1 .. Len(runs) : runs[j].digest = runs'[i].digest => runs[j].due < runs'[i].due
    OBVIOUS
  <2>1. BaseInv /\ Len(runs) \in Nat
    BY DEF CursorInv, BaseInv, TypeOK
  <2>2. ASSUME UNCHANGED runs PROVE FALSE
    BY <2>1, <2>2
  <2>3. PICK w \in Dispatchers : Dispatch(w)
    <3>1. \A s \in Sessions, schedule \in Schedules : Save(s, schedule) => UNCHANGED runs
      BY DEF Save
    <3>2. UNCHANGED vars => UNCHANGED runs
      BY DEF vars
    <3> QED
      BY <2>1, <2>2, <3>1, <3>2, StepKinds
  <2>4. PICK d \in Digests, now \in Nat : Moves(d, now)
    BY <2>1, <2>3, Dispatching
  <2> DEFINE due == Latest(row[d].schedule, now)
  <2>5. runs' = Append(runs, [digest |-> d, due |-> due]) /\ due # Never /\ row[d].next # Never
    BY <2>2, <2>4 DEF Moves
  <2>6. due \in Nat /\ row[d].next <= due
    BY <2>4, <2>5, DueAtCursor
  <2> HIDE DEF due
  <2>7. runs'[i] = [digest |-> d, due |-> due]
    BY <2>1, <2>5 DEF CursorInv, BaseInv, TypeOK
  <2>8. runs'[i].digest = d /\ runs'[i].due = due
    BY <2>7
  <2>9. /\ row[d].next \in Nat /\ since[d] \in Nat /\ \A j \in 1 .. Len(runs) : runs[j].due \in Nat
    BY <2>1, DigestFacts
  <2>10. since[d] < row[d].next /\ \A j \in 1 .. Len(runs) : runs[j].digest = d => runs[j].due < row[d].next
    BY <2>5 DEF CursorInv, CursorIsAhead
  <2> QED
    BY <2>6, <2>8, <2>9, <2>10
<1> QED
  BY CursorsAlways, <1>1, PTL DEF Spec, OccurrencesRunOnce

\* And what the preview shows is what a dispatch at that time runs.
THEOREM PreviewIsTrue == Spec /\ []OneSaveAtATime => []PreviewIsWhatRuns
<1>1. CursorInv => PreviewIsWhatRuns
  <2> SUFFICES ASSUME CursorInv, NEW d \in Digests, row[d].schedule # NoSchedule, Due(d, clock)
               PROVE  Preview(d, clock) = Latest(row[d].schedule, clock)
    BY DEF PreviewIsWhatRuns
  <2>1. clock \in Nat /\ row[d] \in Row
    BY ScheduleAssumption DEF CursorInv, BaseInv, TypeOK
  <2>2. row[d].schedule \in Schedules /\ row[d].next \in Nat
    BY <2>1, RowFacts
  <2>3. row[d].next # Never /\ row[d].next <= clock
    BY DEF Due
  <2>4. row[d].next \in row[d].schedule.dates
    BY <2>3 DEF CursorInv, CursorIsDate
  <2>5. CASE Over(row[d].schedule, clock)
    BY <2>5 DEF Preview, Latest
  <2>6. CASE ~Over(row[d].schedule, clock)
    <3>1. Latest(row[d].schedule, clock) \in Nat /\ row[d].next <= Latest(row[d].schedule, clock)
      BY <2>1, <2>2, <2>3, <2>4, <2>6, LatestIsGreatest
    <3> QED
      BY <2>2, <2>3, <2>6, <3>1 DEF Preview
  <2> QED
    BY <2>5, <2>6
<1> QED
  BY CursorsAlways, <1>1, PTL

=============================================================================
