-------------------------- MODULE RadarRuns_proofs --------------------------
(***************************************************************************)
(* What RadarRuns guarantees for any number of workers, runs, accounts,    *)
(* batches and faults.                                                     *)
(***************************************************************************)
EXTENDS RadarRuns, FiniteSetTheorems, TLAPS

USE DEF At, Goto, Become

-----------------------------------------------------------------------------
(* Type correctness *)

Requesting == {"retrieve", "submit", "post", "persist", "observe", "accept",
               "discard"}

\* What the types alone do not say of a worker's place ...
GoodPlace(l) ==
    /\ l \in Place
    /\ l.pc # "idle" => l.run \in Runs
    /\ l.stage = Summaries =>
         /\ l.view.saved <= Batches
         /\ l.pc \in {"sources", "request"} => l.view.saved \in 0 .. Batches
         /\ l.pc \in Requesting => l.view.saved \in 0 .. Batches - 1

\* ... and of the summaries: no batch is counted twice.
PlaceOK ==
    /\ \A r \in Runs : stage[r][Summaries].saved <= Batches
    /\ \A w \in Workers : GoodPlace(worker[w])

IType == TypeOK /\ PlaceOK

\* A flush of a typed row over a typed row is typed.
LEMMA FlushType ==
    ASSUME NEW row \in StageRow, NEW old \in StageRow, NEW new \in StageRow
    PROVE  /\ Flush(row, old, new) \in StageRow
           /\ Flush(row, old, new).saved \in {row.saved, new.saved}
BY DEF Flush, StageRow

\* Writing a typed row keeps the table typed; only a summary row's count matters.
LEMMA WriteType ==
    ASSUME IType, NEW w \in Workers, worker[w].pc # "idle",
           NEW new \in StageRow, Write(w, new),
           worker[w].stage = Summaries => new.saved <= Batches
    PROVE  /\ stage' \in [Runs -> [Stages -> StageRow]]
           /\ \A r \in Runs : stage'[r][Summaries].saved <= Batches
<1> DEFINE l == worker[w]
           row == stage[l.run][l.stage]
           flushed == Flush(row, l.view, new)
<1>1. /\ l \in Place /\ l.run \in Runs /\ l.stage \in Stages /\ l.view \in StageRow
      /\ row \in StageRow
  BY DEF IType, TypeOK, PlaceOK, GoodPlace, Place
<1>2. flushed \in StageRow /\ flushed.saved \in {row.saved, new.saved}
  BY <1>1, FlushType
<1>3. stage' = [stage EXCEPT ![l.run][l.stage] = flushed]
  BY DEF Write
<1>4. stage' \in [Runs -> [Stages -> StageRow]]
  BY <1>1, <1>2, <1>3 DEF IType, TypeOK
<1>5. Summaries \in Stages
  BY DEF Summaries, Stages, Discovery, Briefing
<1>6. ASSUME NEW r \in Runs PROVE stage'[r][Summaries].saved <= Batches
  <2>1. stage[r][Summaries].saved <= Batches
    BY DEF IType, PlaceOK
  <2>2. CASE r = l.run /\ l.stage = Summaries
    <3>1. stage'[r][Summaries] = flushed
      BY <1>1, <1>3, <1>5, <2>2 DEF IType, TypeOK
    <3> QED BY <3>1, <1>2, <2>1, <2>2
  <2>3. CASE ~(r = l.run /\ l.stage = Summaries)
    <3>1. stage'[r][Summaries] = stage[r][Summaries]
      BY <1>1, <1>3, <1>5, <2>3 DEF IType, TypeOK
    <3> QED BY <3>1, <2>1
  <2> QED BY <2>2, <2>3
<1> QED BY <1>4, <1>6

\* Leaving a stage leads to a typed place of the same run.
LEMMA NextStageType ==
    ASSUME NEW l \in Place
    PROVE  /\ NextStage(l) \in Place /\ NextStage(l).run = l.run
           /\ NextStage(l).pc \in {"load", "finish"}
           /\ NextStage(l).view.saved <= Batches
<1>1. FreshStage \in StageRow /\ FreshStage.saved = -1
  BY DEF FreshStage, StageRow, NoData, NoResponse
<1>2. l.stage \in 1 .. 4 /\ Stages = 1 .. 4 /\ Briefing = 4
  BY DEF Place, Stages, Discovery, Briefing
<1>3. (IF l.stage = Briefing THEN Briefing ELSE l.stage + 1) \in Stages
  BY <1>2
<1>4. {"load", "finish"} \subseteq Step
  BY DEF Step, TryBlock
<1>5. -1 <= Batches
  BY ConstantsAssumption
<1>6. NoResponse \in Requests \cup {NoResponse}
  OBVIOUS
<1> QED BY <1>1, <1>3, <1>4, <1>5, <1>6 DEF NextStage, Place

\* Reading the row of a stage leads to a typed place of the same run.
LEMMA LoadedType ==
    ASSUME IType, NEW l \in Place, l.run \in Runs
    PROVE  /\ Loaded(l) \in Place /\ Loaded(l).run = l.run
           /\ Loaded(l).pc \in {"load", "finish", "begin"}
           /\ Loaded(l).stage = Summaries => Loaded(l).view.saved <= Batches
<1> DEFINE row == stage[l.run][l.stage]
<1>1. l.stage \in Stages /\ row \in StageRow
  BY DEF IType, TypeOK, Place
<1>2. l.stage = Summaries => row.saved <= Batches
  BY DEF IType, PlaceOK
<1>3. CASE Done(row)
  <2>1. Loaded(l) = NextStage(l)
    BY <1>3 DEF Loaded
  <2> QED BY <1>1, <2>1, NextStageType
<1>4. CASE ~Done(row)
  <2>1. Loaded(l) = [l EXCEPT !.pc = "begin", !.view = row]
    BY <1>4 DEF Loaded
  <2>2. "begin" \in Step
    BY DEF Step, TryBlock
  <2> QED BY <1>1, <1>2, <2>1, <2>2 DEF Place
<1> QED BY <1>3, <1>4

\* A worker that moves to a good place leaves the others where they are.
LEMMA MoveType ==
    ASSUME IType, NEW w \in Workers, NEW l, GoodPlace(l), Become(w, l)
    PROVE  /\ worker' \in [Workers -> Place]
           /\ \A v \in Workers : GoodPlace(worker'[v])
BY DEF IType, TypeOK, PlaceOK, GoodPlace

\* Moving within a stage to a step that is not about the summaries' count.
LEMMA GotoType ==
    ASSUME IType, NEW w \in Workers, NEW step \in Step, Goto(w, step),
           worker[w].pc # "idle",
           \/ step \notin Requesting \cup {"sources", "request"}
           \/ step \in Requesting /\ worker[w].pc \in Requesting
           \/ step = "request" /\ worker[w].pc = "sources"
    PROVE  /\ worker' \in [Workers -> Place]
           /\ \A v \in Workers : GoodPlace(worker'[v])
<1> DEFINE l == [worker[w] EXCEPT !.pc = step]
<1>1. GoodPlace(worker[w]) /\ worker[w] \in Place
  BY DEF IType, TypeOK, PlaceOK
<1>2. "sources" \notin Requesting /\ "request" \notin Requesting
  BY DEF Requesting
<1>3. l \in Place /\ l.run = worker[w].run /\ l.stage = worker[w].stage
      /\ l.view = worker[w].view /\ l.pc = step
  BY <1>1 DEF Place
<1>4. GoodPlace(l)
  BY <1>1, <1>2, <1>3 DEF GoodPlace
<1>5. Become(w, l)
  BY DEF IType, TypeOK
<1> QED BY <1>4, <1>5, MoveType

LEMMA InitType == Init => IType
<1> SUFFICES ASSUME Init PROVE IType
  OBVIOUS
<1>1. FreshStage \in StageRow /\ FreshStage.saved = -1
  BY DEF FreshStage, StageRow, NoData, NoResponse
<1>2. -1 <= Batches /\ 1 \in 1 .. MaxRequests + 1
  BY ConstantsAssumption
<1>3. IdleWorker \in Place /\ IdleWorker.pc = "idle" /\ IdleWorker.stage = Discovery
  BY <1>1 DEF IdleWorker, Place, Step, Stages, Discovery, Briefing
<1>4. GoodPlace(IdleWorker)
  BY <1>3 DEF GoodPlace, Summaries, Discovery
<1>5. Unowned("absent") \in RunRow
  BY DEF Unowned, RunRow
<1>6. NewRow(NoRun, Discovery) \in Row
  BY DEF NewRow, Row, NoRun, Stages, Discovery, Briefing
<1>7. Summaries \in Stages
  BY DEF Summaries, Stages, Discovery, Briefing
<1>8. TypeOK
  BY <1>1, <1>2, <1>3, <1>5, <1>6, ConstantsAssumption
     DEF Init, TypeOK, QuotaState, JobState
<1>9. PlaceOK
  BY <1>1, <1>2, <1>4, <1>7 DEF Init, PlaceOK
<1> QED BY <1>8, <1>9 DEF IType

LEMMA RenewType ==
    ASSUME IType, NEW w \in Workers, Renew(w)
    PROVE  run' \in [Runs -> RunRow]
BY ZenonT(60) DEF IType, TypeOK, Renew, RunRow

LEMMA UnownedType ==
    ASSUME NEW st \in {"absent", "queued", "running", "completed", "failed"}
    PROVE  Unowned(st) \in RunRow
BY DEF Unowned, RunRow

LEMMA QuotaType ==
    ASSUME NEW state \in QuotaState, NEW success \in BOOLEAN
    PROVE  Settle(state, success) \in QuotaState /\ Reserve(state) \in QuotaState
BY DEF Settle, Reserve, QuotaState

LEMMA IdleType == GoodPlace(IdleWorker)
<1>1. FreshStage \in StageRow
  BY DEF FreshStage, StageRow, NoData, NoResponse
<1> QED
  BY <1>1 DEF IdleWorker, Place, Step, Stages, Discovery, Briefing, GoodPlace, Summaries

\* A worker's view with another active response is still a view.
LEMMA ViewType ==
    ASSUME NEW row \in StageRow, NEW q \in Requests \cup {NoResponse}
    PROVE  /\ [row EXCEPT !.active = q] \in StageRow
           /\ [row EXCEPT !.active = q].saved = row.saved
           /\ [row EXCEPT !.status = "completed"] \in StageRow
           /\ [row EXCEPT !.status = "completed"].saved = row.saved
BY DEF StageRow

\* The failed stage a retry picks is a stage.
LEMMA RetriedStageType ==
    ASSUME NEW r \in Runs, FailedStages(r) # {}
    PROVE  RetriedStage(r) \in FailedStages(r) /\ RetriedStage(r) \in Stages
<1>1. FailedStages(r) \subseteq 1 .. 4 /\ Stages = 1 .. 4
  BY DEF FailedStages, Stages, Discovery, Briefing
<1>2. \E s \in FailedStages(r) : \A t \in FailedStages(r) : s <= t
  BY <1>1
<1> QED BY <1>1, <1>2 DEF RetriedStage

\* Submission keeps the types.
LEMMA SubmissionType ==
    ASSUME IType,
           \/ \E r \in Runs : Start(r) \/ Retry(r)
           \/ \E o \in Owners : RequestClosure(o)
    PROVE  IType'
<1>1. ASSUME NEW r \in Runs, Start(r) PROVE IType'
  <2>1. Unowned("queued") \in RunRow
    BY UnownedType
  <2>2. FreshStage \in StageRow /\ FreshStage.saved = -1 /\ -1 <= Batches
    BY ConstantsAssumption DEF FreshStage, StageRow, NoData, NoResponse
  <2>3. Summaries \in Stages
    BY DEF Summaries, Stages, Discovery, Briefing
  <2>4. \A st \in QuotaState : Reserve(st) \in QuotaState
    BY QuotaType
  <2>5. TypeOK'
    BY <1>1, <2>1, <2>2, <2>4 DEF Start, IType, TypeOK
  <2>6. PlaceOK'
    BY <1>1, <2>2, <2>3 DEF Start, IType, TypeOK, PlaceOK, GoodPlace
  <2> QED BY <2>5, <2>6 DEF IType
<1>2. ASSUME NEW r \in Runs, Retry(r) PROVE IType'
  <2>1. Unowned("queued") \in RunRow
    BY UnownedType
  <2>2. \A st \in QuotaState : Reserve(st) \in QuotaState
    BY QuotaType
  <2> DEFINE x == RetriedStage(r)
             old == stage[r][x]
             new == [old EXCEPT !.status = "pending"]
  <2>a. x \in Stages
    BY <1>2, RetriedStageType DEF Retry
  <2>b. old \in StageRow /\ new \in StageRow /\ new.saved = old.saved
    <3>1. old \in StageRow
      BY <2>a DEF IType, TypeOK
    <3> HIDE DEF old
    <3> QED BY <3>1 DEF StageRow
  <2>c. stage' = [stage EXCEPT ![r][x] = new]
    BY <1>2 DEF Retry
  <2> HIDE DEF x, new
  <2>3. stage' \in [Runs -> [Stages -> StageRow]]
    BY <2>a, <2>b, <2>c DEF IType, TypeOK
  <2>4. \A p \in Runs : stage'[p][Summaries].saved = stage[p][Summaries].saved
    <3>1. Summaries \in Stages
      BY DEF Summaries, Stages, Discovery, Briefing
    <3> QED BY <2>a, <2>b, <2>c, <3>1 DEF IType, TypeOK
  <2>5. retries' \in 0 .. MaxRetries
    BY <1>2, ConstantsAssumption DEF Retry, IType, TypeOK
  <2>6. TypeOK'
    BY <1>2, <2>1, <2>2, <2>3, <2>5 DEF Retry, IType, TypeOK
  <2>7. PlaceOK'
    BY <1>2, <2>4 DEF Retry, IType, PlaceOK, GoodPlace
  <2> QED BY <2>6, <2>7 DEF IType
<1>3. ASSUME NEW o \in Owners, RequestClosure(o) PROVE IType'
  BY <1>3 DEF RequestClosure, IType, TypeOK, PlaceOK, GoodPlace
<1> QED BY <1>1, <1>2, <1>3

\* Claiming keeps the types.
LEMMA ClaimType ==
    ASSUME IType, NEW w \in Workers, ClaimSelect(w) \/ ClaimUpdate(w) \/ Open(w)
    PROVE  IType'
<1>1. CASE ClaimSelect(w)
  <2>1. PICK r \in Runs :
          Become(w, [IdleWorker EXCEPT !.pc = "selected", !.run = r])
    BY <1>1 DEF ClaimSelect
  <2>2. GoodPlace([IdleWorker EXCEPT !.pc = "selected", !.run = r])
    <3>1. IdleWorker \in Place /\ IdleWorker.stage # Summaries /\ "selected" \in Step
      BY IdleType DEF GoodPlace, IdleWorker, Summaries, Discovery, Step
    <3> QED BY <3>1 DEF GoodPlace, Place
  <2>3. worker' \in [Workers -> Place] /\ \A v \in Workers : GoodPlace(worker'[v])
    BY <2>1, <2>2, MoveType DEF ClaimSelect
  <2> QED BY <1>1, <2>3 DEF ClaimSelect, dbVars, IType, TypeOK, PlaceOK, GoodPlace
<1>2. CASE ClaimUpdate(w)
  <2>1. run' \in [Runs -> RunRow]
    BY <1>2 DEF ClaimUpdate, IType, TypeOK, RunRow
  <2>2. worker' \in [Workers -> Place] /\ \A v \in Workers : GoodPlace(worker'[v])
    <3>1. "open" \in Step /\ "open" \notin Requesting \cup {"sources", "request"}
      BY DEF Step, Requesting
    <3>2. CASE Become(w, IdleWorker)
      BY <3>2, IdleType, MoveType
    <3>3. CASE Goto(w, "open")
      BY <1>2, <3>1, <3>3, GotoType DEF ClaimUpdate
    <3> QED BY <1>2, <3>2, <3>3 DEF ClaimUpdate
  <2> QED BY <1>2, <2>1, <2>2 DEF ClaimUpdate, IType, TypeOK, PlaceOK, GoodPlace
<1>3. CASE Open(w)
  <2>1. worker[w] \in Place /\ worker[w].run \in Runs
    BY <1>3 DEF Open, IType, TypeOK, PlaceOK, GoodPlace
  <2>2. GoodPlace(Loaded(worker[w]))
    BY <2>1, LoadedType DEF GoodPlace, Requesting
  <2>3. worker' \in [Workers -> Place] /\ \A v \in Workers : GoodPlace(worker'[v])
    BY <1>3, <2>2, IdleType, MoveType DEF Open
  <2> QED BY <1>3, <2>3 DEF Open, dbVars, IType, TypeOK, PlaceOK, GoodPlace
<1> QED BY <1>1, <1>2, <1>3

\* A place of the same run and stage, with the same count of batches.
LEMMA SamePlace ==
    ASSUME NEW l, GoodPlace(l), l.pc # "idle", NEW step \in Step,
           NEW view \in StageRow, NEW cur \in Requests \cup {NoResponse},
           view.saved = l.view.saved, NEW drop \in BOOLEAN,
           \/ step \notin Requesting \cup {"sources", "request"}
           \/ step \in Requesting /\ l.pc \in Requesting
           \/ /\ step \in Requesting /\ l.pc = "request"
              /\ ~(l.stage = Summaries /\ SummariesDone(l.view))
    PROVE  GoodPlace([l EXCEPT !.pc = step, !.view = view, !.cur = cur, !.drop = drop])
<1> DEFINE m == [l EXCEPT !.pc = step, !.view = view, !.cur = cur, !.drop = drop]
<1>1. l \in Place
  BY DEF GoodPlace
<1>2. m \in Place /\ m.pc = step /\ m.view = view /\ m.run = l.run /\ m.stage = l.stage
  BY <1>1 DEF Place
<1>3. "sources" \notin Requesting /\ "request" \notin Requesting
  BY DEF Requesting
<1>4. l.view.saved # Batches \/ l.stage # Summaries
      \/ step \notin Requesting \/ l.pc \in Requesting
  BY DEF SummariesDone
<1> HIDE DEF m
<1>5. l.stage = Summaries /\ step \in Requesting => view.saved \in 0 .. Batches - 1
  BY <1>1, <1>3, <1>4, ConstantsAssumption DEF GoodPlace
<1>6. l.stage = Summaries => view.saved <= Batches
  BY DEF GoodPlace
<1>7. step \notin {"sources", "request"}
  BY <1>3
<1>8. GoodPlace(m)
  BY <1>2, <1>5, <1>6, <1>7 DEF GoodPlace
<1> QED BY <1>8 DEF m

\* The part of the types that reading, waiting and submitting cannot touch.
LEMMA RestType ==
    ASSUME IType,
           worker' \in [Workers -> Place], \A v \in Workers : GoodPlace(worker'[v]),
           stage' \in [Runs -> [Stages -> StageRow]],
           \A r \in Runs : stage'[r][Summaries].saved <= Batches,
           run' \in [Runs -> RunRow], request' \in [Requests -> Row],
           nextRequest' \in 1 .. MaxRequests + 1, job' \in [Requests -> JobState],
           faults' \in 0 .. MaxFaults,
           UNCHANGED <<usage, observed, closing, retries>>
    PROVE  IType'
BY DEF IType, TypeOK, PlaceOK, GoodPlace

\* Beginning a stage keeps the batches counted, and counts from zero.
LEMMA BegunType ==
    ASSUME NEW old \in StageRow, NEW s \in Stages,
           s = Summaries => old.saved <= Batches
    PROVE  /\ Begun(old, s) \in StageRow
           /\ s = Summaries => Begun(old, s).saved \in 0 .. Batches
<1> DEFINE saved == IF s = Summaries /\ old.saved = NoData THEN 0 ELSE old.saved
<1>1. Begun(old, s) = [old EXCEPT !.status = "running", !.saved = saved]
  BY DEF Begun, StageRow
<1>2. old.saved \in {NoData, 1} \cup (0 .. Batches) /\ NoData = -1
  BY DEF StageRow, NoData
<1>3. /\ saved \in {NoData, 1} \cup (0 .. Batches)
      /\ s = Summaries => saved \in 0 .. Batches
  BY <1>2, ConstantsAssumption
<1> HIDE DEF saved
<1> QED BY <1>1, <1>3 DEF StageRow

\* Accepting an output counts at most one batch more.
LEMMA AcceptedType ==
    ASSUME NEW old \in StageRow, NEW s \in Stages,
           s = Summaries => old.saved \in 0 .. Batches - 1
    PROVE  /\ Accepted(old, s) \in StageRow
           /\ s = Summaries => Accepted(old, s).saved \in 0 .. Batches
<1>1. CASE s = Summaries
  <2>1. old.saved + 1 \in 0 .. Batches
    BY <1>1, ConstantsAssumption
  <2> QED BY <1>1, <2>1 DEF Accepted, StageRow
<1>2. CASE s # Summaries
  BY <1>2 DEF Accepted, StageRow
<1> QED BY <1>1, <1>2

\* A step of the stage loop keeps the types.
LEMMA StageType ==
    ASSUME IType, NEW w \in Workers, StageStep(w)
    PROVE  IType'
<1> DEFINE l == worker[w]
<1>1. /\ GoodPlace(l) /\ l \in Place /\ l.view \in StageRow
      /\ l.cur \in Requests \cup {NoResponse} /\ l.drop \in BOOLEAN
      /\ l.view.active \in Requests \cup {NoResponse} /\ l.stage \in Stages
  BY DEF IType, TypeOK, PlaceOK, Place, StageRow
<1>2. /\ stage \in [Runs -> [Stages -> StageRow]]
      /\ \A r \in Runs : stage[r][Summaries].saved <= Batches
      /\ run \in [Runs -> RunRow] /\ request \in [Requests -> Row]
      /\ nextRequest \in 1 .. MaxRequests + 1 /\ job \in [Requests -> JobState]
      /\ faults \in 0 .. MaxFaults
  BY DEF IType, TypeOK, PlaceOK
<1>3. NoResponse \in Requests \cup {NoResponse}
  OBVIOUS
<1>4. /\ TryBlock \cup {"failing", "idle"} \subseteq Step
      /\ Requesting \subseteq TryBlock /\ "sources" \in TryBlock /\ "request" \in TryBlock
  BY DEF Step, TryBlock, Requesting
<1>5. CASE Load(w)
  <2>1. GoodPlace(Loaded(l))
    BY <1>1, <1>5, LoadedType DEF Load, GoodPlace, Requesting
  <2> QED BY <1>2, <1>5, <2>1, MoveType, RestType DEF Load, dbVars
<1>6. CASE BeginStage(w)
  <2> DEFINE row == Begun(l.view, l.stage)
             step == IF l.stage = Summaries THEN "sources" ELSE "request"
             m == [l EXCEPT !.view = row, !.pc = step]
  <2>1. row \in StageRow /\ (l.stage = Summaries => row.saved \in 0 .. Batches)
    BY <1>1, BegunType DEF GoodPlace
  <2>2. step \in Step /\ step \notin Requesting
    BY <1>4 DEF Requesting
  <2> HIDE DEF row, step
  <2>3. m \in Place /\ m.pc = step /\ m.view = row /\ m.stage = l.stage /\ m.run = l.run
    BY <1>1, <2>1, <2>2 DEF Place
  <2>4. l.run \in Runs
    BY <1>1, <1>6 DEF BeginStage, GoodPlace
  <2>5. l.stage = Summaries => row.saved <= Batches
    BY <2>1, ConstantsAssumption
  <2> HIDE DEF m
  <2>6. GoodPlace(m)
    BY <2>1, <2>2, <2>3, <2>4, <2>5 DEF GoodPlace
  <2>7. Write(w, row) /\ Become(w, m) /\ l.pc # "idle"
    BY <1>6 DEF BeginStage, row, m, step
  <2>8. UNCHANGED <<run, usage, observed, closing, request, nextRequest, job, faults, retries>>
    BY <1>6 DEF BeginStage
  <2>9. /\ stage' \in [Runs -> [Stages -> StageRow]]
        /\ \A r \in Runs : stage'[r][Summaries].saved <= Batches
    BY <2>1, <2>5, <2>7, WriteType
  <2> QED BY <1>2, <2>6, <2>7, <2>8, <2>9, MoveType, RestType
<1>7. CASE Sources(w)
  <2>1. worker' \in [Workers -> Place] /\ \A v \in Workers : GoodPlace(worker'[v])
    BY <1>4, <1>7, GotoType DEF Sources
  <2> QED BY <1>2, <1>7, <2>1, RenewType, RestType DEF Sources
<1>8. CASE CompleteSummaries(w)
  <2>1. GoodPlace(NextStage(l))
    BY <1>1, <1>8, NextStageType DEF CompleteSummaries, GoodPlace, Requesting
  <2>2. /\ stage' \in [Runs -> [Stages -> StageRow]]
        /\ \A r \in Runs : stage'[r][Summaries].saved <= Batches
    BY <1>1, <1>8, ViewType, WriteType DEF CompleteSummaries, GoodPlace
  <2> QED BY <1>2, <1>8, <2>1, <2>2, MoveType, RestType DEF CompleteSummaries
<1>9. CASE Request(w)
  <2>1. PICK step \in {"failing", "retrieve", "submit"},
             cur \in Requests \cup {NoResponse} :
          Become(w, [l EXCEPT !.pc = step, !.view = l.view, !.cur = cur, !.drop = l.drop])
    BY <1>1, <1>9 DEF Request, Place
  <2>2. GoodPlace([l EXCEPT !.pc = step, !.view = l.view, !.cur = cur, !.drop = l.drop])
    BY ZenonT(60), <1>1, <1>4, <1>9, SamePlace DEF Request, Requesting
  <2> QED BY <1>2, <1>9, <2>1, <2>2, MoveType, RestType DEF Request, dbVars
<1>10. CASE Retrieve(w)
  <2> DEFINE row == [l.view EXCEPT !.active = NoResponse]
  <2>1. row \in StageRow /\ row.saved = l.view.saved
    BY <1>1, <1>3, ViewType
  <2>2. CASE job[l.cur] = "gone"
    <3> HIDE DEF row
    <3>1. Write(w, row) /\ l.pc = "retrieve"
          /\ Become(w, [l EXCEPT !.pc = "submit", !.view = row, !.cur = NoResponse])
      BY <1>10, <2>2 DEF Retrieve, row
    <3>2. Become(w, [l EXCEPT !.pc = "submit", !.view = row, !.cur = NoResponse,
                              !.drop = l.drop])
      BY <1>1, <3>1 DEF Place
    <3>3. GoodPlace([l EXCEPT !.pc = "submit", !.view = row, !.cur = NoResponse,
                              !.drop = l.drop])
      BY <1>1, <1>3, <1>4, <2>1, <3>1, SamePlace DEF Requesting
    <3>4. /\ stage' \in [Runs -> [Stages -> StageRow]]
          /\ \A r \in Runs : stage'[r][Summaries].saved <= Batches
      BY <1>1, <2>1, <3>1, WriteType DEF GoodPlace
    <3> QED BY <1>2, <1>10, <3>2, <3>3, <3>4, MoveType, RestType DEF Retrieve
  <2>3. CASE job[l.cur] # "gone"
    <3>1. worker' \in [Workers -> Place] /\ \A v \in Workers : GoodPlace(worker'[v])
      BY <1>4, <1>10, <2>3, GotoType DEF Retrieve, Requesting
    <3> QED BY <1>2, <1>10, <2>3, <3>1, RestType DEF Retrieve
  <2> QED BY <2>2, <2>3
<1>11. CASE Submit(w)
  <2>1. nextRequest \in Requests /\ nextRequest + 1 \in 1 .. MaxRequests + 1
    BY <1>2, <1>11, ConstantsAssumption DEF Submit, Requests
  <2>2. Become(w, [l EXCEPT !.pc = "post", !.view = l.view, !.cur = nextRequest,
                            !.drop = l.drop])
    BY <1>1, <1>11 DEF Submit, Place
  <2>3. GoodPlace([l EXCEPT !.pc = "post", !.view = l.view, !.cur = nextRequest,
                            !.drop = l.drop])
    BY <1>1, <1>4, <1>11, <2>1, SamePlace DEF Submit, Requesting
  <2>4. NewRow(l.run, l.stage) \in Row
    BY <1>1 DEF NewRow, Row, Place
  <2>5. request' \in [Requests -> Row]
    BY <1>2, <1>11, <2>1, <2>4 DEF Submit
  <2>6. run' \in [Runs -> RunRow]
    BY <1>11, RenewType DEF Submit
  <2> QED
    BY <1>2, <1>11, <2>1, <2>2, <2>3, <2>5, <2>6, MoveType, RestType DEF Submit
<1>12. CASE Post(w)
  <2>1. worker' \in [Workers -> Place] /\ \A v \in Workers : GoodPlace(worker'[v])
    BY <1>4, <1>12, GotoType DEF Post, Requesting
  <2>2. job' \in [Requests -> JobState]
    BY <1>2, <1>12 DEF Post, JobState
  <2> QED BY <1>2, <1>12, <2>1, <2>2, RestType DEF Post, dbVars
<1>13. CASE Persist(w)
  <2> DEFINE row == [l.view EXCEPT !.active = l.cur]
  <2>1. row \in StageRow /\ row.saved = l.view.saved
    BY <1>1, ViewType
  <2> HIDE DEF row
  <2>2. Write(w, row) /\ l.pc = "persist" /\ Renew(w)
        /\ Become(w, [l EXCEPT !.pc = "observe", !.view = row])
    BY <1>13 DEF Persist, row
  <2>3. Become(w, [l EXCEPT !.pc = "observe", !.view = row, !.cur = l.cur,
                            !.drop = l.drop])
    BY <1>1, <2>2 DEF Place
  <2>4. GoodPlace([l EXCEPT !.pc = "observe", !.view = row, !.cur = l.cur,
                            !.drop = l.drop])
    BY <1>1, <1>4, <2>1, <2>2, SamePlace DEF Requesting
  <2>5. /\ stage' \in [Runs -> [Stages -> StageRow]]
        /\ \A r \in Runs : stage'[r][Summaries].saved <= Batches
    BY <1>1, <2>1, <2>2, WriteType DEF GoodPlace
  <2>6. request' \in [Requests -> Row]
    BY ZenonT(60), <1>2, <1>13 DEF Persist, Row
  <2> QED
    BY <1>2, <1>13, <2>2, <2>3, <2>4, <2>5, <2>6, MoveType, RenewType, RestType
       DEF Persist
<1>14. CASE Observe(w)
  <2>1. PICK step \in {"observe", "accept", "discard"} : Goto(w, step)
    BY <1>14 DEF Observe
  <2>2. worker' \in [Workers -> Place] /\ \A v \in Workers : GoodPlace(worker'[v])
    BY <1>4, <1>14, <2>1, GotoType DEF Observe, Requesting
  <2>3. request' \in [Requests -> Row]
    BY ZenonT(60), <1>2, <1>14 DEF Observe, Row
  <2>4. run' \in [Runs -> RunRow]
    BY <1>14, RenewType DEF Observe
  <2> QED BY <1>2, <1>14, <2>2, <2>3, <2>4, RestType DEF Observe
<1>15. CASE ObserveGone(w) \/ SaveConflict(w)
  <2>1. worker' \in [Workers -> Place] /\ \A v \in Workers : GoodPlace(worker'[v])
    BY <1>4, <1>15, GotoType DEF ObserveGone, SaveConflict, Requesting
  <2> QED BY <1>2, <1>15, <2>1, RestType DEF ObserveGone, SaveConflict, dbVars
<1>16. CASE Discard(w)
  <2> DEFINE row == [l.view EXCEPT !.active = NoResponse]
  <2>1. row \in StageRow /\ row.saved = l.view.saved
    BY <1>1, <1>3, ViewType
  <2> HIDE DEF row
  <2>2. Write(w, row) /\ l.pc # "idle"
        /\ Become(w, [l EXCEPT !.pc = "failing", !.view = row])
    BY <1>16 DEF Discard, row
  <2>3. Become(w, [l EXCEPT !.pc = "failing", !.view = row, !.cur = l.cur,
                            !.drop = l.drop])
    BY <1>1, <2>2 DEF Place
  <2>4. GoodPlace([l EXCEPT !.pc = "failing", !.view = row, !.cur = l.cur,
                            !.drop = l.drop])
    BY <1>1, <1>4, <2>1, <2>2, SamePlace DEF Requesting
  <2>5. /\ stage' \in [Runs -> [Stages -> StageRow]]
        /\ \A r \in Runs : stage'[r][Summaries].saved <= Batches
    BY <1>1, <2>1, <2>2, WriteType DEF GoodPlace
  <2> QED BY <1>2, <1>16, <2>3, <2>4, <2>5, MoveType, RestType DEF Discard
<1>17. CASE RejectOutput(w)
  <2>1. Become(w, [l EXCEPT !.pc = "failing", !.view = l.view, !.cur = l.cur,
                            !.drop = TRUE])
    BY <1>1, <1>17 DEF RejectOutput, Place
  <2>2. GoodPlace([l EXCEPT !.pc = "failing", !.view = l.view, !.cur = l.cur,
                            !.drop = TRUE])
    BY <1>1, <1>4, <1>17, SamePlace DEF RejectOutput, Requesting
  <2> QED BY <1>2, <1>17, <2>1, <2>2, MoveType, RestType DEF RejectOutput, dbVars
<1>18. CASE Save(w)
  <2> DEFINE row == Accepted(l.view, l.stage)
  <2>1. /\ row \in StageRow
        /\ l.stage = Summaries => row.saved \in 0 .. Batches
    BY <1>1, <1>18, AcceptedType DEF Save, GoodPlace, Requesting, Place
  <2>2. l.stage = Summaries => row.saved <= Batches
    BY <2>1, ConstantsAssumption
  <2> HIDE DEF row
  <2>3. /\ Write(w, row) /\ l.pc = "accept"
        /\ Become(w, IF l.stage = Summaries
                     THEN [l EXCEPT !.pc = "request", !.view = row, !.cur = NoResponse]
                     ELSE NextStage(l))
    BY <1>18 DEF Save, row
  <2>4. /\ stage' \in [Runs -> [Stages -> StageRow]]
        /\ \A r \in Runs : stage'[r][Summaries].saved <= Batches
    BY <2>1, <2>2, <2>3, WriteType
  <2>5. worker' \in [Workers -> Place] /\ \A v \in Workers : GoodPlace(worker'[v])
    <3>1. CASE l.stage = Summaries
      <4> DEFINE m == [l EXCEPT !.pc = "request", !.view = row, !.cur = NoResponse]
      <4>1. m \in Place /\ m.run = l.run /\ m.view = row /\ m.pc = "request"
        BY <1>1, <1>3, <1>4, <2>1 DEF Place
      <4>2. GoodPlace(m)
        BY <1>1, <2>1, <2>2, <2>3, <3>1, <4>1 DEF GoodPlace, Requesting
      <4> QED BY <2>3, <3>1, <4>2, MoveType
    <3>2. CASE l.stage # Summaries
      <4>1. GoodPlace(NextStage(l))
        BY <1>1, <2>3, NextStageType DEF GoodPlace, Requesting
      <4> QED BY <2>3, <3>2, <4>1, MoveType
    <3> QED BY <3>1, <3>2
  <2>6. request' \in [Requests -> Row]
    BY ZenonT(60), <1>2, <1>18 DEF Save, Row
  <2> QED BY <1>2, <1>18, <2>4, <2>5, <2>6, RestType DEF Save
<1> QED
  BY <1>5, <1>6, <1>7, <1>8, <1>9, <1>10, <1>11, <1>12, <1>13, <1>14, <1>15,
     <1>16, <1>17, <1>18 DEF StageStep
\* A failed stage row is typed, and its count is the one the worker read.
LEMMA FailedType ==
    ASSUME NEW row \in StageRow, NEW drop \in BOOLEAN
    PROVE  Failed(row, drop) \in StageRow /\ Failed(row, drop).saved = row.saved
BY DEF Failed, StageRow

\* Rejecting the latest request of a stage keeps the ledger typed.
LEMMA RejectType ==
    ASSUME request \in [Requests -> Row], NEW r, NEW s
    PROVE  RejectLatest(r, s) \in [Requests -> Row]
<1>1. ASSUME NEW q \in Requests PROVE RejectLatest(r, s)[q] \in Row
  BY <1>1 DEF RejectLatest, Row
<1> QED BY <1>1 DEF RejectLatest

\* The end of a run keeps the types, successful or not.
LEMMA EndType ==
    ASSUME IType, NEW w \in Workers,
           \/ Poll(w) \/ Complete(w) \/ LosesFence(w) \/ Raise(w) \/ FailCheck(w)
           \/ FailCommit(w) \/ Crash(w) \/ PostLost(w)
    PROVE  IType'
<1> DEFINE l == worker[w]
<1>1. /\ GoodPlace(l) /\ l \in Place /\ l.view \in StageRow /\ l.drop \in BOOLEAN
      /\ l.cur \in Requests \cup {NoResponse} /\ l.stage \in Stages
  BY DEF IType, TypeOK, PlaceOK, Place
<1>2. /\ stage \in [Runs -> [Stages -> StageRow]]
      /\ \A r \in Runs : stage[r][Summaries].saved <= Batches
      /\ run \in [Runs -> RunRow] /\ request \in [Requests -> Row]
      /\ nextRequest \in 1 .. MaxRequests + 1 /\ job \in [Requests -> JobState]
      /\ faults \in 0 .. MaxFaults
      /\ usage \in [Runs -> QuotaState] /\ observed \in [Runs -> QuotaState]
  BY DEF IType, TypeOK, PlaceOK
<1>3. /\ {"idle", "closing", "failing", "failed"} \subseteq Step
      /\ ({"idle", "closing", "failing", "failed"}
            \cap (Requesting \cup {"sources", "request"})) = {}
  BY DEF Step, TryBlock, Requesting
<1>4. Fault => faults' \in 0 .. MaxFaults
  BY <1>2, ConstantsAssumption DEF Fault
<1>5. \A st \in QuotaState, b \in BOOLEAN : Settle(st, b) \in QuotaState
  BY QuotaType
<1>6. \A st \in {"completed", "failed"} : Unowned(st) \in RunRow
  BY UnownedType
<1>7. ASSUME NEW step \in {"closing", "failing"}, Goto(w, step), l.pc # "idle"
      PROVE  worker' \in [Workers -> Place] /\ \A v \in Workers : GoodPlace(worker'[v])
  BY <1>3, <1>7, GotoType
<1>8. ASSUME Become(w, IdleWorker)
      PROVE  worker' \in [Workers -> Place] /\ \A v \in Workers : GoodPlace(worker'[v])
  BY <1>8, IdleType, MoveType
<1>9. CASE Poll(w)
  <2>1. worker' \in [Workers -> Place] /\ \A v \in Workers : GoodPlace(worker'[v])
    BY <1>7, <1>9 DEF Poll
  <2> QED BY <1>2, <1>9, <2>1, RenewType, RestType DEF Poll
<1>10. CASE Complete(w)
  <2>1. worker' \in [Workers -> Place] /\ \A v \in Workers : GoodPlace(worker'[v])
    BY <1>8, <1>10 DEF Complete
  <2>2. /\ run' \in [Runs -> RunRow]
        /\ usage' \in [Runs -> QuotaState] /\ observed' \in [Runs -> QuotaState]
    BY <1>2, <1>5, <1>6, <1>10 DEF Complete
  <2> QED BY <1>2, <1>10, <2>1, <2>2 DEF Complete, IType, TypeOK, PlaceOK
<1>11. CASE LosesFence(w)
  <2>1. l.pc # "idle"
    BY <1>11 DEF LosesFence, FencedStep
  <2>2. worker' \in [Workers -> Place] /\ \A v \in Workers : GoodPlace(worker'[v])
    BY <1>7, <1>11, <2>1 DEF LosesFence
  <2> QED BY <1>2, <1>11, <2>2, RestType DEF LosesFence, dbVars
<1>12. CASE Raise(w)
  <2>1. l.pc # "idle"
    BY <1>12 DEF Raise, TryBlock
  <2>2. worker' \in [Workers -> Place] /\ \A v \in Workers : GoodPlace(worker'[v])
    BY <1>7, <1>12, <2>1 DEF Raise
  <2> QED BY <1>2, <1>4, <1>12, <2>2, RestType DEF Raise, dbVars
<1>13. CASE FailCheck(w)
  <2> DEFINE row == stage[l.run][l.stage]
             m == [l EXCEPT !.pc = "failed", !.view = row]
  <2>1. l.run \in Runs
    BY <1>1, <1>13 DEF FailCheck, GoodPlace
  <2>2. row \in StageRow /\ (l.stage = Summaries => row.saved <= Batches)
    BY <1>1, <1>2, <2>1
  <2>3. m \in Place /\ m.pc = "failed" /\ m.run = l.run /\ m.view = row
        /\ m.stage = l.stage
    BY <1>1, <1>3, <2>2 DEF Place
  <2>4. Become(w, IdleWorker) \/ Become(w, m)
    BY <1>13 DEF FailCheck
  <2> HIDE DEF row, m
  <2>5. GoodPlace(m)
    BY <1>3, <2>1, <2>2, <2>3 DEF GoodPlace
  <2>6. worker' \in [Workers -> Place] /\ \A v \in Workers : GoodPlace(worker'[v])
    BY <1>8, <2>4, <2>5, MoveType
  <2> QED BY <1>2, <1>13, <2>6, RestType DEF FailCheck, dbVars
<1>14. CASE FailCommit(w)
  <2> DEFINE row == Failed(l.view, l.drop)
  <2>1. row \in StageRow /\ row.saved = l.view.saved
    BY <1>1, FailedType
  <2> HIDE DEF row
  <2>2. Write(w, row) /\ l.pc # "idle" /\ Become(w, IdleWorker)
    BY <1>14 DEF FailCommit, row
  <2>3. /\ stage' \in [Runs -> [Stages -> StageRow]]
        /\ \A r \in Runs : stage'[r][Summaries].saved <= Batches
    BY <1>1, <2>1, <2>2, WriteType DEF GoodPlace
  <2>4. request' \in [Requests -> Row]
    BY <1>2, <1>14, RejectType DEF FailCommit
  <2>5. /\ run' \in [Runs -> RunRow]
        /\ usage' \in [Runs -> QuotaState] /\ observed' \in [Runs -> QuotaState]
    BY <1>2, <1>5, <1>6, <1>14 DEF FailCommit
  <2>6. worker' \in [Workers -> Place] /\ \A v \in Workers : GoodPlace(worker'[v])
    BY <1>8, <2>2
  <2> QED BY <1>2, <1>14, <2>3, <2>4, <2>5, <2>6 DEF FailCommit, IType, TypeOK, PlaceOK
<1>15. CASE Crash(w)
  <2>1. worker' \in [Workers -> Place] /\ \A v \in Workers : GoodPlace(worker'[v])
    BY <1>8, <1>15 DEF Crash
  <2> QED BY <1>2, <1>4, <1>15, <2>1, RestType DEF Crash, dbVars
<1>16. CASE PostLost(w)
  <2>1. worker' \in [Workers -> Place] /\ \A v \in Workers : GoodPlace(worker'[v])
    BY <1>7, <1>16 DEF PostLost
  <2>2. job' \in [Requests -> JobState]
    BY <1>2, <1>16 DEF PostLost, JobState
  <2> QED BY <1>2, <1>4, <1>16, <2>1, <2>2, RestType DEF PostLost, dbVars
<1> QED
  BY <1>9, <1>10, <1>11, <1>12, <1>13, <1>14, <1>15, <1>16

\* The passing of time and the provider keep the types.
LEMMA EnvironmentType ==
    ASSUME IType,
           \/ \E r \in Runs : LeaseExpires(r) \/ Pause(r)
           \/ \E q \in Requests : ProviderCompletes(q) \/ ProviderEnds(q) \/ Vanish(q)
    PROVE  IType'
<1>1. Fault => faults' \in 0 .. MaxFaults
  BY ConstantsAssumption DEF Fault, IType, TypeOK
<1>2. ASSUME NEW r \in Runs, LeaseExpires(r) \/ Pause(r) PROVE IType'
  <2>1. run' \in [Runs -> RunRow]
    BY ZenonT(60), <1>2 DEF LeaseExpires, Pause, IType, TypeOK, RunRow
  <2> QED
    BY <1>1, <1>2, <2>1 DEF LeaseExpires, Pause, IType, TypeOK, PlaceOK, GoodPlace
<1>3. ASSUME NEW q \in Requests, ProviderCompletes(q) \/ ProviderEnds(q) \/ Vanish(q)
      PROVE  IType'
  <2>1. job' \in [Requests -> JobState]
    BY <1>3 DEF ProviderCompletes, ProviderEnds, Vanish, IType, TypeOK, JobState
  <2> QED
    BY <1>1, <1>3, <2>1
       DEF ProviderCompletes, ProviderEnds, Vanish, dbVars, IType, TypeOK, PlaceOK,
           GoodPlace
<1> QED BY <1>2, <1>3

LEMMA TypeStep == IType /\ [Next]_vars => IType'
<1> SUFFICES ASSUME IType, [Next]_vars PROVE IType'
  OBVIOUS
<1>1. CASE \/ \E r \in Runs : Start(r) \/ Retry(r)
           \/ \E o \in Owners : RequestClosure(o)
  BY <1>1, SubmissionType
<1>2. ASSUME NEW w \in Workers, WorkerStep(w) \/ FaultStep(w) PROVE IType'
  BY <1>2, ClaimType, StageType, EndType DEF WorkerStep, FaultStep
<1>3. CASE \/ \E r \in Runs : LeaseExpires(r) \/ Pause(r)
           \/ \E q \in Requests : ProviderCompletes(q) \/ ProviderEnds(q) \/ Vanish(q)
  BY <1>3, EnvironmentType
<1>4. CASE UNCHANGED vars
  BY <1>4 DEF vars, IType, TypeOK, PlaceOK, GoodPlace
<1> QED BY <1>1, <1>2, <1>3, <1>4 DEF Next

LEMMA TypeInvariant == Spec => []IType
BY InitType, TypeStep, PTL DEF Spec

\* Every variable keeps its type for any instance of the queue, and with it the
\* bound on the summaries' count: no batch is ever saved beyond the last.
THEOREM TypeCorrect == Spec => []TypeOK
<1>1. IType => TypeOK
  BY DEF IType
<1> QED BY <1>1, TypeInvariant, PTL
-----------------------------------------------------------------------------
(* How a step changes the table of runs *)

QueueStep(r) ==
    /\ NoActiveRun(OwnerOf[r]) /\ run[r].status \in {"absent", "failed"}
    /\ run' = [run EXCEPT ![r] = Unowned("queued")]

ExpireStep(r) ==
    /\ run[r].lease = "live"
    /\ Timely =>
         ~\E w \in Workers : Executing(w) /\ worker[w].run = r /\ run[r].holder = w
    /\ run' = [run EXCEPT ![r].lease = "expired"]

ClaimStep(w) ==
    /\ worker[w].run \in Runs /\ Claimable(worker[w].run)
    /\ run' = [run EXCEPT ![worker[w].run] =
                   [status |-> "running", holder |-> w, lease |-> "live"]]

RenewStep(w) == worker[w].run \in Runs /\ Fenced(w) /\ Renew(w)

EndStep(w) ==
    /\ worker[w].run \in Runs /\ Executing(w) /\ ~Executing(w)'
    /\ \E st \in {"completed", "failed"} :
          run' = [run EXCEPT ![worker[w].run] = Unowned(st)]

\* A run is queued, claimed, renewed, expired or ended, one at a time.
LEMMA RunSteps ==
    ASSUME IType, [Next]_vars
    PROVE  \/ UNCHANGED run
           \/ \E r \in Runs : QueueStep(r) \/ ExpireStep(r)
           \/ \E w \in Workers : ClaimStep(w) \/ RenewStep(w) \/ EndStep(w)
<1>1. ASSUME NEW r \in Runs, Start(r) \/ Retry(r) \/ LeaseExpires(r) \/ Pause(r)
      PROVE  QueueStep(r) \/ ExpireStep(r)
  <2>1. CASE Start(r)
    <3>1. run[r].status = "absent"
      BY <2>1, ConstantsAssumption DEF Start
    <3> QED BY <2>1, <3>1 DEF Start, QueueStep
  <2>2. CASE Retry(r)
    BY <2>2 DEF Retry, QueueStep
  <2>3. CASE LeaseExpires(r) \/ Pause(r)
    BY <2>3 DEF LeaseExpires, Pause, ExpireStep
  <2> QED BY <1>1, <2>1, <2>2, <2>3
<1>2. ASSUME NEW w \in Workers, WorkerStep(w) \/ FaultStep(w)
      PROVE  \/ UNCHANGED run
             \/ ClaimStep(w) \/ RenewStep(w) \/ EndStep(w)
  <2>1. worker[w].pc # "idle" => worker[w].run \in Runs
    BY DEF IType, PlaceOK, GoodPlace
  <2>2. CASE ClaimUpdate(w)
    BY <2>1, <2>2 DEF ClaimUpdate, ClaimStep
  <2>3. CASE \/ Sources(w) \/ Submit(w) \/ Persist(w) \/ Observe(w) \/ Poll(w)
    BY <2>1, <2>3 DEF Sources, Submit, Persist, Observe, Poll, RenewStep
  <2>4. CASE Complete(w) \/ FailCommit(w)
    <3>0. Become(w, IdleWorker) /\ worker \in [Workers -> Place]
      BY <2>4 DEF Complete, FailCommit, IType, TypeOK
    <3>1. worker'[w].pc = "idle"
      BY <3>0 DEF IdleWorker
    <3>2. worker[w].pc \notin {"idle", "selected"}
      BY <2>4 DEF Complete, FailCommit
    <3>3. PICK st \in {"completed", "failed"} :
            run' = [run EXCEPT ![worker[w].run] = Unowned(st)]
      BY <2>4 DEF Complete, FailCommit
    <3> QED BY <2>1, <3>1, <3>2, <3>3 DEF EndStep, Executing
  <2>5. CASE \/ ClaimSelect(w) \/ Open(w) \/ Load(w) \/ BeginStage(w)
             \/ CompleteSummaries(w) \/ Request(w) \/ Retrieve(w) \/ Post(w)
             \/ ObserveGone(w) \/ Discard(w) \/ RejectOutput(w) \/ Save(w)
             \/ SaveConflict(w) \/ LosesFence(w) \/ FailCheck(w) \/ FaultStep(w)
    BY <2>5 DEF ClaimSelect, Open, Load, BeginStage, CompleteSummaries, Request,
          Retrieve, Post, ObserveGone, Discard, RejectOutput, Save, SaveConflict,
          LosesFence, FailCheck, FaultStep, PostLost, Raise, Crash, dbVars
  <2> QED BY <1>2, <2>2, <2>3, <2>4, <2>5 DEF WorkerStep, StageStep
<1>3. CASE \/ \E o \in Owners : RequestClosure(o)
           \/ \E q \in Requests : ProviderCompletes(q) \/ ProviderEnds(q) \/ Vanish(q)
           \/ UNCHANGED vars
  BY <1>3 DEF RequestClosure, ProviderCompletes, ProviderEnds, Vanish, dbVars, vars
<1> QED BY <1>1, <1>2, <1>3 DEF Next

\* However submissions, claims, late failures and retries interleave, an account
\* has one queued or running run (uq_digest_runs_owner_active).
THEOREM OneActive == Spec => []OneActiveRunPerOwner
<1>1. Init => OneActiveRunPerOwner
  BY DEF Init, OneActiveRunPerOwner, Active, Unowned
<1>2. ASSUME IType, OneActiveRunPerOwner, [Next]_vars
      PROVE  OneActiveRunPerOwner'
  <2>1. run \in [Runs -> RunRow]
    BY <1>2 DEF IType, TypeOK
  <2>2. CASE UNCHANGED run
    BY <1>2, <2>2 DEF OneActiveRunPerOwner, Active
  <2>3. ASSUME NEW r \in Runs, QueueStep(r) PROVE OneActiveRunPerOwner'
    BY <1>2, <2>1, <2>3 DEF QueueStep, OneActiveRunPerOwner, NoActiveRun, Active, Unowned
  <2>4. ASSUME \A p \in Runs : Active(p)' => Active(p) PROVE OneActiveRunPerOwner'
    BY <1>2, <2>4 DEF OneActiveRunPerOwner
  <2>5. ASSUME NEW r \in Runs, ExpireStep(r) PROVE OneActiveRunPerOwner'
    <3>1. \A p \in Runs : Active(p)' => Active(p)
      BY <2>1, <2>5 DEF ExpireStep, Active, RunRow
    <3> QED BY <2>4, <3>1
  <2>6. ASSUME NEW w \in Workers, ClaimStep(w) \/ RenewStep(w) \/ EndStep(w)
        PROVE  OneActiveRunPerOwner'
    <3>1. \A p \in Runs : Active(p)' => Active(p)
      BY <2>1, <2>6 DEF ClaimStep, RenewStep, Renew, EndStep, Claimable, Active,
            Unowned, RunRow
    <3> QED BY <2>4, <3>1
  <2> QED BY <1>2, <2>2, <2>3, <2>5, <2>6, RunSteps
<1> QED BY <1>1, <1>2, TypeInvariant, PTL DEF Spec

\* A run has a worker and a lease exactly while it is running, so the failure a
\* worker records late never leaves a failed or queued run that nobody can claim.
THEOREM Owned == Spec => []OwnedWhileRunning
<1>1. Init => OwnedWhileRunning
  BY DEF Init, OwnedWhileRunning, Unowned
<1>2. ASSUME IType, OwnedWhileRunning, [Next]_vars
      PROVE  OwnedWhileRunning'
  <2>1. run \in [Runs -> RunRow]
    BY <1>2 DEF IType, TypeOK
  <2>2. CASE UNCHANGED run
    BY <1>2, <2>2 DEF OwnedWhileRunning
  <2>3. ASSUME NEW r \in Runs, QueueStep(r) \/ ExpireStep(r) PROVE OwnedWhileRunning'
    BY <1>2, <2>1, <2>3 DEF QueueStep, ExpireStep, OwnedWhileRunning, Unowned, RunRow
  <2>4. ASSUME NEW w \in Workers, ClaimStep(w) PROVE OwnedWhileRunning'
    BY <1>2, <2>1, <2>4, ConstantsAssumption DEF ClaimStep, OwnedWhileRunning
  <2>5. ASSUME NEW w \in Workers, RenewStep(w) PROVE OwnedWhileRunning'
    BY <1>2, <2>1, <2>5 DEF RenewStep, Renew, Fenced, OwnedWhileRunning, RunRow
  <2>6. ASSUME NEW w \in Workers, EndStep(w) PROVE OwnedWhileRunning'
    BY <1>2, <2>1, <2>6 DEF EndStep, OwnedWhileRunning, Unowned
  <2> QED BY <1>2, <2>2, <2>3, <2>4, <2>5, <2>6, RunSteps
<1> QED BY <1>1, <1>2, TypeInvariant, PTL DEF Spec

-----------------------------------------------------------------------------
(* Workers whose leases never run out under them *)

\* A worker that executes a run owns it and its lease has not run out.
Ownership ==
    \A w \in Workers : Executing(w) =>
        run[worker[w].run] = [status |-> "running", holder |-> w, lease |-> "live"]

\* A worker comes to execute a run only by claiming it.
LEMMA WorkerSteps ==
    ASSUME IType, [Next]_vars, NEW v \in Workers, Executing(v)'
    PROVE  \/ Executing(v) /\ worker'[v].run = worker[v].run
           \/ ClaimStep(v) /\ worker'[v].run = worker[v].run
<1> DEFINE Stays == Executing(v) /\ worker'[v].run = worker[v].run
<1>1. CASE \/ \E r \in Runs : Start(r) \/ Retry(r) \/ LeaseExpires(r) \/ Pause(r)
           \/ \E o \in Owners : RequestClosure(o)
           \/ \E q \in Requests : ProviderCompletes(q) \/ ProviderEnds(q) \/ Vanish(q)
           \/ UNCHANGED vars
  <2>1. worker' = worker
    BY <1>1 DEF Start, Retry, LeaseExpires, Pause, RequestClosure, ProviderCompletes,
          ProviderEnds, Vanish, dbVars, vars
  <2> QED BY <2>1 DEF Executing
<1>2. ASSUME NEW w \in Workers, WorkerStep(w) \/ FaultStep(w)
      PROVE  Stays \/ (ClaimStep(v) /\ worker'[v].run = worker[v].run)
  <2> DEFINE l == worker[w]
  <2>1. /\ worker \in [Workers -> Place] /\ GoodPlace(l) /\ l \in Place
        /\ l.pc # "idle" => l.run \in Runs
    BY DEF IType, TypeOK, PlaceOK, GoodPlace
  <2>2. CASE v # w
    <3>1. worker'[v] = worker[v]
      BY <1>2, <2>1, <2>2
         DEF WorkerStep, StageStep, FaultStep, ClaimSelect, ClaimUpdate, Open, Load,
             BeginStage, Sources, CompleteSummaries, Request, Retrieve, Submit, Post,
             Persist, Observe, ObserveGone, Discard, RejectOutput, Save, SaveConflict,
             Poll, Complete, LosesFence, FailCheck, FailCommit, PostLost, Raise, Crash
    <3> QED BY <3>1 DEF Executing
  <2>3. CASE v = w
    <3>0. ASSUME Become(w, IdleWorker) PROVE FALSE
      BY <2>1, <2>3, <3>0 DEF Executing, IdleWorker
    <3>1. CASE ClaimUpdate(w)
      <4>1. ClaimStep(w) /\ Goto(w, "open")
        BY <2>1, <3>0, <3>1 DEF ClaimUpdate, ClaimStep
      <4> QED BY <2>1, <2>3, <4>1 DEF Place
    <3>2. CASE Complete(w) \/ FailCommit(w) \/ Crash(w)
      BY <3>0, <3>2 DEF Complete, FailCommit, Crash
    <3>8. CASE ClaimSelect(w)
      <4>1. PICK r \in Runs : Become(w, [IdleWorker EXCEPT !.pc = "selected", !.run = r])
        BY <3>8 DEF ClaimSelect
      <4>2. [IdleWorker EXCEPT !.pc = "selected", !.run = r].pc = "selected"
        BY DEF IdleWorker
      <4> QED BY <2>1, <2>3, <4>1, <4>2 DEF Executing
    <3>3. ASSUME NEW m, Become(w, m), Executing(w), m.run = l.run \/ m.pc = "idle"
          PROVE  Stays
      BY <2>1, <2>3, <3>3 DEF Executing
    <3>4. CASE Open(w) \/ Load(w)
      <4>1. Executing(w) /\ l.run \in Runs
        BY <2>1, <3>4 DEF Open, Load, Executing
      <4>2. Loaded(l).run = l.run /\ IdleWorker.pc = "idle"
        BY <2>1, <4>1, LoadedType DEF IdleWorker
      <4> QED BY <3>3, <3>4, <4>1, <4>2 DEF Open, Load
    <3>5. CASE CompleteSummaries(w) \/ Save(w)
      <4>1. Executing(w) /\ NextStage(l).run = l.run
        BY <2>1, <3>5, NextStageType DEF CompleteSummaries, Save, Executing
      <4>2. \E m \in {NextStage(l), [l EXCEPT !.pc = "request",
                                       !.view = Accepted(l.view, l.stage),
                                       !.cur = NoResponse]} : Become(w, m)
        BY <3>5 DEF CompleteSummaries, Save
      <4>3. [l EXCEPT !.pc = "request", !.view = Accepted(l.view, l.stage),
                      !.cur = NoResponse].run = l.run
        BY <2>1 DEF Place
      <4> QED BY <3>3, <4>1, <4>2, <4>3
    <3>6. CASE \/ BeginStage(w) \/ Request(w) \/ Retrieve(w) \/ Submit(w)
               \/ Persist(w) \/ Discard(w) \/ RejectOutput(w) \/ FailCheck(w)
      <4>1. Executing(w)
        BY <3>6 DEF BeginStage, Request, Retrieve, Submit, Persist, Discard,
              RejectOutput, FailCheck, Executing
      <4>2. CASE BeginStage(w) \/ Submit(w) \/ Persist(w) \/ Discard(w) \/ RejectOutput(w)
        <5>1. CASE BeginStage(w)
          BY <2>1, <2>3, <4>1, <5>1 DEF BeginStage, Place
        <5>2. CASE Submit(w)
          BY <2>1, <2>3, <4>1, <5>2 DEF Submit, Place
        <5>3. CASE Persist(w)
          BY <2>1, <2>3, <4>1, <5>3 DEF Persist, Place
        <5>4. CASE Discard(w)
          BY <2>1, <2>3, <4>1, <5>4 DEF Discard, Place
        <5>5. CASE RejectOutput(w)
          BY <2>1, <2>3, <4>1, <5>5 DEF RejectOutput, Place
        <5> QED BY <4>2, <5>1, <5>2, <5>3, <5>4, <5>5
      <4>3. CASE Request(w) \/ Retrieve(w)
        <5>1. CASE Request(w)
          BY <2>1, <2>3, <4>1, <5>1 DEF Request, Place
        <5>2. CASE Retrieve(w)
          BY <2>1, <2>3, <4>1, <5>2 DEF Retrieve, Place
        <5> QED BY <4>3, <5>1, <5>2
      <4>4. CASE FailCheck(w)
        <5>1. worker'[w].run = l.run
          BY <2>1, <3>0, <4>4 DEF FailCheck, Place
        <5> QED BY <2>3, <4>1, <5>1
      <4> QED BY <3>6, <4>2, <4>3, <4>4
    <3>7. CASE \/ Sources(w) \/ Post(w) \/ Observe(w) \/ ObserveGone(w)
               \/ SaveConflict(w) \/ Poll(w) \/ LosesFence(w) \/ PostLost(w) \/ Raise(w)
      <4>1. Executing(w)
        BY <3>7 DEF Sources, Post, Observe, ObserveGone, SaveConflict, Poll, LosesFence,
              FencedStep, PostLost, Raise, TryBlock, Executing
      <4>2. worker'[w].run = l.run
        BY <2>1, <3>7 DEF Sources, Post, Observe, ObserveGone, SaveConflict, Poll,
              LosesFence, PostLost, Raise, Place
      <4> QED BY <2>3, <4>1, <4>2
    <3> QED
      BY <1>2, <3>1, <3>2, <3>4, <3>5, <3>6, <3>7, <3>8 DEF WorkerStep, StageStep, FaultStep
  <2> QED BY <2>2, <2>3
<1> QED BY <1>1, <1>2 DEF Next
\* While no live worker's lease runs out, no step takes a run from its executor.
LEMMA OwnershipStep ==
    ASSUME Timely, IType, Ownership, [Next]_vars
    PROVE  Ownership'
<1> SUFFICES ASSUME NEW v \in Workers, Executing(v)'
             PROVE  run'[worker'[v].run] =
                      [status |-> "running", holder |-> v, lease |-> "live"]
  BY DEF Ownership
<1> DEFINE r == worker[v].run
           own == [status |-> "running", holder |-> v, lease |-> "live"]
<1>1. run \in [Runs -> RunRow] /\ worker'[v].run = r
  BY WorkerSteps DEF IType, TypeOK
<1>2. CASE ClaimStep(v)
  BY <1>1, <1>2 DEF ClaimStep
<1>3. CASE ~ClaimStep(v)
  <2>1. Executing(v) /\ run[r] = own /\ r \in Runs
    BY <1>3, WorkerSteps DEF Ownership, Executing, IType, PlaceOK, GoodPlace
  <2>2. CASE UNCHANGED run
    BY <1>1, <2>1, <2>2
  <2>3. ASSUME NEW p \in Runs, QueueStep(p) PROVE run'[r] = own
    BY <1>1, <2>1, <2>3 DEF QueueStep
  <2>4. ASSUME NEW p \in Runs, ExpireStep(p) PROVE run'[r] = own
    <3>1. p # r
      BY <2>1, <2>4 DEF ExpireStep
    <3> QED BY <1>1, <2>1, <2>4, <3>1 DEF ExpireStep
  <2>5. ASSUME NEW w \in Workers, ClaimStep(w) PROVE run'[r] = own
    BY <1>1, <2>1, <2>5 DEF ClaimStep, Claimable
  <2>6. ASSUME NEW w \in Workers, RenewStep(w) PROVE run'[r] = own
    BY <1>1, <2>1, <2>6 DEF RenewStep, Renew, RunRow
  <2>7. ASSUME NEW w \in Workers, EndStep(w) PROVE run'[r] = own
    <3>1. w # v
      BY <2>7 DEF EndStep, Executing
    <3>2. worker[w].run # r
      <4>1. Executing(w)
        BY <2>7 DEF EndStep
      <4>2. run[worker[w].run] = [status |-> "running", holder |-> w, lease |-> "live"]
        BY <4>1 DEF Ownership
      <4> QED BY <2>1, <3>1, <4>2
    <3> QED BY <1>1, <2>1, <2>7, <3>2 DEF EndStep
  <2> QED BY <1>1, <2>2, <2>3, <2>4, <2>5, <2>6, <2>7, RunSteps
<1> QED BY <1>2, <1>3
\* When every live worker renews its lease before it runs out, two workers never
\* execute one run: conditional claims are enough without any stronger fencing.
THEOREM Exclusion ==
    ASSUME Timely
    PROVE  Spec => []MutualExclusion
<1>1. Init => Ownership
  BY DEF Init, Ownership, Executing, IdleWorker
<1>2. IType /\ Ownership /\ [Next]_vars => Ownership'
  BY OwnershipStep
<1>3. ASSUME Ownership PROVE MutualExclusion
  <2> SUFFICES ASSUME NEW v \in Workers, NEW w \in Workers, Executing(v), Executing(w),
                      worker[v].run = worker[w].run
               PROVE  v = w
    BY DEF MutualExclusion
  <2>1. run[worker[v].run] = [status |-> "running", holder |-> v, lease |-> "live"]
    BY <1>3 DEF Ownership
  <2>2. run[worker[w].run] = [status |-> "running", holder |-> w, lease |-> "live"]
    BY <1>3 DEF Ownership
  <2> QED BY <2>1, <2>2
<1> QED BY <1>1, <1>2, <1>3, TypeInvariant, PTL DEF Spec

\* The charge of one run follows its status.
Charged(r) ==
    /\ observed[r] = Charge(run[r].status)
    /\ usage[r] = IF OwnerOf[r] \in Metered THEN observed[r] ELSE "none"

\* Steps other than these leave the ledger and the statuses alone.
LEMMA LedgerSteps ==
    ASSUME IType, [Next]_vars
    PROVE  \/ \E r \in Runs : Start(r) \/ Retry(r)
           \/ \E w \in Workers : Complete(w) \/ FailCommit(w)
           \/ /\ UNCHANGED <<usage, observed>>
              /\ \/ \A r \in Runs : run'[r].status = run[r].status
                 \/ \E w \in Workers : ClaimStep(w)
<1> DEFINE Quiet == /\ UNCHANGED <<usage, observed>>
                    /\ \/ \A r \in Runs : run'[r].status = run[r].status
                       \/ \E w \in Workers : ClaimStep(w)
<1>1. run \in [Runs -> RunRow]
  BY DEF IType, TypeOK
<1>2. ASSUME NEW r \in Runs, LeaseExpires(r) \/ Pause(r) PROVE Quiet
  BY <1>1, <1>2 DEF LeaseExpires, Pause, RunRow
<1>3. ASSUME NEW w \in Workers, WorkerStep(w) \/ FaultStep(w)
      PROVE  Quiet \/ Complete(w) \/ FailCommit(w)
  <2>1. worker[w].pc # "idle" => worker[w].run \in Runs
    BY DEF IType, PlaceOK, GoodPlace
  <2>2. CASE ClaimUpdate(w)
    BY <2>1, <2>2 DEF ClaimUpdate, ClaimStep
  <2>3. CASE \/ Sources(w) \/ Submit(w) \/ Persist(w) \/ Observe(w) \/ Poll(w)
    <3>1. Renew(w) /\ UNCHANGED <<usage, observed>>
      BY <2>3 DEF Sources, Submit, Persist, Observe, Poll
    <3> QED BY <1>1, <3>1 DEF Renew, RunRow
  <2>4. CASE \/ ClaimSelect(w) \/ Open(w) \/ Load(w) \/ BeginStage(w)
             \/ CompleteSummaries(w) \/ Request(w) \/ Retrieve(w) \/ Post(w)
             \/ ObserveGone(w) \/ Discard(w) \/ RejectOutput(w) \/ Save(w)
             \/ SaveConflict(w) \/ LosesFence(w) \/ FailCheck(w) \/ FaultStep(w)
    BY <2>4 DEF ClaimSelect, Open, Load, BeginStage, CompleteSummaries, Request,
          Retrieve, Post, ObserveGone, Discard, RejectOutput, Save, SaveConflict,
          LosesFence, FailCheck, FaultStep, PostLost, Raise, Crash, dbVars
  <2> QED BY <1>3, <2>2, <2>3, <2>4 DEF WorkerStep, StageStep
<1>4. CASE \/ \E o \in Owners : RequestClosure(o)
           \/ \E q \in Requests : ProviderCompletes(q) \/ ProviderEnds(q) \/ Vanish(q)
           \/ UNCHANGED vars
  BY <1>4 DEF RequestClosure, ProviderCompletes, ProviderEnds, Vanish, dbVars, vars
<1> QED BY <1>2, <1>3, <1>4 DEF Next

\* When live workers renew in time, the allowance and the observation ledger are
\* charged exactly for completed runs and held exactly for active ones.
THEOREM Quota ==
    ASSUME Timely
    PROVE  Spec => []QuotaFollowsRun
<1>1. Init => Ownership /\ QuotaFollowsRun
  BY DEF Init, Ownership, Executing, IdleWorker, QuotaFollowsRun, Charge, Unowned
<1>2. ASSUME IType, Ownership, QuotaFollowsRun, [Next]_vars
      PROVE  QuotaFollowsRun'
  <2>1. /\ run \in [Runs -> RunRow] /\ usage \in [Runs -> QuotaState]
        /\ observed \in [Runs -> QuotaState]
    BY <1>2 DEF IType, TypeOK
  <2>2. QuotaFollowsRun <=> \A r \in Runs : Charged(r)
    BY DEF QuotaFollowsRun, Charged
  <2>3. QuotaFollowsRun' <=> \A r \in Runs : Charged(r)'
    BY DEF QuotaFollowsRun, Charged
  <2>4. ASSUME NEW r \in Runs, Start(r) \/ Retry(r) PROVE QuotaFollowsRun'
    <3>1. run[r].status \in {"absent", "failed"}
      BY <2>4, ConstantsAssumption DEF Start, Retry
    <3>2. observed[r] \in {"none", "released"}
      BY <1>2, <2>2, <3>1 DEF Charged, Charge
    <3>3. /\ run' = [run EXCEPT ![r] = Unowned("queued")]
          /\ observed' = [observed EXCEPT ![r] = Reserve(@)]
          /\ usage' = IF OwnerOf[r] \in Metered
                      THEN [usage EXCEPT ![r] = Reserve(@)] ELSE usage
      BY <2>4 DEF Start, Retry
    <3>4. Charged(r)'
      BY <1>2, <2>1, <2>2, <3>2, <3>3 DEF Charged, Charge, Reserve, Unowned
    <3>5. ASSUME NEW p \in Runs, p # r PROVE Charged(p)'
      BY <1>2, <2>1, <2>2, <3>3, <3>5 DEF Charged
    <3> QED BY <2>3, <3>4, <3>5
  <2>5. ASSUME NEW w \in Workers, Complete(w) \/ FailCommit(w)
        PROVE  QuotaFollowsRun'
    <3>0. worker[w].run \in Runs /\ Executing(w)
      BY <1>2, <2>5 DEF Complete, FailCommit, Executing, IType, PlaceOK, GoodPlace
    <3>1. PICK r \in Runs : r = worker[w].run
      BY <3>0
    <3>2. run[r] = [status |-> "running", holder |-> w, lease |-> "live"]
      BY <1>2, <3>0, <3>1 DEF Ownership
    <3>3. observed[r] = "reserved"
      BY <1>2, <2>2, <3>1, <3>2 DEF Charged, Charge
    <3>4. PICK st \in {"completed", "failed"}, success \in BOOLEAN :
            /\ run' = [run EXCEPT ![r] = Unowned(st)]
            /\ observed' = [observed EXCEPT ![r] = Settle(@, success)]
            /\ usage' = [usage EXCEPT ![r] = Settle(@, success)]
            /\ \/ st = "completed" /\ success = TRUE
               \/ st = "failed" /\ success = FALSE
      BY <2>5, <3>1 DEF Complete, FailCommit
    <3>5. Charged(r)'
      <4>1. usage[r] = IF OwnerOf[r] \in Metered THEN "reserved" ELSE "none"
        BY <1>2, <2>2, <3>3 DEF Charged
      <4>2. /\ run'[r] = Unowned(st) /\ observed'[r] = Settle("reserved", success)
            /\ usage'[r] = Settle(usage[r], success)
        BY <2>1, <3>3, <3>4
      <4>3. Settle("none", success) = "none"
        BY DEF Settle
      <4>4. Settle("reserved", success) = Charge(Unowned(st).status)
        <5>1. CASE success = TRUE
          BY <3>4, <5>1 DEF Settle, Charge, Unowned
        <5>2. CASE success = FALSE
          BY <3>4, <5>2 DEF Settle, Charge, Unowned
        <5> QED BY <5>1, <5>2
      <4> QED BY <4>1, <4>2, <4>3, <4>4 DEF Charged
    <3>6. ASSUME NEW p \in Runs, p # r PROVE Charged(p)'
      BY <1>2, <2>1, <2>2, <3>4, <3>6 DEF Charged
    <3> QED BY <2>3, <3>5, <3>6
  <2>6. CASE /\ UNCHANGED <<usage, observed>>
             /\ \A r \in Runs : run'[r].status = run[r].status
    BY <1>2, <2>2, <2>3, <2>6 DEF Charged
  <2>7. ASSUME NEW w \in Workers, UNCHANGED <<usage, observed>>, ClaimStep(w)
        PROVE  QuotaFollowsRun'
    <3>0. PICK r \in Runs : r = worker[w].run
      BY <2>7 DEF ClaimStep
    <3>1. r \in Runs /\ run[r].status \in {"queued", "running"}
      BY <2>7, <3>0 DEF ClaimStep, Claimable, Active
    <3>2. run'[r].status = "running" /\ \A p \in Runs : p # r => run'[p] = run[p]
      BY <2>1, <2>7, <3>0, <3>1 DEF ClaimStep
    <3>3. Charged(r)'
      BY <1>2, <2>2, <2>7, <3>1, <3>2 DEF Charged, Charge
    <3>4. ASSUME NEW p \in Runs, p # r PROVE Charged(p)'
      BY <1>2, <2>2, <2>7, <3>2, <3>4 DEF Charged
    <3> QED BY <2>3, <3>3, <3>4
  <2> QED BY <1>2, <2>4, <2>5, <2>6, <2>7, LedgerSteps
<1>3. IType /\ Ownership /\ [Next]_vars => Ownership'
  BY OwnershipStep
<1> QED BY <1>1, <1>2, <1>3, TypeInvariant, PTL DEF Spec

-----------------------------------------------------------------------------
(* What is built from what, when leases are renewed in time                 *)

\* A stage that is completed has all of its output and no response to wait for.
Whole(r, s) == stage[r][s] = [status |-> "completed", active |-> NoResponse, saved |-> Full(s)]

\* The steps of a worker that has read its stage's row.
Working == {"begin", "sources", "request", "failed"} \cup Requesting

\* A request of the stage that nothing was accepted of.
Mine(q, r, s) ==
    /\ q \in Requests /\ q < nextRequest
    /\ request[q].run = r /\ request[q].stage = s /\ request[q].outcome # "accepted"

\* What the tables say of one stage ...
RowBuilt(r, s) ==
    /\ stage[r][s].status = "completed" => Whole(r, s)
    /\ run[r].status = "completed" => stage[r][s].status = "completed"
    /\ run[r].status = "absent" => stage[r][s].saved = NoData
    /\ stage[r][s].active # NoResponse => Mine(stage[r][s].active, r, s)
    /\ s = Discovery /\ stage[r][s].saved # NoData => stage[r][s].status = "completed"
    /\ s = Summaries /\ stage[r][s].active # NoResponse => stage[r][s].saved \in 0 .. Batches - 1

\* ... and of requests to come.
NoneAhead == \A q \in Requests : q >= nextRequest => request[q].run = NoRun

\* What an executing worker is sure of.
WorkBuilt(l) ==
    /\ \A t \in Stages : t < l.stage \/ l.pc \in {"finish", "closing"} => stage[l.run][t].status = "completed"
    /\ l.pc \in Working => l.view = stage[l.run][l.stage]
    /\ l.pc \in Requesting \cup {"sources", "request"} => l.view.status = "running"
    /\ l.stage = Discovery => \/ l.pc = "open"
                              \/ l.pc \in Working \cup {"failing"} /\ stage[l.run][Discovery].saved = NoData
    /\ l.pc \in Requesting \ {"submit"} => Mine(l.cur, l.run, l.stage)

Building ==
    /\ \A r \in Runs, s \in Stages : RowBuilt(r, s)
    /\ NoneAhead
    /\ \A w \in Workers : /\ Executing(w) => WorkBuilt(worker[w])
                          /\ worker[w].pc \in {"selected", "open"} => worker[w].stage = Discovery

LEMMA StageNumbers ==
    /\ Stages = 1 .. 4 /\ Discovery = 1 /\ Summaries = 2 /\ Trends = 3 /\ Briefing = 4
    /\ Discovery \in Stages /\ Summaries \in Stages /\ Trends \in Stages /\ Briefing \in Stages
    /\ NoData = -1 /\ NoResponse = 0 /\ Batches \in Nat /\ MaxRequests \in Nat
BY ConstantsAssumption DEF Stages, Discovery, Summaries, Trends, Briefing, NoData, NoResponse

LEMMA PlaceOf ==
    ASSUME IType, NEW w \in Workers, worker[w].pc # "idle"
    PROVE  /\ worker[w] \in Place /\ worker[w].run \in Runs /\ worker[w].stage \in Stages
           /\ worker[w].view \in StageRow /\ worker[w].cur \in Requests \cup {NoResponse}
           /\ stage[worker[w].run][worker[w].stage] \in StageRow
BY DEF IType, TypeOK, PlaceOK, GoodPlace, Place

\* Two workers execute two runs.
LEMMA Apart ==
    ASSUME Ownership, NEW v \in Workers, NEW w \in Workers, v # w, Executing(v), Executing(w)
    PROVE  worker[v].run # worker[w].run /\ run[worker[w].run].status = "running"
<1>1. /\ run[worker[v].run] = [status |-> "running", holder |-> v, lease |-> "live"]
      /\ run[worker[w].run] = [status |-> "running", holder |-> w, lease |-> "live"]
  BY DEF Ownership
<1> QED BY <1>1

\* While no row is written, what was built stays.
LEMMA StillBuilt ==
    ASSUME UNCHANGED <<stage, nextRequest>>,
           \A q \in Requests : /\ request'[q].run = request[q].run /\ request'[q].stage = request[q].stage
                               /\ request'[q].outcome = "accepted" => request[q].outcome = "accepted"
    PROVE  /\ \A l : WorkBuilt(l) => WorkBuilt(l)'
           /\ \A q, r, s : Mine(q, r, s) => Mine(q, r, s)'
           /\ NoneAhead => NoneAhead'
<1>1. \A q, r, s : Mine(q, r, s) => Mine(q, r, s)'
  BY DEF Mine
<1>2. \A l : WorkBuilt(l) => WorkBuilt(l)'
  BY <1>1 DEF WorkBuilt
<1> QED BY <1>1, <1>2 DEF NoneAhead

\* One worker moves to a place that is sure of what it has to be sure of.
LEMMA QuietBuilt ==
    ASSUME Building, UNCHANGED <<stage, nextRequest>>, NEW w \in Workers,
           \A q \in Requests : /\ request'[q].run = request[q].run /\ request'[q].stage = request[q].stage
                               /\ request'[q].outcome = "accepted" => request[q].outcome = "accepted",
           \A r \in Runs : run'[r].status \in {"absent", "completed"} => run'[r].status = run[r].status,
           \A v \in Workers : v # w => worker'[v] = worker[v],
           NEW l, worker'[w] = l,
           l.pc \notin {"idle", "selected"} => WorkBuilt(l),
           l.pc \in {"selected", "open"} => l.stage = Discovery
    PROVE  Building'
<1>1. /\ \A m : WorkBuilt(m) => WorkBuilt(m)'
      /\ \A q, r, s : Mine(q, r, s) => Mine(q, r, s)'
      /\ NoneAhead'
  BY StillBuilt DEF Building
<1>2. ASSUME NEW r \in Runs, NEW s \in Stages PROVE RowBuilt(r, s)'
  BY <1>1 DEF Building, RowBuilt, Whole
<1>3. ASSUME NEW v \in Workers, v # w PROVE Executing(v)' => WorkBuilt(worker[v])'
  <2>1. PICK m : m = worker[v]
    OBVIOUS
  <2>2. Executing(v)' => WorkBuilt(m)
    BY <1>3, <2>1 DEF Building, Executing
  <2>3. \A k : k = m => (WorkBuilt(m)' => WorkBuilt(k)')
    OBVIOUS
  <2> QED BY <1>1, <1>3, <2>1, <2>2, <2>3
<1> QED
  BY <1>1, <1>2, <1>3 DEF Building, Executing

\* One row is written by whoever executes its run, and one run's status may change
\* with it.
LEMMA RowWritten ==
    ASSUME IType, Building, Ownership, NEW w \in Workers, Executing(w),
           NEW r \in Runs, r = worker[w].run, NEW s \in Stages, NEW new,
           stage'[r][s] = new, \A t \in Stages : t # s => stage'[r][t] = stage[r][t],
           \A p \in Runs : p # r => stage'[p] = stage[p] /\ run'[p].status = run[p].status,
           run'[r].status \in {"running", "failed"}, UNCHANGED nextRequest,
           \A q \in Requests : request'[q].run = request[q].run /\ request'[q].stage = request[q].stage,
           \A q \in Requests : request[q].run # r \/ request[q].stage # s =>
               (request'[q].outcome = "accepted" => request[q].outcome = "accepted"),
           new.status = "completed" => new = [status |-> "completed", active |-> NoResponse, saved |-> Full(s)],
           new.active # NoResponse => Mine(new.active, r, s)',
           s = Discovery /\ new.saved # NoData => new.status = "completed",
           s = Summaries /\ new.active # NoResponse => new.saved \in 0 .. Batches - 1,
           \A v \in Workers : v # w => worker'[v] = worker[v],
           NEW l, worker'[w] = l,
           l.pc # "idle" => WorkBuilt(l)',
           l.pc \notin {"selected", "open"}
    PROVE  Building'
<1>1. \A q, p, t : Mine(q, p, t) /\ (p # r \/ t # s) => Mine(q, p, t)'
  BY DEF Mine
<1>2. ASSUME NEW p \in Runs, NEW t \in Stages PROVE RowBuilt(p, t)'
  <2>1. RowBuilt(p, t)
    BY DEF Building
  <2>2. CASE p = r /\ t = s
    BY <2>2 DEF RowBuilt, Whole
  <2>3. CASE p # r
    BY <1>1, <2>1, <2>3 DEF RowBuilt, Whole
  <2>4. CASE p = r /\ t # s
    <3>1. run'[p].status \notin {"absent", "completed"}
      BY <2>4
    <3> QED BY <1>1, <2>1, <2>4, <3>1 DEF RowBuilt, Whole
  <2> QED BY <2>2, <2>3, <2>4
<1>3. ASSUME NEW v \in Workers, v # w, Executing(v) PROVE WorkBuilt(worker[v])'
  <2>1. PICK m : m = worker[v]
    OBVIOUS
  <2>2. m.run # r /\ m.run \in Runs /\ m.stage \in Stages
    BY <1>3, <2>1, Apart, PlaceOf DEF Executing
  <2>3. WorkBuilt(m)
    BY <1>3, <2>1 DEF Building
  <2>4. stage'[m.run] = stage[m.run]
    BY <2>2
  <2>5. WorkBuilt(m)'
    BY <1>1, <2>2, <2>3, <2>4 DEF WorkBuilt
  <2>6. \A k : k = m => (WorkBuilt(m)' => WorkBuilt(k)')
    OBVIOUS
  <2> QED BY <1>3, <2>1, <2>5, <2>6
<1>4. NoneAhead'
  BY DEF Building, NoneAhead
<1> QED
  BY <1>2, <1>3, <1>4 DEF Building, Executing

\* A worker whose view is its row leaves exactly what it writes.
LEMMA WritesRow ==
    ASSUME IType, Building, Ownership, NEW w \in Workers, worker[w].pc \in Working,
           NEW new \in StageRow, Write(w, new), NEW r \in Runs, r = worker[w].run
    PROVE  /\ stage'[r][worker[w].stage] = new
           /\ \A t \in Stages : t # worker[w].stage => stage'[r][t] = stage[r][t]
           /\ \A p \in Runs : p # r => stage'[p] = stage[p]
           /\ Executing(w) /\ run[r].status = "running"
<1>1. worker[w].pc \notin {"idle", "selected"} /\ Executing(w)
  BY DEF Working, Requesting, Executing
<1>2. /\ worker[w].stage \in Stages /\ worker[w].view \in StageRow
      /\ stage \in [Runs -> [Stages -> StageRow]]
  BY <1>1, PlaceOf DEF IType, TypeOK
<1>3. worker[w].view = stage[r][worker[w].stage]
  BY <1>1 DEF Building, WorkBuilt
<1>4. Flush(stage[r][worker[w].stage], worker[w].view, new) = new
  <2>1. Flush(worker[w].view, worker[w].view, new) = [status |-> new.status, active |-> new.active, saved |-> new.saved]
    BY DEF Flush
  <2> QED BY <1>3, <2>1 DEF StageRow
<1>5. stage' = [stage EXCEPT ![r][worker[w].stage] = new]
  BY <1>2, <1>4 DEF Write
<1>6. run[r] = [status |-> "running", holder |-> w, lease |-> "live"]
  BY <1>1 DEF Ownership
<1> QED
  BY <1>1, <1>2, <1>5, <1>6

\* No worker moves and no row is written.
LEMMA NobodyBuilt ==
    ASSUME Building, UNCHANGED <<stage, request, nextRequest, worker>>,
           \A r \in Runs : run'[r].status \in {"absent", "completed"} => run'[r].status = run[r].status
    PROVE  Building'
<1>1. /\ \A m : WorkBuilt(m) => WorkBuilt(m)'
      /\ \A q, r, s : Mine(q, r, s) => Mine(q, r, s)'
      /\ NoneAhead'
  BY StillBuilt DEF Building
<1>2. ASSUME NEW r \in Runs, NEW s \in Stages PROVE RowBuilt(r, s)'
  BY <1>1 DEF Building, RowBuilt, Whole
<1>3. ASSUME NEW v \in Workers PROVE Executing(v)' => WorkBuilt(worker[v])'
  <2>1. PICK m : m = worker[v]
    OBVIOUS
  <2>2. Executing(v)' => WorkBuilt(m)
    BY <2>1 DEF Building, Executing
  <2>3. \A k : k = m => (WorkBuilt(m)' => WorkBuilt(k)')
    OBVIOUS
  <2> QED BY <1>1, <2>1, <2>2, <2>3
<1> QED
  BY <1>1, <1>2, <1>3 DEF Building, Executing

\* A worker goes on in its stage with what it knows, or gives the stage up.
LEMMA SameSure ==
    ASSUME NEW l, NEW m, WorkBuilt(l), m.run = l.run, m.stage = l.stage,
           \/ /\ m.pc = "failing" /\ l.pc # "open"
           \/ /\ m.pc \in Requesting \cup {"request"} /\ m.view = l.view
              /\ l.pc \in Requesting \cup {"sources", "request"}
              /\ m.pc \in Requesting \ {"submit"} => Mine(m.cur, m.run, m.stage)
    PROVE  WorkBuilt(m)
<1>1. CASE m.pc = "failing" /\ l.pc # "open"
  BY <1>1 DEF WorkBuilt, Working, Requesting
<1>2. CASE /\ m.pc \in Requesting \cup {"request"} /\ m.view = l.view
           /\ l.pc \in Requesting \cup {"sources", "request"}
           /\ m.pc \in Requesting \ {"submit"} => Mine(m.cur, m.run, m.stage)
  BY <1>2 DEF WorkBuilt, Working, Requesting
<1> QED BY <1>1, <1>2

\* After a stage comes the next one, or the end.
LEMMA NextSure ==
    ASSUME NEW l \in Place, l.run \in Runs, \A t \in Stages : t <= l.stage => stage[l.run][t].status = "completed"
    PROVE  WorkBuilt(NextStage(l)) /\ NextStage(l).pc \in {"load", "finish"}
<1> PICK m : m = NextStage(l)
  OBVIOUS
<1>1. /\ m.run = l.run /\ m.pc = IF l.stage = Briefing THEN "finish" ELSE "load"
      /\ m.stage = IF l.stage = Briefing THEN Briefing ELSE l.stage + 1
  BY DEF NextStage, Place
<1>2. l.stage \in 1 .. 4
  BY StageNumbers DEF Place
<1> QED
  BY <1>1, <1>2, StageNumbers DEF WorkBuilt, Working, Requesting

\* A stage that is loaded is done, or its row is what the worker works on.
LEMMA LoadedSure ==
    ASSUME IType, Building, NEW w \in Workers, worker[w].pc \in {"open", "load"}
    PROVE  WorkBuilt(Loaded(worker[w])) /\ Loaded(worker[w]).pc \notin {"idle", "selected", "open"}
<1>1. PICK l \in Place : l = worker[w]
  BY PlaceOf
<1>2. /\ l.run \in Runs /\ l.stage \in Stages /\ WorkBuilt(l) /\ RowBuilt(l.run, l.stage)
      /\ l.pc \in {"open", "load"}
  BY <1>1, PlaceOf DEF Building, Executing
<1>3. CASE Done(stage[l.run][l.stage])
  <2>1. ASSUME NEW t \in Stages, t <= l.stage PROVE stage[l.run][t].status = "completed"
    BY <1>2, <1>3, <2>1, StageNumbers DEF WorkBuilt, Done
  <2> QED BY <1>1, <1>2, <1>3, <2>1, NextSure DEF Loaded
<1>4. CASE ~Done(stage[l.run][l.stage])
  <2>1. PICK m : m = [l EXCEPT !.pc = "begin", !.view = stage[l.run][l.stage]]
    OBVIOUS
  <2>2. m.pc = "begin" /\ m.run = l.run /\ m.stage = l.stage /\ m.view = stage[l.run][l.stage]
    BY <2>1 DEF Place
  <2>3. l.stage = Discovery => stage[l.run][Discovery].saved = NoData
    BY <1>2, <1>4 DEF RowBuilt, Done
  <2>4. WorkBuilt(m)
    BY <1>2, <2>2, <2>3 DEF WorkBuilt, Working, Requesting
  <2> QED BY <1>1, <1>4, <2>1, <2>2, <2>4 DEF Loaded
<1> QED BY <1>3, <1>4

\* The steps of a worker that write no stage.
QuietStep(w) ==
    \/ ClaimSelect(w) \/ ClaimUpdate(w) \/ Open(w) \/ Load(w) \/ Sources(w) \/ Request(w)
    \/ (Retrieve(w) /\ job[worker[w].cur] # "gone") \/ Post(w) \/ Observe(w) \/ ObserveGone(w) \/ RejectOutput(w)
    \/ SaveConflict(w) \/ Poll(w) \/ LosesFence(w) \/ FailCheck(w) \/ FaultStep(w)

LEMMA QuietTables ==
    ASSUME IType, NEW w \in Workers, QuietStep(w)
    PROVE  /\ UNCHANGED <<stage, nextRequest>>
           /\ \A q \in Requests : /\ request'[q].run = request[q].run /\ request'[q].stage = request[q].stage
                                  /\ request'[q].outcome = request[q].outcome
           /\ \A r \in Runs : run'[r].status \in {"absent", "completed"} => run'[r].status = run[r].status
           /\ \A v \in Workers : v # w => worker'[v] = worker[v]
<1>1. run \in [Runs -> RunRow] /\ request \in [Requests -> Row] /\ worker \in [Workers -> Place]
  BY DEF IType, TypeOK
<1>2. CASE Observe(w)
  <2>1. \A r \in Runs : run'[r].status = run[r].status
    BY <1>1, <1>2 DEF Observe, Renew, RunRow
  <2>2. PICK seen : request' = [request EXCEPT ![worker[w].cur].seen = seen]
    BY <1>2 DEF Observe
  <2>3. \A q \in Requests : /\ request'[q].run = request[q].run /\ request'[q].stage = request[q].stage
                            /\ request'[q].outcome = request[q].outcome
    BY <1>1, <2>2 DEF Row
  <2> QED BY <1>1, <1>2, <2>1, <2>3 DEF Observe
<1>3. CASE Sources(w) \/ Poll(w)
  <2>1. \A r \in Runs : run'[r].status = run[r].status
    BY <1>1, <1>3 DEF Sources, Poll, Renew, RunRow
  <2> QED BY <1>1, <1>3, <2>1 DEF Sources, Poll
<1>4. CASE ClaimUpdate(w)
  <2>1. \A r \in Runs : run'[r].status # run[r].status => run'[r].status = "running"
    BY <1>1, <1>4 DEF ClaimUpdate
  <2> QED BY <1>1, <1>4, <2>1 DEF ClaimUpdate
<1>5. CASE \/ ClaimSelect(w) \/ Open(w) \/ Load(w) \/ Request(w) \/ (Retrieve(w) /\ job[worker[w].cur] # "gone")
           \/ Post(w) \/ ObserveGone(w) \/ RejectOutput(w) \/ SaveConflict(w) \/ LosesFence(w) \/ FailCheck(w)
           \/ FaultStep(w)
  BY <1>1, <1>5 DEF ClaimSelect, Open, Load, Request, Retrieve, Post, ObserveGone, RejectOutput, SaveConflict,
        LosesFence, FailCheck, FaultStep, PostLost, Raise, Crash, dbVars
<1> QED BY <1>2, <1>3, <1>4, <1>5 DEF QuietStep

LEMMA QuietStepBuilt ==
    ASSUME IType, Building, NEW w \in Workers, QuietStep(w)
    PROVE  Building'
<1>1. PICK l : l = worker[w]
  OBVIOUS
<1>2. ASSUME NEW m, worker'[w] = m, m.pc \notin {"idle", "selected"} => WorkBuilt(m),
             m.pc \in {"selected", "open"} => m.stage = Discovery
      PROVE  Building'
  BY <1>2, QuietTables, QuietBuilt
<1>3. worker \in [Workers -> Place] /\ IdleWorker.pc = "idle" /\ (l.pc # "idle" => l \in Place)
  BY <1>1, PlaceOf DEF IType, TypeOK, IdleWorker
<1>4. ASSUME NEW m, worker' = [worker EXCEPT ![w] = m], m.pc \notin {"idle", "selected"} => WorkBuilt(m),
             m.pc \in {"selected", "open"} => m.stage = Discovery
      PROVE  Building'
  BY <1>2, <1>3, <1>4
<1>5. Executing(w) => WorkBuilt(l)
  BY <1>1 DEF Building
<1>6. ASSUME NEW m, worker' = [worker EXCEPT ![w] = m], Executing(w), m.run = l.run, m.stage = l.stage,
             \/ /\ m.pc = "failing" /\ l.pc # "open"
             \/ /\ m.pc \in Requesting \cup {"request"} /\ m.view = l.view
                /\ l.pc \in Requesting \cup {"sources", "request"}
                /\ m.pc \in Requesting \ {"submit"} => Mine(m.cur, m.run, m.stage)
      PROVE  Building'
  <2>1. WorkBuilt(m)
    BY <1>5, <1>6, SameSure
  <2> QED BY <1>4, <1>6, <2>1 DEF Requesting
<1>7. CASE worker' = [worker EXCEPT ![w] = IdleWorker]
  BY <1>3, <1>4, <1>7
<1>8. ASSUME NEW step \in Requesting \cup {"request", "failing"}, worker' = [worker EXCEPT ![w].pc = step],
             l.pc \notin {"idle", "selected", "open"},
             step # "failing" => /\ l.pc \in Requesting \cup {"sources"}
                                 /\ step \in Requesting \ {"submit"} => l.pc \in Requesting \ {"submit"}
      PROVE  Building'
  <2>1. PICK m : m = [l EXCEPT !.pc = step]
    OBVIOUS
  <2>2. m.pc = step /\ m.run = l.run /\ m.stage = l.stage /\ m.view = l.view /\ m.cur = l.cur
    BY <1>3, <1>8, <2>1 DEF Place
  <2>3. worker' = [worker EXCEPT ![w] = m]
    BY <1>1, <1>8, <2>1
  <2>4. step \in Requesting \ {"submit"} => Mine(m.cur, m.run, m.stage)
    BY <1>1, <1>5, <1>8, <2>2 DEF WorkBuilt, Executing, Requesting
  <2> QED BY <1>1, <1>6, <1>8, <2>2, <2>3, <2>4 DEF Executing, Requesting
<1>9. CASE ClaimSelect(w)
  <2>1. PICK r \in Runs : worker' = [worker EXCEPT ![w] = [IdleWorker EXCEPT !.pc = "selected", !.run = r]]
    BY <1>9 DEF ClaimSelect
  <2>2. PICK m : m = [IdleWorker EXCEPT !.pc = "selected", !.run = r]
    OBVIOUS
  <2>3. m.pc = "selected" /\ m.stage = Discovery
    BY <2>2 DEF IdleWorker
  <2> QED BY <1>4, <2>1, <2>2, <2>3
<1>10. CASE ClaimUpdate(w)
  <2>1. CASE Claimable(l.run)
    <3>1. PICK m : m = [l EXCEPT !.pc = "open"]
      OBVIOUS
    <3>2. l.pc = "selected" /\ l.stage = Discovery /\ worker' = [worker EXCEPT ![w] = m]
      BY <1>1, <1>10, <2>1, <3>1 DEF ClaimUpdate, Building
    <3>3. m.pc = "open" /\ m.stage = Discovery
      BY <1>3, <3>1, <3>2 DEF Place
    <3>4. WorkBuilt(m)
      BY <3>3, StageNumbers DEF WorkBuilt, Working, Requesting
    <3> QED BY <1>4, <3>2, <3>3, <3>4
  <2> QED BY <1>1, <1>7, <1>10, <2>1 DEF ClaimUpdate
<1>11. CASE Open(w) \/ Load(w)
  <2>1. PICK m : m = Loaded(l)
    OBVIOUS
  <2>2. l.pc \in {"open", "load"} /\ WorkBuilt(m) /\ m.pc \notin {"idle", "selected", "open"}
    BY <1>1, <1>11, <2>1, LoadedSure DEF Open, Load
  <2>3. worker' = [worker EXCEPT ![w] = m] \/ worker' = [worker EXCEPT ![w] = IdleWorker]
    BY <1>1, <1>11, <2>1 DEF Open, Load
  <2> QED BY <1>4, <1>7, <2>2, <2>3
<1>12. CASE Request(w)
  <2>1. l.pc = "request" /\ Executing(w)
    BY <1>1, <1>12 DEF Request, Executing
  <2>2. CASE closing[OwnerOf[l.run]]
    <3>1. worker' = [worker EXCEPT ![w].pc = "failing"]
      BY <1>1, <1>12, <2>2 DEF Request
    <3> QED BY <1>8, <2>1, <3>1
  <2>3. CASE ~closing[OwnerOf[l.run]] /\ l.view.active # NoResponse
    <3>1. PICK m : m = [l EXCEPT !.pc = "retrieve", !.cur = l.view.active]
      OBVIOUS
    <3>2. worker' = [worker EXCEPT ![w] = m]
      BY <1>1, <1>12, <2>3, <3>1 DEF Request
    <3>3. m.pc = "retrieve" /\ m.run = l.run /\ m.stage = l.stage /\ m.view = l.view /\ m.cur = l.view.active
      BY <1>3, <2>1, <3>1 DEF Place
    <3>4. l.view = stage[l.run][l.stage] /\ RowBuilt(l.run, l.stage)
      BY <1>1, <1>5, <2>1, PlaceOf DEF WorkBuilt, Working, Building
    <3>5. Mine(m.cur, m.run, m.stage)
      BY <2>3, <3>3, <3>4 DEF RowBuilt
    <3> QED BY <1>6, <2>1, <3>2, <3>3, <3>5 DEF Requesting
  <2>4. CASE ~closing[OwnerOf[l.run]] /\ l.view.active = NoResponse
    <3>1. PICK m : m = [l EXCEPT !.pc = "submit"]
      OBVIOUS
    <3>2. worker' = [worker EXCEPT ![w] = m]
      BY <1>1, <1>12, <2>4, <3>1 DEF Request
    <3>3. m.pc = "submit" /\ m.run = l.run /\ m.stage = l.stage /\ m.view = l.view
      BY <1>3, <2>1, <3>1 DEF Place
    <3> QED BY <1>6, <2>1, <3>2, <3>3 DEF Requesting
  <2> QED BY <2>2, <2>3, <2>4
<1>13. CASE RejectOutput(w)
  <2>1. PICK m : m = [l EXCEPT !.pc = "failing", !.drop = TRUE]
    OBVIOUS
  <2>2. worker' = [worker EXCEPT ![w] = m] /\ l.pc = "accept"
    BY <1>1, <1>13, <2>1 DEF RejectOutput
  <2>3. m.pc = "failing" /\ m.run = l.run /\ m.stage = l.stage
    BY <1>3, <2>1, <2>2 DEF Place
  <2> QED BY <1>1, <1>6, <2>2, <2>3 DEF Executing
<1>14. CASE Poll(w)
  <2>1. PICK m : m = [l EXCEPT !.pc = "closing"]
    OBVIOUS
  <2>2. worker' = [worker EXCEPT ![w] = m] /\ l.pc = "finish"
    BY <1>1, <1>14, <2>1 DEF Poll
  <2>3. m.pc = "closing" /\ m.run = l.run /\ m.stage = l.stage
    BY <1>3, <2>1, <2>2 DEF Place
  <2>4. WorkBuilt(m)
    BY <1>1, <1>5, <2>2, <2>3 DEF WorkBuilt, Working, Requesting, Executing
  <2> QED BY <1>4, <2>2, <2>3, <2>4
<1>15. CASE FailCheck(w)
  <2>1. l.pc = "failing"
    BY <1>1, <1>15 DEF FailCheck
  <2>2. PICK m : m = [l EXCEPT !.pc = "failed", !.view = stage[l.run][l.stage]]
    OBVIOUS
  <2>3. m.pc = "failed" /\ m.run = l.run /\ m.stage = l.stage /\ m.view = stage[l.run][l.stage]
    BY <1>3, <2>1, <2>2 DEF Place
  <2>4. WorkBuilt(m)
    BY <1>1, <1>5, <2>1, <2>3 DEF WorkBuilt, Working, Requesting, Executing
  <2>5. worker' = [worker EXCEPT ![w] = m] \/ worker' = [worker EXCEPT ![w] = IdleWorker]
    BY <1>1, <1>15, <2>2 DEF FailCheck
  <2> QED BY <1>4, <1>7, <2>3, <2>4, <2>5
<1>16. CASE Sources(w) \/ (Retrieve(w) /\ job[worker[w].cur] # "gone") \/ Post(w) \/ Observe(w)
  <2>1. PICK step : /\ worker' = [worker EXCEPT ![w].pc = step]
                    /\ \/ l.pc = "sources" /\ step = "request"
                       \/ l.pc \in Requesting \ {"submit"} /\ step \in Requesting \ {"submit"}
    BY <1>1, <1>16 DEF Sources, Retrieve, Post, Observe, Requesting
  <2> QED BY <1>8, <2>1 DEF Requesting
<1>17. CASE ObserveGone(w) \/ SaveConflict(w) \/ LosesFence(w) \/ PostLost(w) \/ Raise(w)
  <2>1. worker' = [worker EXCEPT ![w].pc = "failing"] /\ l.pc \notin {"idle", "selected", "open"}
    BY <1>1, <1>17 DEF ObserveGone, SaveConflict, LosesFence, PostLost, Raise, TryBlock, FencedStep
  <2> QED BY <1>8, <2>1
<1>18. CASE Crash(w)
  BY <1>7, <1>18 DEF Crash
<1> QED
  BY <1>9, <1>10, <1>11, <1>12, <1>13, <1>14, <1>15, <1>16, <1>17, <1>18 DEF QuietStep, FaultStep

\* A worker that writes its stage's row and stays in the stage is as sure of it.
LEMMA AfterWriting ==
    ASSUME IType, NEW k, WorkBuilt(k), NEW new,
           k.run \in Runs, k.stage \in Stages, k.pc \in Working,
           stage'[k.run][k.stage] = new,
           \A t \in Stages : t # k.stage => stage'[k.run][t] = stage[k.run][t],
           k.stage = Discovery => new.saved = NoData,
           NEW m, m.run = k.run, m.stage = k.stage, m.pc \in Working \cup {"failing"},
           m.pc \in Working => m.view = new,
           m.pc \in Requesting \cup {"sources", "request"} => new.status = "running",
           m.pc \in Requesting \ {"submit"} => Mine(m.cur, m.run, m.stage)'
    PROVE  WorkBuilt(m)'
<1>1. ASSUME NEW t \in Stages, t < m.stage PROVE stage'[m.run][t].status = "completed"
  BY <1>1, StageNumbers DEF WorkBuilt
<1>2. m.pc \notin {"finish", "closing", "open"}
  BY DEF Working, Requesting
<1>3. m.pc \in Requesting \cup {"sources", "request"} => m.pc \in Working
  BY DEF Working, Requesting
<1> QED BY <1>1, <1>2, <1>3 DEF WorkBuilt

\* A worker that completes its stage goes on to the next one, or to the end.
LEMMA AfterCompleting ==
    ASSUME NEW k \in Place, WorkBuilt(k), k.run \in Runs,
           stage'[k.run][k.stage].status = "completed",
           \A t \in Stages : t # k.stage => stage'[k.run][t] = stage[k.run][t],
           NEW m, m = NextStage(k)
    PROVE  WorkBuilt(m)' /\ m.pc \in {"load", "finish"}
<1>1. /\ m.run = k.run /\ m.pc = IF k.stage = Briefing THEN "finish" ELSE "load"
      /\ m.stage = IF k.stage = Briefing THEN Briefing ELSE k.stage + 1
  BY DEF NextStage, Place
<1>2. k.stage \in 1 .. 4
  BY StageNumbers DEF Place
<1>3. ASSUME NEW t \in Stages, t <= k.stage PROVE stage'[k.run][t].status = "completed"
  BY <1>2, <1>3, StageNumbers DEF WorkBuilt
<1>4. m.pc \notin Working /\ m.pc \notin Requesting \cup {"sources", "request", "open"}
  BY <1>1 DEF Working, Requesting
<1>5. ASSUME NEW t \in Stages, t < m.stage \/ m.pc \in {"finish", "closing"}
      PROVE  stage'[m.run][t].status = "completed"
  BY <1>1, <1>2, <1>3, <1>5, StageNumbers
<1>6. m.stage # Discovery /\ m.pc \notin Requesting
  BY <1>1, <1>2, StageNumbers DEF Requesting
<1> QED BY <1>1, <1>4, <1>5, <1>6 DEF WorkBuilt

\* What a row has to be to be written into a stage ...
Fitting(k, row) ==
    /\ row \in StageRow
    /\ row.status = "completed" =>
          row = [status |-> "completed", active |-> NoResponse, saved |-> Full(k.stage)]
    /\ row.active # NoResponse => Mine(row.active, k.run, k.stage)
    /\ k.stage = Discovery /\ row.saved # NoData => row.status = "completed"
    /\ k.stage = Summaries /\ row.active # NoResponse => row.saved \in 0 .. Batches - 1

\* ... where its worker may then be ...
GoesOn(k, row, m) ==
    \/ m.pc = "idle"
    \/ m = NextStage(k) /\ row.status = "completed"
    \/ /\ m.run = k.run /\ m.stage = k.stage /\ m.pc \in Working \cup {"failing"}
       /\ k.stage = Discovery => row.saved = NoData
       /\ m.pc \in Working => m.view = row
       /\ m.pc \in Requesting \cup {"sources", "request"} => row.status = "running"
       /\ m.pc \in Requesting \ {"submit"} => Mine(m.cur, m.run, m.stage)

\* ... and what else the step may change.
OnlyIn(k) ==
    /\ \A p \in Runs : p # k.run => run'[p].status = run[p].status
    /\ run'[k.run].status \in {"running", "failed"}
    /\ UNCHANGED nextRequest
    /\ \A q \in Requests : request'[q].run = request[q].run /\ request'[q].stage = request[q].stage
    /\ \A q \in Requests : request[q].run # k.run \/ request[q].stage # k.stage =>
           (request'[q].outcome = "accepted" => request[q].outcome = "accepted")

\* The worker that executes a run writes its stage's row.
LEMMA RowWrittenBy ==
    ASSUME IType, Building, Ownership, NEW w \in Workers, NEW k, k = worker[w], k.pc \in Working,
           NEW new, Write(w, new), Fitting(k, new)', OnlyIn(k),
           NEW m, worker' = [worker EXCEPT ![w] = m], GoesOn(k, new, m)'
    PROVE  Building'
<1> USE DEF Fitting, OnlyIn
<1>0. PICK r \in Runs : r = k.run
  BY PlaceOf DEF Working, Requesting
<1>1. /\ stage'[r][k.stage] = new /\ \A t \in Stages : t # k.stage => stage'[r][t] = stage[r][t]
      /\ \A p \in Runs : p # r => stage'[p] = stage[p]
      /\ Executing(w)
  BY <1>0, WritesRow
<1>2. WorkBuilt(k) /\ k \in Place /\ k.run \in Runs /\ k.stage \in Stages /\ worker \in [Workers -> Place]
  BY <1>1, PlaceOf DEF Building, Executing, IType, TypeOK
<1>3. worker'[w] = m /\ \A v \in Workers : v # w => worker'[v] = worker[v]
  BY <1>2
<1>4. CASE m.pc = "idle"
  BY <1>0, <1>1, <1>2, <1>3, <1>4, RowWritten
<1>5. CASE m = NextStage(k) /\ new.status = "completed"
  <2>1. WorkBuilt(m)' /\ m.pc \in {"load", "finish"}
    BY <1>0, <1>1, <1>2, <1>5, AfterCompleting
  <2> QED BY <1>0, <1>1, <1>2, <1>3, <2>1, RowWritten
<1>6. CASE /\ m.run = k.run /\ m.stage = k.stage /\ m.pc \in Working \cup {"failing"}
           /\ k.stage = Discovery => new.saved = NoData
           /\ m.pc \in Working => m.view = new
           /\ m.pc \in Requesting \cup {"sources", "request"} => new.status = "running"
           /\ m.pc \in Requesting \ {"submit"} => Mine(m.cur, m.run, m.stage)'
  <2>1. WorkBuilt(m)'
    BY <1>0, <1>1, <1>2, <1>6, AfterWriting
  <2>2. m.pc \notin {"selected", "open"}
    BY <1>6 DEF Working, Requesting
  <2> QED BY <1>0, <1>1, <1>2, <1>3, <2>1, <2>2, RowWritten
<1> QED BY <1>4, <1>5, <1>6 DEF GoesOn

\* The row a worker works on is the one in the table, as the tables know it.
LEMMA RowInHand ==
    ASSUME IType, Building, Ownership, NEW w \in Workers, NEW k, k = worker[w], k.pc \in Working
    PROVE  /\ k \in Place /\ k.run \in Runs /\ k.stage \in Stages /\ k.view \in StageRow
           /\ k.cur \in Requests \cup {NoResponse} /\ Executing(w) /\ WorkBuilt(k) /\ GoodPlace(k)
           /\ k.view = stage[k.run][k.stage] /\ RowBuilt(k.run, k.stage)
           /\ run[k.run].status = "running"
           /\ run \in [Runs -> RunRow] /\ request \in [Requests -> Row]
<1>1. k.pc \notin {"idle", "selected"} /\ Executing(w)
  BY DEF Working, Requesting, Executing
<1>2. k \in Place /\ k.run \in Runs /\ k.stage \in Stages /\ k.view \in StageRow
      /\ k.cur \in Requests \cup {NoResponse}
  BY <1>1, PlaceOf
<1>3. run[k.run] = [status |-> "running", holder |-> w, lease |-> "live"]
  BY <1>1 DEF Ownership
<1>4. WorkBuilt(k) /\ GoodPlace(k)
  BY <1>1 DEF Building, IType, PlaceOK
<1> QED
  BY <1>1, <1>2, <1>3, <1>4 DEF WorkBuilt, Building, IType, TypeOK

\* ... and the response it would poll.
LEMMA PointerInHand ==
    ASSUME IType, Building, Ownership, NEW w \in Workers, NEW k, k = worker[w], k.pc \in Working,
           k.view.active # NoResponse
    PROVE  /\ Mine(k.view.active, k.run, k.stage)
           /\ k.stage = Summaries => k.view.saved \in 0 .. Batches - 1
<1>1. RowBuilt(k.run, k.stage) /\ k.view = stage[k.run][k.stage]
  BY RowInHand
<1> QED BY <1>1 DEF RowBuilt

\* What a failure writes into the ledger accepts nothing and takes nothing back.
LEMMA RejectKeeps ==
    ASSUME IType, NEW r, NEW s, request' = RejectLatest(r, s), NEW q \in Requests
    PROVE  /\ request'[q].run = request[q].run /\ request'[q].stage = request[q].stage
           /\ request'[q].outcome = "accepted" <=> request[q].outcome = "accepted"
<1>1. request[q] \in Row
  BY DEF IType, TypeOK
<1>2. CASE q \in Unconfirmed(r, s) /\ \A p \in Unconfirmed(r, s) : p <= q
  <2>1. request[q].outcome = "unconfirmed"
    BY <1>2 DEF Unconfirmed
  <2>2. PICK o \in {"rejected", "interrupted"} : request'[q] = [request[q] EXCEPT !.outcome = o]
    BY <1>2 DEF RejectLatest
  <2> QED BY <1>1, <2>1, <2>2 DEF Row
<1>3. CASE ~(q \in Unconfirmed(r, s) /\ \A p \in Unconfirmed(r, s) : p <= q)
  <2>1. request'[q] = request[q]
    BY <1>3 DEF RejectLatest
  <2> QED BY <2>1
<1> QED BY <1>2, <1>3

LEMMA BeginBuilt ==
    ASSUME IType, Building, Ownership, NEW w \in Workers, BeginStage(w)
    PROVE  Building'
<1> PICK k : k = worker[w]
  OBVIOUS
<1> PICK new : new = Begun(k.view, k.stage)
  OBVIOUS
<1> PICK m : m = [k EXCEPT !.view = new, !.pc = IF k.stage = Summaries THEN "sources" ELSE "request"]
  OBVIOUS
<1>1. k.pc = "begin" /\ k.pc \in Working
  BY DEF BeginStage, Working
<1>2. /\ Write(w, new) /\ worker' = [worker EXCEPT ![w] = m]
      /\ UNCHANGED <<run, request, nextRequest>>
  BY DEF BeginStage
<1>3. /\ new.status = "running" /\ new.active = k.view.active
      /\ new.saved = IF k.stage = Summaries /\ k.view.saved = NoData THEN 0 ELSE k.view.saved
      /\ new \in StageRow
  <2>1. PICK n : n = IF k.stage = Summaries /\ k.view.saved = NoData THEN 0 ELSE k.view.saved
    OBVIOUS
  <2>2. new = [k.view EXCEPT !.status = "running", !.saved = n]
    BY <2>1 DEF Begun
  <2>3. k.view \in StageRow
    BY <1>1, RowInHand
  <2>4. n \in {NoData, 1} \cup (0 .. Batches)
    BY <2>1, <2>3, StageNumbers DEF StageRow
  <2> QED BY <2>1, <2>2, <2>3, <2>4 DEF StageRow
<1>4. /\ m.run = k.run /\ m.stage = k.stage /\ m.view = new /\ m.pc \in {"sources", "request"}
  BY <1>1, RowInHand DEF Place
<1>5. k.stage = Discovery => new.saved = NoData
  BY <1>1, <1>3, RowInHand, StageNumbers DEF WorkBuilt
<1>6. new.active # NoResponse => Mine(new.active, k.run, k.stage)'
  <2>1. new.active # NoResponse => Mine(new.active, k.run, k.stage)
    BY <1>1, <1>3, PointerInHand
  <2>2. UNCHANGED <<request, nextRequest>>
    BY <1>2
  <2> QED BY <2>1, <2>2 DEF Mine
<1>7. k.stage = Summaries /\ new.active # NoResponse => new.saved \in 0 .. Batches - 1
  <2>1. k.stage = Summaries /\ new.active # NoResponse => k.view.saved \in 0 .. Batches - 1
    BY <1>1, <1>3, PointerInHand
  <2>2. ASSUME k.view.saved \in 0 .. Batches - 1 PROVE new.saved = k.view.saved
    BY <1>3, <2>2, StageNumbers
  <2> QED BY <2>1, <2>2
<1>8. m.pc \in Working /\ m.pc \notin Requesting
  BY <1>4 DEF Working, Requesting
<1>9. /\ \A p \in Runs : run'[p].status = run[p].status
      /\ k.run \in Runs /\ run'[k.run].status = "running"
      /\ \A q \in Requests : /\ request'[q].run = request[q].run /\ request'[q].stage = request[q].stage
                             /\ request'[q].outcome = request[q].outcome
  BY <1>1, <1>2, RowInHand
<1>10. Fitting(k, new)'
  BY <1>3, <1>5, <1>6, <1>7 DEF Fitting
<1>11. OnlyIn(k)
  BY <1>2, <1>9 DEF OnlyIn
<1>12. GoesOn(k, new, m)'
  BY <1>3, <1>4, <1>5, <1>8 DEF GoesOn
<1> QED BY <1>1, <1>2, <1>10, <1>11, <1>12, RowWrittenBy

LEMMA CompleteSummariesBuilt ==
    ASSUME IType, Building, Ownership, NEW w \in Workers, CompleteSummaries(w)
    PROVE  Building'
<1> PICK k : k = worker[w]
  OBVIOUS
<1> PICK new : new = [k.view EXCEPT !.status = "completed"]
  OBVIOUS
<1> PICK m : m = NextStage(k)
  OBVIOUS
<1>1. k.pc = "request" /\ k.pc \in Working /\ k.stage = Summaries /\ k.view.saved = Batches
  BY DEF CompleteSummaries, Working, SummariesDone
<1>2. /\ Write(w, new) /\ worker' = [worker EXCEPT ![w] = m]
      /\ UNCHANGED <<run, request, nextRequest>>
  BY DEF CompleteSummaries
<1>3. k.view.active = NoResponse
  <2>1. RowBuilt(k.run, Summaries) /\ k.view = stage[k.run][Summaries]
    BY <1>1, RowInHand
  <2> QED BY <1>1, <2>1, StageNumbers DEF RowBuilt
<1>4. /\ new = [status |-> "completed", active |-> NoResponse, saved |-> Full(k.stage)]
      /\ new \in StageRow
  BY <1>1, <1>3, RowInHand, StageNumbers DEF StageRow, Full
<1>5. new.status = "completed" /\ new.active = NoResponse
  BY <1>4
<1>6. /\ \A p \in Runs : run'[p].status = run[p].status
      /\ k.run \in Runs /\ run'[k.run].status = "running"
      /\ \A q \in Requests : /\ request'[q].run = request[q].run /\ request'[q].stage = request[q].stage
                             /\ request'[q].outcome = request[q].outcome
  BY <1>1, <1>2, RowInHand
<1>7. k.stage # Discovery
  BY <1>1, StageNumbers
<1>8. Fitting(k, new)'
  BY <1>4, <1>5, <1>7 DEF Fitting
<1>9. OnlyIn(k)
  BY <1>2, <1>6 DEF OnlyIn
<1>10. GoesOn(k, new, m)'
  BY <1>5 DEF GoesOn
<1> QED BY <1>1, <1>2, <1>8, <1>9, <1>10, RowWrittenBy

LEMMA LostResponseBuilt ==
    ASSUME IType, Building, Ownership, NEW w \in Workers,
           (Retrieve(w) /\ job[worker[w].cur] = "gone") \/ Discard(w)
    PROVE  Building'
<1> PICK k : k = worker[w]
  OBVIOUS
<1> PICK new : new = [k.view EXCEPT !.active = NoResponse]
  OBVIOUS
<1>1. k.pc \in {"retrieve", "discard", "accept"} /\ k.pc \in Working /\ k.pc \in Requesting
  BY DEF Retrieve, Discard, Working, Requesting
<1>2. Write(w, new) /\ UNCHANGED <<run, request, nextRequest>>
  BY DEF Retrieve, Discard
<1>3. new.status = "running" /\ new.active = NoResponse /\ new.saved = k.view.saved /\ new \in StageRow
  BY <1>1, RowInHand DEF StageRow, WorkBuilt
<1>4. k.stage = Discovery => new.saved = NoData
  BY <1>1, <1>3, RowInHand, StageNumbers DEF WorkBuilt
<1>5. PICK m : /\ worker' = [worker EXCEPT ![w] = m]
               /\ \/ m = [k EXCEPT !.pc = "submit", !.view = new, !.cur = NoResponse]
                  \/ m = [k EXCEPT !.pc = "failing", !.view = new]
  BY DEF Retrieve, Discard
<1>6. /\ m.run = k.run /\ m.stage = k.stage /\ m.view = new /\ m.pc \in {"submit", "failing"}
  <2>1. k \in Place
    BY <1>1, RowInHand
  <2>2. CASE m = [k EXCEPT !.pc = "submit", !.view = new, !.cur = NoResponse]
    BY <2>1, <2>2 DEF Place
  <2>3. CASE m = [k EXCEPT !.pc = "failing", !.view = new]
    BY <2>1, <2>3 DEF Place
  <2> QED BY <1>5, <2>2, <2>3
<1>7. m.pc \in Working \cup {"failing"} /\ m.pc \notin Requesting \ {"submit"}
  BY <1>6 DEF Working, Requesting
<1>8. /\ \A p \in Runs : run'[p].status = run[p].status
      /\ k.run \in Runs /\ run'[k.run].status = "running"
      /\ \A q \in Requests : /\ request'[q].run = request[q].run /\ request'[q].stage = request[q].stage
                             /\ request'[q].outcome = request[q].outcome
  BY <1>1, <1>2, RowInHand
<1>9. Fitting(k, new)'
  BY <1>3, <1>4 DEF Fitting
<1>10. OnlyIn(k)
  BY <1>2, <1>8 DEF OnlyIn
<1>11. GoesOn(k, new, m)'
  BY <1>3, <1>4, <1>6, <1>7 DEF GoesOn
<1> QED BY <1>1, <1>2, <1>5, <1>9, <1>10, <1>11, RowWrittenBy

LEMMA PersistBuilt ==
    ASSUME IType, Building, Ownership, NEW w \in Workers, Persist(w)
    PROVE  Building'
<1> PICK k : k = worker[w]
  OBVIOUS
<1> PICK new : new = [k.view EXCEPT !.active = k.cur]
  OBVIOUS
<1> PICK m : m = [k EXCEPT !.pc = "observe", !.view = new]
  OBVIOUS
<1>1. k.pc = "persist" /\ k.pc \in Working /\ k.pc \in Requesting
  BY DEF Persist, Working, Requesting
<1>2. /\ Write(w, new) /\ worker' = [worker EXCEPT ![w] = m] /\ UNCHANGED nextRequest
      /\ run' = [run EXCEPT ![k.run].lease = "live"]
      /\ request' = [request EXCEPT ![k.cur].known = TRUE]
  BY DEF Persist, Renew
<1>3. \A p \in Runs : run'[p].status = run[p].status
  BY <1>1, <1>2, RowInHand DEF RunRow
<1>4. \A q \in Requests : /\ request'[q].run = request[q].run /\ request'[q].stage = request[q].stage
                          /\ request'[q].outcome = request[q].outcome
  BY <1>1, <1>2, RowInHand DEF Row
<1>5. new.status = "running" /\ new.active = k.cur /\ new.saved = k.view.saved /\ new \in StageRow
  BY <1>1, RowInHand DEF StageRow, WorkBuilt
<1>6. k.stage = Discovery => new.saved = NoData
  BY <1>1, <1>5, RowInHand, StageNumbers DEF WorkBuilt
<1>7. Mine(k.cur, k.run, k.stage)
  BY <1>1, RowInHand DEF WorkBuilt
<1>8. Mine(k.cur, k.run, k.stage)'
  BY <1>2, <1>4, <1>7 DEF Mine
<1>9. k.stage = Summaries => new.saved \in 0 .. Batches - 1
  BY <1>1, <1>5, RowInHand DEF GoodPlace
<1>10. /\ m.run = k.run /\ m.stage = k.stage /\ m.view = new /\ m.pc = "observe" /\ m.cur = k.cur
  BY <1>1, RowInHand DEF Place
<1>11. m.pc \in Working
  BY <1>10 DEF Working, Requesting
<1>12. k.run \in Runs /\ run'[k.run].status = "running"
  BY <1>1, <1>3, RowInHand
<1>13. Fitting(k, new)'
  BY <1>5, <1>6, <1>8, <1>9 DEF Fitting
<1>14. OnlyIn(k)
  BY <1>2, <1>3, <1>4, <1>12 DEF OnlyIn
<1>15. GoesOn(k, new, m)'
  BY <1>5, <1>6, <1>8, <1>10, <1>11 DEF GoesOn
<1> QED BY <1>1, <1>2, <1>13, <1>14, <1>15, RowWrittenBy

LEMMA SaveBuilt ==
    ASSUME IType, Building, Ownership, NEW w \in Workers, Save(w)
    PROVE  Building'
<1> PICK k : k = worker[w]
  OBVIOUS
<1> PICK new : new = Accepted(k.view, k.stage)
  OBVIOUS
<1>1. k.pc = "accept" /\ k.pc \in Working /\ k.pc \in Requesting
  BY DEF Save, Working, Requesting
<1>2. /\ Write(w, new) /\ UNCHANGED <<run, nextRequest>>
      /\ request' = [request EXCEPT ![k.cur].outcome = "accepted"]
      /\ worker' = [worker EXCEPT ![w] = IF k.stage = Summaries
                       THEN [k EXCEPT !.pc = "request", !.view = new, !.cur = NoResponse]
                       ELSE NextStage(k)]
  BY DEF Save
<1>3. Mine(k.cur, k.run, k.stage)
  BY <1>1, RowInHand DEF WorkBuilt
<1>4. /\ \A q \in Requests : request'[q].run = request[q].run /\ request'[q].stage = request[q].stage
      /\ \A q \in Requests : q # k.cur => request'[q] = request[q]
  BY <1>1, <1>2, RowInHand DEF Row
<1>5. \A q \in Requests : request[q].run # k.run \/ request[q].stage # k.stage =>
         (request'[q].outcome = "accepted" => request[q].outcome = "accepted")
  BY <1>3, <1>4 DEF Mine
<1>8. k.run \in Runs /\ run'[k.run].status = "running"
  BY <1>1, <1>2, RowInHand
<1>6. CASE k.stage # Summaries
  <2>1. /\ new = [status |-> "completed", active |-> NoResponse, saved |-> Full(k.stage)]
        /\ new \in StageRow
    <3>1. Full(k.stage) = 1
      BY <1>6 DEF Full
    <3>2. new = [k.view EXCEPT !.status = "completed", !.saved = 1, !.active = NoResponse]
      BY <1>6 DEF Accepted
    <3>3. k.view \in StageRow
      BY <1>1, RowInHand
    <3> QED BY <3>1, <3>2, <3>3 DEF StageRow
  <2>2. new.status = "completed" /\ new.active = NoResponse
    BY <2>1
  <2>3. PICK m : m = NextStage(k) /\ worker' = [worker EXCEPT ![w] = m]
    BY <1>2, <1>6
  <2>4. Fitting(k, new)'
    BY <2>1, <2>2 DEF Fitting
  <2>5. OnlyIn(k)
    BY <1>2, <1>4, <1>5, <1>8 DEF OnlyIn
  <2>6. GoesOn(k, new, m)'
    BY <2>2, <2>3 DEF GoesOn
  <2> QED BY <1>1, <1>2, <2>4, <2>5, <2>6, <2>3, RowWrittenBy
<1>7. CASE k.stage = Summaries
  <2>1. k.view.status = "running" /\ k.view.saved \in 0 .. Batches - 1
    BY <1>1, <1>7, RowInHand DEF WorkBuilt, GoodPlace
  <2>2. new.status = "running" /\ new.active = NoResponse /\ new \in StageRow
    <3>1. PICK n \in 1 .. Batches : n = k.view.saved + 1
      BY <2>1, StageNumbers
    <3>2. new = [k.view EXCEPT !.saved = n, !.active = NoResponse]
      BY <1>7, <3>1 DEF Accepted
    <3>3. k.view \in StageRow
      BY <1>1, RowInHand
    <3>4. n \in {NoData, 1} \cup (0 .. Batches)
      BY <3>1, StageNumbers
    <3>5. new \in StageRow
      BY <3>2, <3>3, <3>4 DEF StageRow
    <3> QED BY <2>1, <3>2, <3>3, <3>5 DEF StageRow
  <2>3. PICK m : /\ m = [k EXCEPT !.pc = "request", !.view = new, !.cur = NoResponse]
                 /\ worker' = [worker EXCEPT ![w] = m]
    BY <1>2, <1>7
  <2>4. m.run = k.run /\ m.stage = k.stage /\ m.view = new /\ m.pc = "request"
    BY <1>1, <2>3, RowInHand DEF Place
  <2>5. m.pc \in Working /\ m.pc \notin Requesting /\ k.stage # Discovery
    BY <1>7, <2>4, StageNumbers DEF Working, Requesting
  <2>6. Fitting(k, new)'
    BY <2>2, <2>5 DEF Fitting
  <2>7. OnlyIn(k)
    BY <1>2, <1>4, <1>5, <1>8 DEF OnlyIn
  <2>8. GoesOn(k, new, m)'
    BY <2>2, <2>4, <2>5 DEF GoesOn
  <2> QED BY <1>1, <1>2, <2>6, <2>7, <2>8, <2>3, RowWrittenBy
<1> QED BY <1>6, <1>7

LEMMA FailBuilt ==
    ASSUME IType, Building, Ownership, NEW w \in Workers, FailCommit(w)
    PROVE  Building'
<1> PICK k : k = worker[w]
  OBVIOUS
<1> PICK new : new = Failed(k.view, k.drop)
  OBVIOUS
<1> PICK m : m = IdleWorker
  OBVIOUS
<1>1. k.pc = "failed" /\ k.pc \in Working /\ m.pc = "idle"
  BY DEF FailCommit, Working, IdleWorker
<1>2. /\ Write(w, new) /\ UNCHANGED nextRequest /\ run' = [run EXCEPT ![k.run] = Unowned("failed")]
      /\ request' = RejectLatest(k.run, k.stage) /\ worker' = [worker EXCEPT ![w] = m]
  BY DEF FailCommit
<1>3. /\ \A p \in Runs : p # k.run => run'[p].status = run[p].status
      /\ run'[k.run].status = "failed"
  BY <1>1, <1>2, RowInHand DEF Unowned
<1>4. \A q \in Requests : /\ request'[q].run = request[q].run /\ request'[q].stage = request[q].stage
                          /\ request'[q].outcome = "accepted" => request[q].outcome = "accepted"
  BY <1>2, RejectKeeps
<1>5. /\ new.status = "failed" /\ new.active \in {k.view.active, NoResponse}
      /\ new.saved = k.view.saved /\ new \in StageRow
  <2>1. PICK a : a = IF k.drop THEN NoResponse ELSE k.view.active
    OBVIOUS
  <2>2. new = [k.view EXCEPT !.status = "failed", !.active = a]
    BY <2>1 DEF Failed
  <2>3. k.view \in StageRow
    BY <1>1, RowInHand
  <2>4. a \in Requests \cup {NoResponse}
    BY <2>1, <2>3 DEF StageRow
  <2> QED BY <2>1, <2>2, <2>3, <2>4 DEF StageRow
<1>6. k.stage = Discovery => new.saved = NoData
  BY <1>1, <1>5, RowInHand, StageNumbers DEF WorkBuilt
<1>7. new.active # NoResponse => Mine(new.active, k.run, k.stage)
  BY <1>1, <1>5, PointerInHand
<1>8. new.active # NoResponse => Mine(new.active, k.run, k.stage)'
  BY <1>2, <1>4, <1>7 DEF Mine
<1>9. k.stage = Summaries /\ new.active # NoResponse => new.saved \in 0 .. Batches - 1
  BY <1>1, <1>5, PointerInHand
<1>10. Fitting(k, new)'
  BY <1>5, <1>6, <1>8, <1>9 DEF Fitting
<1>11. OnlyIn(k)
  BY <1>2, <1>3, <1>4 DEF OnlyIn
<1>12. GoesOn(k, new, m)'
  BY <1>1 DEF GoesOn
<1> QED BY <1>1, <1>2, <1>10, <1>11, <1>12, RowWrittenBy

\* A request is recorded before the provider is asked: it is the worker's own.
LEMMA SubmitBuilt ==
    ASSUME IType, Building, Ownership, NEW w \in Workers, Submit(w)
    PROVE  Building'
<1> PICK k : k = worker[w]
  OBVIOUS
<1> PICK q : q = nextRequest
  OBVIOUS
<1> PICK m : m = [k EXCEPT !.pc = "post", !.cur = q]
  OBVIOUS
<1>1. k.pc = "submit" /\ k.pc \in Working /\ k.pc \in Requesting /\ q \in Requests
  <2>1. nextRequest \in 1 .. MaxRequests + 1 /\ nextRequest <= MaxRequests
    BY DEF Submit, IType, TypeOK
  <2> QED BY <2>1, StageNumbers DEF Submit, Working, Requesting, Requests
<1>2. /\ worker' = [worker EXCEPT ![w] = m] /\ UNCHANGED stage /\ nextRequest' = q + 1
      /\ run' = [run EXCEPT ![k.run].lease = "live"]
      /\ request' = [request EXCEPT ![q] = NewRow(k.run, k.stage)]
  BY DEF Submit, Renew
<1>3. /\ \A p \in Runs : run'[p].status = run[p].status
      /\ request'[q] = NewRow(k.run, k.stage)
      /\ \A o \in Requests : o # q => request'[o] = request[o]
  BY <1>1, <1>2, RowInHand DEF RunRow
<1>4. ASSUME NEW o, NEW r, NEW s, Mine(o, r, s) PROVE Mine(o, r, s)'
  <2>1. o \in Requests /\ o # q /\ o < nextRequest'
    BY <1>1, <1>2, <1>4 DEF Mine, Requests
  <2>2. request'[o] = request[o]
    BY <1>3, <2>1
  <2> QED BY <1>4, <2>1, <2>2 DEF Mine
<1>5. Mine(q, k.run, k.stage)'
  <2>1. q < nextRequest'
    BY <1>1, <1>2 DEF Requests
  <2> QED BY <1>1, <1>3, <2>1 DEF Mine, NewRow
<1>6. ASSUME NEW o \in Requests, o >= nextRequest' PROVE request'[o].run = NoRun
  <2>1. o # q /\ o >= nextRequest
    BY <1>1, <1>2, <1>6 DEF Requests
  <2> QED BY <1>3, <2>1 DEF Building, NoneAhead
<1>7. NoneAhead'
  BY <1>6 DEF NoneAhead
<1>8. /\ m.run = k.run /\ m.stage = k.stage /\ m.view = k.view /\ m.pc = "post" /\ m.cur = q
      /\ worker \in [Workers -> Place]
  BY <1>1, RowInHand DEF Place, IType, TypeOK
<1>9. ASSUME NEW o, WorkBuilt(o) PROVE WorkBuilt(o)'
  BY <1>2, <1>4, <1>9 DEF WorkBuilt
<1>10. WorkBuilt(m)'
  <2>1. WorkBuilt(k)
    BY <1>1, RowInHand
  <2>2. m.pc \notin {"finish", "closing", "open"} /\ m.pc \in Working
    BY <1>8 DEF Working, Requesting
  <2> QED BY <1>1, <1>2, <1>5, <1>8, <2>1, <2>2 DEF WorkBuilt
<1>11. ASSUME NEW v \in Workers PROVE /\ Executing(v)' => WorkBuilt(worker[v])'
                                      /\ (worker[v].pc \in {"selected", "open"} => worker[v].stage = Discovery)'
  <2>1. CASE v = w
    <3>1. worker'[v] = m
      BY <1>2, <1>8, <2>1
    <3>2. m.pc \notin {"selected", "open"}
      BY <1>8
    <3> QED BY <1>10, <3>1, <3>2
  <2>2. CASE v # w
    <3>1. PICK o : o = worker[v]
      OBVIOUS
    <3>2. worker'[v] = o
      BY <1>2, <1>8, <2>2, <3>1
    <3>3. Executing(v)' => WorkBuilt(o)'
      BY <1>9, <3>1, <3>2 DEF Building, Executing
    <3> QED BY <3>1, <3>2, <3>3 DEF Building
  <2> QED BY <2>1, <2>2
<1>12. ASSUME NEW r \in Runs, NEW s \in Stages PROVE RowBuilt(r, s)'
  BY <1>2, <1>3, <1>4 DEF Building, RowBuilt, Whole
<1> QED BY <1>7, <1>11, <1>12 DEF Building

\* A run that completes has had every stage completed.
LEMMA CompleteBuilt ==
    ASSUME IType, Building, Ownership, NEW w \in Workers, Complete(w)
    PROVE  Building'
<1> PICK k : k = worker[w]
  OBVIOUS
<1>1. k.pc = "closing" /\ Executing(w) /\ k.run \in Runs
  BY PlaceOf DEF Complete, Executing
<1>2. /\ worker' = [worker EXCEPT ![w] = IdleWorker] /\ UNCHANGED <<stage, request, nextRequest>>
      /\ run' = [run EXCEPT ![k.run] = Unowned("completed")]
  BY DEF Complete
<1>3. \A s \in Stages : stage[k.run][s].status = "completed"
  BY <1>1 DEF Building, WorkBuilt
<1>4. /\ \A o : WorkBuilt(o) => WorkBuilt(o)'
      /\ \A q, r, s : Mine(q, r, s) => Mine(q, r, s)'
      /\ NoneAhead'
  BY <1>2, StillBuilt DEF Building
<1>5. run'[k.run].status = "completed" /\ \A r \in Runs : r # k.run => run'[r] = run[r]
  BY <1>1, <1>2 DEF IType, TypeOK, Unowned
<1>6. ASSUME NEW r \in Runs, NEW s \in Stages PROVE RowBuilt(r, s)'
  <2>1. CASE r = k.run
    BY <1>2, <1>3, <1>4, <1>5, <2>1 DEF Building, RowBuilt, Whole
  <2>2. CASE r # k.run
    BY <1>2, <1>4, <1>5, <2>2 DEF Building, RowBuilt, Whole
  <2> QED BY <2>1, <2>2
<1>7. ASSUME NEW v \in Workers PROVE /\ Executing(v)' => WorkBuilt(worker[v])'
                                     /\ (worker[v].pc \in {"selected", "open"} => worker[v].stage = Discovery)'
  <2>1. CASE v = w
    BY <1>2, <2>1 DEF Executing, IdleWorker, IType, TypeOK
  <2>2. CASE v # w
    <3>1. PICK o : o = worker[v]
      OBVIOUS
    <3>2. worker'[v] = o
      BY <1>2, <2>2, <3>1 DEF IType, TypeOK
    <3>3. Executing(v)' => WorkBuilt(o)'
      BY <1>4, <3>1, <3>2 DEF Building, Executing
    <3> QED BY <3>1, <3>2, <3>3 DEF Building
  <2> QED BY <2>1, <2>2
<1> QED BY <1>4, <1>6, <1>7 DEF Building

\* Nobody executes a run that is started or retried.
LEMMA AdmittedBuilt ==
    ASSUME IType, Building, Ownership, NEW r \in Runs, Start(r) \/ Retry(r)
    PROVE  Building'
<1>1. /\ UNCHANGED <<worker, request, nextRequest>> /\ run' = [run EXCEPT ![r] = Unowned("queued")]
      /\ run[r].status \in {"absent", "failed"}
  BY ConstantsAssumption DEF Start, Retry
<1>2. run \in [Runs -> RunRow] /\ stage \in [Runs -> [Stages -> StageRow]]
  BY DEF IType, TypeOK
<1>3. run'[r].status = "queued" /\ \A p \in Runs : p # r => run'[p] = run[p] /\ stage'[p] = stage[p]
  BY <1>1, <1>2 DEF Start, Retry, Unowned
<1>4. /\ \A q, p, s : Mine(q, p, s) => Mine(q, p, s)'
      /\ NoneAhead'
  BY <1>1 DEF Mine, NoneAhead, Building
<1>5. ASSUME NEW v \in Workers PROVE /\ Executing(v)' => WorkBuilt(worker[v])'
                                     /\ (worker[v].pc \in {"selected", "open"} => worker[v].stage = Discovery)'
  <2>1. PICK o : o = worker[v]
    OBVIOUS
  <2>2. ASSUME Executing(v)' PROVE WorkBuilt(o)'
    <3>1. Executing(v) /\ WorkBuilt(o) /\ o.run \in Runs
      BY <1>1, <2>1, <2>2, PlaceOf DEF Executing, Building
    <3>2. run[o.run] = [status |-> "running", holder |-> v, lease |-> "live"]
      BY <2>1, <3>1 DEF Ownership
    <3>3. o.run # r
      BY <1>1, <3>2
    <3>4. stage'[o.run] = stage[o.run]
      BY <1>3, <3>1, <3>3
    <3> QED BY <1>4, <3>1, <3>4 DEF WorkBuilt
  <2>3. worker'[v] = o
    BY <1>1, <2>1
  <2> QED BY <1>1, <2>1, <2>2, <2>3 DEF Building
<1>6. ASSUME NEW p \in Runs, NEW s \in Stages, p # r PROVE RowBuilt(p, s)'
  BY <1>1, <1>3, <1>4, <1>6 DEF Building, RowBuilt, Whole
<1>7. ASSUME NEW s \in Stages PROVE RowBuilt(r, s)'
  <2>1. CASE Start(r)
    <3>1. stage'[r][s] = FreshStage
      BY <1>2, <2>1 DEF Start
    <3> QED BY <1>3, <3>1 DEF RowBuilt, FreshStage
  <2>2. CASE Retry(r)
    <3>1. PICK f : f = RetriedStage(r)
      OBVIOUS
    <3>2. stage' = [stage EXCEPT ![r][f].status = "pending"]
      BY <2>2, <3>1 DEF Retry
    <3>3. f \in Stages
      BY <2>2, <3>1, RetriedStageType DEF Retry
    <3>4. CASE s # f
      <4>1. stage'[r][s] = stage[r][s]
        BY <1>2, <3>2, <3>4
      <4> QED BY <1>3, <1>4, <4>1 DEF Building, RowBuilt, Whole
    <3>5. CASE s = f
      <4>0. stage[r][s].status = "failed"
        BY <2>2, <3>1, <3>5, RetriedStageType DEF Retry, FailedStages
      <4>1. /\ stage'[r][s].status = "pending" /\ stage'[r][s].active = stage[r][s].active
            /\ stage'[r][s].saved = stage[r][s].saved /\ stage[r][s].status = "failed"
        BY <1>2, <3>2, <3>3, <3>5, <4>0 DEF StageRow
      <4> QED BY <1>3, <1>4, <4>1 DEF Building, RowBuilt
    <3> QED BY <3>4, <3>5
  <2> QED BY <2>1, <2>2
<1> QED BY <1>4, <1>5, <1>6, <1>7 DEF Building

\* Whatever happens, what is built stays built on whole output.
LEMMA BuildingStep ==
    ASSUME IType, Building, Ownership, [Next]_vars
    PROVE  Building'
<1>1. ASSUME NEW r \in Runs, LeaseExpires(r) \/ Pause(r) PROVE Building'
  <2>1. UNCHANGED <<stage, request, nextRequest, worker>>
    BY <1>1 DEF LeaseExpires, Pause
  <2>2. run' = [run EXCEPT ![r].lease = "expired"] /\ run \in [Runs -> RunRow]
    BY <1>1 DEF LeaseExpires, Pause, IType, TypeOK
  <2>3. \A p \in Runs : run'[p].status = run[p].status
    BY <2>2 DEF RunRow
  <2> QED BY <2>1, <2>3, NobodyBuilt
<1>2. CASE \/ \E o \in Owners : RequestClosure(o)
           \/ \E q \in Requests : ProviderCompletes(q) \/ ProviderEnds(q) \/ Vanish(q)
           \/ UNCHANGED vars
  <2>1. UNCHANGED <<run, stage, request, nextRequest, worker>>
    BY <1>2 DEF RequestClosure, ProviderCompletes, ProviderEnds, Vanish, dbVars, vars
  <2> QED BY <2>1, NobodyBuilt
<1>3. ASSUME NEW w \in Workers, WorkerStep(w) \/ FaultStep(w) PROVE Building'
  <2>1. \/ QuietStep(w) \/ BeginStage(w) \/ CompleteSummaries(w)
        \/ (Retrieve(w) /\ job[worker[w].cur] = "gone") \/ Discard(w) \/ Persist(w)
        \/ Save(w) \/ FailCommit(w) \/ Submit(w) \/ Complete(w)
    BY <1>3 DEF QuietStep, WorkerStep, StageStep
  <2> QED
    BY <2>1, QuietStepBuilt, BeginBuilt, CompleteSummariesBuilt, LostResponseBuilt,
       PersistBuilt, SaveBuilt, FailBuilt, SubmitBuilt, CompleteBuilt
<1> QED BY <1>1, <1>2, <1>3, AdmittedBuilt DEF Next

-----------------------------------------------------------------------------
(* What a step adds to the output of a run *)

\* No output is added, taken or accepted, and no request is made.
NothingSaved ==
    /\ \A r \in Runs, s \in Stages : stage'[r][s].saved = stage[r][s].saved
    /\ \A q \in Requests : /\ request'[q].run = request[q].run /\ request'[q].stage = request[q].stage
                           /\ request'[q].outcome = "accepted" <=> request[q].outcome = "accepted"
    /\ UNCHANGED nextRequest

\* The summaries of a run begin, with none saved.
SummariesOpened(r) ==
    /\ stage[r][Summaries].saved = NoData /\ stage'[r][Summaries].saved = 0
    /\ \A p \in Runs, t \in Stages : p # r \/ t # Summaries => stage'[p][t].saved = stage[p][t].saved
    /\ UNCHANGED <<request, nextRequest>>

\* A unit of a stage is saved, with the request it came from.
UnitSaved(r, s, q) ==
    /\ Mine(q, r, s)
    /\ IF s = Summaries
       THEN stage[r][s].saved \in 0 .. Batches - 1 /\ stage'[r][s].saved = stage[r][s].saved + 1
       ELSE stage[r][s].saved = NoData /\ stage'[r][s].saved = 1
    /\ \A p \in Runs, t \in Stages : p # r \/ t # s => stage'[p][t].saved = stage[p][t].saved
    /\ request' = [request EXCEPT ![q].outcome = "accepted"]
    /\ UNCHANGED nextRequest

\* A stage is written while all of what comes before it is completed.
Founded(r, s) ==
    /\ run[r].status = "running"
    /\ \A t \in Stages : t < s => stage[r][t].saved = Full(t)

\* Where a worker works, the stages before have all of their output.
LEMMA FoundedHere ==
    ASSUME IType, Building, Ownership, NEW w \in Workers, NEW k, k = worker[w], k.pc \in Working
    PROVE  Founded(k.run, k.stage)
<1>1. WorkBuilt(k) /\ k.run \in Runs /\ run[k.run].status = "running"
  BY RowInHand
<1>2. ASSUME NEW t \in Stages, t < k.stage PROVE stage[k.run][t].saved = Full(t)
  <2>1. stage[k.run][t].status = "completed" /\ RowBuilt(k.run, t)
    BY <1>1, <1>2 DEF WorkBuilt, Building
  <2> QED BY <2>1 DEF RowBuilt, Whole
<1> QED BY <1>1, <1>2 DEF Founded

\* A write of a row that keeps its saved output saves nothing.
LEMMA KeptSaved ==
    ASSUME IType, Building, Ownership, NEW w \in Workers, NEW k, k = worker[w], k.pc \in Working,
           NEW new \in StageRow, Write(w, new), new.saved = k.view.saved,
           \A q \in Requests : /\ request'[q].run = request[q].run /\ request'[q].stage = request[q].stage
                               /\ request'[q].outcome = "accepted" <=> request[q].outcome = "accepted",
           UNCHANGED nextRequest
    PROVE  NothingSaved
<1> PICK r \in Runs : r = k.run
  BY RowInHand
<1>1. /\ stage'[r][k.stage] = new /\ \A t \in Stages : t # k.stage => stage'[r][t] = stage[r][t]
      /\ \A p \in Runs : p # r => stage'[p] = stage[p]
  BY WritesRow
<1>2. k.view = stage[r][k.stage]
  BY RowInHand
<1>3. ASSUME NEW p \in Runs, NEW t \in Stages PROVE stage'[p][t].saved = stage[p][t].saved
  BY <1>1, <1>2
<1> QED BY <1>3 DEF NothingSaved

\* A worker's quiet steps, and what happens around the workers, save nothing.
LEMMA QuietSaves ==
    ASSUME IType, Building, Ownership,
           \/ \E w \in Workers : QuietStep(w) \/ Complete(w)
           \/ \E r \in Runs : Start(r) \/ Retry(r) \/ LeaseExpires(r) \/ Pause(r)
           \/ \E o \in Owners : RequestClosure(o)
           \/ \E q \in Requests : ProviderCompletes(q) \/ ProviderEnds(q) \/ Vanish(q)
           \/ UNCHANGED vars
    PROVE  NothingSaved
<1>1. ASSUME NEW w \in Workers, QuietStep(w) PROVE NothingSaved
  BY <1>1, QuietTables DEF NothingSaved
<1>2. ASSUME NEW r \in Runs, Start(r) PROVE NothingSaved
  <2>1. run[r].status = "absent" /\ UNCHANGED <<request, nextRequest>>
        /\ stage' = [stage EXCEPT ![r] = [s \in Stages |-> FreshStage]]
    BY <1>2, ConstantsAssumption DEF Start
  <2>2. ASSUME NEW p \in Runs, NEW s \in Stages PROVE stage'[p][s].saved = stage[p][s].saved
    <3>1. CASE p = r
      <4>1. stage'[p][s] = FreshStage /\ stage[p][s].saved = NoData
        BY <2>1, <3>1 DEF IType, TypeOK, Building, RowBuilt
      <4> QED BY <4>1 DEF FreshStage
    <3>2. CASE p # r
      BY <2>1, <3>2 DEF IType, TypeOK
    <3> QED BY <3>1, <3>2
  <2> QED BY <2>1, <2>2 DEF NothingSaved
<1>3. ASSUME NEW r \in Runs, Retry(r) PROVE NothingSaved
  <2>1. PICK f \in Stages : stage' = [stage EXCEPT ![r][f].status = "pending"]
    BY <1>3, RetriedStageType DEF Retry
  <2>2. stage \in [Runs -> [Stages -> StageRow]]
    BY DEF IType, TypeOK
  <2>3. ASSUME NEW p \in Runs, NEW s \in Stages PROVE stage'[p][s].saved = stage[p][s].saved
    <3>1. CASE p = r /\ s = f
      BY <2>1, <2>2, <3>1 DEF StageRow
    <3>2. CASE p # r \/ s # f
      BY <2>1, <2>2, <3>2
    <3> QED BY <3>1, <3>2
  <2> QED BY <1>3, <2>3 DEF NothingSaved, Retry
<1>4. CASE \/ \E w \in Workers : Complete(w)
           \/ \E r \in Runs : LeaseExpires(r) \/ Pause(r)
           \/ \E o \in Owners : RequestClosure(o)
           \/ \E q \in Requests : ProviderCompletes(q) \/ ProviderEnds(q) \/ Vanish(q)
           \/ UNCHANGED vars
  <2>1. UNCHANGED <<stage, request, nextRequest>>
    BY <1>4 DEF Complete, LeaseExpires, Pause, RequestClosure, ProviderCompletes, ProviderEnds, Vanish,
          dbVars, vars
  <2> QED BY <2>1 DEF NothingSaved
<1> QED BY <1>1, <1>2, <1>3, <1>4

\* Beginning a stage saves nothing, except that the summaries then count from 0.
LEMMA BeginSaves ==
    ASSUME IType, Building, Ownership, NEW w \in Workers, BeginStage(w)
    PROVE  \/ NothingSaved
           \/ \E r \in Runs : SummariesOpened(r) /\ Founded(r, Summaries)
<1> PICK k : k = worker[w]
  OBVIOUS
<1> PICK new : new = Begun(k.view, k.stage)
  OBVIOUS
<1>1. k.pc = "begin" /\ k.pc \in Working
  BY DEF BeginStage, Working
<1>2. Write(w, new) /\ UNCHANGED <<run, request, nextRequest>>
  BY DEF BeginStage
<1>3. PICK r \in Runs : r = k.run
  BY <1>1, RowInHand
<1>4. k.view \in StageRow /\ k.view = stage[r][k.stage] /\ Founded(r, k.stage)
  BY <1>1, <1>3, RowInHand, FoundedHere
<1>5. PICK n : n = IF k.stage = Summaries /\ k.view.saved = NoData THEN 0 ELSE k.view.saved
  OBVIOUS
<1>6. new = [k.view EXCEPT !.status = "running", !.saved = n]
  BY <1>5 DEF Begun
<1>7. n \in {NoData, 1} \cup (0 .. Batches)
  BY <1>4, <1>5, StageNumbers DEF StageRow
<1>8. new \in StageRow /\ new.saved = n
  BY <1>4, <1>6, <1>7 DEF StageRow
<1>9. CASE ~(k.stage = Summaries /\ k.view.saved = NoData)
  <2>1. new.saved = k.view.saved
    BY <1>5, <1>8, <1>9
  <2> QED BY <1>1, <1>2, <1>8, <2>1, KeptSaved
<1>10. CASE k.stage = Summaries /\ k.view.saved = NoData
  <2>1. /\ stage'[r][k.stage] = new /\ \A t \in Stages : t # k.stage => stage'[r][t] = stage[r][t]
        /\ \A p \in Runs : p # r => stage'[p] = stage[p]
    BY <1>1, <1>2, <1>3, <1>8, WritesRow
  <2>2. ASSUME NEW p \in Runs, NEW t \in Stages, p # r \/ t # Summaries
        PROVE  stage'[p][t].saved = stage[p][t].saved
    BY <1>10, <2>1, <2>2
  <2>3. SummariesOpened(r)
    BY <1>2, <1>4, <1>5, <1>8, <1>10, <2>1, <2>2 DEF SummariesOpened
  <2> QED BY <1>4, <1>10, <2>3
<1> QED BY <1>9, <1>10

\* A save adds one unit to its stage, accepted of the request it waited for.
LEMMA SaveSaves ==
    ASSUME IType, Building, Ownership, NEW w \in Workers, Save(w)
    PROVE  \E r \in Runs, s \in Stages, q \in Requests : UnitSaved(r, s, q) /\ Founded(r, s)
<1> PICK k : k = worker[w]
  OBVIOUS
<1> PICK new : new = Accepted(k.view, k.stage)
  OBVIOUS
<1>1. k.pc = "accept" /\ k.pc \in Working /\ k.pc \in Requesting
  BY DEF Save, Working, Requesting
<1>2. /\ Write(w, new) /\ UNCHANGED nextRequest /\ Unclaimed(k.run, k.stage)
      /\ request' = [request EXCEPT ![k.cur].outcome = "accepted"]
  BY DEF Save
<1>3. PICK r \in Runs : r = k.run
  BY <1>1, RowInHand
<1>4. /\ k.view \in StageRow /\ k.view = stage[r][k.stage] /\ Founded(r, k.stage) /\ k.stage \in Stages
      /\ WorkBuilt(k) /\ GoodPlace(k)
  BY <1>1, <1>3, RowInHand, FoundedHere
<1>5. Mine(k.cur, r, k.stage) /\ k.cur \in Requests
  BY <1>1, <1>3, <1>4 DEF WorkBuilt, Mine
<1>6. /\ new \in StageRow
      /\ IF k.stage = Summaries
         THEN stage[r][k.stage].saved \in 0 .. Batches - 1 /\ new.saved = stage[r][k.stage].saved + 1
         ELSE stage[r][k.stage].saved = NoData /\ new.saved = 1
  <2>1. CASE k.stage = Summaries
    <3>1. k.view.saved \in 0 .. Batches - 1
      BY <1>1, <1>4, <2>1 DEF GoodPlace
    <3>2. PICK n \in 1 .. Batches : n = k.view.saved + 1
      BY <3>1, StageNumbers
    <3>3. new = [k.view EXCEPT !.saved = n, !.active = NoResponse]
      BY <2>1, <3>2 DEF Accepted
    <3>4. n \in {NoData, 1} \cup (0 .. Batches)
      BY <3>2, StageNumbers
    <3>5. new \in StageRow /\ new.saved = n
      BY <1>4, <3>3, <3>4 DEF StageRow
    <3> QED BY <1>4, <2>1, <3>1, <3>2, <3>5
  <2>2. CASE k.stage # Summaries
    <3>1. new = [k.view EXCEPT !.status = "completed", !.saved = 1, !.active = NoResponse]
      BY <2>2 DEF Accepted
    <3>2. new \in StageRow /\ new.saved = 1
      BY <1>4, <3>1 DEF StageRow
    <3>3. stage[r][k.stage].saved = NoData
      <4>1. CASE k.stage = Discovery
        <5>1. k.pc # "open" /\ WorkBuilt(k)
          BY <1>1, <1>4
        <5> QED BY <1>3, <4>1, <5>1 DEF WorkBuilt
      <4>2. CASE k.stage # Discovery
        <5>1. Unclaimed(r, k.stage) /\ k.stage \in Stages
          BY <1>2, <1>3, <1>4
        <5>2. k.stage \in {Trends, Briefing}
          BY <2>2, <4>2, <5>1, StageNumbers
        <5> QED BY <5>1, <5>2 DEF Unclaimed
      <4> QED BY <4>1, <4>2
    <3> QED BY <2>2, <3>2, <3>3
  <2> QED BY <2>1, <2>2
<1>7. /\ stage'[r][k.stage] = new /\ \A t \in Stages : t # k.stage => stage'[r][t] = stage[r][t]
      /\ \A p \in Runs : p # r => stage'[p] = stage[p]
  BY <1>1, <1>2, <1>3, <1>6, WritesRow
<1>8. ASSUME NEW p \in Runs, NEW t \in Stages, p # r \/ t # k.stage
      PROVE  stage'[p][t].saved = stage[p][t].saved
  BY <1>7, <1>8
<1>9. UnitSaved(r, k.stage, k.cur)
  BY <1>2, <1>5, <1>6, <1>7, <1>8 DEF UnitSaved
<1> QED BY <1>4, <1>5, <1>9

\* The other writes of a stage's row keep its output as it is.
LEMMA WriteSaves ==
    ASSUME IType, Building, Ownership, NEW w \in Workers,
           \/ CompleteSummaries(w) \/ (Retrieve(w) /\ job[worker[w].cur] = "gone") \/ Discard(w)
           \/ Persist(w) \/ FailCommit(w)
    PROVE  NothingSaved
<1> PICK k : k = worker[w]
  OBVIOUS
<1>1. k.pc \in Working
  BY DEF CompleteSummaries, Retrieve, Discard, Persist, FailCommit, Working, Requesting
<1>2. k.view \in StageRow /\ k.cur \in Requests \cup {NoResponse} /\ request \in [Requests -> Row]
  BY <1>1, RowInHand
<1>3. CASE CompleteSummaries(w)
  <2>1. PICK new : new = [k.view EXCEPT !.status = "completed"]
    OBVIOUS
  <2>2. Write(w, new) /\ UNCHANGED <<request, nextRequest>>
    BY <1>3, <2>1 DEF CompleteSummaries
  <2>3. new \in StageRow /\ new.saved = k.view.saved
    BY <1>2, <2>1 DEF StageRow
  <2> QED BY <1>1, <2>2, <2>3, KeptSaved
<1>4. CASE (Retrieve(w) /\ job[worker[w].cur] = "gone") \/ Discard(w)
  <2>1. PICK new : new = [k.view EXCEPT !.active = NoResponse]
    OBVIOUS
  <2>2. Write(w, new) /\ UNCHANGED <<request, nextRequest>>
    BY <1>4, <2>1 DEF Retrieve, Discard
  <2>3. new \in StageRow /\ new.saved = k.view.saved
    BY <1>2, <2>1 DEF StageRow
  <2> QED BY <1>1, <2>2, <2>3, KeptSaved
<1>5. CASE Persist(w)
  <2>1. PICK new : new = [k.view EXCEPT !.active = k.cur]
    OBVIOUS
  <2>2. Write(w, new) /\ UNCHANGED nextRequest /\ request' = [request EXCEPT ![k.cur].known = TRUE]
    BY <1>5, <2>1 DEF Persist
  <2>3. new \in StageRow /\ new.saved = k.view.saved
    BY <1>2, <2>1 DEF StageRow
  <2>4. \A q \in Requests : /\ request'[q].run = request[q].run /\ request'[q].stage = request[q].stage
                            /\ request'[q].outcome = request[q].outcome
    BY <1>2, <2>2 DEF Row
  <2> QED BY <1>1, <2>2, <2>3, <2>4, KeptSaved
<1>6. CASE FailCommit(w)
  <2>1. PICK new : new = Failed(k.view, k.drop)
    OBVIOUS
  <2>2. Write(w, new) /\ UNCHANGED nextRequest /\ request' = RejectLatest(k.run, k.stage)
    BY <1>6, <2>1 DEF FailCommit
  <2>3. new \in StageRow /\ new.saved = k.view.saved
    BY <1>2, <2>1 DEF Failed, StageRow
  <2>4. \A q \in Requests : /\ request'[q].run = request[q].run /\ request'[q].stage = request[q].stage
                            /\ request'[q].outcome = "accepted" <=> request[q].outcome = "accepted"
    BY <2>2, RejectKeeps
  <2> QED BY <1>1, <2>2, <2>3, <2>4, KeptSaved
<1> QED BY <1>3, <1>4, <1>5, <1>6

\* A step saves nothing, opens the summaries, requests something or saves a unit.
LEMMA Outputs ==
    ASSUME IType, Building, Ownership, [Next]_vars
    PROVE  \/ NothingSaved
           \/ \E r \in Runs : SummariesOpened(r) /\ Founded(r, Summaries)
           \/ \E w \in Workers : Submit(w)
           \/ \E r \in Runs, s \in Stages, q \in Requests : UnitSaved(r, s, q) /\ Founded(r, s)
<1>1. ASSUME NEW w \in Workers, WorkerStep(w) \/ FaultStep(w)
      PROVE  \/ QuietStep(w) \/ BeginStage(w) \/ CompleteSummaries(w)
             \/ (Retrieve(w) /\ job[worker[w].cur] = "gone") \/ Discard(w) \/ Persist(w)
             \/ Save(w) \/ FailCommit(w) \/ Submit(w) \/ Complete(w)
  BY <1>1 DEF QuietStep, WorkerStep, StageStep
<1>2. \/ \E w \in Workers : WorkerStep(w) \/ FaultStep(w)
      \/ \E r \in Runs : Start(r) \/ Retry(r) \/ LeaseExpires(r) \/ Pause(r)
      \/ \E o \in Owners : RequestClosure(o)
      \/ \E q \in Requests : ProviderCompletes(q) \/ ProviderEnds(q) \/ Vanish(q)
      \/ UNCHANGED vars
  BY DEF Next
<1> QED BY <1>1, <1>2, QuietSaves, BeginSaves, SaveSaves, WriteSaves

-----------------------------------------------------------------------------
(* Order and payment *)

\* No row is ahead of what it is built on.
InOrder ==
    \A r \in Runs, s, t \in Stages :
        /\ t < s
        /\ \/ stage[r][s].saved # NoData
           \/ \E q \in Requests : request[q].run = r /\ request[q].stage = s
        => stage[r][t].saved = Full(t)

LEMMA FullNumbers ==
    /\ \A s \in Stages : Full(s) \in Nat /\ Full(s) # NoData
    /\ Full(Summaries) = Batches /\ \A s \in Stages : s # Summaries => Full(s) = 1
BY StageNumbers DEF Full

\* A worker's new request is a request of its stage.
LEMMA Requested ==
    ASSUME IType, Building, Ownership, NEW w \in Workers, Submit(w)
    PROVE  \E r \in Runs, s \in Stages, q \in Requests :
              /\ Founded(r, s) /\ q = nextRequest /\ nextRequest' = q + 1 /\ UNCHANGED stage
              /\ request' = [request EXCEPT ![q] = NewRow(r, s)]
<1>1. worker[w].pc \in Working /\ nextRequest \in Requests
  <2>1. nextRequest \in 1 .. MaxRequests + 1 /\ nextRequest <= MaxRequests
    BY DEF Submit, IType, TypeOK
  <2> QED BY <2>1, StageNumbers DEF Submit, Working, Requesting, Requests
<1>2. PICK r \in Runs, s \in Stages : r = worker[w].run /\ s = worker[w].stage
  BY <1>1, RowInHand
<1>3. Founded(r, s)
  BY <1>1, <1>2, FoundedHere
<1> QED BY <1>1, <1>2, <1>3 DEF Submit

LEMMA InOrderStep ==
    ASSUME IType, Building, Ownership, InOrder, [Next]_vars
    PROVE  InOrder'
<1> SUFFICES ASSUME NEW r \in Runs, NEW s \in Stages, NEW t \in Stages, t < s,
                    \/ stage'[r][s].saved # NoData
                    \/ \E q \in Requests : request'[q].run = r /\ request'[q].stage = s
             PROVE  stage'[r][t].saved = Full(t)
  BY DEF InOrder
<1>1. CASE NothingSaved
  BY <1>1 DEF NothingSaved, InOrder
<1>2. ASSUME NEW p \in Runs, SummariesOpened(p), Founded(p, Summaries)
      PROVE  stage'[r][t].saved = Full(t)
  <2>1. stage[r][t].saved = Full(t)
    <3>1. CASE r = p /\ s = Summaries
      BY <1>2, <3>1 DEF Founded
    <3>2. CASE r # p \/ s # Summaries
      BY <1>2, <3>2 DEF SummariesOpened, InOrder
    <3> QED BY <3>1, <3>2
  <2>2. r # p \/ t # Summaries
    BY <1>2, <2>1, FullNumbers DEF SummariesOpened
  <2> QED BY <1>2, <2>1, <2>2 DEF SummariesOpened
<1>3. ASSUME NEW w \in Workers, Submit(w) PROVE stage'[r][t].saved = Full(t)
  <2>1. PICK p \in Runs, u \in Stages, q \in Requests :
              /\ Founded(p, u) /\ UNCHANGED stage
              /\ request' = [request EXCEPT ![q] = NewRow(p, u)]
    BY <1>3, Requested
  <2>2. CASE r = p /\ s = u
    BY <2>1, <2>2 DEF Founded
  <2>3. CASE r # p \/ s # u
    <3>1. request'[q] = NewRow(p, u) /\ \A o \in Requests : o # q => request'[o] = request[o]
      BY <2>1 DEF IType, TypeOK
    <3>2. \/ stage[r][s].saved # NoData
          \/ \E o \in Requests : request[o].run = r /\ request[o].stage = s
      BY <2>1, <2>3, <3>1 DEF NewRow
    <3> QED BY <2>1, <3>2 DEF InOrder
  <2> QED BY <2>2, <2>3
<1>4. ASSUME NEW p \in Runs, NEW u \in Stages, NEW q \in Requests, UnitSaved(p, u, q), Founded(p, u)
      PROVE  stage'[r][t].saved = Full(t)
  <2>1. stage[r][t].saved = Full(t)
    <3>1. CASE r = p /\ s = u
      BY <1>4, <3>1 DEF Founded
    <3>2. CASE r # p \/ s # u
      <4>1. \A o \in Requests : request'[o].run = request[o].run /\ request'[o].stage = request[o].stage
        BY <1>4 DEF UnitSaved, IType, TypeOK, Row
      <4> QED BY <1>4, <3>2, <4>1 DEF UnitSaved, InOrder
    <3> QED BY <3>1, <3>2
  <2>2. stage[p][u].saved # Full(u)
    BY <1>4, FullNumbers, StageNumbers DEF UnitSaved
  <2> QED BY <1>4, <2>1, <2>2 DEF UnitSaved
<1> QED BY <1>1, <1>2, <1>3, <1>4, Outputs

\* What was accepted for a stage is what is saved of it.
PaidOnce(r, s) ==
    Cardinality(AcceptedRequests(r, s)) =
        IF stage[r][s].saved = NoData THEN 0 ELSE stage[r][s].saved

\* Accepting a request counts it once.
LEMMA OneMore ==
    ASSUME NEW r, NEW s, NEW q \in Requests, q \notin AcceptedRequests(r, s),
           AcceptedRequests(r, s)' = AcceptedRequests(r, s) \cup {q}
    PROVE  /\ Cardinality(AcceptedRequests(r, s)') = Cardinality(AcceptedRequests(r, s)) + 1
           /\ Cardinality(AcceptedRequests(r, s)) \in Nat
<1>1. IsFiniteSet(Requests)
  BY StageNumbers, FS_Interval DEF Requests
<1>2. IsFiniteSet(AcceptedRequests(r, s))
  BY <1>1, FS_Subset DEF AcceptedRequests
<1> QED BY <1>2, FS_AddElement, FS_CardinalityType

LEMMA PaidOnceStep ==
    ASSUME IType, Building, Ownership, SavedWorkIsPaidOnce, [Next]_vars
    PROVE  SavedWorkIsPaidOnce'
<1> SUFFICES ASSUME NEW r \in Runs, NEW s \in Stages PROVE PaidOnce(r, s)'
  BY DEF SavedWorkIsPaidOnce, PaidOnce
<1>1. PaidOnce(r, s)
  BY DEF SavedWorkIsPaidOnce, PaidOnce
<1>2. request \in [Requests -> Row] /\ stage \in [Runs -> [Stages -> StageRow]]
  BY DEF IType, TypeOK
<1>3. CASE NothingSaved
  <2>1. AcceptedRequests(r, s)' = AcceptedRequests(r, s)
    BY <1>3 DEF NothingSaved, AcceptedRequests
  <2> QED BY <1>1, <1>3, <2>1 DEF NothingSaved, PaidOnce
<1>4. ASSUME NEW p \in Runs, SummariesOpened(p) PROVE PaidOnce(r, s)'
  <2>1. AcceptedRequests(r, s)' = AcceptedRequests(r, s)
    BY <1>4 DEF SummariesOpened, AcceptedRequests
  <2>2. CASE r = p /\ s = Summaries
    BY <1>1, <1>4, <2>1, <2>2, StageNumbers DEF SummariesOpened, PaidOnce
  <2>3. CASE r # p \/ s # Summaries
    BY <1>1, <1>4, <2>1, <2>3 DEF SummariesOpened, PaidOnce
  <2> QED BY <2>2, <2>3
<1>5. ASSUME NEW w \in Workers, Submit(w) PROVE PaidOnce(r, s)'
  <2>1. PICK p \in Runs, u \in Stages, q \in Requests :
              /\ q = nextRequest /\ UNCHANGED stage
              /\ request' = [request EXCEPT ![q] = NewRow(p, u)]
    BY <1>5, Requested
  <2>2. request[q].run \notin Runs
    BY <2>1, ConstantsAssumption DEF Building, NoneAhead, NoRun, Requests
  <2>3. request'[q].outcome = "unconfirmed" /\ \A o \in Requests : o # q => request'[o] = request[o]
    BY <1>2, <2>1 DEF NewRow
  <2>4. AcceptedRequests(r, s)' = AcceptedRequests(r, s)
    BY <2>2, <2>3 DEF AcceptedRequests
  <2> QED BY <1>1, <2>1, <2>4 DEF PaidOnce
<1>6. ASSUME NEW p \in Runs, NEW u \in Stages, NEW q \in Requests, UnitSaved(p, u, q)
      PROVE  PaidOnce(r, s)'
  <2>1. /\ request[q].run = p /\ request[q].stage = u /\ request[q].outcome # "accepted"
        /\ request'[q].run = p /\ request'[q].stage = u /\ request'[q].outcome = "accepted"
        /\ \A o \in Requests : o # q => request'[o] = request[o]
    BY <1>2, <1>6 DEF UnitSaved, Mine, Row
  <2>2. CASE r = p /\ s = u
    <3>1. /\ AcceptedRequests(r, s)' = AcceptedRequests(r, s) \cup {q}
          /\ q \notin AcceptedRequests(r, s)
      BY <2>1, <2>2 DEF AcceptedRequests
    <3>2. Cardinality(AcceptedRequests(r, s)') = Cardinality(AcceptedRequests(r, s)) + 1
      BY <3>1, OneMore
    <3> QED BY <1>1, <1>6, <2>2, <3>2, StageNumbers DEF UnitSaved, PaidOnce
  <2>3. CASE r # p \/ s # u
    <3>1. AcceptedRequests(r, s)' = AcceptedRequests(r, s)
      BY <2>1, <2>3 DEF AcceptedRequests
    <3> QED BY <1>1, <1>6, <2>3, <3>1 DEF UnitSaved, PaidOnce
  <2> QED BY <2>2, <2>3
<1> QED BY <1>3, <1>4, <1>5, <1>6, Outputs

\* While leases are renewed in time, the rows are what the workers built.
LEMMA BuildingInvariant ==
    ASSUME Timely
    PROVE  Spec => [](Ownership /\ Building)
<1>1. Init => Ownership
  BY DEF Init, Ownership, Executing, IdleWorker
<1>2. Init => Building
  BY DEF Init, Building, RowBuilt, Whole, NoneAhead, Executing, IdleWorker, FreshStage, Unowned, NewRow
<1>3. IType /\ Ownership /\ Building /\ [Next]_vars => (Ownership /\ Building)'
  BY OwnershipStep, BuildingStep
<1> QED BY <1>1, <1>2, <1>3, TypeInvariant, PTL DEF Spec

\* A completed run has all of every stage's output and waits for nothing, and no
\* stage is requested or saved before what it reads is whole: checkpoints taken
\* from earlier attempts and other workers fit together.
THEOREM WholeOutput ==
    ASSUME Timely
    PROVE  Spec => []BuiltOnWholeOutput
<1>1. Init => InOrder
  BY ConstantsAssumption DEF Init, InOrder, FreshStage, NewRow, NoRun
<1>2. IType /\ Ownership /\ Building /\ InOrder /\ [Next]_vars => InOrder'
  BY InOrderStep
<1>3. Building /\ InOrder => BuiltOnWholeOutput
  BY DEF Building, RowBuilt, Whole, InOrder, BuiltOnWholeOutput
<1> QED BY <1>1, <1>2, <1>3, TypeInvariant, BuildingInvariant, PTL DEF Spec

\* Every saved unit of a stage was accepted from a request of its own, and every
\* accepted request's output is saved.
THEOREM PaidOnceForEach ==
    ASSUME Timely
    PROVE  Spec => []SavedWorkIsPaidOnce
<1>1. Init => SavedWorkIsPaidOnce
  <2>1. ASSUME Init, NEW r \in Runs, NEW s \in Stages PROVE PaidOnce(r, s)
    <3>1. AcceptedRequests(r, s) = {}
      BY <2>1 DEF Init, AcceptedRequests, NewRow
    <3> QED BY <2>1, <3>1, FS_EmptySet DEF Init, FreshStage, PaidOnce
  <2> QED BY <2>1 DEF SavedWorkIsPaidOnce, PaidOnce
<1>2. IType /\ Ownership /\ Building /\ SavedWorkIsPaidOnce /\ [Next]_vars => SavedWorkIsPaidOnce'
  BY PaidOnceStep
<1> QED BY <1>1, <1>2, TypeInvariant, BuildingInvariant, PTL DEF Spec

-----------------------------------------------------------------------------
(* The promise to the account *)

\* What the account sees of the runs.
Phases == [r \in Runs |-> run[r].status]
UnitsOf(r) == Units(stage[r][Discovery]) + Units(stage[r][Summaries])
              + Units(stage[r][Trends]) + Units(stage[r][Briefing])
Dones  == [r \in Runs |-> UnitsOf(r)]

\* Only a save adds to what is done of a run.
LEMMA DoneSteps ==
    ASSUME IType, Building, Ownership, [Next]_vars
    PROVE  Dones' = Dones \/ \E w \in Workers : Save(w)
<1>1. ASSUME \A r \in Runs, s \in Stages : Units(stage'[r][s]) = Units(stage[r][s])
      PROVE  Dones' = Dones
  <2>1. ASSUME NEW r \in Runs PROVE UnitsOf(r)' = UnitsOf(r)
    BY <1>1, StageNumbers DEF UnitsOf, Units
  <2> QED BY <2>1 DEF Dones
<1>2. CASE NothingSaved
  <2>1. \A r \in Runs, s \in Stages : Units(stage'[r][s]) = Units(stage[r][s])
    BY <1>2 DEF NothingSaved, Units
  <2> QED BY <1>1, <2>1
<1>3. ASSUME NEW p \in Runs, SummariesOpened(p) PROVE Dones' = Dones
  <2>1. ASSUME NEW r \in Runs, NEW s \in Stages PROVE Units(stage'[r][s]) = Units(stage[r][s])
    <3>1. CASE r = p /\ s = Summaries
      BY <1>3, <3>1, StageNumbers DEF SummariesOpened, Units
    <3>2. CASE r # p \/ s # Summaries
      BY <1>3, <3>2 DEF SummariesOpened, Units
    <3> QED BY <3>1, <3>2
  <2> QED BY <1>1, <2>1
<1>4. ASSUME NEW w \in Workers, Submit(w) PROVE Dones' = Dones
  <2>1. UNCHANGED stage
    BY <1>4 DEF Submit
  <2> QED BY <1>1, <2>1
<1>5. ASSUME NEW w \in Workers, WorkerStep(w) \/ FaultStep(w)
      PROVE  \/ QuietStep(w) \/ BeginStage(w) \/ CompleteSummaries(w)
             \/ (Retrieve(w) /\ job[worker[w].cur] = "gone") \/ Discard(w) \/ Persist(w)
             \/ Save(w) \/ FailCommit(w) \/ Submit(w) \/ Complete(w)
  BY <1>5 DEF QuietStep, WorkerStep, StageStep
<1>6. \/ \E w \in Workers : WorkerStep(w) \/ FaultStep(w)
      \/ \E r \in Runs : Start(r) \/ Retry(r) \/ LeaseExpires(r) \/ Pause(r)
      \/ \E o \in Owners : RequestClosure(o)
      \/ \E q \in Requests : ProviderCompletes(q) \/ ProviderEnds(q) \/ Vanish(q)
      \/ UNCHANGED vars
  BY DEF Next
<1> QED BY <1>2, <1>3, <1>4, <1>5, <1>6, QuietSaves, BeginSaves, WriteSaves

\* A unit that is saved was missing, and is one of what its run has in all.
LEMMA UnitAdds ==
    ASSUME IType, InOrder, NEW r \in Runs, NEW s \in Stages, NEW q,
           UnitSaved(r, s, q), Founded(r, s)
    PROVE  UnitsOf(r) \in Nat /\ UnitsOf(r) < Batches + 3 /\ UnitsOf(r)' = UnitsOf(r) + 1
<1>1. ASSUME NEW t \in Stages, t < s PROVE Units(stage[r][t]) = Full(t)
  BY <1>1, FullNumbers DEF Founded, Units
<1>2. ASSUME NEW t \in Stages, s < t PROVE Units(stage[r][t]) = 0
  <2>1. stage[r][s].saved # Full(s)
    BY FullNumbers, StageNumbers DEF UnitSaved
  <2>2. stage[r][t].saved = NoData
    BY <1>2, <2>1 DEF InOrder
  <2> QED BY <2>2 DEF Units
<1>3. /\ Units(stage[r][s]) \in 0 .. Full(s) - 1
      /\ Units(stage'[r][s]) = Units(stage[r][s]) + 1
  <2>1. CASE s = Summaries
    BY <2>1, FullNumbers, StageNumbers DEF UnitSaved, Units
  <2>2. CASE s # Summaries
    BY <2>2, FullNumbers, StageNumbers DEF UnitSaved, Units
  <2> QED BY <2>1, <2>2
<1>4. \A t \in Stages : t # s => Units(stage'[r][t]) = Units(stage[r][t])
  BY DEF UnitSaved, Units
<1>5. /\ UnitsOf(r) = Units(stage[r][1]) + Units(stage[r][2]) + Units(stage[r][3]) + Units(stage[r][4])
      /\ UnitsOf(r)' = Units(stage'[r][1]) + Units(stage'[r][2]) + Units(stage'[r][3]) + Units(stage'[r][4])
  BY StageNumbers DEF UnitsOf
<1>6. Full(1) = 1 /\ Full(2) = Batches /\ Full(3) = 1 /\ Full(4) = 1 /\ Batches \in Nat
  BY FullNumbers, StageNumbers
<1>7. CASE s = 1
  <2>1. Units(stage[r][2]) = 0 /\ Units(stage[r][3]) = 0 /\ Units(stage[r][4]) = 0
    BY <1>2, <1>7, StageNumbers
  <2> QED BY <1>3, <1>4, <1>5, <1>6, <1>7, <2>1, StageNumbers
<1>8. CASE s = 2
  <2>1. Units(stage[r][1]) = 1 /\ Units(stage[r][3]) = 0 /\ Units(stage[r][4]) = 0
    BY <1>1, <1>2, <1>6, <1>8, StageNumbers
  <2> QED BY <1>3, <1>4, <1>5, <1>6, <1>8, <2>1, StageNumbers
<1>9. CASE s = 3
  <2>1. Units(stage[r][1]) = 1 /\ Units(stage[r][2]) = Batches /\ Units(stage[r][4]) = 0
    BY <1>1, <1>2, <1>6, <1>9, StageNumbers
  <2> QED BY <1>3, <1>4, <1>5, <1>6, <1>9, <2>1, StageNumbers
<1>10. CASE s = 4
  <2>1. Units(stage[r][1]) = 1 /\ Units(stage[r][2]) = Batches /\ Units(stage[r][3]) = 1
    BY <1>1, <1>6, <1>10, StageNumbers
  <2> QED BY <1>3, <1>4, <1>5, <1>6, <1>10, <2>1, StageNumbers
<1> QED BY <1>7, <1>8, <1>9, <1>10, StageNumbers

\* Every step is one of the promise's, or one the account does not see.
LEMMA PromiseStep ==
    ASSUME IType, Ownership, Building, InOrder, QuotaFollowsRun, [Next]_vars
    PROVE  [Promise!Next]_(Promise!promiseVars)
<1>1. /\ Promise!promiseVars = <<Phases, Dones, observed>>
      /\ Promise!promiseVars' = <<Phases', Dones', observed'>>
  BY DEF Promise!promiseVars, Phases, Dones, UnitsOf
<1>2. /\ run \in [Runs -> RunRow] /\ observed \in [Runs -> QuotaState]
      /\ Phases = [r \in Runs |-> run[r].status] /\ Phases' = [r \in Runs |-> run'[r].status]
      /\ Dones = [r \in Runs |-> UnitsOf(r)] /\ Dones' = [r \in Runs |-> UnitsOf(r)']
  BY DEF IType, TypeOK, Phases, Dones
<1>3. ASSUME NEW r \in Runs, Start(r) \/ Retry(r), Dones' = Dones PROVE Promise!Admit(r)
  <2>1. /\ run[r].status \in {"absent", "failed"} /\ run' = [run EXCEPT ![r] = Unowned("queued")]
        /\ observed' = [observed EXCEPT ![r] = Reserve(@)] /\ NoActiveRun(OwnerOf[r])
    BY <1>3, ConstantsAssumption DEF Start, Retry
  <2>2. observed[r] \in {"none", "released"}
    BY <2>1 DEF QuotaFollowsRun, Charge
  <2>3. observed' = [observed EXCEPT ![r] = "reserved"]
    BY <1>2, <2>1, <2>2 DEF Reserve
  <2>4. Phases' = [Phases EXCEPT ![r] = "queued"]
    BY <1>2, <2>1 DEF Unowned
  <2>5. \A p \in Runs : OwnerOf[p] = OwnerOf[r] => Phases[p] \notin {"queued", "running"}
    BY <1>2, <2>1 DEF NoActiveRun, Active
  <2>6. Phases[r] \in {"absent", "failed"}
    BY <1>2, <2>1
  <2> QED BY <1>3, <2>3, <2>4, <2>5, <2>6 DEF Promise!Admit, Promise!Open, Phases, Dones, UnitsOf
<1>4. ASSUME NEW w \in Workers, ClaimStep(w), UNCHANGED observed, Dones' = Dones
      PROVE  [Promise!Next]_(Promise!promiseVars)
  <2>1. PICK r \in Runs : r = worker[w].run
    BY <1>4 DEF ClaimStep
  <2>2. /\ run[r].status \in {"queued", "running"}
        /\ run' = [run EXCEPT ![r] = [status |-> "running", holder |-> w, lease |-> "live"]]
    BY <1>4, <2>1 DEF ClaimStep, Claimable, Active
  <2>3. CASE run[r].status = "running"
    <3>1. Phases' = Phases
      BY <1>2, <2>2, <2>3
    <3> QED BY <1>1, <1>4, <3>1
  <2>4. CASE run[r].status = "queued"
    <3>1. Phases' = [Phases EXCEPT ![r] = "running"] /\ Phases[r] = "queued"
      BY <1>2, <2>2, <2>4
    <3>2. Promise!Begin(r)
      BY <1>4, <3>1 DEF Promise!Begin, Phases, Dones, UnitsOf
    <3> QED BY <3>2 DEF Promise!Next
  <2> QED BY <2>2, <2>3, <2>4
<1>5. ASSUME NEW w \in Workers, Save(w) PROVE [Promise!Next]_(Promise!promiseVars)
  <2>1. PICK r \in Runs, s \in Stages, q \in Requests : UnitSaved(r, s, q) /\ Founded(r, s)
    BY <1>5, SaveSaves
  <2>2. UnitsOf(r) \in Nat /\ UnitsOf(r) < Batches + 3 /\ UnitsOf(r)' = UnitsOf(r) + 1
    BY <2>1, UnitAdds
  <2>3. ASSUME NEW p \in Runs, p # r PROVE UnitsOf(p)' = UnitsOf(p)
    BY <2>1, <2>3, StageNumbers DEF UnitSaved, UnitsOf, Units
  <2>4. Dones' = [Dones EXCEPT ![r] = @ + 1] /\ Dones[r] < Batches + 3
    BY <1>2, <2>2, <2>3
  <2>5. UNCHANGED <<Phases, observed>> /\ Phases[r] = "running"
    BY <1>2, <1>5, <2>1 DEF Save, Founded
  <2>6. Promise!Accept(r)
    BY <2>4, <2>5 DEF Promise!Accept, Phases, Dones, UnitsOf
  <2> QED BY <2>6 DEF Promise!Next
<1>6. ASSUME NEW w \in Workers, Complete(w) \/ FailCommit(w), Dones' = Dones
      PROVE  [Promise!Next]_(Promise!promiseVars)
  <2>1. PICK r \in Runs : r = worker[w].run
    BY <1>6, PlaceOf DEF Complete, FailCommit
  <2>2. Executing(w) /\ run[r] = [status |-> "running", holder |-> w, lease |-> "live"]
    BY <1>6, <2>1 DEF Complete, FailCommit, Executing, Ownership
  <2>3. observed[r] = "reserved" /\ Phases[r] = "running"
    BY <1>2, <2>2 DEF QuotaFollowsRun, Charge
  <2>4. CASE Complete(w)
    <3>1. /\ run' = [run EXCEPT ![r] = Unowned("completed")]
          /\ observed' = [observed EXCEPT ![r] = Settle(@, TRUE)]
          /\ worker[w].pc = "closing"
      BY <2>1, <2>4 DEF Complete
    <3>2. observed' = [observed EXCEPT ![r] = "settled"]
      BY <1>2, <2>3, <3>1 DEF Settle
    <3>3. Phases' = [Phases EXCEPT ![r] = "completed"]
      BY <1>2, <3>1 DEF Unowned
    <3>4. ASSUME NEW s \in Stages PROVE Units(stage[r][s]) = Full(s)
      <4>1. Whole(r, s)
        BY <2>1, <2>2, <3>1 DEF Building, WorkBuilt, RowBuilt
      <4> QED BY <4>1, FullNumbers DEF Whole, Units
    <3>5. UnitsOf(r) = Batches + 3
      BY <3>4, FullNumbers, StageNumbers DEF UnitsOf
    <3>6. Dones[r] = Batches + 3
      BY <1>2, <3>5
    <3>7. Promise!Finish(r)
      BY <1>6, <2>3, <3>2, <3>3, <3>6 DEF Promise!Finish, Phases, Dones, UnitsOf
    <3> QED BY <3>7 DEF Promise!Next
  <2>5. CASE FailCommit(w)
    <3>1. /\ run' = [run EXCEPT ![r] = Unowned("failed")]
          /\ observed' = [observed EXCEPT ![r] = Settle(@, FALSE)]
      BY <2>1, <2>5 DEF FailCommit
    <3>2. observed' = [observed EXCEPT ![r] = "released"]
      BY <1>2, <2>3, <3>1 DEF Settle
    <3>3. Phases' = [Phases EXCEPT ![r] = "failed"]
      BY <1>2, <3>1 DEF Unowned
    <3>4. Promise!Fail(r)
      BY <1>6, <2>3, <3>2, <3>3 DEF Promise!Fail, Phases, Dones, UnitsOf
    <3> QED BY <3>4 DEF Promise!Next
  <2> QED BY <1>6, <2>4, <2>5
<1>7. ASSUME UNCHANGED observed, Dones' = Dones, \A r \in Runs : run'[r].status = run[r].status
      PROVE  UNCHANGED Promise!promiseVars
  <2>1. Phases' = Phases
    BY <1>2, <1>7
  <2> QED BY <1>1, <1>7, <2>1
<1>8. ASSUME NEW r \in Runs, Promise!Admit(r) PROVE Promise!Next
  BY <1>8 DEF Promise!Next
<1> QED BY <1>3, <1>4, <1>5, <1>6, <1>7, <1>8, DoneSteps, LedgerSteps

\* The queue implements what it promises each account: admission with a
\* reservation, units that are never taken back, and one end per admission,
\* completed with every unit and the reservation settled or failed with it released.
THEOREM PromiseKept ==
    ASSUME Timely
    PROVE  Spec => KeepsPromise
<1>1. Init => InOrder
  BY ConstantsAssumption DEF Init, InOrder, FreshStage, NewRow, NoRun
<1>2. IType /\ Ownership /\ Building /\ InOrder /\ [Next]_vars => InOrder'
  BY InOrderStep
<1>3. Init => Promise!Init
  BY StageNumbers DEF Init, Promise!Init, Unowned, FreshStage, Units
<1>4. IType /\ Ownership /\ Building /\ InOrder /\ QuotaFollowsRun /\ [Next]_vars
      => [Promise!Next]_(Promise!promiseVars)
  BY PromiseStep
<1> QED
  BY <1>1, <1>2, <1>3, <1>4, TypeInvariant, BuildingInvariant, Quota, PTL DEF Spec, KeepsPromise, Promise!Spec

===============================================================================
