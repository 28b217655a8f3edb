----------------------- MODULE BriefingDelivery_proofs -----------------------
(***************************************************************************)
(* What BriefingDelivery guarantees for any number of scheduler processes, *)
(* letters, attempts and faults; and, after it, what OffsiteBackup, with   *)
(* which it shares no state, guarantees for any accounts and snapshots.    *)
(***************************************************************************)
EXTENDS BriefingDelivery, OffsiteBackup, FiniteSetTheorems, SequenceTheorems, TLAPS

USE DeliveryAssumption DEF At, Goto, Become, NoClaim

-----------------------------------------------------------------------------
(* Type correctness *)

LEMMA InitType == Init => TypeOK
<1>1. (CHOOSE l \in Letters : TRUE) \in Letters
  OBVIOUS
<1>2. IdleWorker \in Place
  BY <1>1 DEF IdleWorker, Place
<1> QED BY <1>2 DEF Init, TypeOK, Letter, Final

\* Setting a timer and counting a late tick keep their types.
LEMMA TimerType ==
    ASSUME TypeOK, NEW l \in Letters, SetTimer(l)
    PROVE  /\ elapsed' \in [Letters -> BOOLEAN]
           /\ now' \in [Workers -> SUBSET Letters]
           /\ faults' \in 0 .. MaxFaults /\ late' \in 0 .. MaxLate
<1>1. elapsed' \in [Letters -> BOOLEAN]
  BY DEF TypeOK, SetTimer
<1>2. now' \in [Workers -> SUBSET Letters]
  BY DEF TypeOK, SetTimer
<1>3. faults' \in 0 .. MaxFaults /\ late' \in 0 .. MaxLate
  BY DEF TypeOK, SetTimer, Late
<1> QED BY <1>1, <1>2, <1>3

LEMMA TypeStep == TypeOK /\ [Next]_vars => TypeOK'
<1> SUFFICES ASSUME TypeOK, [Next]_vars PROVE TypeOK'
  OBVIOUS
<1>1. Fault \/ Late => faults' \in 0 .. MaxFaults /\ late' \in 0 .. MaxLate
  BY DEF Fault, Late, TypeOK
<1>2. ASSUME NEW l \in Letters, NEW hold \in BOOLEAN, Complete(l, hold) PROVE TypeOK'
  BY <1>2 DEF Complete, TypeOK, Letter, Final
<1>3. ASSUME NEW l \in Letters, Delete(l) \/ SetActive(l) PROVE TypeOK'
  <2>1. NoLetter \in Letter
    BY DEF NoLetter, Letter
  <2>2. CASE Delete(l)
    BY <2>1, <2>2 DEF Delete, TypeOK
  <2>3. CASE SetActive(l)
    BY <2>3 DEF SetActive, TypeOK
  <2> QED BY <1>3, <2>2, <2>3
<1>4. ASSUME NEW l \in Letters, Elapse(l) \/ Overrun(l) PROVE TypeOK'
  BY <1>1, <1>4 DEF Elapse, Overrun, Late, TypeOK
<1>5. ASSUME NEW w \in Workers, WorkerStep(w) \/ Crash(w) PROVE TypeOK'
  <2> DEFINE l == worker[w].letter
  <2>1. worker[w] \in Place /\ l \in Letters /\ letter[l] \in Letter
    BY DEF TypeOK, Place
  <2>2. CASE Sweep(w)
    <3>1. \A k \in Letters : Swept(k) \in Letter
      BY DEF Swept, TypeOK, Letter, Final
    <3> QED BY <2>2, <3>1 DEF Sweep, TypeOK, Place
  <2>3. CASE Select(w) \/ ClaimLost(w) \/ RecordLost(w)
    <3>1. PICK p \in Place : Become(w, p)
      <4>1. CASE \E step \in {"idle"} : Goto(w, step)
        BY <2>1, <4>1 DEF Place
      <4>2. CASE \E k \in Letters :
                   Become(w, [worker[w] EXCEPT !.pc = "selected", !.letter = k])
        BY <2>1, <4>2 DEF Place
      <4> QED BY <2>3, <4>1, <4>2 DEF Select, ClaimLost, RecordLost
    <3> QED BY <2>3, <3>1 DEF Select, ClaimLost, RecordLost, TypeOK
  <2>4. CASE Claim(w)
    <3> DEFINE n == letter[l].attempts + 1
    <3>1. n \in Nat /\ [status |-> "sending", attempts |-> n, token |-> n] \in Letter
      BY <2>1 DEF Letter
    <3>2. [worker[w] EXCEPT !.pc = "inspect", !.token = n] \in Place
      BY <2>1, <3>1 DEF Place
    <3>3. /\ elapsed' \in [Letters -> BOOLEAN] /\ now' \in [Workers -> SUBSET Letters]
          /\ faults' \in 0 .. MaxFaults /\ late' \in 0 .. MaxLate
      BY <2>1, <2>4, TimerType DEF Claim
    <3> QED BY <2>1, <2>4, <3>1, <3>2, <3>3 DEF Claim, TypeOK
  <2>5. CASE Inspect(w)
    <3>1. letter[l].attempts \in Nat
      BY <2>1 DEF Letter
    <3>2. PICK p \in Place : Become(w, p)
      BY <2>1, <2>5, <3>1 DEF Inspect, Place
    <3> QED BY <2>5, <3>2 DEF Inspect, TypeOK
  <2>6. CASE Send(w) \/ SendFails(w)
    <3>1. PICK p \in Place : Become(w, p)
      BY <2>1, <2>6 DEF Send, SendFails, Place
    <3>2. accepted' \in [Letters -> Nat] /\ faults' \in 0 .. MaxFaults /\ late' \in 0 .. MaxLate
      BY <1>1, <2>1, <2>6 DEF Send, SendFails, TypeOK
    <3> QED BY <2>6, <3>1, <3>2 DEF Send, SendFails, TypeOK
  <2>7. CASE Record(w)
    <3> DEFINE new == Status(worker[w].outcome, worker[w].attempts)
    <3>1. new \in {"pending"} \cup Final
      BY <2>1 DEF Status, Final, Place
    <3> HIDE DEF new
    <3>2. [letter[l] EXCEPT !.status = new, !.token = NoClaim] \in Letter
      BY <2>1, <3>1 DEF Letter
    <3>3. letter' \in [Letters -> Letter]
      BY <2>1, <2>7, <3>2 DEF Record, TypeOK, new
    <3>4. /\ elapsed' \in [Letters -> BOOLEAN] /\ now' \in [Workers -> SUBSET Letters]
          /\ faults' \in 0 .. MaxFaults /\ late' \in 0 .. MaxLate
      <4>1. SetTimer(l) \/ UNCHANGED <<elapsed, now, faults, late>>
        BY <2>7 DEF Record
      <4> QED BY <2>1, <4>1, TimerType DEF TypeOK
    <3> QED BY <2>1, <2>7, <3>3, <3>4 DEF Record, TypeOK, Place
  <2>8. CASE Crash(w)
    BY <1>1, <2>1, <2>8 DEF Crash, TypeOK, Place
  <2> QED BY <1>5, <2>2, <2>3, <2>4, <2>5, <2>6, <2>7, <2>8 DEF WorkerStep
<1>6. CASE UNCHANGED vars
  BY <1>6 DEF vars, TypeOK
<1> QED BY <1>2, <1>3, <1>4, <1>5, <1>6 DEF Next

\* Every variable keeps its type for any instance of the outbox.
THEOREM TypeCorrect == Spec => []TypeOK
BY InitType, TypeStep, PTL DEF Spec
-----------------------------------------------------------------------------
(* What holds however late a worker is *)

\* A letter waits untouched for its run, is claimed by a numbered claim, and its
\* final states say what happened to it.
LetterOK(l) ==
    /\ letter[l].status = "sending" =>
         letter[l].token = letter[l].attempts /\ letter[l].attempts > 0
    /\ letter[l].status # "sending" => letter[l].token = 0
    /\ run[l] = "unfinished" =>
         letter[l].status = "pending" /\ letter[l].attempts = 0 /\ accepted[l] = 0
    /\ letter[l].status = "none" => run[l] = "deleted"
    /\ blocked[l] => letter[l].status \in {"held", "none"} /\ letter[l].attempts = 0
    /\ letter[l].status = "failed" => letter[l].attempts >= MaxAttempts
    /\ letter[l].status = "sent" => accepted[l] > 0

\* What a worker knows of its letter: the count it read lies between its own claim
\* and the row, unless the row is gone.
CarrierOK(w) ==
    LET p == worker[w]
    IN  /\ p.pc \in {"selected", "inspect", "send", "record"} =>
             run[p.letter] # "unfinished"
        /\ p.pc \in {"inspect", "send", "record"} =>
             /\ p.token > 0
             /\ letter[p.letter].status = "none"
                \/ p.token <= letter[p.letter].attempts
        /\ p.pc \in {"send", "record"} =>
             \/ letter[p.letter].status = "none"
             \/ p.token <= p.attempts /\ p.attempts <= letter[p.letter].attempts
        /\ p.pc = "record" /\ p.outcome = "sent" => accepted[p.letter] > 0

DInv == /\ TypeOK
        /\ \A l \in Letters : LetterOK(l)
        /\ \A w \in Workers : CarrierOK(w)

LEMMA InitDInv == Init => DInv
<1> SUFFICES ASSUME Init PROVE DInv
  OBVIOUS
<1>1. TypeOK
  BY InitType
<1>2. ASSUME NEW l \in Letters PROVE LetterOK(l)
  BY DEF Init, LetterOK
<1>3. ASSUME NEW w \in Workers PROVE CarrierOK(w)
  BY DEF Init, CarrierOK, IdleWorker
<1> QED BY <1>1, <1>2, <1>3 DEF DInv

\* The clause of a worker holds on while its letter only grows older.
LEMMA CarrierKept ==
    ASSUME DInv, NEW w \in Workers, worker'[w] = worker[w],
           LET l == worker[w].letter
           IN  /\ run[l] # "unfinished" => run'[l] # "unfinished"
               /\ \/ letter'[l].status = "none"
                  \/ /\ letter[l].status # "none"
                     /\ letter'[l].attempts >= letter[l].attempts
               /\ accepted'[l] >= accepted[l],
           letter' \in [Letters -> Letter], accepted' \in [Letters -> Nat]
    PROVE  CarrierOK(w)'
<1> DEFINE p == worker[w]
           l == p.letter
<1>1. p \in Place /\ l \in Letters /\ letter[l] \in Letter /\ letter'[l] \in Letter
      /\ accepted[l] \in Nat /\ accepted'[l] \in Nat
  BY DEF DInv, TypeOK, Place
<1>2. CarrierOK(w)
  BY DEF DInv
<1> QED BY <1>1, <1>2 DEF CarrierOK, Letter, Place

\* Completion, deletion, account changes and the passing of time.
LEMMA OutsideDInv ==
    ASSUME DInv, TypeOK',
           \E l \in Letters : \/ \E hold \in BOOLEAN : Complete(l, hold)
                              \/ Delete(l) \/ SetActive(l) \/ Elapse(l) \/ Overrun(l)
    PROVE  DInv'
<1>1. PICK l \in Letters : \/ \E hold \in BOOLEAN : Complete(l, hold)
                           \/ Delete(l) \/ SetActive(l) \/ Elapse(l) \/ Overrun(l)
  OBVIOUS
<1>2. TypeOK /\ \A k \in Letters : LetterOK(k) /\ letter[k] \in Letter
  BY DEF DInv, TypeOK
<1>3. worker' = worker /\ accepted' = accepted
  BY <1>1 DEF Complete, Delete, SetActive, Elapse, Overrun
<1>4. CASE \E hold \in BOOLEAN : Complete(l, hold)
  <2>1. PICK hold \in BOOLEAN : Complete(l, hold)
    BY <1>4
  <2>2. LetterOK(l)'
    BY <1>2, <2>1 DEF Complete, LetterOK, TypeOK, Letter, Final
  <2>3. ASSUME NEW k \in Letters, k # l PROVE LetterOK(k)'
    BY <1>2, <2>1, <2>3 DEF Complete, LetterOK, TypeOK, Letter
  <2>4. ASSUME NEW w \in Workers PROVE CarrierOK(w)'
    <3>1. worker[w].letter \in Letters
      BY <1>2 DEF TypeOK, Place
    <3>2. \/ letter'[worker[w].letter].status = "none"
          \/ /\ letter[worker[w].letter].status # "none"
             /\ letter'[worker[w].letter].attempts >= letter[worker[w].letter].attempts
      <4>1. letter[l].status # "none"
        BY <1>2, <2>1 DEF Complete, LetterOK
      <4> QED BY <1>2, <2>1, <3>1, <4>1 DEF Complete, TypeOK, Letter
    <3>3. run[worker[w].letter] # "unfinished" => run'[worker[w].letter] # "unfinished"
      BY <1>2, <2>1, <3>1 DEF Complete, TypeOK
    <3> QED
      BY SMTT(60), <1>2, <1>3, <3>1, <3>2, <3>3, CarrierKept DEF TypeOK, Letter
  <2> QED BY <2>2, <2>3, <2>4 DEF DInv
<1>5. CASE Delete(l)
  <2>1. LetterOK(l)'
    BY <1>2, <1>5 DEF Delete, LetterOK, TypeOK, NoLetter
  <2>2. ASSUME NEW k \in Letters, k # l PROVE LetterOK(k)'
    BY <1>2, <1>5, <2>2 DEF Delete, LetterOK, TypeOK
  <2>3. ASSUME NEW w \in Workers PROVE CarrierOK(w)'
    <3>1. worker[w].letter \in Letters
      BY <1>2 DEF TypeOK, Place
    <3>2. \/ letter'[worker[w].letter].status = "none"
          \/ letter'[worker[w].letter] = letter[worker[w].letter]
      BY <1>2, <1>5, <3>1 DEF Delete, TypeOK, NoLetter
    <3>3. run[worker[w].letter] # "unfinished" => run'[worker[w].letter] # "unfinished"
      BY <1>2, <1>5, <3>1 DEF Delete, TypeOK
    <3> QED
      BY <1>2, <1>3, <3>1, <3>2, <3>3, CarrierKept DEF TypeOK, Letter
  <2> QED BY <2>1, <2>2, <2>3 DEF DInv
<1>6. CASE SetActive(l) \/ Elapse(l) \/ Overrun(l)
  <2>1. UNCHANGED <<run, blocked, letter, worker, accepted>>
    BY <1>6 DEF SetActive, Elapse, Overrun
  <2> QED BY <2>1 DEF DInv, LetterOK, CarrierOK
<1> QED BY <1>1, <1>4, <1>5, <1>6

\* The steps of one worker.
LEMMA WorkerDInv ==
    ASSUME DInv, TypeOK', NEW w \in Workers, WorkerStep(w) \/ Crash(w)
    PROVE  DInv'
<1> DEFINE l == worker[w].letter
<1>1. /\ TypeOK /\ \A k \in Letters : LetterOK(k) /\ letter[k] \in Letter
      /\ worker[w] \in Place /\ l \in Letters /\ CarrierOK(w)
      /\ \A v \in Workers : worker[v].letter \in Letters /\ worker[v] \in Place
      /\ letter' \in [Letters -> Letter] /\ accepted' \in [Letters -> Nat]
      /\ accepted \in [Letters -> Nat] /\ worker \in [Workers -> Place]
  BY DEF DInv, TypeOK, Place
<1>2. run' = run /\ blocked' = blocked
  BY DEF WorkerStep, Sweep, Select, Claim, ClaimLost, Inspect, Send, SendFails, Record,
         RecordLost, Crash
<1>3. ASSUME UNCHANGED <<letter, accepted>>, CarrierOK(w)',
             \A v \in Workers : v # w => worker'[v] = worker[v]
      PROVE  DInv'
  <2>1. ASSUME NEW k \in Letters PROVE LetterOK(k)'
    BY <1>1, <1>2, <1>3 DEF LetterOK
  <2>2. ASSUME NEW v \in Workers, v # w PROVE CarrierOK(v)'
    BY <1>1, <1>2, <1>3, <2>2, CarrierKept DEF Letter
  <2> QED BY <1>3, <2>1, <2>2 DEF DInv
<1>4. CASE Sweep(w)
  <2>1. ASSUME NEW k \in Letters PROVE LetterOK(k)'
    BY <1>1, <1>4 DEF Sweep, Swept, Spent, LetterOK, Letter
  <2>2. ASSUME NEW k \in Letters
        PROVE  /\ letter'[k].attempts = letter[k].attempts
               /\ letter[k].status = "none" <=> letter'[k].status = "none"
    BY <1>1, <1>4 DEF Sweep, Swept, Letter
  <2>3. ASSUME NEW v \in Workers PROVE CarrierOK(v)'
    <3>1. CASE v = w
      BY <1>1, <1>4, <3>1 DEF Sweep, CarrierOK
    <3>2. CASE v # w
      BY <1>1, <1>2, <1>4, <2>2, <3>2, CarrierKept DEF Sweep, Letter
    <3> QED BY <3>1, <3>2
  <2> QED BY <2>1, <2>3 DEF DInv
<1>5. CASE Select(w)
  <2>a. UNCHANGED <<letter, accepted>>
    BY <1>5 DEF Select
  <2>1. CASE Goto(w, "idle")
    BY <1>1, <1>3, <2>a, <2>1 DEF CarrierOK
  <2>2. CASE \E k \in Letters : Selectable(w, k)
               /\ Become(w, [worker[w] EXCEPT !.pc = "selected", !.letter = k])
    <3>1. CarrierOK(w)'
      BY <1>1, <1>2, <2>2 DEF Selectable, CarrierOK, Place
    <3> QED BY <1>1, <1>3, <2>a, <2>2, <3>1
  <2> QED BY <1>5, <2>1, <2>2 DEF Select
<1>6. CASE ClaimLost(w) \/ RecordLost(w) \/ Crash(w)
  <2>1. Goto(w, "idle") /\ UNCHANGED <<letter, accepted>>
    BY <1>6 DEF ClaimLost, RecordLost, Crash
  <2> QED BY <1>1, <1>3, <2>1 DEF CarrierOK
<1>7. CASE Claim(w)
  <2> DEFINE n == letter[l].attempts + 1
  <2>1. /\ letter' = [letter EXCEPT ![l] =
                        [status |-> "sending", attempts |-> n, token |-> n]]
        /\ Become(w, [worker[w] EXCEPT !.pc = "inspect", !.token = n])
        /\ accepted' = accepted /\ At(w, "selected")
        /\ letter[l].status \in {"pending", "sending"}
        /\ run[l] # "unfinished" /\ ~blocked[l]
    BY <1>1, <1>7 DEF Claim, ClaimableRow, Eligible, CarrierOK, LetterOK
  <2>2. n \in Nat /\ n > 0
    BY <1>1 DEF Letter
  <2> HIDE DEF n
  <2>3. ASSUME NEW k \in Letters PROVE LetterOK(k)'
    BY <1>1, <1>2, <2>1, <2>2 DEF LetterOK
  <2>4. CarrierOK(w)'
    BY <1>1, <1>2, <2>1, <2>2 DEF CarrierOK, Place
  <2>5. ASSUME NEW v \in Workers, v # w PROVE CarrierOK(v)'
    <3>1. letter'[worker[v].letter].status # "none" =>
            /\ letter[worker[v].letter].status # "none"
            /\ letter'[worker[v].letter].attempts >= letter[worker[v].letter].attempts
      BY <1>1, <2>1, <2>2 DEF Letter, n
    <3> QED BY <1>1, <1>2, <2>1, <2>5, <3>1, CarrierKept
  <2> QED BY <2>3, <2>4, <2>5 DEF DInv
<1>8. CASE Inspect(w)
  <2>1. CASE letter[l].status = "none"
    BY <1>1, <1>3, <1>8, <2>1 DEF Inspect, CarrierOK, Place
  <2>2. CASE letter[l].status # "none"
    <3>1. /\ worker' = [worker EXCEPT ![w] = worker'[w]]
          /\ worker'[w].letter = l /\ worker'[w].token = worker[w].token
          /\ worker'[w].attempts = letter[l].attempts
          /\ worker'[w].pc \in {"send", "record"}
          /\ worker'[w].pc = "record" => worker'[w].outcome # "sent"
          /\ worker[w].pc = "inspect" /\ UNCHANGED <<letter, accepted>>
      BY <1>1, <1>8, <2>2 DEF Inspect, Place
    <3>2. CarrierOK(w)'
      BY <1>1, <1>2, <2>2, <3>1 DEF CarrierOK, Letter, Place
    <3> QED BY <1>1, <1>3, <3>1, <3>2
  <2> QED BY <2>1, <2>2
<1>9. CASE Send(w) \/ SendFails(w)
  <2>0. PICK outcome \in {"sent", "error"} :
          /\ Become(w, [worker[w] EXCEPT !.pc = "record", !.outcome = outcome])
          /\ \/ accepted' = [accepted EXCEPT ![l] = @ + 1]
             \/ accepted' = accepted /\ outcome = "error"
    BY <1>9 DEF Send, SendFails
  <2>1. /\ letter' = letter /\ worker[w].pc = "send"
        /\ \/ accepted' = [accepted EXCEPT ![l] = @ + 1]
           \/ accepted' = accepted /\ worker'[w].outcome = "error"
        /\ worker' = [worker EXCEPT ![w] = worker'[w]]
        /\ worker'[w].letter = l /\ worker'[w].token = worker[w].token
        /\ worker'[w].attempts = worker[w].attempts /\ worker'[w].pc = "record"
    BY <1>1, <1>9, <2>0 DEF Send, SendFails, Place
  <2>2. \A k \in Letters : accepted'[k] >= accepted[k]
    BY <1>1, <2>1
  <2>3. run[l] # "unfinished"
    BY <1>1, <2>1 DEF CarrierOK
  <2>4. ASSUME NEW k \in Letters PROVE LetterOK(k)'
    BY <1>1, <1>2, <2>1, <2>2, <2>3 DEF LetterOK
  <2>5. CarrierOK(w)'
    BY <1>1, <1>2, <2>1 DEF CarrierOK, Letter, Place
  <2>6. ASSUME NEW v \in Workers, v # w PROVE CarrierOK(v)'
    BY <1>1, <1>2, <2>1, <2>2, <2>6, CarrierKept DEF Letter
  <2> QED BY <2>4, <2>5, <2>6 DEF DInv
<1>10. CASE Record(w)
  <2> DEFINE new == Status(worker[w].outcome, worker[w].attempts)
  <2>1. /\ letter' = [letter EXCEPT ![l].status = new, ![l].token = 0]
        /\ letter[l].token = worker[w].token /\ Goto(w, "idle")
        /\ worker[w].pc = "record" /\ accepted' = accepted
    BY <1>10 DEF Record, Ours
  <2>2. letter[l].status = "sending" /\ worker[w].attempts = letter[l].attempts
    <3>1. worker[w].token > 0 /\ LetterOK(l)
      BY <1>1, <2>1 DEF CarrierOK
    <3>2. letter[l].status = "sending" /\ letter[l].token = letter[l].attempts
      BY <1>1, <2>1, <3>1 DEF LetterOK, Place
    <3>3. worker[w].token <= worker[w].attempts /\ worker[w].attempts <= letter[l].attempts
      BY <1>1, <2>1, <3>2 DEF CarrierOK
    <3>4. worker[w].attempts \in Nat /\ letter[l].attempts \in Nat
          /\ worker[w].token = letter[l].attempts
      BY <1>1, <2>1, <3>2 DEF Letter, Place
    <3> QED BY <3>2, <3>3, <3>4
  <2>3. /\ new \in {"pending"} \cup Final
        /\ new = "failed" => worker[w].attempts >= MaxAttempts
        /\ new = "sent" => accepted[l] > 0
    BY <1>1, <2>1 DEF Status, Spent, Final, Place, CarrierOK
  <2> HIDE DEF new
  <2>4. ASSUME NEW k \in Letters PROVE LetterOK(k)'
    <3>1. CASE k = l
      BY <1>1, <1>2, <2>1, <2>2, <2>3, <3>1 DEF LetterOK, Letter, Final
    <3>2. CASE k # l
      BY <1>1, <1>2, <2>1, <3>2 DEF LetterOK
    <3> QED BY <3>1, <3>2
  <2>5. CarrierOK(w)'
    BY <1>1, <2>1 DEF CarrierOK
  <2>6. ASSUME NEW v \in Workers, v # w PROVE CarrierOK(v)'
    <3>1. letter'[worker[v].letter].status # "none" =>
            /\ letter[worker[v].letter].status # "none"
            /\ letter'[worker[v].letter].attempts >= letter[worker[v].letter].attempts
      BY <1>1, <2>1, <2>2 DEF Letter
    <3>2. PICK k \in Letters : k = worker[v].letter
      BY <1>1 DEF Place
    <3>3. /\ worker'[v] = worker[v] /\ run' = run /\ accepted'[k] >= accepted[k]
          /\ letter' \in [Letters -> Letter] /\ accepted' \in [Letters -> Nat]
      BY <1>1, <1>2, <2>1, <2>6
    <3>4. letter'[k].status = "none" \/ (letter[k].status # "none" /\ letter'[k].attempts >= letter[k].attempts)
      BY <3>1, <3>2
    <3>5. run[k] # "unfinished" => run'[k] # "unfinished"
      BY <3>3
    <3> QED BY <3>2, <3>3, <3>4, <3>5, CarrierKept
  <2> QED BY <2>4, <2>5, <2>6 DEF DInv
<1> QED
  BY <1>4, <1>5, <1>6, <1>7, <1>8, <1>9, <1>10 DEF WorkerStep
LEMMA DInvariant == Spec => []DInv
<1>1. ASSUME DInv, [Next]_vars PROVE DInv'
  <2>1. TypeOK'
    BY <1>1, TypeStep DEF DInv
  <2>2. CASE UNCHANGED vars
    BY <1>1, <2>2 DEF vars, DInv, TypeOK, LetterOK, CarrierOK
  <2> QED BY <1>1, <2>1, <2>2, OutsideDInv, WorkerDInv DEF Next
<1> QED BY <1>1, InitDInv, PTL DEF Spec

\* A letter is given up only after all of its attempts, and recorded as sent only
\* if SMTP accepted it, however late its workers.
THEOREM TrueStatus == Spec => []StatusIsTrue
<1>1. DInv => StatusIsTrue
  BY DEF DInv, LetterOK, StatusIsTrue
<1> QED BY <1>1, DInvariant, PTL

\* A letter that quality checks block, or whose run has not completed, is never
\* claimed.
THEOREM HeldBack == Spec => []HeldBackUnclaimed
<1>1. DInv => HeldBackUnclaimed
  BY DEF DInv, LetterOK, HeldBackUnclaimed
<1> QED BY <1>1, DInvariant, PTL

\* No step of a late worker changes a letter that has reached a final state.
THEOREM Finality == Spec => FinalIsFinal
<1>1. ASSUME DInv, [Next]_vars, NEW l \in Letters,
             letter[l].status \in Final, run'[l] # "deleted"
      PROVE  letter'[l].status = letter[l].status
  <2>1. /\ TypeOK /\ LetterOK(l) /\ letter \in [Letters -> Letter]
        /\ letter[l].status \notin {"none", "pending", "sending"}
        /\ letter[l].token = 0 /\ run[l] # "unfinished"
    BY <1>1 DEF DInv, TypeOK, LetterOK, Final
  <2>2. ASSUME NEW k \in Letters,
               \/ \E hold \in BOOLEAN : Complete(k, hold)
               \/ Delete(k) \/ SetActive(k) \/ Elapse(k) \/ Overrun(k)
        PROVE  letter'[l].status = letter[l].status
    <3>1. CASE \E hold \in BOOLEAN : Complete(k, hold)
      BY <2>1, <3>1 DEF Complete
    <3>2. CASE Delete(k)
      BY <1>1, <2>1, <3>2 DEF Delete, TypeOK
    <3>3. CASE SetActive(k) \/ Elapse(k) \/ Overrun(k)
      BY <3>3 DEF SetActive, Elapse, Overrun
    <3> QED BY <2>2, <3>1, <3>2, <3>3
  <2>3. ASSUME NEW w \in Workers, WorkerStep(w) \/ Crash(w)
        PROVE  letter'[l].status = letter[l].status
    <3>1. CASE Sweep(w)
      BY <2>1, <3>1 DEF Sweep, Swept
    <3>2. CASE Claim(w)
      BY <2>1, <3>2 DEF Claim, ClaimableRow, Eligible
    <3>3. CASE Record(w)
      <4>1. letter[worker[w].letter].token > 0
        BY <1>1, <3>3 DEF Record, Ours, DInv, CarrierOK
      <4>2. worker[w].letter # l
        BY <2>1, <4>1
      <4> QED BY <2>1, <3>3, <4>2 DEF Record
    <3>4. CASE \/ Select(w) \/ ClaimLost(w) \/ Inspect(w) \/ Send(w) \/ SendFails(w)
               \/ RecordLost(w) \/ Crash(w)
      BY <3>4 DEF Select, ClaimLost, Inspect, Send, SendFails, RecordLost, Crash
    <3> QED BY <2>3, <3>1, <3>2, <3>3, <3>4 DEF WorkerStep
  <2>4. CASE UNCHANGED vars
    BY <2>4 DEF vars
  <2> QED BY <1>1, <2>2, <2>3, <2>4 DEF Next
<1>2. DInv /\ [Next]_vars =>
        [\A l \in Letters : letter[l].status \in Final /\ run'[l] # "deleted" =>
            letter'[l].status = letter[l].status]_vars
  BY <1>1
<1> QED BY <1>2, DInvariant, PTL DEF Spec, FinalIsFinal

-----------------------------------------------------------------------------
(* What holds while no tick outlasts its claim *)

Underway(w) == worker[w].pc \in {"inspect", "send", "record"}

\* A claim is on its row, and to nobody's knowledge has it run out.
Held(k, token) ==
    \/ run[k] = "deleted"
    \/ /\ letter[k].status = "sending" /\ letter[k].token = token /\ ~elapsed[k]
       /\ \A v \in Workers : k \notin now[v]

\* A letter is carried by one worker, whose claim is on it.
InTime ==
    late = 0 =>
      /\ \A w \in Workers : Underway(w) => Held(worker[w].letter, worker[w].token)
      /\ \A v, w \in Workers :
            Underway(v) /\ Underway(w) /\ worker[v].letter = worker[w].letter =>
                v = w \/ run[worker[w].letter] = "deleted"

\* A step that claims nothing keeps it, when the claims that stay are kept.
LEMMA InTimeKept ==
    ASSUME DInv, InTime, late = 0,
           \A w \in Workers : Underway(w)' =>
               /\ Underway(w) /\ worker'[w].letter = worker[w].letter
               /\ worker'[w].token = worker[w].token,
           \A l \in Letters : run[l] = "deleted" => run'[l] = "deleted",
           \A w \in Workers, k \in Letters, t \in Nat :
               Underway(w)' /\ k = worker[w].letter /\ t = worker[w].token /\ Held(k, t) => Held(k, t)'
    PROVE  InTime'
<1>1. \A w \in Workers : worker[w].letter \in Letters /\ worker[w].token \in Nat
  BY DEF DInv, TypeOK, Place
<1>2. ASSUME NEW w \in Workers, Underway(w)' PROVE Held(worker[w].letter, worker[w].token)'
  <2>1. PICK k \in Letters, t \in Nat : k = worker[w].letter /\ t = worker[w].token
    BY <1>1
  <2>2. Held(k, t)'
    BY <1>2, <2>1 DEF InTime
  <2>3. k = worker'[w].letter /\ t = worker'[w].token
    BY <1>2, <2>1
  <2> QED BY <2>2, <2>3 DEF Held
<1>3. ASSUME NEW v \in Workers, NEW w \in Workers, Underway(v)', Underway(w)',
             worker'[v].letter = worker'[w].letter
      PROVE  v = w \/ run'[worker'[w].letter] = "deleted"
  <2>1. v = w \/ run[worker[w].letter] = "deleted"
    BY <1>3 DEF InTime
  <2> QED BY <1>1, <1>3, <2>1
<1> QED BY <1>2, <1>3 DEF InTime

\* What the outside does to a letter leaves its claim.
LEMMA OutsideInTime ==
    ASSUME DInv, InTime, late = 0, late' = 0,
           \E l \in Letters : \/ \E hold \in BOOLEAN : Complete(l, hold)
                              \/ Delete(l) \/ SetActive(l) \/ Elapse(l) \/ Overrun(l)
    PROVE  InTime'
<1> PICK l \in Letters : \/ \E hold \in BOOLEAN : Complete(l, hold)
                         \/ Delete(l) \/ SetActive(l) \/ Elapse(l) \/ Overrun(l)
  OBVIOUS
<1>1. /\ run \in [Letters -> {"unfinished", "completed", "deleted"}] /\ letter \in [Letters -> Letter]
      /\ elapsed \in [Letters -> BOOLEAN]
  BY DEF DInv, TypeOK
<1>2. UNCHANGED <<worker, now>>
  BY DEF Complete, Delete, SetActive, Elapse, Overrun
<1>3. \A k \in Letters : run[k] = "deleted" => run'[k] = "deleted"
  BY <1>1 DEF Complete, Delete, SetActive, Elapse, Overrun
<1>4. ~Overrun(l)
  BY DEF Overrun, Late
<1>5. ASSUME NEW w \in Workers, NEW k \in Letters, NEW t \in Nat, Underway(w), k = worker[w].letter,
             t = worker[w].token, Held(k, t)
      PROVE  Held(k, t)'
  <2>1. CASE \E hold \in BOOLEAN : Complete(l, hold)
    <3>1. run[k] # "unfinished"
      BY <1>5 DEF DInv, CarrierOK, Underway
    <3>2. k # l /\ run'[k] = run[k] /\ letter'[k] = letter[k] /\ elapsed' = elapsed
      BY <1>1, <2>1, <3>1 DEF Complete
    <3> QED BY <1>2, <1>5, <3>2 DEF Held
  <2>2. CASE Delete(l)
    <3>1. CASE k = l
      BY <1>1, <2>2, <3>1 DEF Delete, Held
    <3>2. CASE k # l
      BY <1>1, <1>2, <1>5, <2>2, <3>2 DEF Delete, Held
    <3> QED BY <3>1, <3>2
  <2>3. CASE SetActive(l)
    BY <1>2, <1>5, <2>3 DEF SetActive, Held
  <2>4. CASE Elapse(l)
    <3>1. CASE k = l /\ run[k] # "deleted"
      <4>1. Carried(l) /\ letter[l].status = "sending"
        BY <1>5, <3>1 DEF Carried, Held, Underway
      <4> QED BY <2>4, <4>1 DEF Elapse
    <3>2. CASE k # l \/ run[k] = "deleted"
      BY <1>1, <1>2, <1>5, <2>4, <3>2 DEF Elapse, Held
    <3> QED BY <3>1, <3>2
  <2> QED BY <1>4, <2>1, <2>2, <2>3, <2>4
<1>6. \A w \in Workers : Underway(w)' => Underway(w)
  BY <1>2 DEF Underway
<1> QED BY <1>2, <1>3, <1>5, <1>6, InTimeKept

\* Claiming a letter, its worker is alone with it; every other step keeps to its own.
LEMMA WorkerInTime ==
    ASSUME DInv, InTime, late = 0, late' = 0, NEW w \in Workers, WorkerStep(w) \/ Crash(w)
    PROVE  InTime'
<1> PICK p \in Place : p = worker[w]
  BY DEF DInv, TypeOK
<1>1. /\ worker \in [Workers -> Place] /\ letter \in [Letters -> Letter] /\ p.letter \in Letters
      /\ elapsed \in [Letters -> BOOLEAN] /\ now \in [Workers -> SUBSET Letters]
  BY DEF DInv, TypeOK, Place
<1>2. UNCHANGED run
  BY DEF WorkerStep, Sweep, Select, Claim, ClaimLost, Inspect, Send, SendFails, Record, RecordLost, Crash
<1>3. ASSUME UNCHANGED <<letter, elapsed, now>>, \A v \in Workers : v # w => worker'[v] = worker[v],
             Underway(w)' => /\ Underway(w) /\ worker'[w].letter = p.letter /\ worker'[w].token = p.token
      PROVE  InTime'
  <2>1. \A k, t : Held(k, t) => Held(k, t)'
    BY <1>2, <1>3 DEF Held
  <2>2. \A v \in Workers : Underway(v)' => /\ Underway(v) /\ worker'[v].letter = worker[v].letter
                                           /\ worker'[v].token = worker[v].token
    BY <1>3 DEF Underway
  <2> QED BY <1>2, <2>1, <2>2, InTimeKept
<1>4. CASE Sweep(w)
  <2>1. /\ \A v \in Workers : v # w => worker'[v] = worker[v] /\ now'[v] = now[v]
        /\ worker'[w].pc = "swept" /\ now'[w] = {l \in Letters : elapsed[l]} /\ UNCHANGED elapsed
        /\ \A l \in Letters : letter'[l] = Swept(l)
    BY <1>1, <1>4 DEF Sweep, Goto, Place
  <2>2. ASSUME NEW k \in Letters, NEW t \in Nat, Held(k, t) PROVE Held(k, t)'
    <3>1. CASE run[k] = "deleted"
      BY <1>2, <3>1 DEF Held
    <3>2. CASE run[k] # "deleted"
      <4>1. ~elapsed[k]
        BY <2>2, <3>2 DEF Held
      <4>2. letter'[k] = letter[k] /\ ~elapsed'[k]
        BY <2>1, <4>1 DEF Swept
      <4>3. \A v \in Workers : k \notin now'[v]
        BY <2>1, <2>2, <3>2, <4>1 DEF Held
      <4> QED BY <2>2, <3>2, <4>2, <4>3 DEF Held
    <3> QED BY <3>1, <3>2
  <2>3. \A v \in Workers : Underway(v)' => /\ Underway(v) /\ worker'[v].letter = worker[v].letter
                                           /\ worker'[v].token = worker[v].token
    BY <2>1 DEF Underway
  <2> QED BY <1>2, <2>2, <2>3, InTimeKept
<1>5. CASE Select(w) \/ ClaimLost(w) \/ RecordLost(w) \/ Crash(w)
  <2>1. UNCHANGED <<letter, elapsed, now>>
    BY <1>5 DEF Select, ClaimLost, RecordLost, Crash
  <2>2. /\ \A v \in Workers : v # w => worker'[v] = worker[v]
        /\ worker'[w].pc \in {"idle", "selected"}
    <3>1. CASE ClaimLost(w) \/ RecordLost(w) \/ Crash(w)
      BY <1>1, <3>1 DEF ClaimLost, RecordLost, Crash, Goto, Place
    <3>2. CASE Select(w)
      <4>1. CASE Goto(w, "idle")
        BY <1>1, <4>1 DEF Goto, Place
      <4>2. CASE \E l \in Letters : Become(w, [worker[w] EXCEPT !.pc = "selected", !.letter = l])
        <5>1. PICK l, m : /\ m = [worker[w] EXCEPT !.pc = "selected", !.letter = l]
                          /\ worker' = [worker EXCEPT ![w] = m]
          BY <4>2 DEF Become
        <5>2. m.pc = "selected"
          BY <1>1, <5>1 DEF Place
        <5> QED BY <1>1, <5>1, <5>2
      <4> QED BY <3>2, <4>1, <4>2 DEF Select
    <3> QED BY <1>5, <3>1, <3>2
  <2> QED BY <1>3, <2>1, <2>2 DEF Underway
<1>6. CASE Inspect(w)
  <2>1. PICK m : /\ worker' = [worker EXCEPT ![w] = m] /\ p.pc = "inspect"
                 /\ m.letter = p.letter /\ m.token = p.token
    <3>1. PICK read \in Place : read = [p EXCEPT !.attempts = letter[p.letter].attempts]
      BY <1>1 DEF Place, Letter
    <3>2. read.letter = p.letter /\ read.token = p.token
      BY <3>1 DEF Place
    <3>3. PICK o \in {"held", "cancelled"} :
            \/ worker' = [worker EXCEPT ![w] = [read EXCEPT !.pc = "idle"]]
            \/ worker' = [worker EXCEPT ![w] = [read EXCEPT !.pc = "record", !.outcome = o]]
            \/ worker' = [worker EXCEPT ![w] = [read EXCEPT !.pc = "send"]]
      BY <1>6, <3>1 DEF Inspect, Become
    <3>4. /\ [read EXCEPT !.pc = "idle"].letter = p.letter /\ [read EXCEPT !.pc = "idle"].token = p.token
          /\ [read EXCEPT !.pc = "send"].letter = p.letter /\ [read EXCEPT !.pc = "send"].token = p.token
      BY <3>2 DEF Place
    <3>5. /\ [read EXCEPT !.pc = "record", !.outcome = o].letter = p.letter
          /\ [read EXCEPT !.pc = "record", !.outcome = o].token = p.token
      BY <3>2 DEF Place
    <3>6. p.pc = "inspect"
      BY <1>6 DEF Inspect, At
    <3> QED BY <3>3, <3>4, <3>5, <3>6
  <2>2. UNCHANGED <<letter, elapsed, now>>
    BY <1>6 DEF Inspect
  <2>3. worker'[w] = m /\ \A v \in Workers : v # w => worker'[v] = worker[v]
    BY <1>1, <2>1
  <2> QED BY <1>3, <2>1, <2>2, <2>3 DEF Underway
<1>7. CASE Send(w) \/ SendFails(w)
  <2>1. UNCHANGED <<letter, elapsed, now>> /\ p.pc = "send"
    BY <1>7 DEF Send, SendFails, At
  <2>2. PICK o \in {"sent", "error"} : worker' = [worker EXCEPT ![w] = [p EXCEPT !.pc = "record", !.outcome = o]]
    BY <1>7 DEF Send, SendFails, Become
  <2>3. /\ \A v \in Workers : v # w => worker'[v] = worker[v]
        /\ worker'[w].letter = p.letter /\ worker'[w].token = p.token
    BY <1>1, <2>2 DEF Place
  <2> QED BY <1>3, <2>1, <2>3 DEF Underway
<1>8. CASE Record(w)
  <2>1. /\ \A v \in Workers : v # w => worker'[v] = worker[v]
        /\ worker'[w].pc = "idle" /\ Underway(w)
    BY <1>1, <1>8 DEF Record, Goto, Place, At, Underway
  <2>2. /\ \A k \in Letters : k # p.letter => letter'[k] = letter[k] /\ elapsed'[k] = elapsed[k]
        /\ \A v \in Workers : now'[v] \subseteq now[v]
    BY <1>1, <1>8 DEF Record, SetTimer, Late
  <2>3. ASSUME NEW v \in Workers, NEW k \in Letters, NEW t \in Nat, Underway(v)', k = worker[v].letter,
               t = worker[v].token, Held(k, t)
        PROVE  Held(k, t)'
    <3>1. v # w /\ Underway(v)
      BY <2>1, <2>3 DEF Underway
    <3>2. k # p.letter \/ run[k] = "deleted"
      BY <2>1, <2>3, <3>1 DEF InTime
    <3> QED BY <1>2, <2>2, <2>3, <3>2 DEF Held
  <2>4. \A v \in Workers : Underway(v)' => /\ Underway(v) /\ worker'[v].letter = worker[v].letter
                                           /\ worker'[v].token = worker[v].token
    BY <2>1 DEF Underway
  <2> QED BY <1>2, <2>3, <2>4, InTimeKept
<1>9. CASE Claim(w)
  <2>1. PICK l \in Letters : l = p.letter
    BY <1>1
  <2>2. PICK n \in Nat : n = letter[l].attempts + 1
    BY <1>1, <2>1 DEF Letter
  <2>3. /\ l \in now[w] /\ letter' = [letter EXCEPT ![l] = [status |-> "sending", attempts |-> n, token |-> n]]
        /\ SetTimer(l) /\ worker' = [worker EXCEPT ![w] = [p EXCEPT !.pc = "inspect", !.token = n]]
    BY <1>9, <2>1, <2>2 DEF Claim, ClaimableRow, Eligible, Become
  <2>4. /\ elapsed' = [elapsed EXCEPT ![l] = FALSE] /\ now' = [v \in Workers |-> now[v] \ {l}]
    BY <2>3 DEF SetTimer, Late
  <2>5. /\ worker'[w].letter = l /\ worker'[w].token = n
        /\ \A v \in Workers : v # w => worker'[v] = worker[v]
    BY <1>1, <2>1, <2>3 DEF Place
  <2>6. ASSUME NEW v \in Workers, v # w, Underway(v), worker[v].letter = l PROVE run[l] = "deleted"
    BY <2>3, <2>6 DEF InTime, Held
  <2>7. ASSUME NEW v \in Workers, Underway(v)' PROVE Held(worker[v].letter, worker[v].token)'
    <3>1. CASE v = w
      <4>1. letter'[l].status = "sending" /\ letter'[l].token = n /\ ~elapsed'[l]
            /\ \A u \in Workers : l \notin now'[u]
        BY <1>1, <2>3, <2>4
      <4> QED BY <2>5, <3>1, <4>1 DEF Held
    <3>2. CASE v # w
      <4>1. PICK k, t : k \in Letters /\ k = worker[v].letter /\ t = worker[v].token
        BY <1>1 DEF Place
      <4>2. Underway(v) /\ k = worker'[v].letter /\ t = worker'[v].token
        BY <2>5, <2>7, <3>2, <4>1 DEF Underway
      <4>3. Held(k, t) /\ (k = l => run[k] = "deleted")
        BY <2>6, <3>2, <4>1, <4>2 DEF InTime
      <4>4. Held(k, t)'
        BY <1>1, <1>2, <2>3, <2>4, <4>3 DEF Held
      <4> QED BY <4>2, <4>4 DEF Held
    <3> QED BY <3>1, <3>2
  <2>8. ASSUME NEW u \in Workers, NEW v \in Workers, Underway(u)', Underway(v)',
               worker'[u].letter = worker'[v].letter
        PROVE  u = v \/ run'[worker'[v].letter] = "deleted"
    <3>1. CASE u # w /\ v # w
      BY <1>2, <2>5, <2>8, <3>1 DEF InTime, Underway
    <3>2. CASE u = w /\ v # w
      <4>1. Underway(v) /\ worker[v].letter = l /\ worker'[v].letter = l
        BY <2>5, <2>8, <3>2 DEF Underway
      <4> QED BY <1>2, <2>6, <3>2, <4>1
    <3>3. CASE u # w /\ v = w
      <4>1. Underway(u) /\ worker[u].letter = l /\ worker'[v].letter = l
        BY <2>5, <2>8, <3>3 DEF Underway
      <4> QED BY <1>2, <2>6, <3>3, <4>1
    <3> QED BY <3>1, <3>2, <3>3
  <2> QED BY <2>7, <2>8 DEF InTime
<1> QED BY <1>4, <1>5, <1>6, <1>7, <1>8, <1>9 DEF WorkerStep

LEMMA InTimeInvariant == Spec => []InTime
<1>1. Init => InTime
  BY DEF Init, InTime, Underway, IdleWorker
<1>2. ASSUME DInv, InTime, [Next]_vars PROVE InTime'
  <2>1. CASE UNCHANGED vars
    BY <1>2, <2>1 DEF vars, InTime, Underway, Held
  <2>2. CASE late' # 0
    BY <2>2 DEF InTime
  <2>3. CASE late # 0 /\ Next
    <3>1. late' = late \/ late' = late + 1
      <4>1. ASSUME NEW l \in Letters, \/ \E hold \in BOOLEAN : Complete(l, hold)
                                      \/ Delete(l) \/ SetActive(l) \/ Elapse(l) \/ Overrun(l)
            PROVE  late' = late \/ late' = late + 1
        BY <4>1 DEF Complete, Delete, SetActive, Elapse, Overrun, Late
      <4>2. ASSUME NEW w \in Workers, WorkerStep(w) \/ Crash(w)
            PROVE  late' = late \/ late' = late + 1
        BY <4>2 DEF WorkerStep, Sweep, Select, Claim, ClaimLost, Inspect, Send, SendFails, Record,
              RecordLost, Crash, SetTimer, Late, Fault
      <4> QED BY <2>3, <4>1, <4>2 DEF Next
    <3>2. late \in Nat \ {0}
      BY <1>2, <2>3, DeliveryAssumption DEF DInv, TypeOK
    <3>3. late' # 0
      BY <3>1, <3>2
    <3> QED BY <3>3 DEF InTime
  <2> QED BY <1>2, <2>1, <2>2, <2>3, OutsideInTime, WorkerInTime DEF Next
<1> QED BY <1>1, <1>2, DInvariant, PTL DEF Spec

\* A letter goes to SMTP only under the claim on its row, as long as no tick has
\* outlasted its claim: no interleaving of sweeps, claims, deaths, deletions and
\* new completions sends one that another process has taken over.
THEOREM ClaimedWhenSent == Spec => SentUnderItsClaim
<1>1. ASSUME InTime, NEW w \in Workers, late = 0, At(w, "send")
      PROVE  \/ run[worker[w].letter] = "deleted"
             \/ letter[worker[w].letter].token = worker[w].token
  BY <1>1 DEF InTime, Held, Underway, At
<1>2. InTime /\ [Next]_vars =>
        [\A w \in Workers : late = 0 /\ At(w, "send") /\ worker'[w].pc = "record" =>
          \/ run[worker[w].letter] = "deleted"
          \/ letter[worker[w].letter].token = worker[w].token]_vars
  BY <1>1
<1> QED BY <1>2, InTimeInvariant, PTL DEF Spec, SentUnderItsClaim

-----------------------------------------------------------------------------
(* OffsiteBackup.  Every manifest, dump and marker speaks of the same closure   *)
(* of an account until a recovery revives it, so a snapshot that does not know  *)
(* of a confirmed closure was exported before it, and if its marker was dropped *)
(* as well, every snapshot there was had been saved after it.                   *)

\* What a manifest says of u: nothing, until a checkpoint has confirmed the closure,
\* and nothing else than the confirmed time from then on.
Agrees(u, m) ==
    /\ inForce[u] = NotAsked => m[u] = NotAsked
    /\ inForce[u] \in Days => m[u] \in {NotAsked, inForce[u]}

ClosedSince(u, time) == Up /\ live[u] # NotAsked => time <= live[u]

LiveFits(u) == Up /\ inForce[u] \in Days => live[u] = inForce[u]

SnapshotFits(u, s) ==
    /\ Agrees(u, s.dump) /\ Agrees(u, s.manifest)
    /\ inForce[u] = NotAsked =>
          /\ ClosedSince(u, s.exported)
          /\ task.at = "checkpoint" /\ task.markers[u] # NotAsked => s.exported <= task.markers[u]
    /\ inForce[u] \in Days /\ s.manifest[u] = NotAsked =>
          /\ s.exported <= inForce[u]
          /\ Known[u] = NotAsked => inForce[u] < s.day

FetchedFits(u) == fetched # Nothing => Agrees(u, fetched.dump) /\ Agrees(u, fetched.markers)

\* What a backup has read: while the manifest is to be read, the dump; from then on
\* also the markers.
ExportFits(u) ==
    /\ inForce[u] = NotAsked /\ task.dump[u] # NotAsked =>
          fetched = Nothing /\ (Up => live[u] = task.dump[u])
    /\ inForce[u] \in Days => task.dump[u] \in {NotAsked, inForce[u]}
CheckpointFits(u) ==
    /\ inForce[u] = NotAsked =>
          /\ task.dump[u] \in {NotAsked, task.markers[u]}
          /\ task.markers[u] # NotAsked => (Up => live[u] = task.markers[u])
          /\ task.markers[u] = NotAsked => ClosedSince(u, task.exported)
    /\ inForce[u] \in Days => task.markers[u] = inForce[u] /\ task.dump[u] \in {NotAsked, inForce[u]}
UploadFits(u) ==
    /\ inForce[u] = NotAsked =>
          task.dump[u] = NotAsked /\ task.markers[u] = NotAsked /\ ClosedSince(u, task.exported)
    /\ inForce[u] \in Days => task.markers[u] = inForce[u] /\ task.dump[u] \in {NotAsked, inForce[u]}
TaskFits(u) ==
    /\ Agrees(u, task.previous)
    /\ On("stage") => task.dump[u] = NotAsked
    /\ On("export") => ExportFits(u)
    /\ On("checkpoint") => CheckpointFits(u)
    /\ On("upload") => UploadFits(u)

\* A recovery is under way only while the database is lost and no backup is past
\* its export; no time is ahead of the clock; and retention, which holds the lock,
\* has the inventory of what is there.
Orderly ==
    /\ fetched # Nothing => ~Up /\ ~On("checkpoint") /\ ~On("upload")
    /\ task.exported <= day
    /\ \A i \in DOMAIN databases : databases[i].exported <= day
    /\ On("filter") => \A i \in DOMAIN databases : databases[i].day \in task.days

AccountFits(u) ==
    /\ LiveFits(u) /\ Agrees(u, Known) /\ FetchedFits(u) /\ TaskFits(u)
    /\ \A i \in DOMAIN databases : SnapshotFits(u, databases[i])

BackupInv == BackupTypeOK /\ Orderly /\ \A u \in Users : AccountFits(u)

\* The days are numbers, none of which stands for no closure.
LEMMA DaysAreNumbers ==
    /\ Days \subseteq Nat /\ NotAsked \notin Days /\ Revived \notin Days /\ Revived # NotAsked
    /\ 1 \in Days /\ NotAsked \in Nat
  BY BackupAssumption DEF Days, NotAsked, Revived

LEMMA BackupFacts ==
    ASSUME BackupTypeOK
    PROVE  /\ day \in Days /\ day \in Nat
           /\ Up => live \in Manifest
           /\ databases \in Seq(Snapshot) /\ checkpoints \in Seq(Checkpoint)
           /\ task \in Task /\ task.previous \in Manifest /\ task.dump \in Manifest
           /\ task.markers \in Manifest /\ task.exported \in Days /\ task.days \in SUBSET Days
           /\ fetched # Nothing => fetched.dump \in Manifest /\ fetched.markers \in Manifest
           /\ inForce \in [Users -> Days \cup {NotAsked, Revived}]
           /\ Known \in Manifest
           /\ \A i \in DOMAIN databases :
                 /\ databases[i].day \in Days /\ databases[i].exported \in Days
                 /\ databases[i].dump \in Manifest /\ databases[i].manifest \in Manifest
<1>1. Known \in Manifest
  <2>1. Empty \in Manifest
    BY DEF Empty, Manifest
  <2>2. ASSUME checkpoints # <<>> PROVE Len(checkpoints) \in DOMAIN checkpoints
    BY <2>2 DEF BackupTypeOK
  <2>3. \A i \in DOMAIN checkpoints : checkpoints[i].markers \in Manifest
    <3>1. \A i \in DOMAIN checkpoints : checkpoints[i] \in Checkpoint
      BY DEF BackupTypeOK
    <3> QED
      BY <3>1 DEF Checkpoint
  <2> QED
    BY <2>1, <2>2, <2>3 DEF Known
<1>2. \A i \in DOMAIN databases :
         /\ databases[i].day \in Days /\ databases[i].exported \in Days
         /\ databases[i].dump \in Manifest /\ databases[i].manifest \in Manifest
  <2>1. \A i \in DOMAIN databases : databases[i] \in Snapshot
    BY DEF BackupTypeOK
  <2> QED
    BY <2>1 DEF Snapshot
<1>3. task.previous \in Manifest /\ task.dump \in Manifest /\ task.markers \in Manifest
      /\ task.exported \in Days /\ task.days \in SUBSET Days
  BY DEF BackupTypeOK, Task
<1> QED
  BY <1>1, <1>2, <1>3, DaysAreNumbers DEF BackupTypeOK, Up

\* The lock at rest, and a backup that has begun.
LEMMA RestingTask ==
    /\ NoTask \in Task /\ NoTask.at = "idle"
    /\ NoTask.exported = 1
    /\ NoTask.previous = Empty /\ NoTask.dump = Empty /\ NoTask.markers = Empty
    /\ Empty \in Manifest /\ \A u \in Users : Empty[u] = NotAsked
<1>1. Empty \in Manifest /\ \A u \in Users : Empty[u] = NotAsked
  BY DEF Empty, Manifest
<1> QED
  BY <1>1, DaysAreNumbers DEF NoTask, Task

LEMMA BackupInitially == BackupInit => BackupInv
<1> SUFFICES ASSUME BackupInit PROVE BackupInv
  OBVIOUS
<1>1. /\ day = 1 /\ live = Empty /\ databases = <<>> /\ checkpoints = <<>> /\ task = NoTask
      /\ fetched = Nothing /\ inForce = Empty
  BY DEF BackupInit
<1>2. BackupTypeOK
  BY <1>1, RestingTask, DaysAreNumbers DEF BackupTypeOK, Manifest
<1>3. Known = Empty
  BY <1>1 DEF Known
<1>4. Orderly
  BY <1>1, RestingTask DEF Orderly, On
<1>5. ASSUME NEW u \in Users PROVE AccountFits(u)
  <2>1. inForce[u] = NotAsked
    BY <1>1, RestingTask
  <2>2. LiveFits(u) /\ Agrees(u, Known) /\ FetchedFits(u)
    BY <1>1, <1>3, <2>1, RestingTask, DaysAreNumbers DEF LiveFits, Agrees, FetchedFits
  <2>3. TaskFits(u)
    BY <1>1, <2>1, RestingTask, DaysAreNumbers DEF TaskFits, Agrees, On
  <2> QED
    BY <1>1, <2>2, <2>3 DEF AccountFits
<1> QED
  BY <1>2, <1>4, <1>5 DEF BackupInv

LEMMA ClosingsRequested ==
    ASSUME BackupInv, NEW v \in Users, RequestClosing(v)
    PROVE  BackupInv'
<1>0. BackupTypeOK
  BY DEF BackupInv
<1> USE <1>0, BackupFacts, DaysAreNumbers
<1>1. /\ Up /\ live[v] = NotAsked /\ live' = [live EXCEPT ![v] = day]
      /\ UNCHANGED <<day, databases, checkpoints, task, fetched, inForce>>
  BY DEF RequestClosing
<1>2. live' \in Manifest
  BY <1>1 DEF Manifest
<1>3. BackupTypeOK'
  BY <1>1, <1>2 DEF BackupTypeOK
<1>4. fetched = Nothing
  BY <1>1 DEF BackupInv, Orderly
<1>5. Orderly'
  BY <1>1, <1>4 DEF BackupInv, Orderly, On
<1>6. Known' = Known
  BY <1>1 DEF Known
<1>7. ASSUME NEW u \in Users PROVE AccountFits(u)'
  <2>1. AccountFits(u)
    BY DEF BackupInv
  <2>2. \A w \in Users : live'[w] = IF w = v THEN day ELSE live[w]
    BY <1>1 DEF Manifest
  <2>3. u = v => inForce[u] \notin Days
    BY <1>1, <2>1 DEF AccountFits, LiveFits
  <2>4. \A m : Agrees(u, m)' <=> Agrees(u, m)
    BY <1>1 DEF Agrees
  <2>5. LiveFits(u)' /\ Agrees(u, Known)' /\ FetchedFits(u)'
    BY <1>1, <1>4, <1>6, <2>1, <2>2, <2>3 DEF AccountFits, LiveFits, Agrees, FetchedFits
  <2>6. ASSUME NEW i \in DOMAIN databases PROVE SnapshotFits(u, databases[i])'
    <3>1. databases[i].exported \in Days /\ databases[i].exported <= day
      BY DEF BackupInv, Orderly
    <3>2. SnapshotFits(u, databases[i])
      BY <2>1 DEF AccountFits
    <3>3. ClosedSince(u, databases[i].exported) => ClosedSince(u, databases[i].exported)'
      BY <1>1, <2>2, <3>1 DEF ClosedSince
    <3> QED
      BY <1>1, <1>6, <3>2, <3>3 DEF SnapshotFits, Agrees
  <2>7. task.exported <= day
    BY DEF BackupInv, Orderly
  <2>8. ClosedSince(u, task.exported) => ClosedSince(u, task.exported)'
    BY <1>1, <2>2, <2>7 DEF ClosedSince
  <2>9. TaskFits(u)
    BY <2>1 DEF AccountFits
  <2>10. On("export") => ExportFits(u)'
    BY <1>1, <2>2, <2>9 DEF TaskFits, ExportFits
  <2>11. On("checkpoint") => CheckpointFits(u)'
    <3> SUFFICES ASSUME On("checkpoint") PROVE CheckpointFits(u)'
      OBVIOUS
    <3>1. CheckpointFits(u)
      BY <2>9 DEF TaskFits
    <3>2. inForce[u] = NotAsked /\ task.markers[u] # NotAsked => u # v
      BY <1>1, <3>1 DEF CheckpointFits
    <3>3. inForce[u] = NotAsked /\ task.markers[u] # NotAsked => live'[u] = task.markers[u]
      BY <1>1, <2>2, <3>1, <3>2 DEF CheckpointFits
    <3> QED
      BY <1>1, <2>8, <3>1, <3>3 DEF CheckpointFits
  <2>12. On("upload") => UploadFits(u)'
    BY <1>1, <2>8, <2>9 DEF TaskFits, UploadFits
  <2>13. TaskFits(u)'
    BY <1>1, <2>9, <2>10, <2>11, <2>12 DEF TaskFits, On, Agrees
  <2> QED
    BY <1>1, <2>5, <2>6, <2>13 DEF AccountFits
<1> QED
  BY <1>3, <1>5, <1>7 DEF BackupInv

\* A step of the task alone keeps what is said of the snapshots, when a checkpoint
\* that it prepares confirms nothing older than they are.
LEMMA TaskMoves ==
    ASSUME BackupInv, UNCHANGED <<day, live, databases, checkpoints, fetched, inForce>>,
           task' \in Task, task'.exported <= day,
           fetched # Nothing => task'.at \notin {"checkpoint", "upload"},
           task'.at = "filter" => \A i \in DOMAIN databases : databases[i].day \in task'.days,
           \A u \in Users : TaskFits(u)',
           task'.at = "checkpoint" =>
              \A u \in Users : inForce[u] = NotAsked /\ task'.markers[u] # NotAsked =>
                 \A i \in DOMAIN databases : databases[i].exported <= task'.markers[u]
    PROVE  BackupInv'
<1>1. BackupTypeOK'
  BY DEF BackupInv, BackupTypeOK
<1>2. Orderly'
  BY DEF BackupInv, Orderly, On, Up
<1>3. Known' = Known
  BY DEF Known
<1>4. ASSUME NEW u \in Users PROVE AccountFits(u)'
  <2>1. AccountFits(u)
    BY DEF BackupInv
  <2>2. LiveFits(u)' /\ Agrees(u, Known)' /\ FetchedFits(u)'
    BY <1>3, <2>1 DEF AccountFits, LiveFits, Up, Agrees, FetchedFits
  <2>3. ASSUME NEW i \in DOMAIN databases PROVE SnapshotFits(u, databases[i])'
    <3>1. SnapshotFits(u, databases[i])
      BY <2>1 DEF AccountFits
    <3>2. ClosedSince(u, databases[i].exported) => ClosedSince(u, databases[i].exported)'
      BY DEF ClosedSince, Up
    <3> QED
      BY <1>3, <3>1, <3>2 DEF SnapshotFits, Agrees
  <2> QED
    BY <2>2, <2>3 DEF AccountFits
<1> QED
  BY <1>1, <1>2, <1>4 DEF BackupInv

\* The lock is released, and no snapshot, checkpoint or database changes.
LEMMA TaskRests ==
    ASSUME BackupInv, UNCHANGED <<day, live, databases, checkpoints, fetched, inForce>>,
           task' \in Task, task'.at \in {"idle", "stage", "export", "inventory", "filter", "forget"},
           task'.exported = 1, task'.previous \in {Empty, Known}, task'.dump = Empty,
           task'.at = "filter" => \A i \in DOMAIN databases : databases[i].day \in task'.days
    PROVE  BackupInv'
<1>0. BackupTypeOK
  BY DEF BackupInv
<1> USE <1>0, BackupFacts, DaysAreNumbers, RestingTask
<1>1. 1 <= day
  BY BackupAssumption DEF Days
<1>2. ASSUME NEW u \in Users PROVE TaskFits(u)'
  <2>1. Agrees(u, Known) /\ Agrees(u, Empty)
    BY DEF BackupInv, AccountFits, Agrees
  <2>2. Agrees(u, task.previous)'
    BY <2>1 DEF Agrees
  <2>3. task'.dump[u] = NotAsked
    OBVIOUS
  <2> QED
    BY <2>2, <2>3 DEF TaskFits, On, ExportFits
<1> QED
  BY <1>1, <1>2, TaskMoves

LEMMA LockTaken ==
    ASSUME BackupInv,
           \/ \E kind \in {"database", "closures"} : BeginBackup(kind)
           \/ TakeInventory \/ FailTask
    PROVE  BackupInv'
<1>0. BackupTypeOK
  BY DEF BackupInv
<1> USE <1>0, BackupFacts, DaysAreNumbers, RestingTask
<1>1. ASSUME NEW kind \in {"database", "closures"}, BeginBackup(kind) PROVE BackupInv'
  <2>1. PICK at : at = IF kind = "database" THEN "stage" ELSE "export"
    OBVIOUS
  <2>2. task' = [NoTask EXCEPT !.at = at, !.kind = kind, !.previous = Known]
    BY <1>1, <2>1 DEF BeginBackup
  <2>3. task' = [at |-> at, kind |-> kind, previous |-> Known, dump |-> Empty, markers |-> Empty,
                 exported |-> 1, days |-> {}]
    BY <2>2 DEF NoTask
  <2>4. task' \in Task /\ task'.at \in {"stage", "export"}
    BY <2>1, <2>3 DEF Task
  <2>5. task'.exported = 1 /\ task'.previous = Known /\ task'.dump = Empty
    BY <2>3
  <2> QED
    BY <1>1, <2>4, <2>5, TaskRests DEF BeginBackup
<1>2. ASSUME TakeInventory PROVE BackupInv'
  <2>1. PICK inventory : inventory = {databases[i].day : i \in DOMAIN databases}
    OBVIOUS
  <2>2. inventory \in SUBSET Days
    BY <2>1
  <2>3. task' = [task EXCEPT !.at = "filter", !.days = inventory]
    BY <1>2, <2>1 DEF TakeInventory
  <2>4. /\ task' \in Task /\ task'.at = "filter" /\ task'.days = inventory
        /\ task'.exported = task.exported /\ task'.previous = task.previous
    BY <2>2, <2>3 DEF Task
  <2>5. \A i \in DOMAIN databases : databases[i].day \in task'.days
    BY <2>1, <2>4
  <2>6. ASSUME NEW u \in Users PROVE TaskFits(u)'
    <3>1. Agrees(u, task.previous)
      BY DEF BackupInv, AccountFits, TaskFits
    <3>2. Agrees(u, task.previous)'
      BY <1>2, <2>4, <3>1 DEF TakeInventory, Agrees
    <3> QED
      BY <2>4, <3>2 DEF TaskFits, On
  <2>7. task.exported <= day
    BY DEF BackupInv, Orderly
  <2> QED
    BY <1>2, <2>4, <2>5, <2>6, <2>7, TaskMoves DEF TakeInventory
<1>3. ASSUME FailTask PROVE BackupInv'
  <2>1. task' = NoTask
    BY <1>3 DEF FailTask
  <2> QED
    BY <1>3, <2>1, TaskRests DEF FailTask
<1> QED
  BY <1>1, <1>2, <1>3

LEMMA DumpStaged == BackupInv /\ StageDump => BackupInv'
<1> SUFFICES ASSUME BackupInv, StageDump PROVE BackupInv'
  OBVIOUS
<1>0. BackupTypeOK
  BY DEF BackupInv
<1> USE <1>0, BackupFacts, DaysAreNumbers
<1>1. /\ On("stage") /\ Up /\ task' = [task EXCEPT !.at = "export", !.dump = live]
      /\ UNCHANGED <<day, live, databases, checkpoints, fetched, inForce>>
  BY DEF StageDump
<1>2. /\ task' \in Task /\ task'.at = "export" /\ task'.dump = live
      /\ task'.exported = task.exported /\ task'.previous = task.previous
  BY <1>1 DEF Task
<1>3. fetched = Nothing /\ task.exported <= day
  BY <1>1 DEF BackupInv, Orderly
<1>4. ASSUME NEW u \in Users PROVE TaskFits(u)'
  <2>1. Agrees(u, task.previous) /\ LiveFits(u)
    BY DEF BackupInv, AccountFits, TaskFits
  <2>2. Agrees(u, task.previous)'
    BY <1>1, <1>2, <2>1 DEF Agrees
  <2>3. ExportFits(u)'
    BY <1>1, <1>2, <1>3, <2>1 DEF ExportFits, LiveFits
  <2> QED
    BY <1>2, <2>2, <2>3 DEF TaskFits, On
<1> QED
  BY <1>1, <1>2, <1>3, <1>4, TaskMoves

LEMMA MergedManifest ==
    ASSUME NEW known \in Manifest, NEW current \in Manifest
    PROVE  /\ Merge(known, current) \in Manifest
           /\ \A u \in Users :
                 /\ known[u] = NotAsked => Merge(known, current)[u] = current[u]
                 /\ Merge(known, current)[u] \in {known[u], current[u]}
                 /\ Merge(known, current)[u] = NotAsked <=> known[u] = NotAsked /\ current[u] = NotAsked
  BY DaysAreNumbers DEF Merge, Manifest

LEMMA ManifestExported == BackupInv /\ StageExport => BackupInv'
<1> SUFFICES ASSUME BackupInv, StageExport PROVE BackupInv'
  OBVIOUS
<1>0. BackupTypeOK
  BY DEF BackupInv
<1> USE <1>0, BackupFacts, DaysAreNumbers
<1>1. PICK markers : markers = Merge(task.previous, live)
  OBVIOUS
<1>2. /\ On("export") /\ Up
      /\ task' = [task EXCEPT !.at = "checkpoint", !.markers = markers, !.exported = day]
      /\ UNCHANGED <<day, live, databases, checkpoints, fetched, inForce>>
  BY <1>1 DEF StageExport
<1>3. /\ markers \in Manifest
      /\ \A u \in Users :
            /\ task.previous[u] = NotAsked => markers[u] = live[u]
            /\ markers[u] \in {task.previous[u], live[u]}
            /\ markers[u] = NotAsked <=> task.previous[u] = NotAsked /\ live[u] = NotAsked
  BY <1>1, <1>2, MergedManifest
<1>4. /\ task' \in Task /\ task'.at = "checkpoint" /\ task'.markers = markers /\ task'.exported = day
      /\ task'.previous = task.previous /\ task'.dump = task.dump
  BY <1>2, <1>3 DEF Task
<1>5. fetched = Nothing
  BY <1>2 DEF BackupInv, Orderly
<1>6. ASSUME NEW u \in Users PROVE TaskFits(u)'
  <2>1. Agrees(u, task.previous) /\ LiveFits(u) /\ ExportFits(u)
    BY <1>2 DEF BackupInv, AccountFits, TaskFits
  <2>2. Agrees(u, task.previous)'
    BY <1>2, <1>4, <2>1 DEF Agrees
  <2>3. CASE inForce[u] = NotAsked
    <3>1. markers[u] = live[u]
      BY <1>3, <2>1, <2>3 DEF Agrees
    <3>2. task.dump[u] \in {NotAsked, markers[u]}
      BY <1>2, <2>1, <2>3, <3>1 DEF ExportFits
    <3>3. CheckpointFits(u)'
      BY <1>2, <1>4, <2>3, <3>1, <3>2 DEF CheckpointFits, ClosedSince
    <3> QED
      BY <1>4, <2>2, <3>3 DEF TaskFits, On
  <2>4. CASE inForce[u] \in Days
    <3>1. live[u] = inForce[u] /\ task.previous[u] \in {NotAsked, inForce[u]}
      BY <1>2, <2>1, <2>4 DEF LiveFits, Agrees
    <3>2. markers[u] = inForce[u]
      BY <1>3, <2>4, <3>1
    <3>3. CheckpointFits(u)'
      BY <1>2, <1>4, <2>1, <2>4, <3>2 DEF CheckpointFits, ExportFits
    <3> QED
      BY <1>4, <2>2, <3>3 DEF TaskFits, On
  <2>5. CASE inForce[u] = Revived
    BY <1>2, <1>4, <2>2, <2>5 DEF TaskFits, On, CheckpointFits
  <2> QED
    BY <2>3, <2>4, <2>5
<1>7. ASSUME NEW u \in Users, inForce[u] = NotAsked, markers[u] # NotAsked, NEW i \in DOMAIN databases
      PROVE  databases[i].exported <= markers[u]
  <2>1. Agrees(u, task.previous) /\ ClosedSince(u, databases[i].exported)
    BY <1>7 DEF BackupInv, AccountFits, TaskFits, SnapshotFits
  <2>2. markers[u] = live[u]
    BY <1>3, <1>7, <2>1 DEF Agrees
  <2> QED
    BY <1>2, <1>7, <2>1, <2>2 DEF ClosedSince
<1> QED
  BY <1>2, <1>4, <1>5, <1>6, <1>7, TaskMoves

\* A sequence that grows by one element, and one that loses its head.
LEMMA GrowsByOne ==
    ASSUME NEW S, NEW s \in Seq(S), NEW x \in S
    PROVE  /\ Append(s, x) \in Seq(S) /\ Append(s, x) # <<>>
           /\ Append(s, x)[Len(Append(s, x))] = x
           /\ \A j \in DOMAIN Append(s, x) : Append(s, x)[j] = x \/ \E i \in DOMAIN s : Append(s, x)[j] = s[i]
  OBVIOUS

LEMMA LosesItsHead ==
    ASSUME NEW S, NEW s \in Seq(S), NEW i \in DOMAIN s
    PROVE  /\ From(i, s) \in Seq(S) /\ From(i, s) # <<>>
           /\ From(i, s)[Len(From(i, s))] = s[Len(s)]
           /\ \A j \in DOMAIN From(i, s) : \E k \in DOMAIN s : From(i, s)[j] = s[k]
<1>1. i \in 1 .. Len(s) /\ Len(s) \in Nat
  OBVIOUS
<1>2. /\ Len(From(i, s)) = Len(s) - i + 1 /\ DOMAIN From(i, s) = 1 .. Len(s) - i + 1
      /\ \A j \in 1 .. Len(s) - i + 1 : From(i, s)[j] = s[i + j - 1]
  BY <1>1 DEF From
<1>3. \A j \in 1 .. Len(s) - i + 1 : i + j - 1 \in 1 .. Len(s)
  BY <1>1
<1>4. From(i, s) \in Seq(S)
  BY <1>1 DEF From
<1>5. Len(s) - i + 1 \in 1 .. Len(s) - i + 1 /\ i + (Len(s) - i + 1) - 1 = Len(s)
  BY <1>1
<1>6. From(i, s)[Len(From(i, s))] = s[Len(s)]
  BY <1>2, <1>5
<1>7. From(i, s) # <<>>
  BY <1>2, <1>5
<1>8. ASSUME NEW j \in DOMAIN From(i, s) PROVE \E k \in DOMAIN s : From(i, s)[j] = s[k]
  <2>1. j \in 1 .. Len(s) - i + 1
    BY <1>2
  <2>2. i + j - 1 \in DOMAIN s /\ From(i, s)[j] = s[i + j - 1]
    BY <1>2, <1>3, <2>1
  <2> QED
    BY <2>2
<1> QED
  BY <1>4, <1>6, <1>7, <1>8

LEMMA CheckpointSaved == BackupInv /\ SaveCheckpoint => BackupInv'
<1> SUFFICES ASSUME BackupInv, SaveCheckpoint PROVE BackupInv'
  OBVIOUS
<1>0. BackupTypeOK
  BY DEF BackupInv
<1> USE <1>0, BackupFacts, DaysAreNumbers, RestingTask
<1>1. /\ On("checkpoint") /\ UNCHANGED <<day, live, databases, fetched>>
      /\ inForce' = [u \in Users |-> IF inForce[u] = NotAsked THEN task.markers[u] ELSE inForce[u]]
      /\ task' = [task EXCEPT !.at = "upload"] \/ task' = NoTask
  BY DEF SaveCheckpoint
<1>2. PICK saved : saved = [day |-> day, markers |-> task.markers]
  OBVIOUS
<1>3. saved \in Checkpoint /\ saved.markers = task.markers /\ checkpoints' = Append(checkpoints, saved)
  BY <1>2 DEF SaveCheckpoint, Checkpoint
<1>4. checkpoints' \in Seq(Checkpoint) /\ Known' = task.markers
  BY <1>3, GrowsByOne DEF Known
<1>5. /\ task' \in Task /\ task'.at \in {"idle", "upload"}
      /\ task'.previous \in {task.previous, Empty}
      /\ task'.at = "upload" => /\ task'.dump = task.dump /\ task'.markers = task.markers
      /\ task'.exported \in {task.exported, 1}
      /\ task'.at = "upload" => task'.exported = task.exported
  <2>1. CASE task' = NoTask
    BY <2>1
  <2>2. CASE task' = [task EXCEPT !.at = "upload"]
    <3>1. /\ task' \in Task /\ task'.at = "upload" /\ task'.previous = task.previous
          /\ task'.dump = task.dump /\ task'.markers = task.markers /\ task'.exported = task.exported
      BY <2>2 DEF Task
    <3> QED
      BY <3>1
  <2> QED
    BY <1>1, <2>1, <2>2
<1>6. \A u \in Users : task.markers[u] \in Days \cup {NotAsked}
  BY DEF Manifest
<1>7. inForce' \in [Users -> Days \cup {NotAsked, Revived}]
  BY <1>1, <1>6
<1>8. BackupTypeOK'
  BY <1>1, <1>4, <1>5, <1>7 DEF BackupTypeOK
<1>9. fetched = Nothing
  BY <1>1 DEF BackupInv, Orderly
<1>10. Orderly'
  <2>1. 1 <= day
    BY BackupAssumption DEF Days
  <2>2. task'.exported <= day
    BY <1>5, <2>1 DEF BackupInv, Orderly
  <2> QED
    BY <1>1, <1>5, <1>9, <2>2 DEF BackupInv, Orderly, On
<1>11. ASSUME NEW u \in Users PROVE AccountFits(u)'
  <2>1. CheckpointFits(u) /\ LiveFits(u) /\ Agrees(u, task.previous)
    BY <1>1 DEF BackupInv, AccountFits, TaskFits
  <2>2. inForce'[u] = IF inForce[u] = NotAsked THEN task.markers[u] ELSE inForce[u]
    BY <1>1
  <2>3. \A i \in DOMAIN databases : SnapshotFits(u, databases[i])
    BY DEF BackupInv, AccountFits
  <2>4. FetchedFits(u)'
    BY <1>1, <1>9 DEF FetchedFits
  <2>5. \A time : ClosedSince(u, time)' <=> ClosedSince(u, time)
    BY <1>1 DEF ClosedSince, Up
  <2>6. Up' <=> Up
    BY <1>1 DEF Up
  <2>7. CASE inForce[u] = NotAsked /\ task.markers[u] = NotAsked
    <3>1. inForce'[u] = NotAsked
      BY <2>2, <2>7
    <3>2. LiveFits(u)' /\ Agrees(u, Known)' /\ Agrees(u, task.previous)'
      BY <1>4, <1>5, <2>1, <2>7, <3>1 DEF LiveFits, Agrees
    <3>3. task'.at = "upload" => UploadFits(u)'
      BY <1>1, <1>5, <2>1, <2>7, <3>1 DEF UploadFits, CheckpointFits, ClosedSince, Up
    <3>4. TaskFits(u)'
      BY <1>5, <3>2, <3>3 DEF TaskFits, On
    <3>5. ASSUME NEW i \in DOMAIN databases PROVE SnapshotFits(u, databases[i])'
      <4>1. SnapshotFits(u, databases[i])
        BY <2>3
      <4>2. ClosedSince(u, databases[i].exported)'
        BY <1>1, <2>7, <4>1 DEF SnapshotFits, ClosedSince, Up
      <4> QED
        BY <1>1, <1>5, <2>7, <3>1, <4>1, <4>2 DEF SnapshotFits, Agrees
    <3> QED
      BY <1>1, <2>4, <3>2, <3>4, <3>5 DEF AccountFits
  <2>8. CASE inForce[u] = NotAsked /\ task.markers[u] # NotAsked
    <3>1. inForce'[u] = task.markers[u] /\ inForce'[u] \in Days
      BY <1>6, <2>2, <2>8
    <3>2. LiveFits(u)' /\ Agrees(u, Known)' /\ Agrees(u, task.previous)'
      BY <1>1, <1>4, <1>5, <2>1, <2>6, <2>8, <3>1 DEF LiveFits, Agrees, CheckpointFits
    <3>3. task'.at = "upload" => UploadFits(u)'
      BY <1>5, <2>1, <2>8, <3>1 DEF UploadFits, CheckpointFits
    <3>4. TaskFits(u)'
      BY <1>5, <3>2, <3>3 DEF TaskFits, On
    <3>5. ASSUME NEW i \in DOMAIN databases PROVE SnapshotFits(u, databases[i])'
      <4>1. SnapshotFits(u, databases[i])
        BY <2>3
      <4> QED
        BY <1>1, <1>4, <2>8, <3>1, <4>1 DEF SnapshotFits, Agrees, On
    <3> QED
      BY <1>1, <2>4, <3>2, <3>4, <3>5 DEF AccountFits
  <2>9. CASE inForce[u] \in Days
    <3>1. inForce'[u] = inForce[u] /\ task.markers[u] = inForce[u] /\ inForce[u] # NotAsked
      BY <2>1, <2>2, <2>9 DEF CheckpointFits
    <3>2. LiveFits(u)' /\ Agrees(u, Known)' /\ Agrees(u, task.previous)'
      BY <1>1, <1>4, <1>5, <2>1, <2>6, <2>9, <3>1 DEF LiveFits, Agrees
    <3>3. task'.at = "upload" => UploadFits(u)'
      BY <1>5, <2>1, <2>9, <3>1 DEF UploadFits, CheckpointFits
    <3>4. TaskFits(u)'
      BY <1>5, <3>2, <3>3 DEF TaskFits, On
    <3>5. ASSUME NEW i \in DOMAIN databases PROVE SnapshotFits(u, databases[i])'
      <4>1. SnapshotFits(u, databases[i])
        BY <2>3
      <4> QED
        BY <1>1, <1>4, <2>9, <3>1, <4>1 DEF SnapshotFits, Agrees
    <3> QED
      BY <1>1, <2>4, <3>2, <3>4, <3>5 DEF AccountFits
  <2>10. CASE inForce[u] = Revived
    <3>1. inForce'[u] = Revived
      BY <2>2, <2>10
    <3>2. \A m : Agrees(u, m)'
      BY <3>1 DEF Agrees
    <3>3. LiveFits(u)' /\ TaskFits(u)'
      BY <1>5, <3>1, <3>2 DEF LiveFits, TaskFits, On, UploadFits, Agrees
    <3>4. \A i \in DOMAIN databases : SnapshotFits(u, databases[i])'
      BY <3>1 DEF SnapshotFits, Agrees
    <3> QED
      BY <1>1, <2>4, <3>1, <3>3, <3>4 DEF AccountFits, Agrees
  <2> QED
    BY <2>7, <2>8, <2>9, <2>10
<1> QED
  BY <1>8, <1>10, <1>11 DEF BackupInv

\* The database snapshots change, in number or by one, while nothing else that an
\* account's facts speak of does but the lock, which is released or goes on to
\* take its inventory.
LEMMA SnapshotsChange ==
    ASSUME BackupInv, UNCHANGED <<day, live, checkpoints, fetched, inForce>>,
           databases' \in Seq(Snapshot), task' \in Task,
           task'.at \in {"idle", "inventory"}, task'.exported = 1,
           task'.previous = Empty,
           \A j \in DOMAIN databases' :
              \/ \E i \in DOMAIN databases : databases'[j] = databases[i]
              \/ /\ databases'[j].exported <= day
                 /\ \A u \in Users :
                       /\ Agrees(u, databases'[j].dump) /\ Agrees(u, databases'[j].manifest)
                       /\ inForce[u] = NotAsked => ClosedSince(u, databases'[j].exported)
                       /\ inForce[u] \in Days => databases'[j].manifest[u] # NotAsked
    PROVE  BackupInv'
<1>0. BackupTypeOK
  BY DEF BackupInv
<1> USE <1>0, BackupFacts, DaysAreNumbers, RestingTask
<1>1. BackupTypeOK'
  BY DEF BackupTypeOK
<1>2. 1 <= day
  BY BackupAssumption DEF Days
<1>3. \A j \in DOMAIN databases' : databases'[j].exported <= day
  BY DEF BackupInv, Orderly
<1>4. Orderly'
  BY <1>2, <1>3 DEF BackupInv, Orderly, On, Up
<1>5. Known' = Known
  BY DEF Known
<1>6. ASSUME NEW u \in Users PROVE AccountFits(u)'
  <2>1. AccountFits(u)
    BY DEF BackupInv
  <2>2. LiveFits(u)' /\ Agrees(u, Known)' /\ FetchedFits(u)'
    BY <1>5, <2>1 DEF AccountFits, LiveFits, Up, Agrees, FetchedFits
  <2>3. TaskFits(u)'
    BY DEF TaskFits, On, Agrees
  <2>4. ASSUME NEW j \in DOMAIN databases' PROVE SnapshotFits(u, databases[j])'
    <3>1. CASE \E i \in DOMAIN databases : databases'[j] = databases[i]
      <4>1. PICK i \in DOMAIN databases : databases'[j] = databases[i]
        BY <3>1
      <4>2. SnapshotFits(u, databases[i])
        BY <2>1 DEF AccountFits
      <4> QED
        BY <1>5, <4>1, <4>2 DEF SnapshotFits, Agrees, ClosedSince, Up
    <3>2. CASE /\ Agrees(u, databases'[j].dump) /\ Agrees(u, databases'[j].manifest)
               /\ inForce[u] = NotAsked => ClosedSince(u, databases'[j].exported)
               /\ inForce[u] \in Days => databases'[j].manifest[u] # NotAsked
      BY <3>2 DEF SnapshotFits, Agrees, ClosedSince, Up
    <3> QED
      BY <2>4, <3>1, <3>2
  <2> QED
    BY <2>2, <2>3, <2>4 DEF AccountFits
<1> QED
  BY <1>1, <1>4, <1>6 DEF BackupInv

LEMMA DatabaseSaved == BackupInv /\ SaveDatabase => BackupInv'
<1> SUFFICES ASSUME BackupInv, SaveDatabase PROVE BackupInv'
  OBVIOUS
<1>0. BackupTypeOK
  BY DEF BackupInv
<1> USE <1>0, BackupFacts, DaysAreNumbers, RestingTask
<1>1. PICK new : new = [day |-> day, exported |-> task.exported, dump |-> task.dump, manifest |-> task.markers]
  OBVIOUS
<1>2. /\ On("upload") /\ databases' = Append(databases, new) /\ task' = NoTask
      /\ UNCHANGED <<day, live, checkpoints, fetched, inForce>>
  BY <1>1 DEF SaveDatabase
<1>3. /\ new \in Snapshot /\ new.exported = task.exported /\ new.dump = task.dump
      /\ new.manifest = task.markers
  BY <1>1 DEF Snapshot
<1>4. /\ databases' \in Seq(Snapshot)
      /\ \A j \in DOMAIN databases' : databases'[j] = new \/ \E i \in DOMAIN databases : databases'[j] = databases[i]
  BY <1>2, <1>3, GrowsByOne
<1>5. new.exported <= day
  BY <1>3 DEF BackupInv, Orderly
<1>6. ASSUME NEW u \in Users
      PROVE  /\ Agrees(u, new.dump) /\ Agrees(u, new.manifest)
             /\ inForce[u] = NotAsked => ClosedSince(u, new.exported)
             /\ inForce[u] \in Days => new.manifest[u] # NotAsked
  <2>1. UploadFits(u)
    BY <1>2 DEF BackupInv, AccountFits, TaskFits
  <2> QED
    BY <1>3, <2>1 DEF UploadFits, Agrees
<1> QED
  BY <1>2, <1>4, <1>5, <1>6, SnapshotsChange

LEMMA DatabasesForgotten == BackupInv /\ ForgetDatabases => BackupInv'
<1> SUFFICES ASSUME BackupInv, ForgetDatabases PROVE BackupInv'
  OBVIOUS
<1>0. BackupTypeOK
  BY DEF BackupInv
<1> USE <1>0, BackupFacts, RestingTask
<1>1. PICK i \in DOMAIN databases : databases' = From(i, databases)
  BY DEF ForgetDatabases
<1>2. task' = [NoTask EXCEPT !.at = "inventory"] /\ UNCHANGED <<day, live, checkpoints, fetched, inForce>>
  BY DEF ForgetDatabases
<1>3. task' \in Task /\ task'.at = "inventory" /\ task'.exported = 1 /\ task'.previous = Empty
  BY <1>2 DEF Task
<1>4. /\ databases' \in Seq(Snapshot)
      /\ \A j \in DOMAIN databases' : \E k \in DOMAIN databases : databases'[j] = databases[k]
  BY <1>1, LosesItsHead
<1> QED
  BY <1>2, <1>3, <1>4, SnapshotsChange

\* The checkpoints change: the newest keeps every marker, but those of closures
\* that every database snapshot was saved after.
LEMMA CheckpointsChange ==
    ASSUME BackupInv, UNCHANGED <<day, live, databases, fetched, inForce>>,
           checkpoints' \in Seq(Checkpoint), task' \in Task,
           task'.at \in {"idle", "forget"}, task'.exported \in {1, task.exported},
           task'.previous \in {Empty, task.previous},
           \A u \in Users : \/ Known'[u] = Known[u]
                            \/ /\ Known'[u] = NotAsked
                               /\ inForce[u] \in Days =>
                                     \A i \in DOMAIN databases : inForce[u] < databases[i].day
    PROVE  BackupInv'
<1>0. BackupTypeOK
  BY DEF BackupInv
<1> USE <1>0, BackupFacts, DaysAreNumbers, RestingTask
<1>1. BackupTypeOK'
  BY DEF BackupTypeOK
<1>2. 1 <= day
  BY BackupAssumption DEF Days
<1>3. Orderly'
  BY <1>2 DEF BackupInv, Orderly, On, Up
<1>4. ASSUME NEW u \in Users PROVE AccountFits(u)'
  <2>1. AccountFits(u)
    BY DEF BackupInv
  <2>2. LiveFits(u)' /\ Agrees(u, Known)' /\ FetchedFits(u)'
    BY <2>1 DEF AccountFits, LiveFits, Up, Agrees, FetchedFits
  <2>3. TaskFits(u)'
    BY <2>1 DEF AccountFits, TaskFits, On, Agrees
  <2>4. ASSUME NEW i \in DOMAIN databases PROVE SnapshotFits(u, databases[i])'
    <3>1. SnapshotFits(u, databases[i])
      BY <2>1 DEF AccountFits
    <3> QED
      BY <3>1 DEF SnapshotFits, Agrees, ClosedSince, Up
  <2> QED
    BY <2>2, <2>3, <2>4 DEF AccountFits
<1> QED
  BY <1>1, <1>3, <1>4 DEF BackupInv

LEMMA MarkersFiltered == BackupInv /\ FilterMarkers => BackupInv'
<1> SUFFICES ASSUME BackupInv, FilterMarkers PROVE BackupInv'
  OBVIOUS
<1>0. BackupTypeOK
  BY DEF BackupInv
<1> USE <1>0, BackupFacts, DaysAreNumbers, RestingTask
<1>1. PICK retained : retained = Retained(Known, task.days)
  OBVIOUS
<1>2. /\ On("filter") /\ task' = [task EXCEPT !.at = "forget"]
      /\ UNCHANGED <<day, live, databases, fetched, inForce>>
      /\ \/ retained = Known /\ UNCHANGED checkpoints
         \/ checkpoints' = Append(checkpoints, [day |-> day, markers |-> retained])
  BY <1>1 DEF FilterMarkers
<1>3. /\ task' \in Task /\ task'.at = "forget" /\ task'.exported = task.exported
      /\ task'.previous = task.previous
  BY <1>2 DEF Task
<1>4. /\ retained \in Manifest
      /\ \A u \in Users : retained[u] # Known[u] => /\ retained[u] = NotAsked
                                                    /\ \A d \in task.days : ~(d <= Known[u])
  BY <1>1 DEF Retained, Manifest
<1>5. PICK saved : saved = [day |-> day, markers |-> retained]
  OBVIOUS
<1>6. saved \in Checkpoint /\ saved.markers = retained
  BY <1>4, <1>5 DEF Checkpoint
<1>7. checkpoints' \in Seq(Checkpoint) /\ Known' = retained
  <2>1. CASE retained = Known /\ UNCHANGED checkpoints
    BY <2>1 DEF Known
  <2>2. CASE checkpoints' = Append(checkpoints, [day |-> day, markers |-> retained])
    <3>1. checkpoints' = Append(checkpoints, saved)
      BY <1>5, <2>2
    <3> QED
      BY <1>6, <3>1, GrowsByOne DEF Known
  <2> QED
    BY <1>2, <2>1, <2>2
<1>8. ASSUME NEW u \in Users, Known'[u] # Known[u]
      PROVE  /\ Known'[u] = NotAsked
             /\ inForce[u] \in Days => \A i \in DOMAIN databases : inForce[u] < databases[i].day
  <2>1. Known'[u] = NotAsked /\ \A d \in task.days : ~(d <= Known[u])
    BY <1>4, <1>7, <1>8
  <2>2. inForce[u] \in Days => Known[u] = inForce[u]
    BY <1>8, <2>1 DEF BackupInv, AccountFits, Agrees
  <2>3. \A i \in DOMAIN databases : databases[i].day \in task.days
    BY <1>2 DEF BackupInv, Orderly
  <2>4. ASSUME inForce[u] \in Days, NEW i \in DOMAIN databases PROVE inForce[u] < databases[i].day
    <3>1. PICK d : d = databases[i].day
      OBVIOUS
    <3>2. d \in Nat /\ inForce[u] \in Nat /\ ~(d <= inForce[u])
      BY <2>1, <2>2, <2>3, <2>4, <3>1
    <3> QED
      BY <3>1, <3>2
  <2> QED
    BY <2>1, <2>4
<1> QED
  BY <1>2, <1>3, <1>7, <1>8, CheckpointsChange

LEMMA CheckpointsForgotten == BackupInv /\ ForgetCheckpoints => BackupInv'
<1> SUFFICES ASSUME BackupInv, ForgetCheckpoints PROVE BackupInv'
  OBVIOUS
<1>0. BackupTypeOK
  BY DEF BackupInv
<1> USE <1>0, BackupFacts, RestingTask
<1>1. task' = NoTask /\ UNCHANGED <<day, live, databases, fetched, inForce>>
  BY DEF ForgetCheckpoints
<1>2. checkpoints' \in Seq(Checkpoint) /\ Known' = Known
  <2>1. CASE checkpoints = <<>> /\ UNCHANGED checkpoints
    BY <2>1 DEF Known
  <2>2. CASE \E i \in DOMAIN checkpoints : checkpoints' = From(i, checkpoints)
    <3>1. PICK i \in DOMAIN checkpoints : checkpoints' = From(i, checkpoints)
      BY <2>2
    <3>2. checkpoints' \in Seq(Checkpoint) /\ checkpoints' # <<>> /\ checkpoints'[Len(checkpoints')] = checkpoints[Len(checkpoints)]
      BY <3>1, LosesItsHead
    <3>3. checkpoints # <<>>
      OBVIOUS
    <3> QED
      BY <3>2, <3>3 DEF Known
  <2> QED
    BY <2>1, <2>2 DEF ForgetCheckpoints
<1> QED
  BY <1>1, <1>2, CheckpointsChange

LEMMA RecoveryFetched ==
    ASSUME BackupInv, NEW i \in DOMAIN databases, Fetch(i)
    PROVE  BackupInv'
<1>0. BackupTypeOK
  BY DEF BackupInv
<1> USE <1>0, BackupFacts, DaysAreNumbers
<1>1. PICK dump : dump = databases[i].dump
  OBVIOUS
<1>2. PICK markers : markers = Merge(databases[i].manifest, Known)
  OBVIOUS
<1>3. /\ On("idle") /\ ~Up /\ fetched' = [dump |-> dump, markers |-> markers]
      /\ UNCHANGED <<day, live, databases, checkpoints, task, inForce>>
  BY <1>1, <1>2 DEF Fetch
<1>4. /\ dump \in Manifest /\ markers \in Manifest
      /\ \A u \in Users : markers[u] \in {databases[i].manifest[u], Known[u]}
  BY <1>1, <1>2, MergedManifest
<1>5. BackupTypeOK'
  BY <1>3, <1>4 DEF BackupTypeOK
<1>6. Orderly'
  BY <1>3 DEF BackupInv, Orderly, On, Up
<1>7. Known' = Known
  BY <1>3 DEF Known
<1>8. ASSUME NEW u \in Users PROVE AccountFits(u)'
  <2>1. AccountFits(u) /\ SnapshotFits(u, databases[i])
    BY DEF BackupInv, AccountFits
  <2>2. Agrees(u, dump) /\ Agrees(u, markers)
    BY <1>1, <1>4, <2>1 DEF AccountFits, SnapshotFits, Agrees
  <2>3. fetched'.dump = dump /\ fetched'.markers = markers
    BY <1>3
  <2>4. FetchedFits(u)'
    BY <1>3, <2>2, <2>3 DEF FetchedFits, Agrees
  <2>5. LiveFits(u)' /\ Agrees(u, Known)' /\ TaskFits(u)'
    BY <1>3, <1>7, <2>1 DEF AccountFits, LiveFits, Up, Agrees, TaskFits, On
  <2>6. ASSUME NEW j \in DOMAIN databases PROVE SnapshotFits(u, databases[j])'
    <3>1. SnapshotFits(u, databases[j])
      BY <2>1 DEF AccountFits
    <3> QED
      BY <1>3, <1>7, <3>1 DEF SnapshotFits, Agrees, ClosedSince, Up
  <2> QED
    BY <1>3, <2>4, <2>5, <2>6 DEF AccountFits
<1> QED
  BY <1>5, <1>6, <1>8 DEF BackupInv

LEMMA RecoveryPromoted == BackupInv /\ Promote => BackupInv'
<1> SUFFICES ASSUME BackupInv, Promote PROVE BackupInv'
  OBVIOUS
<1>0. BackupTypeOK
  BY DEF BackupInv
<1> USE <1>0, BackupFacts, DaysAreNumbers
<1>1. PICK dump \in Manifest : dump = fetched.dump
  BY DEF Promote
<1>2. PICK markers \in Manifest : markers = fetched.markers
  BY DEF Promote
<1>3. /\ fetched # Nothing /\ fetched' = Nothing
      /\ live' = [u \in Users |-> IF dump[u] # NotAsked THEN dump[u] ELSE markers[u]]
      /\ inForce' = [u \in Users |-> IF inForce[u] # NotAsked /\ live'[u] = NotAsked THEN Revived ELSE inForce[u]]
      /\ UNCHANGED <<day, databases, checkpoints, task>>
  BY <1>1, <1>2 DEF Promote, Reapplied
<1>4. ~Up /\ ~On("checkpoint") /\ ~On("upload")
  BY <1>3 DEF BackupInv, Orderly
<1>5. live' \in Manifest /\ inForce' \in [Users -> Days \cup {NotAsked, Revived}]
  BY <1>3 DEF Manifest
<1>6. BackupTypeOK'
  BY <1>3, <1>5 DEF BackupTypeOK
<1>7. Orderly'
  BY <1>3, <1>4 DEF BackupInv, Orderly, On
<1>8. Known' = Known
  BY <1>3 DEF Known
<1>9. ASSUME NEW u \in Users PROVE AccountFits(u)'
  <2>1. AccountFits(u) /\ FetchedFits(u) /\ TaskFits(u)
    BY DEF BackupInv, AccountFits
  <2>2. Agrees(u, dump) /\ Agrees(u, markers)
    BY <1>1, <1>2, <1>3, <2>1 DEF FetchedFits
  <2>3. live'[u] = IF dump[u] # NotAsked THEN dump[u] ELSE markers[u]
    BY <1>3
  <2>4. inForce'[u] = IF inForce[u] # NotAsked /\ live'[u] = NotAsked THEN Revived ELSE inForce[u]
    BY <1>3
  <2>5. FetchedFits(u)'
    BY <1>3 DEF FetchedFits
  <2>6. CASE inForce[u] = NotAsked
    <3>1. inForce'[u] = NotAsked /\ live'[u] = NotAsked
      BY <2>2, <2>3, <2>4, <2>6 DEF Agrees
    <3>2. LiveFits(u)' /\ Agrees(u, Known)' /\ Agrees(u, task.previous)'
      BY <1>3, <1>8, <2>1, <2>6, <3>1 DEF LiveFits, AccountFits, TaskFits, Agrees
    <3>3. On("export") => ExportFits(u)'
      BY <1>3, <2>1, <2>6, <3>1 DEF TaskFits, ExportFits
    <3>4. TaskFits(u)'
      BY <1>3, <1>4, <2>1, <3>2, <3>3 DEF TaskFits, On
    <3>5. ASSUME NEW j \in DOMAIN databases PROVE SnapshotFits(u, databases[j])'
      <4>1. SnapshotFits(u, databases[j])
        BY <2>1 DEF AccountFits
      <4> QED
        BY <1>3, <1>4, <2>6, <3>1, <4>1 DEF SnapshotFits, Agrees, ClosedSince, On
    <3> QED
      BY <1>3, <2>5, <3>2, <3>4, <3>5 DEF AccountFits
  <2>7. CASE inForce[u] \in Days /\ live'[u] # NotAsked
    <3>1. inForce'[u] = inForce[u] /\ live'[u] = inForce[u] /\ inForce[u] # NotAsked
      BY <2>2, <2>3, <2>4, <2>7 DEF Agrees
    <3>2. LiveFits(u)' /\ Agrees(u, Known)' /\ Agrees(u, task.previous)'
      BY <1>3, <1>8, <2>1, <2>7, <3>1 DEF LiveFits, AccountFits, TaskFits, Agrees
    <3>3. On("export") => ExportFits(u)'
      BY <1>3, <2>1, <2>7, <3>1 DEF TaskFits, ExportFits
    <3>4. TaskFits(u)'
      BY <1>3, <1>4, <2>1, <3>2, <3>3 DEF TaskFits, On
    <3>5. ASSUME NEW j \in DOMAIN databases PROVE SnapshotFits(u, databases[j])'
      <4>1. SnapshotFits(u, databases[j])
        BY <2>1 DEF AccountFits
      <4> QED
        BY <1>3, <1>8, <2>7, <3>1, <4>1 DEF SnapshotFits, Agrees
    <3> QED
      BY <1>3, <2>5, <3>2, <3>4, <3>5 DEF AccountFits
  <2>8. CASE inForce'[u] = Revived
    <3>1. LiveFits(u)' /\ Agrees(u, Known)' /\ Agrees(u, task.previous)'
      BY <2>8 DEF LiveFits, Agrees
    <3>2. TaskFits(u)'
      BY <1>3, <1>4, <2>1, <2>8, <3>1 DEF TaskFits, On, ExportFits
    <3>3. \A j \in DOMAIN databases : SnapshotFits(u, databases[j])'
      BY <2>8 DEF SnapshotFits, Agrees
    <3> QED
      BY <1>3, <2>5, <3>1, <3>2, <3>3 DEF AccountFits
  <2> QED
    BY <2>4, <2>6, <2>7, <2>8
<1> QED
  BY <1>6, <1>7, <1>9 DEF BackupInv

LEMMA DatabaseLost == BackupInv /\ Disaster => BackupInv'
<1> SUFFICES ASSUME BackupInv, Disaster PROVE BackupInv'
  OBVIOUS
<1>1. /\ live' = Lost /\ Up /\ UNCHANGED <<day, databases, checkpoints, task, fetched, inForce>>
  BY DEF Disaster
<1>2. BackupTypeOK'
  BY <1>1 DEF BackupInv, BackupTypeOK
<1>3. ~Up'
  BY <1>1 DEF Up
<1>4. fetched = Nothing
  BY <1>1 DEF BackupInv, Orderly
<1>5. Orderly'
  BY <1>1, <1>4 DEF BackupInv, Orderly, On
<1>6. Known' = Known
  BY <1>1 DEF Known
<1>7. ASSUME NEW u \in Users PROVE AccountFits(u)'
  <2>1. AccountFits(u) /\ TaskFits(u)
    BY DEF BackupInv, AccountFits
  <2>2. LiveFits(u)' /\ Agrees(u, Known)' /\ FetchedFits(u)' /\ Agrees(u, task.previous)'
    BY <1>1, <1>3, <1>4, <1>6, <2>1 DEF AccountFits, TaskFits, LiveFits, Agrees, FetchedFits
  <2>3. (On("export") => ExportFits(u)') /\ (On("checkpoint") => CheckpointFits(u)')
    BY <1>1, <1>3, <2>1 DEF TaskFits, ExportFits, CheckpointFits, ClosedSince
  <2>4. On("upload") => UploadFits(u)'
    BY <1>1, <1>3, <2>1 DEF TaskFits, UploadFits, ClosedSince
  <2>5. TaskFits(u)'
    BY <1>1, <2>1, <2>2, <2>3, <2>4 DEF TaskFits, On
  <2>6. ASSUME NEW j \in DOMAIN databases PROVE SnapshotFits(u, databases[j])'
    <3>1. SnapshotFits(u, databases[j])
      BY <2>1 DEF AccountFits
    <3> QED
      BY <1>1, <1>3, <1>6, <3>1 DEF SnapshotFits, Agrees, ClosedSince
  <2> QED
    BY <1>1, <2>2, <2>5, <2>6 DEF AccountFits
<1> QED
  BY <1>2, <1>5, <1>7 DEF BackupInv

\* What an account's facts speak of does not change.
LEMMA AccountsKept ==
    ASSUME \A u \in Users : AccountFits(u), UNCHANGED <<live, databases, checkpoints, task, fetched, inForce>>
    PROVE  \A u \in Users : AccountFits(u)'
<1> SUFFICES ASSUME NEW u \in Users PROVE AccountFits(u)'
  OBVIOUS
<1>1. Known' = Known
  BY DEF Known
<1>2. AccountFits(u) /\ TaskFits(u)
  BY DEF AccountFits
<1>3. LiveFits(u)' /\ Agrees(u, Known)' /\ FetchedFits(u)'
  BY <1>1, <1>2 DEF AccountFits, LiveFits, Agrees, FetchedFits, Up
<1>4. TaskFits(u)'
  BY <1>2 DEF TaskFits, On, Agrees, ExportFits, CheckpointFits, UploadFits, ClosedSince, Up
<1>5. ASSUME NEW j \in DOMAIN databases PROVE SnapshotFits(u, databases[j])'
  <2>1. SnapshotFits(u, databases[j])
    BY <1>2 DEF AccountFits
  <2> QED
    BY <1>1, <2>1 DEF SnapshotFits, Agrees, ClosedSince, Up
<1> QED
  BY <1>3, <1>4, <1>5 DEF AccountFits

LEMMA DayPasses == BackupInv /\ Tick => BackupInv'
<1> SUFFICES ASSUME BackupInv, Tick PROVE BackupInv'
  OBVIOUS
<1>1. day' = day + 1 /\ day < MaxDay /\ UNCHANGED <<live, databases, checkpoints, task, fetched, inForce>>
  BY DEF Tick
<1>2. day \in Days /\ day' \in Days
  BY <1>1, BackupAssumption DEF BackupInv, BackupTypeOK, Days
<1>3. BackupTypeOK'
  BY <1>1, <1>2 DEF BackupInv, BackupTypeOK
<1>4. Orderly'
  <2>1. \A n \in Nat : n <= day => n <= day'
    BY <1>1, <1>2, DaysAreNumbers
  <2>2. task.exported \in Nat /\ \A i \in DOMAIN databases : databases[i].exported \in Nat
    BY BackupFacts, DaysAreNumbers DEF BackupInv
  <2> QED
    BY <1>1, <2>1, <2>2 DEF BackupInv, Orderly, On, Up
<1>5. \A u \in Users : AccountFits(u)'
  BY <1>1, AccountsKept DEF BackupInv
<1> QED
  BY <1>3, <1>4, <1>5 DEF BackupInv

LEMMA BackupStep == BackupInv /\ [BackupNext]_backupVars => BackupInv'
<1> SUFFICES ASSUME BackupInv, [BackupNext]_backupVars PROVE BackupInv'
  OBVIOUS
<1>1. ASSUME \/ \E kind \in {"database", "closures"} : BeginBackup(kind)
             \/ TakeInventory \/ FailTask
      PROVE  BackupInv'
  BY <1>1, LockTaken
<1>2. CASE Backup
  BY <1>2, DumpStaged, ManifestExported, CheckpointSaved, DatabaseSaved DEF Backup
<1>3. CASE Retention
  BY <1>3, <1>1, DatabasesForgotten, MarkersFiltered, CheckpointsForgotten DEF Retention
<1>4. CASE \E u \in Users : RequestClosing(u)
  BY <1>4, ClosingsRequested
<1>5. CASE \E i \in DOMAIN databases : Fetch(i)
  BY <1>5, RecoveryFetched
<1>6. CASE Promote \/ Disaster \/ Tick
  BY <1>6, RecoveryPromoted, DatabaseLost, DayPasses
<1>7. CASE UNCHANGED backupVars
  <2>1. UNCHANGED <<day, live, databases, checkpoints, task, fetched, inForce>>
    BY <1>7 DEF backupVars
  <2>2. BackupTypeOK'
    BY <2>1 DEF BackupInv, BackupTypeOK
  <2>3. Orderly'
    BY <2>1 DEF BackupInv, Orderly, On, Up
  <2>4. \A u \in Users : AccountFits(u)'
    BY <2>1, AccountsKept DEF BackupInv
  <2> QED
    BY <2>2, <2>3, <2>4 DEF BackupInv
<1> QED
  BY <1>1, <1>2, <1>3, <1>4, <1>5, <1>6, <1>7 DEF BackupNext

\* The repository, the database and what is under way keep their types.
THEOREM BackupTyped == BackupSpec => []BackupTypeOK
<1>1. BackupInv => BackupTypeOK
  BY DEF BackupInv
<1> QED
  BY BackupInitially, BackupStep, <1>1, PTL DEF BackupSpec

\* No snapshot that can still be chosen revives an account whose closure a
\* checkpoint has confirmed, but one that was saved over the request of the closure,
\* for any number of accounts, days and snapshots and any horizons.
THEOREM ClosedStayClosed == BackupSpec => []NothingRevived
<1>1. BackupInv => NothingRevived
  <2> SUFFICES ASSUME BackupInv, NEW u \in Users, inForce[u] \in Days, NEW i \in DOMAIN databases
               PROVE  \/ Between(inForce[u], databases[i])
                      \/ Reapplied(databases[i].dump, Merge(databases[i].manifest, Known))[u] # NotAsked
    BY DEF NothingRevived
  <2>1. SnapshotFits(u, databases[i])
    BY DEF BackupInv, AccountFits
  <2>2. /\ databases[i].dump \in Manifest /\ databases[i].manifest \in Manifest /\ Known \in Manifest
    BY BackupFacts DEF BackupInv
  <2>3. PICK merged : merged = Merge(databases[i].manifest, Known)
    OBVIOUS
  <2>4. merged[u] = NotAsked <=> databases[i].manifest[u] = NotAsked /\ Known[u] = NotAsked
    BY <2>2, <2>3, MergedManifest
  <2>5. Reapplied(databases[i].dump, merged)[u] = NotAsked => merged[u] = NotAsked
    BY DEF Reapplied
  <2>6. merged[u] = NotAsked => Between(inForce[u], databases[i])
    BY <2>1, <2>4 DEF SnapshotFits, Between
  <2> QED
    BY <2>3, <2>5, <2>6
<1> QED
  BY BackupInitially, BackupStep, <1>1, PTL DEF BackupSpec

===============================================================================
