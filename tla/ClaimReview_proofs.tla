--------------------------- MODULE ClaimReview_proofs ---------------------------
(***************************************************************************)
(* What ClaimReview guarantees for any number of loops, sessions, reviews, *)
(* cases, days, faults and revisions of the settings; and, after it, what  *)
(* Allowances guarantees, with which it shares no state.                   *)
(***************************************************************************)
EXTENDS ClaimReview, Allowances, FiniteSetTheorems, TLAPS

USE ClaimReviewAssumption DEF At, Become

-----------------------------------------------------------------------------
(* Type correctness. *)

LEMMA ConstantsTyped ==
    /\ NoReview \in ReviewRow /\ NoEntry \in Entry
    /\ Idle \in Place /\ IdleSession \in SessionPlace
<1>1. NoReview \in ReviewRow
  BY DEF NoReview, ReviewRow, NoToken
<1>2. (CHOOSE r \in Reviews : TRUE) \in Reviews
  OBVIOUS
<1> QED BY <1>1, <1>2 DEF NoEntry, Entry, Idle, Place, IdleSession, SessionPlace

\* A row that ends, and one whose lease changes.
LEMMA RowTyped ==
    ASSUME NEW row \in ReviewRow
    PROVE  /\ row.writes + 1 \in Nat
           /\ \A result \in {"none", "completed", "failed", "deleted"} :
                 Ended(row, result) \in ReviewRow
           /\ [row EXCEPT !.token = NoToken] \in ReviewRow
           /\ [row EXCEPT !.lease = "past"] \in ReviewRow
           /\ \A n \in Nat : /\ [row EXCEPT !.lease = "past", !.writes = n] \in ReviewRow
                             /\ [row EXCEPT !.status = "running", !.token = n,
                                            !.lease = "live", !.writes = n] \in ReviewRow
<1>1. \A result \in {"none", "completed", "failed", "deleted"} :
                 Ended(row, result) \in ReviewRow
  BY DEF ReviewRow, Ended, NoToken
<1>2. \A n \in Nat : [row EXCEPT !.lease = "past", !.writes = n] \in ReviewRow
  BY DEF ReviewRow
<1>3. \A n \in Nat : [row EXCEPT !.status = "running", !.token = n,
                                  !.lease = "live", !.writes = n] \in ReviewRow
  BY DEF ReviewRow
<1>4. row.writes + 1 \in Nat /\ [row EXCEPT !.token = NoToken] \in ReviewRow
      /\ [row EXCEPT !.lease = "past"] \in ReviewRow
  BY DEF ReviewRow, NoToken
<1> QED BY <1>1, <1>2, <1>3, <1>4

\* Writing some of the columns.
LEMMA FlushTyped ==
    ASSUME NEW row \in ReviewRow, NEW view, NEW new \in ReviewRow
    PROVE  Flush(row, view, new) \in ReviewRow
BY DEF Flush, ReviewRow

\* A place in the tick that changes in one or some of its parts.
LEMMA PlaceTyped ==
    ASSUME NEW p \in Place
    PROVE  /\ \A n \in Nat : [p EXCEPT !.pc = "claimed", !.writes = n] \in Place
           /\ \A row \in ReviewRow, result \in {"completed", "failed"} :
                 [p EXCEPT !.pc = "finish", !.view = row, !.result = result] \in Place
           /\ \A c \in Nat : [p EXCEPT !.pc = "insert", !.case = c] \in Place
           /\ [p EXCEPT !.pc = "call"] \in Place
           /\ \A answer \in {"lost", "invalid", "overrun", "good"} :
                 [p EXCEPT !.pc = "record", !.answer = answer] \in Place
           /\ \A r \in Reviews, d \in Nat, n \in Nat :
                 [p EXCEPT !.pc = "seen", !.review = r, !.day = d, !.writes = n] \in Place
BY DEF Place

\* What a recorded answer makes of the review's row.
LEMMA AfterTyped ==
    ASSUME NEW row \in ReviewRow, NEW c, NEW answer, NEW result \in {"completed", "failed"}
    PROVE  After(row, c, answer, result) \in ReviewRow
BY RowTyped DEF After

LEMMA InitTyped == Init => TypeOK
BY ConstantsTyped DEF Init, TypeOK, Case

LEMMA TypedStep == TypeOK /\ [Next]_vars => TypeOK'
<1> SUFFICES ASSUME TypeOK, [Next]_vars PROVE TypeOK'
  OBVIOUS
<1>0. /\ review \in [Reviews -> ReviewRow] /\ worker \in [Workers -> Place]
      /\ ledger \in [Reviews -> [Case -> Entry]] /\ session \in [Sessions -> SessionPlace]
      /\ Idle \in Place /\ IdleSession \in SessionPlace
      /\ \A w \in Workers : /\ worker[w].review \in Reviews /\ worker[w].case \in Nat
                            /\ worker[w].day \in Nat
      /\ \A s \in Sessions : session[s].review \in Reviews /\ session[s].day \in Nat
      /\ \A r \in Reviews : review[r].writes \in Nat
  BY ConstantsTyped DEF TypeOK, Place, SessionPlace, ReviewRow
<1>1. ASSUME NEW s \in Sessions, NEW r \in Reviews, ReadPolicy(s, r) PROVE TypeOK'
  <2>1. [pc |-> "admit", review |-> r, version |-> policy.version, day |-> day] \in SessionPlace
    BY DEF TypeOK, SessionPlace
  <2> QED BY <1>0, <1>1, <2>1 DEF ReadPolicy, TypeOK
<1>2. ASSUME NEW s \in Sessions, Admit(s) PROVE TypeOK'
  <2> DEFINE calls == Reset(session[s].day).calls
             row == [NoReview EXCEPT !.status = "queued", !.active = TRUE, !.day = session[s].day]
  <2>1. /\ Reset(session[s].day) \in [day : Nat, calls : 0 .. DailyCalls]
        /\ calls + Cases \in 0 .. DailyCalls
    BY <1>0, <1>2 DEF TypeOK, Reset, Admit, Admissible, Affordable
  <2>2. row \in ReviewRow
    BY <1>0, ConstantsTyped DEF ReviewRow
  <2>3. budget' \in [day : Nat, calls : 0 .. DailyCalls]
    BY <1>2, <2>1 DEF Admit
  <2>4. review' \in [Reviews -> ReviewRow]
    BY <1>0, <1>2, <2>2 DEF Admit
  <2>5. session' \in [Sessions -> SessionPlace]
    BY <1>0, <1>2 DEF Admit, TypeOK
  <2> QED BY <1>2, <2>3, <2>4, <2>5 DEF Admit, TypeOK
<1>3. ASSUME NEW s \in Sessions, Refuse(s) PROVE TypeOK'
  BY <1>0, <1>3 DEF Refuse, TypeOK
<1>4. ASSUME NEW w \in Workers, WorkerStep(w) \/ Crash(w) PROVE TypeOK'
  <2>1. CASE Look(w)
    <3>1. PICK r \in Reviews :
             worker' = [worker EXCEPT ![w] = [Idle EXCEPT !.pc = "seen", !.review = r, !.day = day,
                                                          !.writes = review[r].writes]]
      BY <2>1 DEF Look
    <3>2. [Idle EXCEPT !.pc = "seen", !.review = r, !.day = day,
                       !.writes = review[r].writes] \in Place
      <4>1. day \in Nat /\ review[r].writes \in Nat
        BY <1>0 DEF TypeOK
      <4> QED BY <1>0, <4>1, PlaceTyped
    <3>3. worker' \in [Workers -> Place]
      BY <1>0, <3>1, <3>2
    <3> QED BY <2>1, <3>3 DEF Look, TypeOK
  <2>2. CASE Claim(w)
    <3> DEFINE r == worker[w].review
               n == review[r].writes + 1
    <3>1. n \in Nat /\ r \in Reviews
      BY <1>0
    <3>2. /\ review' = [review EXCEPT ![r].status = "running", ![r].token = n,
                                      ![r].lease = "live", ![r].writes = n]
          /\ worker' = [worker EXCEPT ![w] = [worker[w] EXCEPT !.pc = "claimed", !.writes = n]]
      BY <2>2 DEF Claim
    <3> HIDE DEF n, r
    <3>3. review' \in [Reviews -> ReviewRow]
      <4>1. review' = [review EXCEPT ![r] = [review[r] EXCEPT !.status = "running", !.token = n,
                                                          !.lease = "live", !.writes = n]]
        BY <1>0, <3>1, <3>2
      <4> QED BY <1>0, <3>1, <4>1, RowTyped
    <3>4. worker' \in [Workers -> Place]
      BY <1>0, <3>1, <3>2, PlaceTyped
    <3> QED BY <2>2, <3>3, <3>4 DEF Claim, TypeOK
  <2>3. CASE ClaimLost(w) \/ InsertFails(w) \/ RecordLost(w)
    BY <1>0, <2>3 DEF ClaimLost, InsertFails, RecordLost, TypeOK
  <2>4. CASE Check(w)
    <3> DEFINE finish(result) == [worker[w] EXCEPT !.pc = "finish", !.view = review[worker[w].review],
                                                   !.result = result]
    <3>1. finish("failed") \in Place /\ finish("completed") \in Place
      BY <1>0, PlaceTyped
    <3>2. \A c \in Case : [worker[w] EXCEPT !.pc = "insert", !.case = c] \in Place
      <4>1. \A c \in Case : c \in Nat
        BY DEF Case
      <4> QED BY <1>0, <4>1, PlaceTyped
    <3>3. \E place \in Place : worker' = [worker EXCEPT ![w] = place]
      <4>1. \/ worker' = [worker EXCEPT ![w] = Idle]
            \/ worker' = [worker EXCEPT ![w] = finish("failed")]
            \/ worker' = [worker EXCEPT ![w] = finish("completed")]
            \/ \E c \in Case :
                  worker' = [worker EXCEPT ![w] = [worker[w] EXCEPT !.pc = "insert", !.case = c]]
        BY <2>4 DEF Check
      <4> HIDE DEF finish
      <4> QED BY <1>0, <3>1, <3>2, <4>1
    <3>4. worker' \in [Workers -> Place]
      BY <1>0, <3>3
    <3> QED BY <2>4, <3>4 DEF Check, TypeOK
  <2>5. CASE Finish(w)
    <3>1. worker[w].view \in ReviewRow /\ worker[w].result \in {"none", "failed", "completed"}
      BY <1>0 DEF Place
    <3>2. \A result \in {"none", "failed", "completed"} :
             Flush(review[worker[w].review], worker[w].view,
                   Ended(worker[w].view, result)) \in ReviewRow
      BY <1>0, <3>1, RowTyped, FlushTyped
    <3>3. review' \in [Reviews -> ReviewRow]
      BY <1>0, <2>5, <3>1, <3>2 DEF Finish
    <3> QED BY <1>0, <2>5, <3>3 DEF Finish, TypeOK
  <2>6. CASE Insert(w)
    <3>1. [outcome |-> "unconfirmed", day |-> worker[w].day] \in Entry
      BY <1>0 DEF Entry
    <3>2. ledger' \in [Reviews -> [Case -> Entry]] /\ worker' \in [Workers -> Place]
      BY <1>0, <2>6, <3>1, PlaceTyped DEF Insert
    <3> QED BY <2>6, <3>2 DEF Insert, TypeOK
  <2>7. CASE Call(w)
    <3>1. \E place \in Place : worker' = [worker EXCEPT ![w] = place]
      BY <1>0, <2>7, PlaceTyped DEF Call
    <3>2. worker' \in [Workers -> Place]
      BY <1>0, <3>1
    <3> QED BY <2>7, <3>2 DEF Call, TypeOK
  <2>8. CASE Record(w)
    <3> DEFINE r == worker[w].review
               n == review[r].writes + 1
    <3>1. n \in Nat /\ r \in Reviews /\ [review[r] EXCEPT !.lease = "past", !.writes = n] \in ReviewRow
      BY <1>0, RowTyped
    <3>2. review' \in [Reviews -> ReviewRow]
      BY <1>0, <2>8, <3>1, AfterTyped DEF Record
    <3>3. ledger' \in [Reviews -> [Case -> Entry]]
      <4>1. Outcome(worker[w].answer) \in {"none", "unconfirmed", "invalid", "accepted"}
        BY <2>8 DEF Record, Outcome
      <4>2. \A o \in {"none", "unconfirmed", "invalid", "accepted"}, e \in Entry :
               [e EXCEPT !.outcome = o] \in Entry
        BY DEF Entry
      <4>3. ledger' = [ledger EXCEPT ![r][worker[w].case].outcome = Outcome(worker[w].answer)]
        BY <2>8 DEF Record
      <4>4. \A b \in Case : ledger'[r][b] \in Entry
        BY <1>0, <3>1, <4>1, <4>2, <4>3
      <4> QED BY <1>0, <4>3, <4>4
    <3> QED BY <1>0, <2>8, <3>2, <3>3 DEF Record, TypeOK
  <2>9. CASE Crash(w)
    BY <1>0, <2>9 DEF Crash, Fault, TypeOK
  <2> QED BY <1>4, <2>1, <2>2, <2>3, <2>4, <2>5, <2>6, <2>7, <2>8, <2>9 DEF WorkerStep
<1>5. ASSUME NEW observe \in BOOLEAN, Revise(observe) PROVE TypeOK'
  <2>1. policy' \in [version : 0 .. MaxVersion, observe : BOOLEAN]
    BY <1>5 DEF Revise, TypeOK
  <2> QED BY <1>5, <2>1 DEF Revise, TypeOK
<1>6. ASSUME NEW r \in Reviews, Redact(r) \/ Delete(r) PROVE TypeOK'
  <2>1. review' \in [Reviews -> ReviewRow]
    <3>1. CASE Redact(r)
      BY <1>0, <3>1, RowTyped DEF Redact
    <3>2. CASE Delete(r)
      BY <1>0, <3>2, RowTyped DEF Delete
    <3> QED BY <1>6, <3>1, <3>2
  <2> QED BY <1>6, <2>1 DEF Redact, Delete, Fault, TypeOK
<1>7. ASSUME NEW r \in Reviews, LeaseExpires(r) PROVE TypeOK'
  <2>1. review' \in [Reviews -> ReviewRow]
    BY <1>0, <1>7, RowTyped DEF LeaseExpires
  <2> QED BY <1>7, <2>1 DEF LeaseExpires, Fault, TypeOK
<1>8. CASE Midnight
  BY <1>8 DEF Midnight, TypeOK
<1>9. CASE UNCHANGED vars
  BY <1>9 DEF vars, TypeOK
<1> QED BY <1>1, <1>2, <1>3, <1>4, <1>5, <1>6, <1>7, <1>8, <1>9 DEF Next

\* Every variable keeps its type; in particular no day's budget exceeds the limit of
\* calls (start_review, claim_review_service.py:131).
THEOREM TypeCorrect == Spec => []TypeOK
BY InitTyped, TypedStep, PTL DEF Spec

-----------------------------------------------------------------------------
(* Uncertain calls and completed reviews.  The leases take no part in the      *)
(* argument: a request is inserted for the first case without one, when all    *)
(* before it are accepted; the unique key lets one tick in; and only that tick *)
(* changes the request, which is unconfirmed until then.                       *)

Calling == {w \in Workers : worker[w].pc \in {"call", "record"}}

\* A tick about to insert has accepted verdicts before it.
Ahead ==
    \A w \in Workers : worker[w].pc = "insert" =>
        /\ worker[w].case \in Case
        /\ \A b \in Case : b < worker[w].case => ledger[worker[w].review][b].outcome = "accepted"

\* The request of a call under way is unconfirmed, and no other tick's.
Pending ==
    \A w \in Calling : /\ worker[w].case \in Case
                       /\ ledger[worker[w].review][worker[w].case].outcome = "unconfirmed"

Apart ==
    \A v, w \in Calling : v # w /\ worker[v].review = worker[w].review
                          => worker[v].case # worker[w].case

\* A tick that is about to complete a review, and a completed review, have every verdict.
Whole ==
    \A w \in Workers : worker[w].pc = "finish" /\ worker[w].result = "completed" =>
        \A c \in Case : ledger[worker[w].review][c].outcome = "accepted"

Reviewed ==
    \A r \in Reviews : review[r].status = "completed" =>
        \A c \in Case : ledger[r][c].outcome = "accepted"

Sound == UncertainIsLast /\ Ahead /\ Pending /\ Apart /\ Whole /\ Reviewed

LEMMA InitSound == Init => Sound
BY DEF Init, Sound, UncertainIsLast, Ahead, Pending, Apart, Whole, Reviewed, Calling,
       NoEntry, NoReview, Idle

\* A step that leaves the requests alone, starts no call, and neither completes a review
\* nor decides to.
LEMMA QuietStep ==
    ASSUME TypeOK, Sound, UNCHANGED ledger,
           \A w \in Workers : \/ worker'[w] = worker[w]
                              \/ worker'[w].pc \in {"idle", "seen", "claimed"}
                              \/ worker'[w].pc = "finish" /\ worker'[w].result # "completed",
           \A r \in Reviews : review'[r].status # "completed" \/ review'[r].status = review[r].status
    PROVE  Sound'
<1>1. UncertainIsLast'
  BY DEF Sound, UncertainIsLast
<1>2. Ahead'
  BY DEF Sound, Ahead
<1>3. Pending' /\ Apart'
  BY DEF Sound, Pending, Apart, Calling
<1>4. Whole' /\ Reviewed'
  BY DEF Sound, Whole, Reviewed
<1> QED BY <1>1, <1>2, <1>3, <1>4 DEF Sound

LEMMA CheckSound ==
    ASSUME TypeOK, Sound, NEW w \in Workers, Check(w)
    PROVE  Sound'
<1>1. /\ At(w, "claimed") /\ UNCHANGED <<ledger, review>>
      /\ \A v \in Workers : v # w => worker'[v] = worker[v]
      /\ worker \in [Workers -> Place] /\ worker[w] \in Place
  BY DEF TypeOK, Check
<1>2. CASE \/ worker'[w].pc = "idle"
           \/ worker'[w].pc = "finish" /\ worker'[w].result = "failed"
  BY <1>1, <1>2, QuietStep
<1>3. CASE /\ Entered(worker[w].review) = Case /\ ~MustStop(w)
           /\ worker'[w].pc = "finish" /\ worker'[w].review = worker[w].review
  <2>1. \A c \in Case : ledger[worker[w].review][c].outcome = "accepted"
    BY <1>3 DEF MustStop, Accepted
  <2>2. Whole'
    BY <1>1, <1>3, <2>1 DEF Sound, Whole
  <2>3. Ahead' /\ Pending' /\ Apart' /\ Reviewed' /\ UncertainIsLast'
    BY <1>1, <1>3 DEF Sound, Ahead, Pending, Apart, Calling, Reviewed, UncertainIsLast
  <2> QED BY <2>2, <2>3 DEF Sound
<1>4. CASE /\ ~MustStop(w)
           /\ \E c \in Case \ Entered(worker[w].review) :
                 /\ \A b \in Case \ Entered(worker[w].review) : c <= b
                 /\ worker'[w].pc = "insert" /\ worker'[w].case = c
                 /\ worker'[w].review = worker[w].review
  <2>0. PICK c \in Case \ Entered(worker[w].review) :
                 /\ \A b \in Case \ Entered(worker[w].review) : c <= b
                 /\ worker'[w].pc = "insert" /\ worker'[w].case = c
                 /\ worker'[w].review = worker[w].review
    BY <1>4
  <2>1. \A b \in Case : b < c => ledger[worker[w].review][b].outcome = "accepted"
    <3> SUFFICES ASSUME NEW b \in Case, b < c
                 PROVE  ledger[worker[w].review][b].outcome = "accepted"
      OBVIOUS
    <3>1. b \in Entered(worker[w].review)
      BY <2>0 DEF Case
    <3> QED BY <1>4, <3>1 DEF MustStop, Accepted
  <2>2. Ahead'
    BY <1>1, <2>0, <2>1 DEF Sound, Ahead
  <2>3. Pending' /\ Apart' /\ Whole' /\ Reviewed' /\ UncertainIsLast'
    BY <1>1, <2>0 DEF Sound, Pending, Apart, Calling, Whole, Reviewed, UncertainIsLast
  <2> QED BY <2>2, <2>3 DEF Sound
<1>5. CASE worker' = [worker EXCEPT ![w] = Idle]
  BY <1>1, <1>2, <1>5 DEF Idle
<1>6. CASE worker' = [worker EXCEPT ![w] = [worker[w] EXCEPT
             !.pc = "finish", !.view = review[worker[w].review], !.result = "failed"]]
  BY <1>1, <1>2, <1>6 DEF Place
<1>7. CASE /\ ~MustStop(w) /\ Entered(worker[w].review) = Case
           /\ worker' = [worker EXCEPT ![w] = [worker[w] EXCEPT
                !.pc = "finish", !.view = review[worker[w].review], !.result = "completed"]]
  BY <1>1, <1>3, <1>7 DEF Place
<1>8. CASE /\ ~MustStop(w)
           /\ \E c \in Case \ Entered(worker[w].review) :
                 /\ \A b \in Case \ Entered(worker[w].review) : c <= b
                 /\ worker' = [worker EXCEPT ![w] =
                                 [worker[w] EXCEPT !.pc = "insert", !.case = c]]
  <2>1. PICK c \in Case \ Entered(worker[w].review) :
                 /\ \A b \in Case \ Entered(worker[w].review) : c <= b
                 /\ worker' = [worker EXCEPT ![w] =
                                 [worker[w] EXCEPT !.pc = "insert", !.case = c]]
    BY <1>8
  <2>2. /\ worker'[w].pc = "insert" /\ worker'[w].case = c
        /\ worker'[w].review = worker[w].review
    BY <1>1, <2>1 DEF Place
  <2> QED BY <1>4, <1>8, <2>1, <2>2
<1> QED BY <1>5, <1>6, <1>7, <1>8 DEF Check

LEMMA FinishSound ==
    ASSUME TypeOK, Sound, NEW w \in Workers, Finish(w)
    PROVE  Sound'
<1> DEFINE r == worker[w].review
           view == worker[w].view
<1>1. /\ At(w, "finish") /\ UNCHANGED ledger /\ worker' = [worker EXCEPT ![w] = Idle]
      /\ r \in Reviews /\ view \in ReviewRow /\ review \in [Reviews -> ReviewRow]
      /\ Idle.pc = "idle" /\ worker \in [Workers -> Place]
  BY DEF TypeOK, Finish, Place, Idle
<1>2. UncertainIsLast' /\ Ahead' /\ Pending' /\ Apart' /\ Whole'
  BY <1>1 DEF Sound, UncertainIsLast, Ahead, Pending, Apart, Whole, Calling
<1>3. \A result, row : row \in ReviewRow =>
         Flush(row, view, Ended(view, result)).status \in {row.status, result}
  BY <1>1 DEF Flush, Ended, ReviewRow
<1>4. \A q \in Reviews : \/ review'[q].status = review[q].status
                         \/ review'[q].status = "failed"
                         \/ q = r /\ review'[q].status = worker[w].result
  BY <1>1, <1>3 DEF Finish
<1>5. Reviewed'
  BY <1>1, <1>4 DEF Sound, Reviewed, Whole
<1> QED BY <1>2, <1>5 DEF Sound

LEMMA InsertSound ==
    ASSUME TypeOK, Sound, NEW w \in Workers, Insert(w)
    PROVE  Sound'
<1> DEFINE r == worker[w].review
           c == worker[w].case
<1>1. /\ At(w, "insert") /\ ledger[r][c].outcome = "none" /\ UNCHANGED review
      /\ worker' = [worker EXCEPT ![w] = [worker[w] EXCEPT !.pc = "call"]]
      /\ ledger' = [ledger EXCEPT ![r][c] = [outcome |-> "unconfirmed", day |-> worker[w].day]]
      /\ r \in Reviews /\ worker \in [Workers -> Place] /\ worker[w] \in Place
      /\ ledger \in [Reviews -> [Case -> Entry]]
  BY DEF TypeOK, Insert, Vacant, Place
<1>2. /\ c \in Case
      /\ \A b \in Case : b < c => ledger[r][b].outcome = "accepted"
  BY <1>1 DEF Sound, Ahead
<1>3. \A q \in Reviews, b \in Case :
         ledger'[q][b].outcome = IF q = r /\ b = c THEN "unconfirmed" ELSE ledger[q][b].outcome
  BY <1>1, <1>2
<1>4. /\ worker'[w].pc = "call" /\ worker'[w].review = r /\ worker'[w].case = c
      /\ \A v \in Workers : v # w => worker'[v] = worker[v]
      /\ \A v \in Workers : worker[v].review \in Reviews
  BY <1>1 DEF Place
<1> HIDE DEF r, c
<1>5. UncertainIsLast'
  <2>1. \A a, b \in Case : a < b /\ ledger[r][b].outcome # "none" => a # c
    BY <1>1, <1>4 DEF Sound, UncertainIsLast, r, c
  <2>2. \A q \in Reviews, a, b \in Case :
           a < b /\ ledger'[q][b].outcome # "none" => ledger'[q][a].outcome = "accepted"
    BY <1>2, <1>3, <2>1 DEF Sound, UncertainIsLast, Case
  <2> QED BY <2>2 DEF UncertainIsLast
<1>6. Ahead'
  BY <1>1, <1>3, <1>4 DEF Sound, Ahead
<1>7. Pending' /\ Apart'
  <2>1. \A v \in Calling : worker[v].review = r => worker[v].case # c
    BY <1>1 DEF Sound, Pending, r, c
  <2>2. \A v \in Workers : v \in Calling' =>
           v = w \/ (v \in Calling /\ worker'[v] = worker[v])
    BY <1>4 DEF Calling
  <2>3. Pending'
    BY <1>1, <1>2, <1>3, <1>4, <2>1, <2>2 DEF Sound, Pending, Calling
  <2>4. Apart'
    BY <1>4, <2>1, <2>2 DEF Sound, Apart, Calling
  <2> QED BY <2>3, <2>4
<1>8. Whole' /\ Reviewed'
  BY <1>1, <1>3, <1>4 DEF Sound, Whole, Reviewed
<1> QED BY <1>5, <1>6, <1>7, <1>8 DEF Sound

LEMMA RecordSound ==
    ASSUME TypeOK, Sound, NEW w \in Workers, Record(w)
    PROVE  Sound'
<1> DEFINE r == worker[w].review
           c == worker[w].case
           outcome == Outcome(worker[w].answer)
           row == [review[r] EXCEPT !.lease = "past", !.writes = review[r].writes + 1]
<1>1. /\ At(w, "record") /\ worker' = [worker EXCEPT ![w] = Idle]
      /\ ledger' = [ledger EXCEPT ![r][c].outcome = outcome]
      /\ r \in Reviews /\ worker \in [Workers -> Place]
      /\ ledger \in [Reviews -> [Case -> Entry]] /\ review \in [Reviews -> ReviewRow]
      /\ \A v \in Workers : worker[v].review \in Reviews
  BY DEF TypeOK, Record, Place
<1>2. PICK result \in {"completed", "failed"} :
         review' = [review EXCEPT ![r] = After(row, c, worker[w].answer, result)]
  BY DEF Record
<1>3. c \in Case /\ ledger[r][c].outcome = "unconfirmed"
  BY <1>1 DEF Sound, Pending, Calling
<1>4. \A q \in Reviews, b \in Case :
         ledger'[q][b].outcome = IF q = r /\ b = c THEN outcome ELSE ledger[q][b].outcome
  BY <1>1, <1>3 DEF Entry
<1>5. /\ worker'[w].pc = "idle"
      /\ \A v \in Workers : v # w => worker'[v] = worker[v]
  BY <1>1 DEF Idle
<1>6. \A v \in Calling : v # w /\ worker[v].review = r => worker[v].case # c
  BY <1>1 DEF Sound, Apart, Calling
<1>7. review'[r].status = "completed" =>
         \/ review[r].status = "completed"
         \/ worker[w].answer = "good" /\ c = Cases
  BY <1>1, <1>2 DEF After, Ended, ReviewRow
<1>8. worker[w].answer = "good" => outcome = "accepted"
  BY DEF Outcome
<1> HIDE DEF r, c, outcome, row
<1>9. UncertainIsLast'
  <2>1. \A a, b \in Case : a < b /\ ledger[r][b].outcome # "none" => a # c
    BY <1>1, <1>3 DEF Sound, UncertainIsLast
  <2>2. \A q \in Reviews, a, b \in Case :
           a < b /\ ledger'[q][b].outcome # "none" => ledger'[q][a].outcome = "accepted"
    BY <1>3, <1>4, <2>1 DEF Sound, UncertainIsLast, Case
  <2> QED BY <2>2 DEF UncertainIsLast
<1>10. Ahead' /\ Whole'
  BY <1>1, <1>3, <1>4, <1>5 DEF Sound, Ahead, Whole
<1>11. Pending' /\ Apart'
  BY <1>1, <1>4, <1>5, <1>6 DEF Sound, Pending, Apart, Calling
<1>12. Reviewed'
  <2>1. worker[w].answer = "good" /\ c = Cases => \A b \in Case : ledger'[r][b].outcome = "accepted"
    <3>1. c = Cases => \A b \in Case : b # c => ledger[r][b].outcome = "accepted"
      BY <1>1, <1>3 DEF Sound, UncertainIsLast, Case
    <3> QED BY <1>1, <1>4, <1>8, <3>1
  <2>2. review[r].status = "completed" => \A b \in Case : ledger'[r][b].outcome = "accepted"
    BY <1>1, <1>3, <1>4 DEF Sound, Reviewed
  <2>3. \A q \in Reviews : q # r => review'[q] = review[q]
    BY <1>1, <1>2
  <2> QED BY <1>4, <1>7, <2>1, <2>2, <2>3 DEF Sound, Reviewed
<1> QED BY <1>9, <1>10, <1>11, <1>12 DEF Sound

LEMMA SoundStep == TypeOK /\ Sound /\ [Next]_vars => Sound'
<1> SUFFICES ASSUME TypeOK, Sound, [Next]_vars PROVE Sound'
  OBVIOUS
<1>0. /\ review \in [Reviews -> ReviewRow] /\ worker \in [Workers -> Place]
      /\ \A w \in Workers : worker[w].review \in Reviews /\ worker[w] \in Place
      /\ Idle.pc = "idle"
  BY DEF TypeOK, Place, Idle
<1>1. CASE UNCHANGED <<ledger, worker, review>>
  BY <1>1, QuietStep
<1>2. ASSUME NEW s \in Sessions, Admit(s) PROVE Sound'
  <2>1. \A r \in Reviews : review'[r] = review[r] \/ review'[r].status = "queued"
    BY <1>0, <1>2 DEF Admit, NoReview
  <2> QED BY <1>2, <2>1, QuietStep DEF Admit
<1>3. ASSUME NEW w \in Workers, WorkerStep(w) \/ Crash(w) PROVE Sound'
  <2>1. CASE Look(w)
    <3>1. worker'[w].pc = "seen" /\ UNCHANGED <<ledger, review>>
          /\ \A v \in Workers : v # w => worker'[v] = worker[v]
      BY <1>0, <2>1 DEF Look, Idle
    <3> QED BY <3>1, QuietStep
  <2>2. CASE Claim(w)
    <3> DEFINE n == review[worker[w].review].writes + 1
    <3>1. /\ worker' = [worker EXCEPT ![w] = [worker[w] EXCEPT !.pc = "claimed", !.writes = n]]
          /\ review' = [review EXCEPT ![worker[w].review].status = "running",
                                      ![worker[w].review].token = n,
                                      ![worker[w].review].lease = "live",
                                      ![worker[w].review].writes = n]
          /\ UNCHANGED ledger
      BY <2>2 DEF Claim
    <3> HIDE DEF n
    <3>2. worker'[w].pc = "claimed" /\ \A v \in Workers : v # w => worker'[v] = worker[v]
      BY <1>0, <3>1 DEF Place
    <3>3. \A r \in Reviews : review'[r].status = review[r].status \/ review'[r].status = "running"
      BY <1>0, <3>1 DEF ReviewRow
    <3> QED BY <3>1, <3>2, <3>3, QuietStep
  <2>3. CASE ClaimLost(w) \/ InsertFails(w) \/ RecordLost(w) \/ Crash(w)
    <3>1. worker' = [worker EXCEPT ![w] = Idle] /\ UNCHANGED <<ledger, review>>
      BY <2>3 DEF ClaimLost, InsertFails, RecordLost, Crash
    <3>2. worker'[w].pc = "idle" /\ \A v \in Workers : v # w => worker'[v] = worker[v]
      BY <1>0, <3>1
    <3> QED BY <3>1, <3>2, QuietStep
  <2>4. CASE Call(w)
    <3>1. /\ worker'[w].pc = "record" /\ worker[w].pc = "call" /\ UNCHANGED <<ledger, review>>
          /\ worker'[w].review = worker[w].review /\ worker'[w].case = worker[w].case
          /\ \A v \in Workers : v # w => worker'[v] = worker[v]
      BY <1>0, <2>4 DEF Call, Place
    <3>2. UncertainIsLast' /\ Ahead' /\ Whole' /\ Reviewed'
      BY <3>1 DEF Sound, UncertainIsLast, Ahead, Whole, Reviewed
    <3>3. Pending' /\ Apart'
      BY <3>1 DEF Sound, Pending, Apart, Calling
    <3> QED BY <3>2, <3>3 DEF Sound
  <2> QED BY <1>3, <2>1, <2>2, <2>3, <2>4, CheckSound, FinishSound, InsertSound, RecordSound
          DEF WorkerStep
<1>4. ASSUME NEW r \in Reviews, Redact(r) \/ Delete(r) PROVE Sound'
  <2>1. /\ \A q \in Reviews : \/ review'[q].status = review[q].status
                              \/ review'[q].status \in {"failed", "deleted"}
        /\ UNCHANGED <<ledger, worker>>
    <3>1. PICK status \in {"failed", "deleted"} : /\ review' = [review EXCEPT ![r] = Ended(@, status)]
                                                  /\ UNCHANGED <<ledger, worker>>
      BY <1>4 DEF Redact, Delete
    <3>2. Ended(review[r], status).status = status
      BY <1>0 DEF Ended, ReviewRow
    <3> QED BY <1>0, <3>1, <3>2
  <2> QED BY <2>1, QuietStep
<1>5. ASSUME NEW r \in Reviews, LeaseExpires(r) PROVE Sound'
  <2>1. (\A q \in Reviews : review'[q].status = review[q].status) /\ UNCHANGED <<ledger, worker>>
    BY <1>0, <1>5 DEF LeaseExpires, ReviewRow
  <2> QED BY <2>1, QuietStep
<1> QED BY <1>1, <1>2, <1>3, <1>4, <1>5 DEF Next, ReadPolicy, Refuse, Revise, Midnight, vars

\* A request that was not accepted, be it lost, invalid or never answered, is the last
\* of its review, however many loops, crashes and outlasted leases there are (tick).
THEOREM Uncertain == Spec => []UncertainIsLast
<1>1. Sound => UncertainIsLast
  BY DEF Sound
<1> QED BY InitTyped, TypedStep, InitSound, SoundStep, <1>1, PTL DEF Spec

\* A completed review has an accepted verdict for every case (tick, finish).
THEOREM Completed == Spec => []CompletedIsReviewed
<1>1. Sound => CompletedIsReviewed
  BY DEF Sound, Reviewed, CompletedIsReviewed, Accepted
<1> QED BY InitTyped, TypedStep, InitSound, SoundStep, <1>1, PTL DEF Spec

-----------------------------------------------------------------------------
(* Allowances.  What the two ledgers keep for any number of digests and runs,  *)
(* any plans and any number of windows: types, that what was consumed stays    *)
(* consumed, and that a reservation ends with its run.                         *)

RunStates == {"absent", "active", "completed", "failed", "deleted"}
AttemptRow == [state : RunStates, topic : Topics \cup {Unstarted.topic}, trigger : Triggers, papers : 0 .. MaxPapers]
ChargedRow == [state : {"none", "reserved", "settled", "released"}, window : Nat, tier : Tiers,
               papers : 0 .. MaxPapers]
WatchedRow == [state : {"none", "reserved", "settled", "released"}, month : Nat]
RemovalRow == [at : {"idle", "checked"}, found : {{}}]

AllowancesTypeOK ==
    /\ hours \in 0 .. MaxClock /\ policyMode \in {"sandbox", "complimentary"} /\ tier \in Tiers
    /\ maximum \in [Topics -> 0 .. MaxPapers]
    /\ attempt \in [Attempts -> AttemptRow]
    /\ charged \in [Attempts -> ChargedRow]
    /\ watched \in [Attempts -> WatchedRow]
    /\ removal \in [Topics -> RemovalRow]

LedgerInv == AllowancesTypeOK /\ ReservationsEnd

-----------------------------------------------------------------------------
(* Typed rows.                                                                 *)

LEMMA Times == \A t \in Nat : WindowAt(t) \in Nat /\ MonthAt(t) \in Nat
  BY DEF WindowAt, MonthAt

LEMMA ChargedTyped ==
    ASSUME NEW row \in ChargedRow, NEW state \in {"settled", "released"}, NEW papers \in 0 .. MaxPapers
    PROVE  /\ [row EXCEPT !.state = state, !.papers = papers] \in ChargedRow
           /\ [row EXCEPT !.state = state, !.papers = papers].state = state
  BY DEF ChargedRow

LEMMA WatchedTyped ==
    ASSUME NEW row \in WatchedRow, NEW state \in {"reserved", "settled", "released"}
    PROVE  /\ [row EXCEPT !.state = state] \in WatchedRow
           /\ [row EXCEPT !.state = state].state = state
           /\ [row EXCEPT !.state = state].month = row.month
  BY DEF WatchedRow

LEMMA AttemptTyped ==
    ASSUME NEW row \in AttemptRow, NEW state \in RunStates
    PROVE  /\ [row EXCEPT !.state = state] \in AttemptRow
           /\ [row EXCEPT !.state = state].state = state
  BY DEF AttemptRow

-----------------------------------------------------------------------------
(* The ledgers' operations.                                                    *)

\* What an operation may do to the rows of one run, and of no other.
OnlyRow(r, rows, next, Rows) ==
    /\ next \in [Attempts -> Rows]
    /\ \A q \in Attempts : q # r => next[q] = rows[q]

LEMMA Charges ==
    ASSUME AllowancesTypeOK, NEW r \in Attempts, NEW papers \in 0 .. MaxPapers
    PROVE  /\ OnlyRow(r, charged, Charge(r, papers), ChargedRow)
           /\ charged[r].state = "settled" => Charge(r, papers)[r] = charged[r]
<1>1. [state |-> "reserved", window |-> WindowAt(hours), tier |-> tier, papers |-> papers] \in ChargedRow
  BY Times DEF AllowancesTypeOK, ChargedRow
<1> QED
  BY <1>1 DEF AllowancesTypeOK, Charge, OnlyRow

LEMMA Watches ==
    ASSUME AllowancesTypeOK, NEW r \in Attempts
    PROVE  /\ OnlyRow(r, watched, Watch(r), WatchedRow)
           /\ watched[r].state # "none" => Watch(r)[r].month = watched[r].month
<1>1. [state |-> "reserved", month |-> MonthAt(hours)] \in WatchedRow
  BY Times DEF AllowancesTypeOK, WatchedRow
<1>2. watched[r] \in WatchedRow /\ watched[r].state \in {"none", "reserved", "settled", "released"}
  BY DEF AllowancesTypeOK, WatchedRow
<1>3. CASE watched[r].state = "none"
  BY <1>1, <1>3 DEF AllowancesTypeOK, Watch, OnlyRow
<1>4. CASE watched[r].state # "none"
  <2> DEFINE state == IF watched[r].state = "released" THEN "reserved" ELSE watched[r].state
             row   == [watched[r] EXCEPT !.state = state]
  <2>1. state \in {"reserved", "settled", "released"}
    BY <1>2, <1>4
  <2>2. Watch(r) = [watched EXCEPT ![r] = row]
    BY <1>4 DEF Watch
  <2> HIDE DEF state
  <2>3. row \in WatchedRow /\ row.month = watched[r].month
    BY <1>2, <2>1, WatchedTyped
  <2> HIDE DEF row
  <2> QED
    BY <2>2, <2>3 DEF AllowancesTypeOK, OnlyRow
<1> QED
  BY <1>3, <1>4

\* Settling ends a reservation in either ledger and touches nothing else.
LEMMA Settles ==
    ASSUME AllowancesTypeOK, NEW r \in Attempts, NEW success \in BOOLEAN, NEW actual \in 0 .. MaxPapers,
           Settlement(r, success, actual)
    PROVE  /\ OnlyRow(r, charged, charged', ChargedRow) /\ charged'[r].state # "reserved"
           /\ charged[r].state = "settled" => charged'[r] = charged[r]
           /\ OnlyRow(r, watched, watched', WatchedRow) /\ watched'[r].state # "reserved"
           /\ watched'[r].month = watched[r].month
<1> DEFINE state == EndState(success)
           paid  == [charged[r] EXCEPT !.state = state, !.papers = actual]
           seen  == [watched[r] EXCEPT !.state = state]
<1>1. state \in {"settled", "released"}
  BY DEF EndState
<1>2. charged[r] \in ChargedRow /\ watched[r] \in WatchedRow
  BY DEF AllowancesTypeOK
<1>3. /\ charged' = IF charged[r].state # "reserved" THEN charged ELSE [charged EXCEPT ![r] = paid]
      /\ watched' = IF watched[r].state # "reserved" THEN watched ELSE [watched EXCEPT ![r] = seen]
  BY DEF Settlement
<1> HIDE DEF state
<1>4. paid \in ChargedRow /\ paid.state = state
  BY <1>1, <1>2, ChargedTyped
<1>5. seen \in WatchedRow /\ seen.state = state /\ seen.month = watched[r].month
  BY <1>1, <1>2, WatchedTyped
<1>6. state # "reserved"
  BY <1>1
<1> HIDE DEF paid, seen
<1>7. /\ OnlyRow(r, charged, charged', ChargedRow) /\ charged'[r].state # "reserved"
      /\ charged[r].state = "settled" => charged'[r] = charged[r]
  BY <1>3, <1>4, <1>6 DEF AllowancesTypeOK, OnlyRow
<1>8. /\ OnlyRow(r, watched, watched', WatchedRow) /\ watched'[r].state # "reserved"
      /\ watched'[r].month = watched[r].month
  BY <1>3, <1>5, <1>6 DEF AllowancesTypeOK, OnlyRow
<1> QED
  BY <1>7, <1>8

-----------------------------------------------------------------------------
(* The inductive invariant, and what a step may not do to either ledger.       *)

\* What one step does to the entries of a run.
Stays ==
    \A r \in Attempts :
        /\ charged[r].state = "settled" => charged'[r] = charged[r]
        /\ watched[r].state # "none" => watched'[r].month = watched[r].month

\* A step of one run changes its own rows only; it leaves no reservation unless
\* the run is under way.
LEMMA OneRun ==
    ASSUME LedgerInv, NEW r \in Attempts,
           UNCHANGED <<hours, policyMode, tier, maximum, removal, stranded>>,
           OnlyRow(r, attempt, attempt', AttemptRow),
           OnlyRow(r, charged, charged', ChargedRow), OnlyRow(r, watched, watched', WatchedRow),
           charged'[r].state = "reserved" \/ watched'[r].state = "reserved" => attempt'[r].state = "active",
           charged[r].state = "settled" => charged'[r] = charged[r],
           watched[r].state # "none" => watched'[r].month = watched[r].month
    PROVE  LedgerInv' /\ Stays
<1>1. AllowancesTypeOK'
  BY DEF LedgerInv, AllowancesTypeOK, OnlyRow
<1>2. ReservationsEnd'
  BY DEF LedgerInv, ReservationsEnd, OnlyRow
<1>3. Stays
  BY DEF OnlyRow, Stays
<1> QED
  BY <1>1, <1>2, <1>3 DEF LedgerInv

LEMMA Starts ==
    ASSUME LedgerInv, NEW r \in Attempts, NEW d \in Topics, NEW trigger \in Triggers, StartRun(r, d, trigger)
    PROVE  LedgerInv' /\ Stays
<1> DEFINE row == [state |-> "active", topic |-> d, trigger |-> trigger, papers |-> maximum[d]]
<1>1. row \in AttemptRow /\ row.state = "active" /\ maximum[d] \in 0 .. MaxPapers
  BY DEF LedgerInv, AllowancesTypeOK, AttemptRow, RunStates
<1>2. /\ attempt' = [attempt EXCEPT ![r] = row]
      /\ charged' = Charge(r, maximum[d]) /\ watched' = Watch(r)
      /\ UNCHANGED <<hours, policyMode, tier, maximum, removal, stranded>>
  BY DEF StartRun
<1> HIDE DEF row
<1>3. OnlyRow(r, attempt, attempt', AttemptRow) /\ attempt'[r].state = "active"
  BY <1>1, <1>2 DEF LedgerInv, AllowancesTypeOK, OnlyRow
<1>4. /\ OnlyRow(r, charged, charged', ChargedRow) /\ (charged[r].state = "settled" => charged'[r] = charged[r])
      /\ OnlyRow(r, watched, watched', WatchedRow)
      /\ watched[r].state # "none" => watched'[r].month = watched[r].month
  BY <1>1, <1>2, Charges, Watches DEF LedgerInv
<1> QED
  BY <1>2, <1>3, <1>4, OneRun

LEMMA Retries ==
    ASSUME LedgerInv, NEW r \in Attempts, RetryRun(r)
    PROVE  LedgerInv' /\ Stays
<1> DEFINE row == [attempt[r] EXCEPT !.state = "active"]
<1>1. attempt[r] \in AttemptRow /\ attempt[r].papers \in 0 .. MaxPapers
  BY DEF LedgerInv, AllowancesTypeOK, AttemptRow
<1>2. row \in AttemptRow /\ row.state = "active"
  <2>1. "active" \in RunStates
    BY DEF RunStates
  <2> QED
    BY <1>1, <2>1, AttemptTyped
<1>3. /\ attempt' = [attempt EXCEPT ![r] = row]
      /\ charged' = Charge(r, attempt[r].papers) /\ watched' = Watch(r)
      /\ UNCHANGED <<hours, policyMode, tier, maximum, removal, stranded>>
  BY DEF RetryRun
<1> HIDE DEF row
<1>4. OnlyRow(r, attempt, attempt', AttemptRow) /\ attempt'[r].state = "active"
  BY <1>2, <1>3 DEF LedgerInv, AllowancesTypeOK, OnlyRow
<1>5. /\ OnlyRow(r, charged, charged', ChargedRow) /\ (charged[r].state = "settled" => charged'[r] = charged[r])
      /\ OnlyRow(r, watched, watched', WatchedRow)
      /\ watched[r].state # "none" => watched'[r].month = watched[r].month
  BY <1>1, <1>3, Charges, Watches DEF LedgerInv
<1> QED
  BY <1>3, <1>4, <1>5, OneRun

LEMMA Ends ==
    ASSUME LedgerInv, NEW r \in Attempts, NEW success \in BOOLEAN, EndRun(r, success)
    PROVE  LedgerInv' /\ Stays
<1> DEFINE state == IF success THEN "completed" ELSE "failed"
           row   == [attempt[r] EXCEPT !.state = state]
<1>1. attempt[r] \in AttemptRow /\ attempt[r].papers \in 0 .. MaxPapers /\ state \in RunStates
  BY DEF LedgerInv, AllowancesTypeOK, AttemptRow, RunStates
<1>2. PICK actual \in {0, attempt[r].papers} : Settlement(r, success, IF success THEN actual ELSE 0)
  BY DEF EndRun
<1>3. attempt' = [attempt EXCEPT ![r] = row] /\ UNCHANGED <<hours, policyMode, tier, maximum, removal, stranded>>
  BY DEF EndRun
<1> HIDE DEF state
<1>4. row \in AttemptRow
  BY <1>1, AttemptTyped
<1> HIDE DEF row
<1>5. OnlyRow(r, attempt, attempt', AttemptRow)
  BY <1>3, <1>4 DEF LedgerInv, AllowancesTypeOK, OnlyRow
<1> DEFINE papers == IF success THEN actual ELSE 0
<1>6. papers \in 0 .. MaxPapers /\ Settlement(r, success, papers)
  BY <1>1, <1>2, AllowancesAssumption
<1> HIDE DEF papers
<1>7. /\ OnlyRow(r, charged, charged', ChargedRow) /\ charged'[r].state # "reserved"
      /\ charged[r].state = "settled" => charged'[r] = charged[r]
      /\ OnlyRow(r, watched, watched', WatchedRow) /\ watched'[r].state # "reserved"
      /\ watched'[r].month = watched[r].month
  BY <1>6, Settles DEF LedgerInv
<1> QED
  BY <1>3, <1>5, <1>7, OneRun

\* A run that goes with its digest was either not under way when the deletion
\* looked, or started since: then its reservation is left behind.
LEMMA Deletes ==
    ASSUME LedgerInv, NEW d \in Topics, DeletionCommit(d)
    PROVE  LedgerInv' /\ Stays
<1>1. /\ UNCHANGED <<hours, policyMode, tier, charged, watched>>
      /\ maximum' = [maximum EXCEPT ![d] = 0] /\ removal' = [removal EXCEPT ![d] = NoRemoval]
      /\ stranded' = stranded \cup ActiveOf(d)
  BY DEF DeletionCommit, UsageKept, LedgerInv, AllowancesTypeOK, RemovalRow
<1>2. \A r \in Attempts : attempt'[r] = IF r \in RunsOfTopic(d) THEN [attempt[r] EXCEPT !.state = "deleted"]
                                        ELSE attempt[r]
  BY DEF DeletionCommit
<1>3. \A r \in Attempts : attempt'[r] \in AttemptRow
  <2>1. "deleted" \in RunStates
    BY DEF RunStates
  <2>2. \A r \in Attempts : attempt[r] \in AttemptRow
    BY DEF LedgerInv, AllowancesTypeOK
  <2>3. \A r \in Attempts : [attempt[r] EXCEPT !.state = "deleted"] \in AttemptRow
    BY <2>1, <2>2, AttemptTyped
  <2> QED
    BY <1>2, <2>2, <2>3
<1>4. attempt' \in [Attempts -> AttemptRow]
  BY <1>3 DEF DeletionCommit
<1>5. AllowancesTypeOK'
  <2>1. NoRemoval \in RemovalRow
    BY DEF NoRemoval, RemovalRow
  <2>2. 0 \in 0 .. MaxPapers
    BY AllowancesAssumption
  <2> QED
    BY <1>1, <1>4, <2>1, <2>2 DEF LedgerInv, AllowancesTypeOK
<1>6. ReservationsEnd'
  <2>1. \A r \in Attempts : attempt[r].state = "active" => attempt'[r].state = "active" \/ r \in ActiveOf(d)
    BY <1>2 DEF ActiveOf
  <2> QED
    BY <1>1, <2>1 DEF LedgerInv, ReservationsEnd
<1> QED
  BY <1>1, <1>5, <1>6 DEF LedgerInv, Stays

LEMMA Others ==
    ASSUME LedgerInv,
           \/ \E d \in Topics : DeletionCheck(d) \/ \E papers \in 1 .. MaxPapers : EditTopic(d, papers)
           \/ TierTurns \/ PolicyTurns \/ TimePasses \/ UNCHANGED allowanceVars
    PROVE  LedgerInv' /\ Stays
<1>1. UNCHANGED <<attempt, charged, watched, stranded>>
  BY DEF DeletionCheck, EditTopic, TierTurns, PolicyTurns, TimePasses, allowanceVars
<1>2. hours' \in 0 .. MaxClock /\ policyMode' \in {"sandbox", "complimentary"} /\ tier' \in Tiers
  BY AllowancesAssumption
     DEF LedgerInv, AllowancesTypeOK, DeletionCheck, EditTopic, TierTurns, PolicyTurns, TimePasses, allowanceVars
<1>3. maximum' \in [Topics -> 0 .. MaxPapers]
  BY AllowancesAssumption
     DEF LedgerInv, AllowancesTypeOK, DeletionCheck, EditTopic, TierTurns, PolicyTurns, TimePasses, allowanceVars
<1>4. removal' \in [Topics -> RemovalRow]
  <2>1. ASSUME NEW d \in Topics, DeletionCheck(d) PROVE removal' \in [Topics -> RemovalRow]
    <3>1. [at |-> "checked", found |-> ActiveOf(d)] \in RemovalRow
      BY <2>1 DEF DeletionCheck, RemovalRow
    <3> QED
      BY <2>1, <3>1 DEF LedgerInv, AllowancesTypeOK, DeletionCheck
  <2> QED
    BY <2>1 DEF LedgerInv, AllowancesTypeOK, EditTopic, TierTurns, PolicyTurns, TimePasses, allowanceVars
<1> QED
  BY <1>1, <1>2, <1>3, <1>4 DEF LedgerInv, AllowancesTypeOK, ReservationsEnd, Stays

LEMMA LedgerInit == AllowancesInit => LedgerInv
<1> SUFFICES ASSUME AllowancesInit PROVE LedgerInv
  OBVIOUS
<1>1. /\ Unstarted \in AttemptRow /\ Uncharged \in ChargedRow /\ Unwatched \in WatchedRow
      /\ Uncharged.state = "none" /\ Unwatched.state = "none"
  BY AllowancesAssumption
     DEF Unstarted, Uncharged, Unwatched, AttemptRow, ChargedRow, WatchedRow, RunStates, Tiers, Triggers
<1>2. NoRemoval \in RemovalRow
  BY DEF NoRemoval, RemovalRow
<1>3. AllowancesTypeOK
  BY <1>1, <1>2, AllowancesAssumption DEF AllowancesInit, AllowancesTypeOK, Tiers
<1> QED
  BY <1>1, <1>3 DEF AllowancesInit, LedgerInv, ReservationsEnd

LEMMA LedgerNext == LedgerInv /\ [AllowancesNext]_allowanceVars => LedgerInv' /\ Stays
BY Starts, Retries, Ends, Deletes, Others DEF AllowancesNext

LEMMA LedgerKept == AllowancesSpec => []LedgerInv
<1>1. LedgerInv /\ [AllowancesNext]_allowanceVars => LedgerInv'
  BY LedgerNext
<1> QED
  BY LedgerInit, <1>1, PTL DEF AllowancesSpec

-----------------------------------------------------------------------------
(* The results.                                                                *)

\* Every row and digest keeps its type.
THEOREM LedgersTyped == AllowancesSpec => []AllowancesTypeOK
<1>1. LedgerInv => AllowancesTypeOK
  BY DEF LedgerInv
<1> QED
  BY LedgerKept, <1>1, PTL

\* A reservation ends with its run, but for runs whose digest was deleted under them.
THEOREM Ending == AllowancesSpec => []ReservationsEnd
<1>1. LedgerInv => ReservationsEnd
  BY DEF LedgerInv
<1> QED
  BY LedgerKept, <1>1, PTL

\* What was consumed is not won back, and an observed entry stays in its month.
THEOREM Consumed == AllowancesSpec => ConsumptionStays
<1>1. LedgerInv /\ [AllowancesNext]_allowanceVars
      => [\A r \in Attempts :
            /\ charged[r].state = "settled" => charged'[r] = charged[r]
            /\ watched[r].state # "none" => watched'[r].month = watched[r].month]_allowanceVars
  BY LedgerNext DEF Stays
<1> QED
  BY LedgerKept, <1>1, PTL DEF AllowancesSpec, ConsumptionStays

-----------------------------------------------------------------------------
(* Allowances, the sums.  A window's runs and papers are counted anew at each  *)
(* admission; between admissions what counts only shrinks.                     *)

MostRuns   == Max({Configuration[p].runs : p \in Tiers})
MostPapers == Max({Configuration[p].papers : p \in Tiers})
MostManual == Max({Configuration[p].manual : p \in Tiers})

FreeRuns(w)   == {r \in Counted(w) : charged[r].tier = "free"}
ManualRuns(w) == {r \in Counted(w) : attempt[r].trigger = "manual"}

WindowKept(w) ==
    /\ IsFiniteSet(Counted(w))
    /\ Cardinality(Counted(w)) <= MostRuns
    /\ UsedPapers(w) <= MostPapers
    /\ Cardinality(FreeRuns(w)) <= Configuration["free"].runs
    /\ Cardinality(ManualRuns(w)) <= MostManual

\* A run is charged nothing before its admission, and a reservation is for the
\* papers that the run asks for.
ChargesFit ==
    \A r \in Attempts :
        /\ attempt[r].state = "absent" => charged[r].state = "none"
        /\ charged[r].state = "reserved" => charged[r].papers = attempt[r].papers

SumsInv == LedgerInv /\ ChargesFit /\ \A w \in Nat : WindowKept(w)

LEMMA LargerOfTwo ==
    ASSUME NEW a \in Nat, NEW b \in Nat
    PROVE  Max({a, b}) \in Nat /\ a <= Max({a, b}) /\ b <= Max({a, b})
<1>1. \E x \in {a, b} : \A y \in {a, b} : x >= y
  <2>1. CASE a >= b
    BY <2>1
  <2>2. CASE b >= a
    BY <2>2
  <2> QED
    BY <2>1, <2>2
<1>2. Max({a, b}) \in {a, b} /\ \A y \in {a, b} : Max({a, b}) >= y
  BY <1>1 DEF Max
<1> QED
  BY <1>2

LEMMA MostOfAll ==
    /\ MostRuns \in Nat /\ MostPapers \in Nat /\ MostManual \in Nat
    /\ \A p \in Tiers : /\ Configuration[p].runs \in Nat /\ Configuration[p].runs <= MostRuns
                        /\ Configuration[p].papers \in Nat /\ Configuration[p].papers <= MostPapers
                        /\ Configuration[p].manual \in Nat /\ Configuration[p].manual <= MostManual
<1>1. \A p \in Tiers : /\ Configuration[p].runs \in Nat /\ Configuration[p].papers \in Nat
                       /\ Configuration[p].manual \in Nat
  BY AllowancesAssumption
<1>2. Tiers = {"free", "paid"}
  BY DEF Tiers
<1>3. /\ {Configuration[p].runs : p \in Tiers} = {Configuration["free"].runs, Configuration["paid"].runs}
      /\ {Configuration[p].papers : p \in Tiers} = {Configuration["free"].papers, Configuration["paid"].papers}
      /\ {Configuration[p].manual : p \in Tiers} = {Configuration["free"].manual, Configuration["paid"].manual}
  BY <1>2
<1>4. /\ MostRuns = Max({Configuration["free"].runs, Configuration["paid"].runs})
      /\ MostPapers = Max({Configuration["free"].papers, Configuration["paid"].papers})
      /\ MostManual = Max({Configuration["free"].manual, Configuration["paid"].manual})
  BY <1>3 DEF MostRuns, MostPapers, MostManual
<1>5. /\ MostRuns \in Nat /\ Configuration["free"].runs <= MostRuns /\ Configuration["paid"].runs <= MostRuns
  BY <1>1, <1>2, <1>4, LargerOfTwo
<1>6. /\ MostPapers \in Nat /\ Configuration["free"].papers <= MostPapers
      /\ Configuration["paid"].papers <= MostPapers
  BY <1>1, <1>2, <1>4, LargerOfTwo
<1>7. /\ MostManual \in Nat /\ Configuration["free"].manual <= MostManual
      /\ Configuration["paid"].manual <= MostManual
  BY <1>1, <1>2, <1>4, LargerOfTwo
<1> QED
  BY <1>1, <1>2, <1>5, <1>6, <1>7

\* The papers of finitely many runs are finitely many.
LEMMA PapersAreFinite ==
    ASSUME NEW w, IsFiniteSet(Counted(w))
    PROVE  IsFiniteSet(PaperUnits(w)) /\ UsedPapers(w) \in Nat
<1>1. IsFiniteSet(1 .. MaxPapers)
  BY FS_Interval, AllowancesAssumption
<1>2. IsFiniteSet(Counted(w) \X (1 .. MaxPapers))
  BY <1>1, FS_Product
<1>3. PaperUnits(w) \in SUBSET (Counted(w) \X (1 .. MaxPapers))
  BY DEF PaperUnits
<1>4. IsFiniteSet(PaperUnits(w))
  BY <1>2, <1>3, FS_Subset
<1> QED
  BY <1>4, FS_CardinalityType DEF UsedPapers

\* A smaller set of counted runs, each of them with no more than it had.
LEMMA CountShrinks ==
    ASSUME \A w \in Nat : WindowKept(w),
           \A q \in Attempts :
               charged'[q].state \in {"reserved", "settled"} =>
                   /\ charged[q].state \in {"reserved", "settled"}
                   /\ charged'[q].window = charged[q].window /\ charged'[q].tier = charged[q].tier
                   /\ attempt'[q].trigger = attempt[q].trigger
                   /\ \A k \in 1 .. MaxPapers : k <= charged'[q].papers => k <= charged[q].papers
    PROVE  \A w \in Nat : WindowKept(w)'
<1> SUFFICES ASSUME NEW w \in Nat PROVE WindowKept(w)'
  OBVIOUS
<1>1. WindowKept(w)
  OBVIOUS
<1>2. Counted(w)' \in SUBSET Counted(w)
  BY DEF Counted
<1>3. FreeRuns(w)' \in SUBSET FreeRuns(w) /\ ManualRuns(w)' \in SUBSET ManualRuns(w)
  BY <1>2 DEF FreeRuns, ManualRuns, Counted
<1>4. PaperUnits(w)' \in SUBSET PaperUnits(w)
  <2> SUFFICES ASSUME NEW u \in PaperUnits(w)' PROVE u \in PaperUnits(w)
    OBVIOUS
  <2>1. u \in Counted(w)' \X (1 .. MaxPapers) /\ u[2] <= charged'[u[1]].papers
    BY DEF PaperUnits
  <2>2. u[1] \in Counted(w)' /\ u[1] \in Attempts /\ u[2] \in 1 .. MaxPapers /\ u = <<u[1], u[2]>>
    BY <2>1 DEF Counted
  <2>3. u[1] \in Counted(w) /\ u[2] <= charged[u[1]].papers
    BY <1>2, <2>1, <2>2 DEF Counted
  <2>4. u \in Counted(w) \X (1 .. MaxPapers)
    BY <2>2, <2>3
  <2> QED
    BY <2>3, <2>4 DEF PaperUnits
<1>5. IsFiniteSet(Counted(w)) /\ IsFiniteSet(PaperUnits(w))
  BY <1>1, PapersAreFinite DEF WindowKept
<1>6. FreeRuns(w) \in SUBSET Counted(w) /\ ManualRuns(w) \in SUBSET Counted(w)
  BY DEF FreeRuns, ManualRuns
<1>7. IsFiniteSet(FreeRuns(w)) /\ IsFiniteSet(ManualRuns(w))
  BY <1>5, <1>6, FS_Subset
<1>8. IsFiniteSet(Counted(w)') /\ Cardinality(Counted(w)') <= Cardinality(Counted(w))
  BY <1>2, <1>5, FS_Subset
<1>9. /\ IsFiniteSet(FreeRuns(w)') /\ Cardinality(FreeRuns(w)') <= Cardinality(FreeRuns(w))
      /\ IsFiniteSet(ManualRuns(w)') /\ Cardinality(ManualRuns(w)') <= Cardinality(ManualRuns(w))
  BY <1>3, <1>7, FS_Subset
<1>10. IsFiniteSet(PaperUnits(w)') /\ Cardinality(PaperUnits(w)') <= Cardinality(PaperUnits(w))
  BY <1>4, <1>5, FS_Subset
<1>11. /\ Cardinality(Counted(w)) \in Nat /\ Cardinality(Counted(w)') \in Nat
       /\ Cardinality(FreeRuns(w)) \in Nat /\ Cardinality(FreeRuns(w)') \in Nat
       /\ Cardinality(ManualRuns(w)) \in Nat /\ Cardinality(ManualRuns(w)') \in Nat
       /\ Cardinality(PaperUnits(w)) \in Nat /\ Cardinality(PaperUnits(w)') \in Nat
  BY <1>5, <1>7, <1>8, <1>9, <1>10, FS_CardinalityType
<1>12. Configuration["free"].runs \in Nat
  BY MostOfAll DEF Tiers
<1>13. /\ MostRuns' = MostRuns /\ MostPapers' = MostPapers /\ MostManual' = MostManual
  BY DEF MostRuns, MostPapers, MostManual, Tiers
<1>14. /\ Cardinality(Counted(w)') <= MostRuns /\ Cardinality(PaperUnits(w)') <= MostPapers
       /\ Cardinality(FreeRuns(w)') <= Configuration["free"].runs /\ Cardinality(ManualRuns(w)') <= MostManual
  BY <1>1, <1>8, <1>9, <1>10, <1>11, <1>12, MostOfAll DEF WindowKept, UsedPapers
<1> QED
  BY <1>8, <1>13, <1>14 DEF WindowKept, UsedPapers

LEMMA OneMore ==
    ASSUME NEW S, IsFiniteSet(S), NEW x
    PROVE  IsFiniteSet(S \cup {x}) /\ Cardinality(S \cup {x}) <= Cardinality(S) + 1
<1>1. Cardinality(S) \in Nat
  BY FS_CardinalityType
<1>2. /\ IsFiniteSet(S \cup {x})
      /\ Cardinality(S \cup {x}) = IF x \in S THEN Cardinality(S) ELSE Cardinality(S) + 1
  BY FS_AddElement
<1> QED
  BY <1>1, <1>2

\* One more run, for which the plan had room.
LEMMA CountGrows ==
    ASSUME AllowancesTypeOK, \A w \in Nat : WindowKept(w),
           NEW r \in Attempts, charged[r].state \notin {"reserved", "settled"},
           NEW papers \in 0 .. MaxPapers, NEW trigger \in Triggers, Included(papers, trigger),
           charged' = [charged EXCEPT ![r] = [state |-> "reserved", window |-> WindowAt(hours), tier |-> tier,
                                              papers |-> papers]],
           attempt'[r].trigger = trigger, \A q \in Attempts \ {r} : attempt'[q].trigger = attempt[q].trigger
    PROVE  \A w \in Nat : WindowKept(w)'
<1> SUFFICES ASSUME NEW w \in Nat PROVE WindowKept(w)'
  OBVIOUS
<1>1. WindowKept(w)
  OBVIOUS
<1> DEFINE new == [state |-> "reserved", window |-> WindowAt(hours), tier |-> tier, papers |-> papers]
<1>2. /\ charged'[r] = new /\ \A q \in Attempts : q # r => charged'[q] = charged[q]
  BY DEF AllowancesTypeOK
<1>3. /\ new.state = "reserved" /\ new.window = WindowAt(hours) /\ new.tier = tier /\ new.papers = papers
  OBVIOUS
<1> HIDE DEF new
<1>4. r \notin Counted(w)
  BY DEF Counted
<1>5. /\ MostRuns' = MostRuns /\ MostPapers' = MostPapers /\ MostManual' = MostManual
  BY DEF MostRuns, MostPapers, MostManual, Tiers
<1>6. CASE w # WindowAt(hours)
  <2>1. Counted(w)' = Counted(w)
    BY <1>2, <1>3, <1>6 DEF Counted
  <2>2. \A q \in Counted(w) : q \in Attempts /\ q # r
    BY <1>4 DEF Counted
  <2>3. FreeRuns(w)' = FreeRuns(w) /\ ManualRuns(w)' = ManualRuns(w)
    BY <1>2, <2>1, <2>2 DEF FreeRuns, ManualRuns
  <2>4. PaperUnits(w)' = PaperUnits(w)
    BY <1>2, <2>1, <2>2 DEF PaperUnits
  <2> QED
    BY <1>1, <1>5, <2>1, <2>3, <2>4 DEF WindowKept, UsedPapers
<1>7. CASE w = WindowAt(hours)
  <2>1. Counted(w)' = Counted(w) \cup {r}
    BY <1>2, <1>3, <1>7 DEF Counted
  <2>2. \A q \in Counted(w) : q \in Attempts /\ q # r
    BY <1>4 DEF Counted
  <2>3. /\ FreeRuns(w)' = IF tier = "free" THEN FreeRuns(w) \cup {r} ELSE FreeRuns(w)
        /\ ManualRuns(w)' = IF trigger = "manual" THEN ManualRuns(w) \cup {r} ELSE ManualRuns(w)
    BY <1>2, <1>3, <2>1, <2>2 DEF FreeRuns, ManualRuns
  <2>4. papers \in Nat /\ papers <= MaxPapers
    BY AllowancesAssumption
  <2>5. PaperUnits(w)' = PaperUnits(w) \cup ({r} \X (1 .. papers))
    <3>1. \A u \in PaperUnits(w)' : u \in PaperUnits(w) \cup ({r} \X (1 .. papers))
      <4> SUFFICES ASSUME NEW u \in PaperUnits(w)' PROVE u \in PaperUnits(w) \cup ({r} \X (1 .. papers))
        OBVIOUS
      <4>1. u \in Counted(w)' \X (1 .. MaxPapers) /\ u[2] <= charged'[u[1]].papers
        BY DEF PaperUnits
      <4>2. u[1] \in Counted(w) \cup {r} /\ u[2] \in 1 .. MaxPapers /\ u = <<u[1], u[2]>>
        BY <2>1, <4>1
      <4>3. CASE u[1] = r
        <5>1. u[2] <= papers
          BY <1>2, <1>3, <4>1, <4>3
        <5>2. u[2] \in 1 .. papers
          BY <2>4, <4>2, <5>1, AllowancesAssumption
        <5> QED
          BY <4>2, <4>3, <5>2
      <4>4. CASE u[1] # r
        <5>1. u[1] \in Counted(w) /\ u[2] <= charged[u[1]].papers
          BY <1>2, <2>2, <4>1, <4>2, <4>4
        <5> QED
          BY <4>2, <5>1 DEF PaperUnits
      <4> QED
        BY <4>3, <4>4
    <3>2. \A u \in PaperUnits(w) : u \in PaperUnits(w)'
      <4> SUFFICES ASSUME NEW u \in PaperUnits(w) PROVE u \in PaperUnits(w)'
        OBVIOUS
      <4>1. u \in Counted(w) \X (1 .. MaxPapers) /\ u[2] <= charged[u[1]].papers
        BY DEF PaperUnits
      <4>2. u[1] \in Counted(w) /\ u[2] \in 1 .. MaxPapers /\ u = <<u[1], u[2]>>
        BY <4>1
      <4>3. u[1] \in Counted(w)' /\ u[2] <= charged'[u[1]].papers
        BY <1>2, <2>1, <2>2, <4>1, <4>2
      <4> QED
        BY <4>2, <4>3 DEF PaperUnits
    <3>3. \A u \in {r} \X (1 .. papers) : u \in PaperUnits(w)'
      <4> SUFFICES ASSUME NEW k \in 1 .. papers PROVE <<r, k>> \in PaperUnits(w)'
        OBVIOUS
      <4>1. k \in 1 .. MaxPapers /\ k <= papers
        BY <2>4, AllowancesAssumption
      <4>2. r \in Counted(w)' /\ k <= charged'[r].papers
        BY <1>2, <1>3, <2>1, <4>1
      <4> QED
        BY <4>1, <4>2 DEF PaperUnits
    <3> QED
      BY <3>1, <3>2, <3>3
  <2>6. IsFiniteSet(Counted(w)) /\ IsFiniteSet(PaperUnits(w))
    BY <1>1, PapersAreFinite DEF WindowKept
  <2>7. FreeRuns(w) \in SUBSET Counted(w) /\ ManualRuns(w) \in SUBSET Counted(w)
    BY DEF FreeRuns, ManualRuns
  <2>8. /\ IsFiniteSet(FreeRuns(w)) /\ Cardinality(FreeRuns(w)) <= Cardinality(Counted(w))
        /\ IsFiniteSet(ManualRuns(w))
    BY <2>6, <2>7, FS_Subset
  <2>9. IsFiniteSet({r} \X (1 .. papers)) /\ Cardinality({r} \X (1 .. papers)) = papers
    <3>1. IsFiniteSet(1 .. papers) /\ Cardinality(1 .. papers) = papers
      BY <2>4, FS_Interval
    <3>2. IsFiniteSet({r}) /\ Cardinality({r}) = 1
      BY FS_Singleton
    <3>3. /\ IsFiniteSet({r} \X (1 .. papers))
          /\ Cardinality({r} \X (1 .. papers)) = Cardinality({r}) * Cardinality(1 .. papers)
      BY <3>1, <3>2, FS_Product
    <3>4. Cardinality({r}) * Cardinality(1 .. papers) = papers
      BY <2>4, <3>1, <3>2
    <3> QED
      BY <3>3, <3>4
  <2>10. IsFiniteSet(Counted(w)') /\ Cardinality(Counted(w)') = Cardinality(Counted(w)) + 1
    BY <1>4, <2>1, <2>6, FS_AddElement
  <2>11. /\ IsFiniteSet(FreeRuns(w) \cup {r}) /\ Cardinality(FreeRuns(w) \cup {r}) <= Cardinality(FreeRuns(w)) + 1
         /\ IsFiniteSet(ManualRuns(w) \cup {r})
         /\ Cardinality(ManualRuns(w) \cup {r}) <= Cardinality(ManualRuns(w)) + 1
    BY <2>8, OneMore
  <2>12. Cardinality(PaperUnits(w)') <= Cardinality(PaperUnits(w)) + papers
    <3>1. Cardinality(PaperUnits(w) \cap ({r} \X (1 .. papers))) \in Nat
      <4>1. PaperUnits(w) \cap ({r} \X (1 .. papers)) \in SUBSET PaperUnits(w)
        OBVIOUS
      <4>2. IsFiniteSet(PaperUnits(w) \cap ({r} \X (1 .. papers)))
        BY <2>6, <4>1, FS_Subset
      <4> QED
        BY <4>2, FS_CardinalityType
    <3>2. Cardinality(PaperUnits(w) \cup ({r} \X (1 .. papers)))
            = Cardinality(PaperUnits(w)) + Cardinality({r} \X (1 .. papers))
              - Cardinality(PaperUnits(w) \cap ({r} \X (1 .. papers)))
      BY <2>6, <2>9, FS_Union
    <3>3. Cardinality(PaperUnits(w)) \in Nat
      BY <2>6, FS_CardinalityType
    <3> QED
      BY <2>4, <2>5, <2>9, <3>1, <3>2, <3>3
  <2>13. /\ Cardinality(Counted(w)) + 1 <= Configuration[tier].runs
         /\ trigger = "manual" => Cardinality(ManualRuns(w)) + 1 <= Configuration[tier].manual
         /\ Cardinality(PaperUnits(w)) + papers <= Configuration[tier].papers
    BY <1>7 DEF Included, ManualRuns, UsedPapers
  <2>14. /\ Cardinality(Counted(w)) \in Nat /\ Cardinality(FreeRuns(w)) \in Nat
         /\ Cardinality(ManualRuns(w)) \in Nat /\ Cardinality(PaperUnits(w)) \in Nat
    BY <2>6, <2>8, FS_CardinalityType
  <2>15. IsFiniteSet(FreeRuns(w)') /\ IsFiniteSet(ManualRuns(w)') /\ IsFiniteSet(PaperUnits(w)')
    <3>1. IsFiniteSet(FreeRuns(w)') /\ IsFiniteSet(ManualRuns(w)')
      BY <2>3, <2>8, <2>11
    <3>2. IsFiniteSet(PaperUnits(w) \cup ({r} \X (1 .. papers)))
      BY <2>6, <2>9, FS_Union
    <3>3. IsFiniteSet(PaperUnits(w)')
      BY <2>5, <3>2
    <3> QED
      BY <3>1, <3>3
  <2>16. /\ Cardinality(Counted(w)') \in Nat /\ Cardinality(FreeRuns(w)') \in Nat
         /\ Cardinality(ManualRuns(w)') \in Nat /\ Cardinality(PaperUnits(w)') \in Nat
    BY <2>10, <2>15, FS_CardinalityType
  <2>17. tier \in Tiers /\ tier \in {"free", "paid"} /\ "free" \in Tiers
    BY DEF AllowancesTypeOK, Tiers
  <2>18. Cardinality(Counted(w)') <= MostRuns
    BY <2>10, <2>13, <2>14, <2>17, MostOfAll
  <2>19. Cardinality(PaperUnits(w)') <= MostPapers
    BY <2>4, <2>12, <2>13, <2>14, <2>16, <2>17, MostOfAll
  <2>20. Cardinality(FreeRuns(w)') <= Configuration["free"].runs
    <3>1. CASE tier = "free"
      <4>1. Cardinality(FreeRuns(w)') <= Cardinality(FreeRuns(w)) + 1
        BY <2>3, <2>11, <3>1
      <4> QED
        BY <2>8, <2>13, <2>14, <2>16, <2>17, <3>1, <4>1, MostOfAll
    <3>2. CASE tier # "free"
      BY <1>1, <2>3, <3>2 DEF WindowKept
    <3> QED
      BY <3>1, <3>2
  <2>21. Cardinality(ManualRuns(w)') <= MostManual
    <3>1. CASE trigger = "manual"
      <4>1. Cardinality(ManualRuns(w)') <= Cardinality(ManualRuns(w)) + 1
        BY <2>3, <2>11, <3>1
      <4> QED
        BY <2>13, <2>14, <2>16, <2>17, <3>1, <4>1, MostOfAll
    <3>2. CASE trigger # "manual"
      BY <1>1, <2>3, <3>2 DEF WindowKept
    <3> QED
      BY <3>1, <3>2
  <2> QED
    BY <1>5, <2>10, <2>18, <2>19, <2>20, <2>21 DEF WindowKept, UsedPapers
<1> QED
  BY <1>6, <1>7

-----------------------------------------------------------------------------
(* What the admission of a run does to its row, and what its end does.         *)

\* A charge leaves the ledger as it is, or adds a reservation of a run that the
\* window did not count.
LEMMA Admits ==
    ASSUME SumsInv, NEW r \in Attempts, NEW papers \in 0 .. MaxPapers, NEW trigger \in Triggers,
           charged[r].state \notin {"reserved", "settled"} => Assessed(papers, trigger),
           charged' = Charge(r, papers), OnlyRow(r, attempt, attempt', AttemptRow),
           charged[r].state \in {"reserved", "settled"} => attempt'[r].trigger = attempt[r].trigger,
           attempt'[r].trigger = trigger, attempt'[r].state = "active",
           charged[r].state = "reserved" => attempt'[r].papers = attempt[r].papers,
           attempt'[r].papers = papers
    PROVE  ChargesFit' /\ \A w \in Nat : WindowKept(w)'
<1>1. /\ AllowancesTypeOK /\ ChargesFit /\ \A w \in Nat : WindowKept(w)
  BY DEF SumsInv, LedgerInv
<1>2. /\ \A q \in Attempts : q # r => attempt'[q] = attempt[q]
      /\ charged \in [Attempts -> ChargedRow]
  BY <1>1 DEF OnlyRow, AllowancesTypeOK
<1>3. CASE policyMode = "complimentary" \/ charged[r].state \in {"reserved", "settled"}
  <2>1. charged' = charged
    BY <1>3 DEF Charge
  <2>2. ChargesFit'
    BY <1>1, <1>2, <2>1 DEF ChargesFit
  <2>3. \A q \in Attempts :
            charged'[q].state \in {"reserved", "settled"} =>
                /\ charged[q].state \in {"reserved", "settled"}
                /\ charged'[q].window = charged[q].window /\ charged'[q].tier = charged[q].tier
                /\ attempt'[q].trigger = attempt[q].trigger
                /\ \A k \in 1 .. MaxPapers : k <= charged'[q].papers => k <= charged[q].papers
    BY <1>2, <2>1
  <2>4. \A w \in Nat : WindowKept(w)'
    BY <1>1, <2>3, CountShrinks
  <2> QED
    BY <2>2, <2>4
<1>4. CASE policyMode # "complimentary" /\ charged[r].state \notin {"reserved", "settled"}
  <2> DEFINE new == [state |-> "reserved", window |-> WindowAt(hours), tier |-> tier, papers |-> papers]
  <2>1. charged' = [charged EXCEPT ![r] = new] /\ Included(papers, trigger)
    BY <1>4 DEF Charge, Assessed
  <2>2. new.state = "reserved" /\ new.papers = papers
    OBVIOUS
  <2>3. \A w \in Nat : WindowKept(w)'
    <3>1. \A q \in Attempts \ {r} : attempt'[q].trigger = attempt[q].trigger
      BY <1>2
    <3> QED
      BY <1>1, <1>4, <2>1, <3>1, CountGrows
  <2> HIDE DEF new
  <2>4. charged'[r] = new /\ \A q \in Attempts : q # r => charged'[q] = charged[q]
    BY <1>2, <2>1
  <2>5. ChargesFit'
    BY <1>1, <1>2, <2>2, <2>4 DEF ChargesFit
  <2> QED
    BY <2>3, <2>5
<1> QED
  BY <1>3, <1>4

\* Settling leaves the ledger as it is, or ends a reservation with no more papers
\* than were reserved.
LEMMA SumsSettled ==
    ASSUME SumsInv, NEW r \in Attempts, NEW success \in BOOLEAN, EndRun(r, success)
    PROVE  ChargesFit' /\ \A w \in Nat : WindowKept(w)'
<1>1. /\ AllowancesTypeOK /\ ChargesFit /\ \A w \in Nat : WindowKept(w)
  BY DEF SumsInv, LedgerInv
<1> DEFINE state == IF success THEN "completed" ELSE "failed"
           row   == [attempt[r] EXCEPT !.state = state]
<1>2. attempt[r] \in AttemptRow /\ attempt[r].papers \in 0 .. MaxPapers /\ state \in RunStates
  BY <1>1 DEF AllowancesTypeOK, AttemptRow, RunStates
<1>3. PICK actual \in {0, attempt[r].papers} : Settlement(r, success, IF success THEN actual ELSE 0)
  BY DEF EndRun
<1>4. attempt' = [attempt EXCEPT ![r] = row] /\ attempt \in [Attempts -> AttemptRow]
  BY <1>1 DEF EndRun, AllowancesTypeOK
<1>5. row.trigger = attempt[r].trigger /\ row.papers = attempt[r].papers /\ row.state # "absent"
  BY <1>2 DEF AttemptRow
<1> HIDE DEF row, state
<1>6. \A q \in Attempts : /\ attempt'[q].trigger = attempt[q].trigger /\ attempt'[q].papers = attempt[q].papers
                          /\ q # r => attempt'[q] = attempt[q]
  BY <1>4, <1>5
<1>7. attempt'[r].state # "absent"
  BY <1>4, <1>5
<1> DEFINE papers == IF success THEN actual ELSE 0
           paid   == [charged[r] EXCEPT !.state = EndState(success), !.papers = papers]
<1>8. papers \in {0, attempt[r].papers}
  BY <1>3
<1>9. charged' = IF charged[r].state # "reserved" THEN charged ELSE [charged EXCEPT ![r] = paid]
  BY <1>3 DEF Settlement
<1>10. charged \in [Attempts -> ChargedRow] /\ charged[r] \in ChargedRow
  BY <1>1 DEF AllowancesTypeOK
<1>11. /\ paid.window = charged[r].window /\ paid.tier = charged[r].tier /\ paid.papers = papers
       /\ paid.state = EndState(success) /\ paid.state # "reserved"
  BY <1>10 DEF ChargedRow, EndState
<1> HIDE DEF paid, papers
<1>12. CASE charged[r].state # "reserved"
  <2>1. charged' = charged
    BY <1>9, <1>12
  <2>2. ChargesFit'
    BY <1>1, <1>6, <1>7, <2>1 DEF ChargesFit
  <2>3. \A q \in Attempts :
            charged'[q].state \in {"reserved", "settled"} =>
                /\ charged[q].state \in {"reserved", "settled"}
                /\ charged'[q].window = charged[q].window /\ charged'[q].tier = charged[q].tier
                /\ attempt'[q].trigger = attempt[q].trigger
                /\ \A k \in 1 .. MaxPapers : k <= charged'[q].papers => k <= charged[q].papers
    BY <1>6, <2>1
  <2> QED
    BY <1>1, <2>2, <2>3, CountShrinks
<1>13. CASE charged[r].state = "reserved"
  <2>1. charged'[r] = paid /\ \A q \in Attempts : q # r => charged'[q] = charged[q]
    BY <1>9, <1>10, <1>13
  <2>2. ChargesFit'
    BY <1>1, <1>6, <1>7, <1>11, <2>1 DEF ChargesFit
  <2>3. charged[r].papers = attempt[r].papers
    BY <1>1, <1>13 DEF ChargesFit
  <2>4. \A k \in 1 .. MaxPapers : k <= papers => k <= charged[r].papers
    BY <1>2, <1>8, <2>3, AllowancesAssumption
  <2>5. \A q \in Attempts :
            charged'[q].state \in {"reserved", "settled"} =>
                /\ charged[q].state \in {"reserved", "settled"}
                /\ charged'[q].window = charged[q].window /\ charged'[q].tier = charged[q].tier
                /\ attempt'[q].trigger = attempt[q].trigger
                /\ \A k \in 1 .. MaxPapers : k <= charged'[q].papers => k <= charged[q].papers
    BY <1>6, <1>11, <1>13, <2>1, <2>4
  <2> QED
    BY <1>1, <2>2, <2>5, CountShrinks
<1> QED
  BY <1>12, <1>13

LEMMA SumsKept == SumsInv /\ [AllowancesNext]_allowanceVars => SumsInv'
<1> SUFFICES ASSUME SumsInv, [AllowancesNext]_allowanceVars
             PROVE  ChargesFit' /\ \A w \in Nat : WindowKept(w)'
  BY LedgerNext DEF SumsInv
<1>1. /\ AllowancesTypeOK /\ ChargesFit /\ \A w \in Nat : WindowKept(w)
  BY DEF SumsInv, LedgerInv
<1>2. ASSUME NEW r \in Attempts, NEW d \in Topics, NEW trigger \in Triggers, StartRun(r, d, trigger)
      PROVE  ChargesFit' /\ \A w \in Nat : WindowKept(w)'
  <2> DEFINE row == [state |-> "active", topic |-> d, trigger |-> trigger, papers |-> maximum[d]]
  <2>1. /\ row \in AttemptRow /\ row.state = "active" /\ row.trigger = trigger /\ row.papers = maximum[d]
        /\ maximum[d] \in 0 .. MaxPapers
    BY <1>1 DEF AllowancesTypeOK, AttemptRow, RunStates
  <2>2. /\ attempt[r].state = "absent" /\ Assessed(maximum[d], trigger)
        /\ attempt' = [attempt EXCEPT ![r] = row] /\ charged' = Charge(r, maximum[d])
    BY <1>2 DEF StartRun
  <2> HIDE DEF row
  <2>3. OnlyRow(r, attempt, attempt', AttemptRow) /\ attempt'[r] = row
    BY <1>1, <2>1, <2>2 DEF AllowancesTypeOK, OnlyRow
  <2>4. charged[r].state = "none"
    BY <1>1, <2>2 DEF ChargesFit
  <2> QED
    BY <2>1, <2>2, <2>3, <2>4, Admits
<1>3. ASSUME NEW r \in Attempts, RetryRun(r)
      PROVE  ChargesFit' /\ \A w \in Nat : WindowKept(w)'
  <2> DEFINE row == [attempt[r] EXCEPT !.state = "active"]
  <2>1. attempt[r] \in AttemptRow /\ attempt[r].papers \in 0 .. MaxPapers /\ attempt[r].trigger \in Triggers
    BY <1>1 DEF AllowancesTypeOK, AttemptRow
  <2>2. "active" \in RunStates
    BY DEF RunStates
  <2>3. /\ row \in AttemptRow /\ row.state = "active"
        /\ row.trigger = attempt[r].trigger /\ row.papers = attempt[r].papers
    <3>1. row \in AttemptRow /\ row.state = "active"
      BY <2>1, <2>2, AttemptTyped
    <3>2. row.trigger = attempt[r].trigger /\ row.papers = attempt[r].papers
      BY <2>1 DEF AttemptRow
    <3> QED
      BY <3>1, <3>2
  <2>4. /\ charged[r].state \notin {"reserved", "settled"} => Assessed(attempt[r].papers, attempt[r].trigger)
        /\ attempt' = [attempt EXCEPT ![r] = row] /\ charged' = Charge(r, attempt[r].papers)
    BY <1>3 DEF RetryRun
  <2> HIDE DEF row
  <2>5. OnlyRow(r, attempt, attempt', AttemptRow) /\ attempt'[r] = row
    BY <1>1, <2>3, <2>4 DEF AllowancesTypeOK, OnlyRow
  <2> QED
    BY <2>1, <2>3, <2>4, <2>5, Admits
<1>4. ASSUME NEW d \in Topics, DeletionCommit(d)
      PROVE  ChargesFit' /\ \A w \in Nat : WindowKept(w)'
  <2>1. charged' = charged
    BY <1>4 DEF DeletionCommit, UsageKept
  <2>2. \A q \in Attempts : attempt'[q] = IF q \in RunsOfTopic(d) THEN [attempt[q] EXCEPT !.state = "deleted"]
                                          ELSE attempt[q]
    BY <1>4 DEF DeletionCommit
  <2>3. \A q \in Attempts : /\ attempt'[q].trigger = attempt[q].trigger /\ attempt'[q].papers = attempt[q].papers
                            /\ attempt'[q].state = "absent" => attempt[q].state = "absent"
    <3> SUFFICES ASSUME NEW q \in Attempts
                 PROVE  /\ attempt'[q].trigger = attempt[q].trigger /\ attempt'[q].papers = attempt[q].papers
                        /\ attempt'[q].state = "absent" => attempt[q].state = "absent"
      OBVIOUS
    <3>1. attempt[q] \in AttemptRow
      BY <1>1 DEF AllowancesTypeOK
    <3> QED
      BY <2>2, <3>1 DEF AttemptRow
  <2>4. ChargesFit'
    BY <1>1, <2>1, <2>3 DEF ChargesFit
  <2>5. \A q \in Attempts :
            charged'[q].state \in {"reserved", "settled"} =>
                /\ charged[q].state \in {"reserved", "settled"}
                /\ charged'[q].window = charged[q].window /\ charged'[q].tier = charged[q].tier
                /\ attempt'[q].trigger = attempt[q].trigger
                /\ \A k \in 1 .. MaxPapers : k <= charged'[q].papers => k <= charged[q].papers
    BY <2>1, <2>3
  <2> QED
    BY <1>1, <2>4, <2>5, CountShrinks
<1>5. ASSUME UNCHANGED <<attempt, charged>>
      PROVE  ChargesFit' /\ \A w \in Nat : WindowKept(w)'
  <2>1. \A q \in Attempts :
            charged'[q].state \in {"reserved", "settled"} =>
                /\ charged[q].state \in {"reserved", "settled"}
                /\ charged'[q].window = charged[q].window /\ charged'[q].tier = charged[q].tier
                /\ attempt'[q].trigger = attempt[q].trigger
                /\ \A k \in 1 .. MaxPapers : k <= charged'[q].papers => k <= charged[q].papers
    BY <1>5
  <2>2. ChargesFit'
    BY <1>1, <1>5 DEF ChargesFit
  <2> QED
    BY <1>1, <2>1, <2>2, CountShrinks
<1>6. ASSUME NEW d \in Topics, DeletionCheck(d) PROVE UNCHANGED <<attempt, charged>>
  BY <1>6 DEF DeletionCheck
<1>7. ASSUME NEW d \in Topics, NEW papers \in 1 .. MaxPapers, EditTopic(d, papers)
      PROVE  UNCHANGED <<attempt, charged>>
  BY <1>7 DEF EditTopic
<1>8. ASSUME TierTurns \/ PolicyTurns \/ TimePasses \/ UNCHANGED allowanceVars
      PROVE  UNCHANGED <<attempt, charged>>
  BY <1>8 DEF TierTurns, PolicyTurns, TimePasses, allowanceVars
<1> QED
  BY <1>2, <1>3, <1>4, <1>5, <1>6, <1>7, <1>8, SumsSettled DEF AllowancesNext

LEMMA SumsInitially == AllowancesInit => SumsInv
<1> SUFFICES ASSUME AllowancesInit PROVE ChargesFit /\ \A w \in Nat : WindowKept(w)
  BY LedgerInit DEF SumsInv
<1>1. \A r \in Attempts : charged[r].state = "none"
  BY DEF AllowancesInit, Uncharged
<1>2. ChargesFit
  BY <1>1 DEF ChargesFit
<1>3. ASSUME NEW w \in Nat PROVE WindowKept(w)
  <2>1. Counted(w) = {}
    BY <1>1 DEF Counted
  <2>2. FreeRuns(w) = {} /\ ManualRuns(w) = {} /\ PaperUnits(w) = {}
    BY <2>1 DEF FreeRuns, ManualRuns, PaperUnits
  <2>3. Configuration["free"].runs \in Nat
    BY MostOfAll DEF Tiers
  <2> QED
    BY <2>1, <2>2, <2>3, MostOfAll, FS_EmptySet DEF WindowKept, UsedPapers
<1> QED
  BY <1>2, <1>3

\* What counts in a window never exceeds what the plans include, in runs, manual
\* runs and papers, for any plans and any number of digests, runs and windows.
THEOREM Allowed == AllowancesSpec => []AllowanceKept
<1>1. AllowancesSpec => []SumsInv
  BY SumsInitially, SumsKept, PTL DEF AllowancesSpec
<1>2. SumsInv => AllowanceKept
  <2> SUFFICES ASSUME SumsInv, NEW t \in 0 .. hours
               PROVE  LET counted == Counted(WindowAt(t))
                          free    == {r \in counted : charged[r].tier = "free"} IN
                      /\ Cardinality(counted) <= Max({Configuration[p].runs : p \in Tiers})
                      /\ UsedPapers(WindowAt(t)) <= Max({Configuration[p].papers : p \in Tiers})
                      /\ Cardinality(free) <= Configuration["free"].runs
                      /\ Cardinality({r \in counted : attempt[r].trigger = "manual"})
                           <= Max({Configuration[p].manual : p \in Tiers})
    BY DEF AllowanceKept
  <2>1. t \in Nat
    BY AllowancesAssumption DEF SumsInv, LedgerInv, AllowancesTypeOK
  <2>2. WindowAt(t) \in Nat
    BY <2>1, Times
  <2>3. WindowKept(WindowAt(t))
    BY <2>2 DEF SumsInv
  <2> QED
    BY <2>3 DEF WindowKept, FreeRuns, ManualRuns, MostRuns, MostPapers, MostManual
<1> QED
  BY <1>1, <1>2, PTL

=============================================================================
