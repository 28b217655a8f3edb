------------------------- MODULE AccountClosure_proofs -------------------------
(* The safety of buying and of closing, for any number of windows, loops,      *)
(* plans, attempts, replacements and faults. An attempt is finished when no    *)
(* session of its key can be paid and none can come any more; that lasts.      *)
(* All attempts but the newest are finished, and a holder of the account's     *)
(* row that is about to insert a successor knows that the newest is, too.      *)
EXTENDS AccountClosure, TLAPS

Finished(a) ==
    /\ \A s \in Answers(a) : ~Payable(s)
    /\ Answers(a) = {} => age[a] > 0

\* A completed session has its subscription, and an attempt one session at most.
SessionsSound ==
    /\ \A s \in DOMAIN sessions :
          /\ sessions[s].attempt \in Attempts
          /\ sessions[s].status = "complete" <=> sessions[s].sub # "none"
          /\ sessions[s].linked => sessions[s].status = "complete"
    /\ \A s, t \in DOMAIN sessions : sessions[s].attempt = sessions[t].attempt => s = t

\* What a saved row says of its session is true, and what it calls over is over.
RowTrue(row, a) ==
    /\ row.session # NoSession => row.session \in Answers(a)
    /\ row.status \in {"open", "complete"} => row.session # NoSession
    /\ row.status = "complete" => row.sub # "none" /\ \A s \in Answers(a) : sessions[s].status = "complete"
    /\ row.status = "expired" => /\ \A s \in Answers(a) : sessions[s].status = "expired"
                                 /\ Answers(a) = {} => age[a] > 0
    /\ row.sub # "none" => \E s \in Answers(a) : sessions[s].sub # "none"
    /\ row.sub = "ended" => \A s \in Answers(a) : sessions[s].sub = "ended"

Truth(rs) == \A a \in 1 .. Len(rs) : RowTrue(rs[a], a)

\* An attempt that was replaced is over, unpaid, and was replaced as was agreed.
Consent(rs) ==
    \A a \in 1 .. Len(rs) :
        rs[a].intent = "replaced" => /\ a < Len(rs) /\ rs[a + 1].target = rs[a].wanted
                                     /\ rs[a].status = "expired" /\ rs[a].sub = "none"

\* draft differs from rows only while somebody holds the account's row.
Tables ==
    /\ Len(draft) = Len(rows) /\ (lock = Free => draft = rows)
    /\ Truth(rows) /\ Truth(draft) /\ Consent(rows) /\ Consent(draft)

\* Sessions and creations under way belong to attempts that are committed, and
\* all but the newest of these are finished.
Chain ==
    /\ \A s \in DOMAIN sessions : sessions[s].attempt <= Len(rows)
    /\ \A a \in flying : a <= Len(rows)
    /\ \A a \in 1 .. Len(rows) : a < Len(rows) => Finished(a)

Source == {"canonical", "replay", "judge", "expire", "confirm"}
Inside == Source \cup {"sync", "plan", "post", "record"}

\* What a request is sure of at each place, whoever holds the account's row.
Loose(h) ==
    LET l == call[h] IN
    /\ l.pc # "idle" => l.target \in Targets
    /\ l.op = "replace" => l.seen \in 1 .. Len(rows)
    /\ l.pc \in Source \cup {"reopen", "failed"} => l.op = "replace"
    /\ l.pc = "relock" => l.row \in 1 .. Len(rows)
    /\ l.handoff => l.pc \in {"plan", "relock", "post", "record", "failed"}
    /\ l.pc \in Inside => lock = h
    /\ lock = h => l.pc \in Inside \cup {"failed"}

\* What it is sure of while it holds it.
Holding(h) ==
    LET l == call[h]
        n == Len(draft) IN
    /\ l.pc = "sync" => n > 0
    /\ l.pc \in {"post", "record"} => n > 0 /\ l.row = n
    /\ l.pc \in Source => l.seen = n
    /\ l.pc = "expire" => draft[n].session # NoSession
    /\ l.pc = "plan" /\ n > 0 => Finished(n)
    /\ l.pc = "plan" /\ l.handoff =>
          n > 0 /\ draft[n].wanted = l.target /\ draft[n].status = "expired" /\ draft[n].sub = "none"

Calls ==
    /\ lock \in Requests => ~closing
    /\ \A h \in Requests : Loose(h) /\ Holding(h)

BuyInv == TypeOK /\ SessionsSound /\ Tables /\ Chain /\ Calls

-----------------------------------------------------------------------------
(* The closure.                                                                *)

Looking == {"look", "expire", "stop", "finish"}

\* A tick has dealt with the attempts before its own, or asks for an operator.
Dealt(k) ==
    LET l == tick[k]
        a == l.attempt IN
    /\ l.pc \in Looking <=> lock = k
    /\ l.pc \in {"idle", "relock"} => a = 1
    /\ l.pc \in Looking => /\ a <= Len(draft) + 1
                           /\ l.issues \/ \A b \in 1 .. Len(draft) : b < a => Finished(b)
    /\ l.pc \in {"expire", "stop"} => a <= Len(draft)
    /\ l.pc = "expire" => draft[a].session # NoSession
    /\ l.pc = "stop" => IF draft[a].session = NoSession THEN draft[a].sub # "none"
                        ELSE /\ sessions[draft[a].session].status # "open"
                             /\ sessions[draft[a].session].status = "complete" => draft[a].sub # "none"
    /\ l.pc = "finish" => a > Len(draft)

Ticking ==
    /\ closure \in Closure /\ tick \in [Ticks -> TickPlace] /\ work \in BOOLEAN /\ notice \in Notice
    /\ closure.state # "none" \/ closure.done => closing
    /\ \A k \in Ticks : (tick[k].pc # "idle" => closing) /\ Dealt(k)

\* After the closure: no rows, nothing to pay, nothing that could still come.
Closed ==
    /\ TypeOK /\ SessionsSound /\ closing /\ rows = <<>> /\ draft = <<>> /\ lock \notin Requests
    /\ \A s \in DOMAIN sessions : ~Payable(s)
    /\ \A a \in flying : Answers(a) = {} => age[a] > 0
    /\ \A h \in Requests : call[h].pc \notin Inside

ClosureInv == Ticking /\ (IF closure.done THEN Closed ELSE BuyInv)

-----------------------------------------------------------------------------
(* Records and sequences.                                                      *)

LEMMA SetRow ==
    ASSUME NEW rs \in Seq(Row), NEW a \in 1 .. Len(rs), NEW row \in Row
    PROVE  LET new == [rs EXCEPT ![a] = row] IN
           /\ new \in Seq(Row) /\ Len(new) = Len(rs)
           /\ \A b \in 1 .. Len(rs) : new[b] = IF b = a THEN row ELSE rs[b]
  OBVIOUS

LEMMA AddRow ==
    ASSUME NEW rs \in Seq(Row), NEW row \in Row
    PROVE  LET new == Append(rs, row) IN
           /\ new \in Seq(Row) /\ Len(new) = Len(rs) + 1 /\ new[Len(new)] = row
           /\ \A b \in 1 .. Len(rs) : new[b] = rs[b]
  OBVIOUS

LEMMA Typed ==
    ASSUME TypeOK
    PROVE  /\ rows \in Seq(Row) /\ draft \in Seq(Row) /\ Len(rows) \in Nat /\ Len(draft) \in Nat
           /\ Len(rows) <= MaxAttempts /\ MaxAttempts \in Nat
           /\ \A a \in 1 .. Len(rows) : rows[a] \in Row /\ a \in Attempts
           /\ \A a \in 1 .. Len(draft) : draft[a] \in Row
           /\ \A s \in DOMAIN sessions : sessions[s] \in Session /\ s \in SessionIds /\ s # NoSession
           /\ DOMAIN sessions = 1 .. Len(sessions) /\ Len(sessions) \in Nat
           /\ \A h \in Requests : call[h] \in Place
           /\ \A a \in Attempts : age[a] \in 0 .. 2 /\ a \in Nat
  BY CheckoutAssumption DEF TypeOK, Attempts, SessionIds, NoSession

LEMMA AnswersTyped ==
    ASSUME TypeOK, NEW a, NEW s \in Answers(a)
    PROVE  /\ s \in DOMAIN sessions /\ s \in SessionIds /\ s # NoSession
           /\ sessions[s] \in Session /\ sessions[s].attempt = a
  BY Typed DEF Answers

\* The status and the subscription of a session.
LEMMA SessionStates ==
    ASSUME TypeOK, SessionsSound, NEW s \in DOMAIN sessions
    PROVE  /\ sessions[s].status \in {"open", "complete", "expired"}
           /\ sessions[s].sub \in {"none", "live", "ended"} /\ sessions[s].linked \in BOOLEAN
           /\ sessions[s].status = "complete" <=> sessions[s].sub # "none"
           /\ sessions[s].linked => sessions[s].status = "complete"
           /\ Payable(s) <=> ~(sessions[s].status = "expired" \/ sessions[s].sub = "ended")
  BY Typed DEF SessionsSound, Session, Payable

-----------------------------------------------------------------------------
(* What is saved of an answer.                                                 *)

SameTerms(row, new) ==
    new.target = row.target /\ new.intent = row.intent /\ new.wanted = row.wanted /\ new.number = row.number

OverUnpaid(row) == row.status = "expired" /\ row.sub = "none"

LEMMA RowTyped ==
    ASSUME NEW row \in Row
    PROVE  /\ row.session \in SessionIds \cup {NoSession} /\ row.target \in Targets /\ row.wanted \in Targets
           /\ row.status \in {"creating", "open", "complete", "expired"} /\ row.sub \in {"none", "live", "ended"}
           /\ row.intent \in {"none", "pending", "blocked", "replaced"} /\ row.number \in Nat
  BY DEF Row

LEMMA SavesCreation ==
    ASSUME NEW row \in Row, NEW s \in SessionIds
    PROVE  LET new == [row EXCEPT !.session = s, !.status = "open"] IN
           new \in Row /\ SameTerms(row, new) /\ new.session = s /\ new.status = "open" /\ new.sub = row.sub
  BY DEF Row, SameTerms

LEMMA SavesSubscription ==
    ASSUME NEW row \in Row, NEW sub \in {"none", "live", "ended"}
    PROVE  LET new == [row EXCEPT !.sub = sub] IN
           /\ new \in Row /\ SameTerms(row, new) /\ new.sub = sub
           /\ new.session = row.session /\ new.status = row.status
  BY DEF Row, SameTerms

LEMMA ObservedRow ==
    ASSUME TypeOK, SessionsSound, NEW a, NEW s \in Answers(a), NEW row \in Row, RowTrue(row, a), Accepts(row, s)
    PROVE  LET new == Observed(row, s) IN
           /\ new \in Row /\ RowTrue(new, a) /\ SameTerms(row, new) /\ (OverUnpaid(row) => OverUnpaid(new))
           /\ new.session = s /\ new.status = sessions[s].status
<1> DEFINE status == sessions[s].status
           sub    == IF sessions[s].linked \/ row.sub # "none" THEN sessions[s].sub ELSE row.sub
           new    == [row EXCEPT !.session = s, !.status = status, !.sub = sub]
<1>1. Observed(row, s) = new
  BY DEF Observed, Row
<1>2. /\ s \in SessionIds /\ s # NoSession /\ sessions[s].attempt = a /\ s \in DOMAIN sessions
      /\ status \in {"open", "complete", "expired"} /\ sub \in {"none", "live", "ended"}
  BY AnswersTyped, SessionStates, RowTyped
<1>3. new \in Row /\ SameTerms(row, new) /\ new.session = s /\ new.status = status /\ new.sub = sub
  <2> HIDE DEF status, sub
  <2> QED
    BY <1>2 DEF Row, SameTerms
<1>4. \A t \in Answers(a) : t = s
  BY <1>2, AnswersTyped DEF SessionsSound
<1>5. status = "complete" => sessions[s].linked /\ sub # "none"
  BY <1>2, SessionStates DEF Accepts
<1>6. sub # "none" => sub = sessions[s].sub
  OBVIOUS
<1>7. OverUnpaid(row) => OverUnpaid(new)
  BY <1>2, <1>3, SessionStates DEF OverUnpaid, RowTrue
<1> HIDE DEF sub, new, status
<1>8. RowTrue(new, a)
  BY <1>2, <1>3, <1>4, <1>5, <1>6 DEF RowTrue, status
<1> QED
  BY <1>1, <1>3, <1>7, <1>8 DEF status

LEMMA SubscribedRow ==
    ASSUME TypeOK, SessionsSound, NEW a, NEW s \in Answers(a), NEW row \in Row, RowTrue(row, a),
           sessions[s].sub # "none"
    PROVE  LET new == Subscribed(row, s) IN
           /\ new \in Row /\ RowTrue(new, a) /\ SameTerms(row, new) /\ (OverUnpaid(row) => OverUnpaid(new))
           /\ new.session = row.session /\ new.status = row.status /\ new.sub # "none"
<1> DEFINE sub == sessions[s].sub
           new == [row EXCEPT !.sub = sub]
<1>1. sub \in {"none", "live", "ended"} /\ s \in DOMAIN sessions /\ sessions[s].attempt = a
  BY AnswersTyped, SessionStates
<1>2. \A t \in Answers(a) : t = s
  BY <1>1, AnswersTyped DEF SessionsSound
<1>3. sessions[s].status = "complete"
  BY <1>1, SessionStates
<1> HIDE DEF sub
<1>4. new \in Row /\ SameTerms(row, new) /\ new.session = row.session /\ new.status = row.status /\ new.sub = sub
  BY <1>1, SavesSubscription
<1>5. row.status # "expired"
  BY <1>3 DEF RowTrue
<1> HIDE DEF new
<1>6. RowTrue(new, a) /\ (OverUnpaid(row) => OverUnpaid(new))
  BY <1>1, <1>2, <1>3, <1>4, <1>5 DEF RowTrue, OverUnpaid, sub
<1> QED
  BY <1>4, <1>6 DEF Subscribed, new, sub

\* A snapshot says that the session is open, which it may no longer be.
LEMMA CreatedRow ==
    ASSUME TypeOK, NEW a, NEW s \in Answers(a), NEW row \in Row, RowTrue(row, a)
    PROVE  LET new == Created(row, s) IN
           new \in Row /\ RowTrue(new, a) /\ SameTerms(row, new) /\ new.session = s
<1>1. s \in SessionIds /\ s # NoSession
  BY AnswersTyped
<1> DEFINE new == [row EXCEPT !.session = s, !.status = "open"]
<1>3. new \in Row /\ SameTerms(row, new) /\ new.session = s /\ new.status = "open" /\ new.sub = row.sub
  BY <1>1, SavesCreation
<1> HIDE DEF new
<1>4. RowTrue(new, a)
  BY <1>1, <1>3 DEF RowTrue
<1> QED
  BY <1>3, <1>4 DEF Created, new

\* An attempt that is said to be over, and not subscribed, is finished.
LEMMA OverIsFinished ==
    ASSUME TypeOK, SessionsSound, NEW a, NEW row \in Row, RowTrue(row, a),
           row.status \in {"complete", "expired"}, row.sub # "live"
    PROVE  Finished(a)
<1>1. \A s \in Answers(a) : s \in DOMAIN sessions
  BY AnswersTyped
<1>2. row.sub \in {"none", "ended"}
  BY RowTyped
<1> QED
  BY <1>1, <1>2, SessionStates DEF RowTrue, Finished

-----------------------------------------------------------------------------
(* The table of attempts.                                                      *)

\* What an observation may make of a table.
Follows(rs, new) ==
    /\ new \in Seq(Row) /\ Len(new) = Len(rs) /\ Truth(new)
    /\ \A b \in 1 .. Len(rs) : /\ SameTerms(rs[b], new[b])
                               /\ rs[b].intent = "replaced" /\ OverUnpaid(rs[b]) => OverUnpaid(new[b])

LEMMA FollowingConsent ==
    ASSUME NEW rs \in Seq(Row), NEW new, Follows(rs, new), Consent(rs)
    PROVE  Consent(new)
  BY DEF Follows, Consent, SameTerms, OverUnpaid

LEMMA OneRowFollows ==
    ASSUME NEW rs \in Seq(Row), Truth(rs), NEW a \in 1 .. Len(rs), NEW row \in Row,
           RowTrue(row, a), SameTerms(rs[a], row),
           rs[a].intent = "replaced" /\ OverUnpaid(rs[a]) => OverUnpaid(row)
    PROVE  LET new == [rs EXCEPT ![a] = row] IN
           Follows(rs, new) /\ new[a] = row /\ \A b \in 1 .. Len(rs) : b # a => new[b] = rs[b]
<1> DEFINE new == [rs EXCEPT ![a] = row]
<1>1. /\ new \in Seq(Row) /\ Len(new) = Len(rs)
      /\ \A b \in 1 .. Len(rs) : new[b] = IF b = a THEN row ELSE rs[b]
  BY SetRow
<1> HIDE DEF new
<1>2. Truth(new)
  BY <1>1 DEF Truth
<1>3. \A b \in 1 .. Len(rs) : SameTerms(rs[b], rs[b])
  BY DEF SameTerms
<1>4. Follows(rs, new)
  BY <1>1, <1>2, <1>3 DEF Follows
<1> QED
  BY <1>1, <1>4 DEF new

LEMMA SyncedFollows ==
    ASSUME TypeOK, SessionsSound, NEW rs \in Seq(Row), Truth(rs), NEW a \in 1 .. Len(rs), Readable(rs[a])
    PROVE  LET new == Synced(rs, a) IN
           /\ Follows(rs, new) /\ new[a] \in Row
           /\ new[a].session = rs[a].session
           /\ rs[a].session # NoSession => new[a].status = sessions[rs[a].session].status
           /\ rs[a].session = NoSession => /\ new[a].status = rs[a].status
                                           /\ rs[a].sub # "none" => new[a].sub # "none"
           /\ \A b \in 1 .. Len(rs) : b # a => new[b] = rs[b]
<1>1. rs[a] \in Row /\ RowTrue(rs[a], a)
  BY DEF Truth
<1>2. CASE rs[a].session # NoSession
  <2> DEFINE s == rs[a].session
             row == Observed(rs[a], s)
  <2>1. s \in Answers(a) /\ Accepts(rs[a], s)
    BY <1>1, <1>2 DEF RowTrue, Readable
  <2>2. /\ row \in Row /\ RowTrue(row, a) /\ SameTerms(rs[a], row) /\ (OverUnpaid(rs[a]) => OverUnpaid(row))
        /\ row.session = s /\ row.status = sessions[s].status
    BY <1>1, <2>1, ObservedRow
  <2>3. Synced(rs, a) = [rs EXCEPT ![a] = row]
    BY <1>2 DEF Synced
  <2> HIDE DEF row
  <2>4. LET new == [rs EXCEPT ![a] = row] IN
        Follows(rs, new) /\ new[a] = row /\ \A b \in 1 .. Len(rs) : b # a => new[b] = rs[b]
    BY <2>2, OneRowFollows
  <2> QED
    BY <1>2, <2>2, <2>3, <2>4
<1>3. CASE rs[a].session = NoSession /\ rs[a].sub # "none"
  <2> DEFINE s == CHOOSE t \in Answers(a) : sessions[t].sub # "none"
             row == Subscribed(rs[a], s)
  <2>1. s \in Answers(a) /\ sessions[s].sub # "none"
    BY <1>1, <1>3 DEF RowTrue
  <2> HIDE DEF s
  <2>2. /\ row \in Row /\ RowTrue(row, a) /\ SameTerms(rs[a], row) /\ (OverUnpaid(rs[a]) => OverUnpaid(row))
        /\ row.session = rs[a].session /\ row.status = rs[a].status /\ row.sub # "none"
    BY <1>1, <2>1, SubscribedRow
  <2>3. Synced(rs, a) = [rs EXCEPT ![a] = row]
    BY <1>3 DEF Synced, s
  <2> HIDE DEF row
  <2>4. LET new == [rs EXCEPT ![a] = row] IN
        Follows(rs, new) /\ new[a] = row /\ \A b \in 1 .. Len(rs) : b # a => new[b] = rs[b]
    BY <2>2, OneRowFollows
  <2> QED
    BY <1>3, <2>2, <2>3, <2>4
<1>4. CASE rs[a].session = NoSession /\ rs[a].sub = "none"
  <2>1. Synced(rs, a) = rs
    BY <1>4 DEF Synced
  <2>2. Follows(rs, rs)
    BY DEF Follows, SameTerms
  <2> QED
    BY <1>1, <1>4, <2>1, <2>2
<1> QED
  BY <1>2, <1>3, <1>4

-----------------------------------------------------------------------------
(* Stripe goes on, and what is known of it stays known.                        *)

\* Sessions end but do not begin again; a new one is the first of an attempt
\* that has not expired.
Later ==
    /\ DOMAIN sessions \subseteq DOMAIN sessions'
    /\ \A s \in DOMAIN sessions :
          /\ sessions'[s].attempt = sessions[s].attempt
          /\ sessions[s].status # "open" => sessions'[s].status = sessions[s].status
          /\ sessions[s].sub # "none" => sessions'[s].sub # "none"
          /\ sessions[s].sub = "ended" => sessions'[s].sub = "ended"
    /\ \A s \in DOMAIN sessions' : s \notin DOMAIN sessions =>
          Answers(sessions'[s].attempt) = {} /\ age[sessions'[s].attempt] = 0
    /\ \A a \in Attempts : age'[a] >= age[a]

LEMMA LastingAnswers ==
    ASSUME Later, NEW a
    PROVE  /\ Answers(a) \subseteq Answers(a)'
           /\ \A s \in Answers(a)' : s \in DOMAIN sessions => s \in Answers(a)
           /\ Answers(a) # {} => Answers(a)' = Answers(a)
           /\ age[a] > 0 => Answers(a)' = Answers(a)
  BY DEF Later, Answers

LEMMA LastingFinish ==
    ASSUME TypeOK, TypeOK', SessionsSound, SessionsSound', Later, NEW a \in Attempts, Finished(a)
    PROVE  Finished(a)'
<1>1. Answers(a)' = Answers(a)
  BY LastingAnswers, Typed DEF Finished
<1>2. Answers(a) = {} => age'[a] > 0
  <2>1. age[a] \in 0 .. 2 /\ age'[a] \in 0 .. 2 /\ age'[a] >= age[a]
    BY Typed DEF Later, TypeOK
  <2> QED
    BY <2>1 DEF Finished
<1>3. ASSUME NEW s \in Answers(a) PROVE ~Payable(s)'
  <2>1. s \in DOMAIN sessions /\ s \in DOMAIN sessions' /\ ~Payable(s)
    BY <1>3, AnswersTyped DEF Finished, Later
  <2>2. sessions[s].status = "expired" \/ sessions[s].sub = "ended"
    BY <2>1, SessionStates
  <2>3. sessions'[s].status = "expired" \/ sessions'[s].sub = "ended"
    BY <2>1, <2>2 DEF Later
  <2>4. /\ sessions'[s].status \in {"open", "complete", "expired"}
        /\ sessions'[s].status = "complete" <=> sessions'[s].sub # "none"
    <3>1. sessions' \in Seq(Session)
      BY DEF TypeOK
    <3>2. sessions'[s] \in Session
      BY <2>1, <3>1
    <3> QED
      BY <2>1, <3>2 DEF Session, SessionsSound
  <2> QED
    BY <2>3, <2>4 DEF Payable
<1> QED
  BY <1>1, <1>2, <1>3 DEF Finished

LEMMA LastingRow ==
    ASSUME TypeOK, TypeOK', SessionsSound, SessionsSound', Later, NEW a \in Attempts, NEW row, RowTrue(row, a)
    PROVE  RowTrue(row, a)'
<1>1. /\ Answers(a) \subseteq Answers(a)' /\ (Answers(a) # {} => Answers(a)' = Answers(a))
      /\ (age[a] > 0 => Answers(a)' = Answers(a))
  BY LastingAnswers
<1>2. age[a] \in 0 .. 2 /\ age'[a] \in 0 .. 2 /\ age'[a] >= age[a]
  BY Typed DEF Later, TypeOK
<1>3. \A s \in Answers(a) : s \in DOMAIN sessions
  BY AnswersTyped
<1> QED
  BY <1>1, <1>2, <1>3 DEF RowTrue, Later

LEMMA LastingTruth ==
    ASSUME TypeOK, TypeOK', SessionsSound, SessionsSound', Later, Tables, UNCHANGED <<rows, draft>>
    PROVE  Truth(rows)' /\ Truth(draft)'
<1>1. ASSUME NEW a \in 1 .. Len(rows) PROVE RowTrue(rows[a], a)' /\ RowTrue(draft[a], a)'
  <2>1. a \in Attempts /\ RowTrue(rows[a], a) /\ RowTrue(draft[a], a)
    BY Typed DEF Tables, Truth
  <2>2. ASSUME NEW row, RowTrue(row, a) PROVE RowTrue(row, a)'
    BY <2>1, <2>2, LastingRow
  <2> QED
    BY <2>1, <2>2 DEF RowTrue
<1> QED
  BY <1>1 DEF Truth, Tables

-----------------------------------------------------------------------------
(* Requests.                                                                   *)

Pcs == {"idle", "lock", "sync", "plan", "relock", "post", "record", "reopen",
        "canonical", "replay", "judge", "expire", "confirm", "failed"}

LEMMA PlaceTyped ==
    ASSUME NEW l \in Place
    PROVE  /\ l.pc \in Pcs /\ l.op \in {"start", "replace"} /\ l.handoff \in BOOLEAN
           /\ l.seen \in Attempts \cup {NoAttempt} /\ l.seen \in Nat /\ l.row \in Nat /\ l.number \in Nat
  BY CheckoutAssumption DEF Place, Pcs, Attempts, NoAttempt

SameButPc(l, new) ==
    /\ new.op = l.op /\ new.target = l.target /\ new.seen = l.seen /\ new.row = l.row
    /\ new.handoff = l.handoff /\ new.number = l.number

LEMMA PlaceSteps ==
    ASSUME NEW l \in Place, NEW pc \in Pcs
    PROVE  LET new == [l EXCEPT !.pc = pc] IN new \in Place /\ new.pc = pc /\ SameButPc(l, new)
  BY DEF Place, Pcs, SameButPc

LEMMA IdlePlace == Idle \in Place /\ Idle.pc = "idle" /\ Idle.op = "start" /\ ~Idle.handoff
  BY DEF Idle, Place

\* Who does not hold the account's row is not disturbed by whoever does.
LEMMA OtherRequests ==
    ASSUME BuyInv, NEW g \in Requests, call'[g] = call[g], Len(rows') \in Nat, Len(rows) <= Len(rows'),
           IF lock = g THEN lock' = g /\ draft' = draft ELSE lock' # g,
           \A a \in Attempts : Finished(a) => Finished(a)'
    PROVE  Loose(g)' /\ Holding(g)'
<1>1. Loose(g) /\ Holding(g) /\ call[g] \in Place /\ Len(rows) \in Nat /\ Len(draft) \in Nat
  BY Typed DEF BuyInv, Calls
<1>2. /\ call[g].seen \in Nat /\ call[g].row \in Nat
  BY <1>1, PlaceTyped
<1>3. Loose(g)'
  BY <1>1, <1>2 DEF Loose
<1>4. CASE lock # g
  <2>1. call[g].pc \notin Inside
    BY <1>1, <1>4 DEF Loose
  <2> QED
    BY <1>3, <2>1 DEF Holding, Inside, Source
<1>5. CASE lock = g
  <2>1. Len(draft) > 0 => Len(draft) \in Attempts
    BY Typed DEF BuyInv, Tables, Attempts
  <2> QED
    BY <1>1, <1>3, <1>5, <2>1 DEF Holding
<1> QED
  BY <1>4, <1>5

\* One request moves, and nothing at Stripe changes but for the better.
LEMMA OneMoves ==
    ASSUME BuyInv, NEW h \in Requests, NEW l \in Place, Move(h, l),
           TypeOK', SessionsSound', Later, Tables', Chain', Len(rows) <= Len(rows'),
           closing' = closing,
           IF lock \in {Free, h} THEN lock' \in {Free, h} ELSE lock' = lock /\ draft' = draft,
           lock' \in Requests => ~closing,
           Loose(h)', Holding(h)'
    PROVE  BuyInv'
<1>1. \A a \in Attempts : Finished(a) => Finished(a)'
  BY LastingFinish DEF BuyInv
<1>2. Len(rows') \in Nat
  BY DEF TypeOK
<1>3. ASSUME NEW g \in Requests, g # h PROVE Loose(g)' /\ Holding(g)'
  <2>1. call'[g] = call[g]
    BY <1>3 DEF Move, BuyInv, TypeOK
  <2>2. g # Free
    BY CheckoutAssumption
  <2>3. IF lock = g THEN lock' = g /\ draft' = draft ELSE lock' # g
    BY <1>3, <2>2
  <2> QED
    BY <1>1, <1>2, <2>1, <2>3, OtherRequests
<1> QED
  BY <1>3 DEF BuyInv, Calls

-----------------------------------------------------------------------------
(* A request moves while Stripe stands still.                                  *)

\* A table of the account's attempts that may be saved.
Savable(rs) == rs \in Seq(Row) /\ Len(rs) = Len(rows) /\ Truth(rs) /\ Consent(rs)

LEMMA TablesAreSavable == BuyInv => Savable(rows) /\ Savable(draft)
  BY Typed DEF BuyInv, Tables, Savable

LEMMA WhatFollowsIsSavable ==
    ASSUME NEW rs, NEW new, Savable(rs), Follows(rs, new)
    PROVE  Savable(new)
  BY FollowingConsent DEF Savable, Follows

LEMMA Moved ==
    ASSUME TypeOK, NEW h \in Requests, NEW l \in Place, Move(h, l)
    PROVE  call' \in [Requests -> Place] /\ call'[h] = l
  BY DEF TypeOK, Move

LEMMA StripeStill ==
    ASSUME TypeOK, UNCHANGED <<sessions, age>>
    PROVE  /\ Later /\ (SessionsSound => SessionsSound')
           /\ \A a : Answers(a)' = Answers(a) /\ (Finished(a) => Finished(a)')
           /\ \A row, a : RowTrue(row, a) => RowTrue(row, a)'
<1>1. \A a : Answers(a)' = Answers(a)
  BY DEF Answers
<1>2. SessionsSound => SessionsSound'
  BY DEF SessionsSound
<1>3. Later
  BY Typed DEF Later
<1>4. \A a : Finished(a) => Finished(a)'
  BY <1>1 DEF Finished, Payable
<1>5. \A row, a : RowTrue(row, a) => RowTrue(row, a)'
  BY <1>1 DEF RowTrue
<1> QED
  BY <1>1, <1>2, <1>3, <1>4, <1>5

LEMMA Turn ==
    ASSUME BuyInv, NEW h \in Requests, NEW l \in Place, Move(h, l),
           UNCHANGED <<sessions, age, closing>>,
           flying' \subseteq Attempts, \A a \in flying' : a <= Len(rows),
           intents' \in 0 .. MaxIntents, faults' \in 0 .. MaxFaults,
           IF lock \in {Free, h} THEN lock' \in {Free, h} ELSE UNCHANGED <<rows, draft, lock>>,
           lock' = h => ~closing,
           Savable(rows'), Savable(draft'), lock' = Free => draft' = rows',
           Loose(h)', Holding(h)'
    PROVE  BuyInv'
<1>1. TypeOK /\ SessionsSound /\ Tables /\ Chain /\ Calls
  BY DEF BuyInv
<1>2. /\ Later /\ SessionsSound'
      /\ \A a : Answers(a)' = Answers(a) /\ (Finished(a) => Finished(a)')
  BY <1>1, StripeStill
<1>3. Len(rows') = Len(rows) /\ Len(draft') = Len(rows) /\ Len(rows) \in Nat
  BY <1>1, Typed DEF Savable
<1>4. lock' \in Requests \cup Ticks \cup {Free}
  BY <1>1 DEF TypeOK
<1>5. TypeOK'
  BY <1>1, <1>3, <1>4, Moved DEF TypeOK, Savable
<1>6. ASSUME NEW rs, Savable(rs), NEW a \in 1 .. Len(rs) PROVE RowTrue(rs[a], a)'
  <2>1. RowTrue(rs[a], a)
    BY <1>6 DEF Savable, Truth
  <2> QED
    BY <1>2, <2>1 DEF RowTrue
<1>7. Truth(rows)' /\ Truth(draft)'
  BY <1>6 DEF Truth
<1>8. Tables'
  BY <1>3, <1>7 DEF Tables, Savable, Consent
<1>9. Chain'
  BY <1>1, <1>2, <1>3 DEF Chain
<1>10. IF lock \in {Free, h} THEN lock' \in {Free, h} ELSE lock' = lock /\ draft' = draft
  OBVIOUS
<1>11. lock' \in Requests => ~closing'
  BY <1>1, CheckoutAssumption DEF Calls
<1> QED
  BY <1>2, <1>3, <1>5, <1>8, <1>9, <1>10, <1>11, OneMoves

\* The ends of a transaction, from any place inside it.
LEMMA AbortKeeps ==
    ASSUME BuyInv, NEW h \in Requests, call[h].pc \in Inside, Abort(h),
           UNCHANGED <<closing, intents, sessions, age, flying>>, faults' \in 0 .. MaxFaults
    PROVE  BuyInv'
<1>1. TypeOK /\ Loose(h) /\ Chain /\ Tables /\ Calls
  BY DEF BuyInv, Calls
<1>2. call[h] \in Place /\ lock = h /\ h # Free /\ ~closing
  BY <1>1, Typed, CheckoutAssumption DEF Loose, Calls
<1>3. flying' \subseteq Attempts /\ (\A a \in flying' : a <= Len(rows)) /\ intents' \in 0 .. MaxIntents
  BY <1>1 DEF TypeOK, Chain
<1>4. CASE Handled(h)
  <2> DEFINE l == [call[h] EXCEPT !.pc = "failed"]
  <2>1. l \in Place /\ l.pc = "failed" /\ SameButPc(call[h], l)
    BY <1>2, PlaceSteps DEF Pcs
  <2>2. Move(h, l) /\ UNCHANGED <<rows, draft, lock>>
    BY <1>4 DEF Abort, Step
  <2> HIDE DEF l
  <2>3. call'[h] = l
    BY <1>1, <2>1, <2>2, Moved
  <2>4. Loose(h)' /\ Holding(h)'
    BY <1>1, <1>2, <1>4, <2>1, <2>2, <2>3 DEF Loose, Holding, SameButPc, Handled, Inside, Source
  <2> QED
    BY <1>2, <1>3, <2>1, <2>2, <2>4, TablesAreSavable, Turn
<1>5. CASE ~Handled(h)
  <2>1. Move(h, Idle) /\ rows' = rows /\ draft' = rows /\ lock' = Free
    BY <1>5 DEF Abort, Over, Rollback
  <2>2. call'[h] = Idle
    BY <1>1, <2>1, IdlePlace, Moved
  <2>3. Loose(h)' /\ Holding(h)'
    BY <1>2, <2>1, <2>2, IdlePlace DEF Loose, Holding, Inside, Source
  <2> QED
    BY <1>2, <1>3, <2>1, <2>3, IdlePlace, TablesAreSavable, Turn
<1> QED
  BY <1>4, <1>5

LEMMA StopKeeps ==
    ASSUME BuyInv, NEW h \in Requests, call[h].pc \in Inside, NEW rs, Savable(rs), Stop(h, rs),
           UNCHANGED <<closing, intents, faults, stripe>>
    PROVE  BuyInv'
<1>1. TypeOK /\ Loose(h) /\ Chain /\ Tables /\ Calls
  BY DEF BuyInv, Calls
<1>2. call[h] \in Place /\ lock = h /\ h # Free /\ ~closing
  BY <1>1, Typed, CheckoutAssumption DEF Loose, Calls
<1>3. /\ flying' \subseteq Attempts /\ (\A a \in flying' : a <= Len(rows)) /\ UNCHANGED <<sessions, age>>
      /\ intents' \in 0 .. MaxIntents /\ faults' \in 0 .. MaxFaults
  BY <1>1 DEF TypeOK, Chain, stripe
<1>4. rows' = rs /\ draft' = rs /\ lock' = Free /\ Len(rs) = Len(rows)
  BY DEF Stop, Commit, Savable
<1>5. CASE Handled(h)
  <2> DEFINE l == [call[h] EXCEPT !.pc = "failed"]
  <2>1. l \in Place /\ l.pc = "failed" /\ SameButPc(call[h], l)
    BY <1>2, PlaceSteps DEF Pcs
  <2>2. Move(h, l)
    BY <1>5 DEF Stop, Step
  <2> HIDE DEF l
  <2>3. call'[h] = l
    BY <1>1, <2>1, <2>2, Moved
  <2>4. Loose(h)' /\ Holding(h)'
    BY <1>1, <1>2, <1>4, <1>5, <2>1, <2>3 DEF Loose, Holding, SameButPc, Handled, Inside, Source
  <2> QED
    BY <1>2, <1>3, <1>4, <2>1, <2>2, <2>4, Turn
<1>6. CASE ~Handled(h)
  <2>1. Move(h, Idle)
    BY <1>6 DEF Stop, Over
  <2>2. call'[h] = Idle
    BY <1>1, <2>1, IdlePlace, Moved
  <2>3. Loose(h)' /\ Holding(h)'
    BY <1>2, <1>4, <2>2, IdlePlace DEF Loose, Holding, Inside, Source
  <2> QED
    BY <1>2, <1>3, <1>4, <2>1, <2>3, IdlePlace, Turn
<1> QED
  BY <1>5, <1>6

\* A request ends, giving the account's row up if it has it.
LEMMA OverKeeps ==
    ASSUME BuyInv, NEW h \in Requests, Over(h),
           UNCHANGED <<sessions, age, closing, intents>>,
           flying' \subseteq Attempts, \A a \in flying' : a <= Len(rows), faults' \in 0 .. MaxFaults,
           IF lock \in {Free, h} THEN lock' = Free ELSE UNCHANGED <<rows, draft, lock>>,
           Savable(rows'), Savable(draft'), lock' = Free => draft' = rows'
    PROVE  BuyInv'
<1>1. TypeOK /\ h # Free /\ intents' \in 0 .. MaxIntents
  BY CheckoutAssumption DEF BuyInv, TypeOK
<1>2. Move(h, Idle) /\ call'[h] = Idle
  BY <1>1, IdlePlace, Moved DEF Over
<1>3. IF lock \in {Free, h} THEN lock' \in {Free, h} ELSE UNCHANGED <<rows, draft, lock>>
  OBVIOUS
<1>4. lock' # h
  BY <1>1
<1>5. Loose(h)' /\ Holding(h)'
  BY <1>2, <1>4, IdlePlace DEF Loose, Holding, Inside, Source
<1> QED
  BY <1>1, <1>2, <1>3, <1>4, <1>5, IdlePlace, Turn

\* A request that holds or takes the account's row goes on to another place.
LEMMA GoesOn ==
    ASSUME BuyInv, NEW h \in Requests, NEW l \in Place, Move(h, l), l.pc # "idle",
           UNCHANGED <<stripe, closing>>, intents' \in 0 .. MaxIntents, faults' = faults,
           lock \in {Free, h}, lock' \in {Free, h}, lock' = h => ~closing,
           Savable(rows'), Savable(draft'), lock' = Free => draft' = rows',
           l.target \in Targets,
           l.op = "replace" => l.seen \in 1 .. Len(rows),
           l.pc \in Source \cup {"reopen", "failed"} => l.op = "replace",
           l.pc = "relock" => l.row \in 1 .. Len(rows),
           l.handoff => l.pc \in {"plan", "relock", "post", "record", "failed"},
           l.pc \in Inside => lock' = h,
           lock' = h => l.pc \in Inside \cup {"failed"},
           call'[h] = l => Holding(h)'
    PROVE  BuyInv'
<1>1. TypeOK /\ Chain
  BY DEF BuyInv
<1>2. /\ flying' \subseteq Attempts /\ (\A a \in flying' : a <= Len(rows)) /\ UNCHANGED <<sessions, age, closing>>
      /\ faults' \in 0 .. MaxFaults
  BY <1>1 DEF TypeOK, Chain, stripe
<1>3. call'[h] = l /\ Len(rows') = Len(rows)
  BY <1>1, Moved DEF Savable
<1>4. Loose(h)'
  BY <1>3 DEF Loose
<1>5. Holding(h)'
  BY <1>3
<1>6. IF lock \in {Free, h} THEN lock' \in {Free, h} ELSE UNCHANGED <<rows, draft, lock>>
  OBVIOUS
<1> QED
  BY <1>2, <1>4, <1>5, <1>6, Turn

-----------------------------------------------------------------------------
(* start_checkout.                                                             *)

\* A window's request and a resumed one start under no lock.
LEMMA AskKeeps ==
    ASSUME BuyInv, NEW h \in Requests, NEW op \in {"start", "replace"}, NEW t \in Targets,
           NEW a \in 0 .. Len(rows), Ask(h, op, t, a)
    PROVE  BuyInv'
<1> DEFINE l == [Idle EXCEPT !.pc = "lock", !.op = op, !.target = t, !.seen = a]
<1>1. TypeOK /\ Chain /\ Loose(h) /\ a \in Attempts \cup {NoAttempt} /\ (a # NoAttempt => a \in 1 .. Len(rows))
  BY Typed DEF BuyInv, Calls, NoAttempt, Attempts
<1>2. l \in Place /\ l.pc = "lock" /\ l.op = op /\ l.target = t /\ l.seen = a /\ ~l.handoff
  BY <1>1 DEF Idle, Place
<1>3. Move(h, l) /\ (op = "replace" => a # NoAttempt) /\ UNCHANGED <<rows, draft, lock, closing, intents, faults, stripe>>
  BY DEF Ask
<1>4. call[h].pc = "idle" /\ lock # h
  BY <1>1 DEF Ask, At, Loose, Inside, Source
<1> HIDE DEF l
<1>5. call'[h] = l
  BY <1>1, <1>2, <1>3, Moved
<1>6. Loose(h)' /\ Holding(h)'
  BY <1>1, <1>2, <1>3, <1>4, <1>5 DEF Loose, Holding, Inside, Source
<1>7. /\ flying' \subseteq Attempts /\ (\A b \in flying' : b <= Len(rows)) /\ UNCHANGED <<sessions, age, closing>>
      /\ faults' \in 0 .. MaxFaults /\ intents' \in 0 .. MaxIntents
  BY <1>1, <1>3 DEF TypeOK, Chain, stripe
<1>8. lock' = Free => draft' = rows'
  BY <1>3 DEF BuyInv, Tables
<1> QED
  BY <1>2, <1>3, <1>4, <1>6, <1>7, <1>8, TablesAreSavable, Turn

LEMMA ResumeKeeps ==
    ASSUME BuyInv, NEW h \in Requests, Resume(h)
    PROVE  BuyInv'
<1> DEFINE n == Len(rows)
           op == IF Pending(rows[n]) THEN "replace" ELSE "start"
           t == IF Pending(rows[n]) THEN rows[n].wanted ELSE rows[n].target
           l == [Idle EXCEPT !.pc = "lock", !.op = op, !.target = t, !.seen = n]
<1>1. TypeOK /\ n \in 1 .. Len(rows) /\ n \in Attempts /\ rows[n] \in Row /\ lock = Free /\ h # Free
  BY Typed, CheckoutAssumption DEF BuyInv, Resume
<1>2. t \in Targets /\ op \in {"start", "replace"}
  BY <1>1, RowTyped
<1>3. Move(h, l) /\ UNCHANGED <<rows, draft, lock, closing, intents, faults, stripe>>
  BY DEF Resume
<1> HIDE DEF t, op
<1>4. l \in Place /\ l.pc = "lock" /\ l.op = op /\ l.target = t /\ l.seen = n /\ ~l.handoff
  BY <1>1, <1>2 DEF Idle, Place
<1> HIDE DEF l, n
<1>5. call'[h] = l => Holding(h)'
  BY <1>4 DEF Holding, Source
<1>6. Savable(rows) /\ Savable(draft) /\ draft = rows /\ intents \in 0 .. MaxIntents
  BY <1>1, TablesAreSavable DEF BuyInv, Tables, TypeOK
<1> QED
  BY <1>1, <1>2, <1>3, <1>4, <1>5, <1>6, GoesOn DEF Inside, Source

LEMMA LockStartKeeps ==
    ASSUME BuyInv, NEW h \in Requests, LockStart(h)
    PROVE  BuyInv'
<1>1. /\ TypeOK /\ call[h] \in Place /\ lock = Free /\ h # Free /\ Loose(h)
      /\ flying \subseteq Attempts /\ (\A a \in flying : a <= Len(rows))
      /\ intents \in 0 .. MaxIntents /\ faults \in 0 .. MaxFaults
  BY Typed, CheckoutAssumption DEF BuyInv, LockStart, Calls, TypeOK, Chain
<1>2. /\ Savable(rows) /\ Savable(draft) /\ draft = rows
      /\ UNCHANGED <<rows, draft, closing, intents, faults, stripe>>
  BY <1>1, TablesAreSavable DEF BuyInv, Tables, LockStart
<1>3. CASE Over(h) /\ UNCHANGED lock
  <2>1. UNCHANGED <<sessions, age, closing, intents, flying>> /\ lock' = Free
    BY <1>1, <1>2, <1>3 DEF stripe
  <2> QED
    BY <1>1, <1>2, <1>3, <2>1, OverKeeps
<1>4. CASE ~closing /\ lock' = h /\ Step(h, IF rows = <<>> THEN "plan" ELSE "sync")
  <2> DEFINE pc == IF rows = <<>> THEN "plan" ELSE "sync"
             l == [call[h] EXCEPT !.pc = pc]
  <2>1. pc \in Pcs /\ pc \in {"plan", "sync"}
    BY DEF Pcs
  <2>2. (rows = <<>> <=> Len(draft) = 0) /\ Len(draft) \in Nat
    BY <1>1, <1>2, Typed
  <2>3. l \in Place /\ l.pc = pc /\ SameButPc(call[h], l)
    BY <1>1, <2>1, PlaceSteps
  <2>4. Move(h, l)
    BY <1>4 DEF Step
  <2>5. call[h].pc = "lock" /\ call[h].op = "start"
    BY DEF LockStart, At
  <2>6. pc = "sync" => Len(draft) > 0
    BY <2>2
  <2>7. pc = "plan" => Len(draft) = 0
    BY <2>2
  <2>8. l.pc = pc /\ l.op = "start" /\ ~l.handoff /\ l.target \in Targets
    BY <1>1, <2>3, <2>5, PlaceTyped DEF SameButPc, Loose
  <2> HIDE DEF l, pc
  <2>9. call'[h] = l => Holding(h)'
    BY <1>2, <2>1, <2>6, <2>7, <2>8 DEF Holding, Source
  <2> QED
    BY <1>1, <1>2, <1>4, <2>1, <2>3, <2>4, <2>8, <2>9, GoesOn DEF Inside, Source
<1> QED
  BY <1>3, <1>4 DEF LockStart

\* What the sync of the newest attempt gives.
LEMMA SyncKeeps ==
    ASSUME BuyInv, NEW h \in Requests, Sync(h)
    PROVE  BuyInv'
<1> DEFINE n  == Len(draft)
           rs == Synced(draft, n)
           row == rs[n]
<1>1. /\ TypeOK /\ SessionsSound /\ Truth(draft) /\ call[h] \in Place /\ lock = h /\ h # Free /\ ~closing
      /\ Loose(h) /\ n > 0 /\ n \in Nat /\ n = Len(rows)
      /\ UNCHANGED <<closing, intents, faults, stripe>> /\ faults' \in 0 .. MaxFaults /\ intents' \in 0 .. MaxIntents
  BY Typed, CheckoutAssumption DEF BuyInv, Sync, Calls, TypeOK, Tables, At, Holding, Holds
<1>2. call[h].pc = "sync" /\ call[h].pc \in Inside /\ ~call[h].handoff
  BY <1>1, PlaceTyped DEF Sync, At, Inside, Loose
<1>3. CASE ~Readable(draft[n])
  <2>1. Abort(h) /\ UNCHANGED <<closing, intents, sessions, age, flying>>
    BY <1>1, <1>3 DEF Sync, stripe
  <2> QED
    BY <1>1, <1>2, <2>1, AbortKeeps
<1>4. CASE Readable(draft[n])
  <2>1. n \in 1 .. Len(draft) /\ draft \in Seq(Row)
    BY <1>1, Typed
  <2>2. Follows(draft, rs) /\ row \in Row
    BY <1>1, <1>4, <2>1, SyncedFollows
  <2>3. Savable(rs) /\ Savable(rows) /\ Len(rs) = n
    BY <1>1, <2>2, TablesAreSavable, WhatFollowsIsSavable DEF Savable
  <2>4. RowTrue(row, n)
    BY <2>1, <2>2 DEF Follows, Truth
  <2>5. CASE Stop(h, rs)
    BY <1>1, <1>2, <2>3, <2>5, StopKeeps
  <2>6. CASE ~Stop(h, rs)
    <3> DEFINE pc == IF row.status = "creating" THEN "post" ELSE "plan"
               a  == IF row.status = "creating" THEN n ELSE NoAttempt
               l  == [call[h] EXCEPT !.pc = pc, !.row = a]
    <3>1. /\ Write(rs) /\ Move(h, l) /\ ~Live(row)
          /\ ~(row.status \in {"creating", "open"} /\ (row.target # call[h].target \/ row.session # NoSession \/ Old(n)))
      BY <1>4, <2>6 DEF Sync
    <3>2. row.status \in {"creating", "complete", "expired"}
      BY <2>2, <2>4, <3>1, RowTyped DEF RowTrue
    <3>3. pc = "plan" => Finished(n)
      BY <1>1, <2>2, <2>4, <3>1, <3>2, OverIsFinished DEF Live
    <3>4. a \in Attempts \cup {NoAttempt} /\ pc \in {"post", "plan"} /\ (pc = "post" => a = n)
      BY <1>1, Typed, <2>1
    <3> HIDE DEF pc, a
    <3>5. l \in Place /\ l.pc = pc /\ l.row = a /\ l.op = call[h].op /\ l.target = call[h].target /\ l.seen = call[h].seen
          /\ l.handoff = call[h].handoff
      BY <1>1, <3>4 DEF Place
    <3> HIDE DEF l
    <3>6. \A b : Finished(b) => Finished(b)'
      BY <1>1, StripeStill DEF stripe
    <3>7. draft' = rs /\ rows' = rows /\ lock' = h
      BY <1>1, <3>1 DEF Write
    <3>8. call'[h] = l => Holding(h)'
      <4> HIDE DEF rs, n
      <4>1. Len(draft') = n
        BY <2>3, <3>7
      <4> QED
        BY <1>1, <1>2, <3>3, <3>4, <3>5, <3>6, <4>1 DEF Holding, Source
    <3>9. l.pc \in Inside /\ l.pc \notin Source \cup {"reopen", "failed", "relock", "idle"}
      BY <3>4, <3>5 DEF Inside, Source
    <3>10. l.target \in Targets /\ (l.op = "replace" => l.seen \in 1 .. Len(rows)) /\ ~l.handoff
      BY <1>1, <1>2, <3>5 DEF Loose
    <3> QED
      BY <1>1, <2>3, <3>1, <3>5, <3>7, <3>8, <3>9, <3>10, GoesOn
  <2> QED
    BY <2>5, <2>6
<1> QED
  BY <1>3, <1>4

SameWork(row, new) ==
    /\ new.target = row.target /\ new.wanted = row.wanted
    /\ new.session = row.session /\ new.status = row.status /\ new.sub = row.sub

LEMMA SavesIntent ==
    ASSUME NEW row \in Row, NEW intent \in {"none", "pending", "blocked", "replaced"}
    PROVE  LET new == [row EXCEPT !.intent = intent] IN
           new \in Row /\ new.intent = intent /\ new.number = row.number /\ SameWork(row, new)
  BY DEF Row, SameWork

LEMMA RowIsNew ==
    ASSUME NEW t \in Targets, NEW a
    PROVE  LET row == NewRow(t) IN
           row \in Row /\ RowTrue(row, a) /\ row.target = t /\ row.intent = "none"
  BY DEF NewRow, Row, RowTrue, NoSession

\* The predecessor is marked, and its row tells the same of its session.
LEMMA Linked ==
    ASSUME NEW rs \in Seq(Row), NEW n \in 1 .. Len(rs)
    PROVE  LET new == [rs EXCEPT ![n].intent = "replaced"] IN
           /\ new \in Seq(Row) /\ Len(new) = Len(rs) /\ new[n].intent = "replaced"
           /\ \A b \in 1 .. Len(rs) : SameWork(rs[b], new[b]) /\ (b # n => new[b] = rs[b])
<1> DEFINE row == [rs[n] EXCEPT !.intent = "replaced"]
           new == [rs EXCEPT ![n] = row]
<1>0. rs[n] \in Row
  OBVIOUS
<1>1. row \in Row /\ row.intent = "replaced" /\ SameWork(rs[n], row)
  BY <1>0, SavesIntent
<1>2. [rs EXCEPT ![n].intent = "replaced"] = new
  OBVIOUS
<1> HIDE DEF row
<1>3. /\ new \in Seq(Row) /\ Len(new) = Len(rs)
      /\ \A b \in 1 .. Len(rs) : new[b] = IF b = n THEN row ELSE rs[b]
  BY <1>1, SetRow
<1> HIDE DEF new
<1>4. \A b \in 1 .. Len(rs) : SameWork(rs[b], rs[b])
  BY DEF SameWork
<1> QED
  BY <1>1, <1>2, <1>3, <1>4

\* A successor is inserted only when everything before it is finished.
LEMMA InsertKeeps ==
    ASSUME BuyInv, NEW h \in Requests, Insert(h)
    PROVE  BuyInv'
<1> DEFINE linked == IF call[h].handoff THEN [draft EXCEPT ![Len(draft)].intent = "replaced"] ELSE draft
           row    == NewRow(call[h].target)
           new    == Append(linked, row)
<1>1. PICK n \in Nat : n = Len(draft)
  BY Typed DEF BuyInv
<1>2. /\ TypeOK /\ SessionsSound /\ Truth(draft) /\ Consent(draft) /\ Chain /\ draft \in Seq(Row)
      /\ call[h] \in Place /\ lock = h /\ h # Free /\ ~closing
      /\ Loose(h) /\ Holding(h) /\ n = Len(rows) /\ n < MaxAttempts /\ call[h].pc = "plan"
      /\ rows' = new /\ draft' = new /\ lock' = Free
      /\ UNCHANGED <<closing, intents, faults, sessions, age, flying>>
  BY <1>1, Typed, CheckoutAssumption DEF BuyInv, Insert, Calls, TypeOK, Tables, At, Holding, Holds, Commit, stripe
<1>3. call[h].handoff => /\ n > 0 /\ draft[n].wanted = call[h].target
                         /\ draft[n].status = "expired" /\ draft[n].sub = "none"
  BY <1>1, <1>2 DEF Holding
<1>4. /\ linked \in Seq(Row) /\ Len(linked) = n
      /\ \A b \in 1 .. n : /\ SameWork(draft[b], linked[b])
                           /\ linked[b].intent = "replaced" => draft[b].intent = "replaced" \/ (b = n /\ call[h].handoff)
  <2>1. CASE ~call[h].handoff
    BY <1>1, <1>2, <2>1 DEF SameWork
  <2>2. CASE call[h].handoff
    <3>1. n \in 1 .. Len(draft) /\ linked = [draft EXCEPT ![n].intent = "replaced"]
      BY <1>1, <1>3, <2>2
    <3>2. draft \in Seq(Row)
      BY <1>2
    <3> HIDE DEF linked
    <3>3. LET t == [draft EXCEPT ![n].intent = "replaced"] IN
          /\ t \in Seq(Row) /\ Len(t) = Len(draft) /\ t[n].intent = "replaced"
          /\ \A b \in 1 .. Len(draft) : SameWork(draft[b], t[b]) /\ (b # n => t[b] = draft[b])
      BY <3>1, <3>2, Linked
    <3> QED
      BY <1>1, <2>2, <3>1, <3>3
  <2> QED
    BY <2>1, <2>2
<1>5. call[h].target \in Targets
  BY <1>2 DEF Loose
<1>6. row \in Row /\ RowTrue(row, n + 1) /\ row.target = call[h].target /\ row.intent = "none"
  BY <1>5, RowIsNew
<1> HIDE DEF linked, row
<1>7. /\ new \in Seq(Row) /\ Len(new) = n + 1 /\ new[n + 1] = row
      /\ \A b \in 1 .. n : new[b] = linked[b]
  BY <1>4, <1>6, AddRow
<1> HIDE DEF new
<1>8. Truth(new)
  <2>1. ASSUME NEW b \in 1 .. n PROVE RowTrue(new[b], b)
    <3>1. RowTrue(draft[b], b) /\ SameWork(draft[b], new[b])
      BY <1>1, <1>2, <1>4, <1>7 DEF Truth
    <3> QED
      BY <3>1 DEF RowTrue, SameWork
  <2>2. \A b \in 1 .. Len(new) : b \in 1 .. n \/ b = n + 1
    BY <1>7
  <2> QED
    BY <1>6, <1>7, <2>1, <2>2 DEF Truth
<1>9. Consent(new)
  <2>1. ASSUME NEW b \in 1 .. Len(new), new[b].intent = "replaced"
        PROVE  /\ b < Len(new) /\ new[b + 1].target = new[b].wanted
               /\ new[b].status = "expired" /\ new[b].sub = "none"
    <3>1. b \in 1 .. n /\ linked[b].intent = "replaced" /\ SameWork(draft[b], new[b])
      BY <1>4, <1>6, <1>7, <2>1
    <3>2. CASE draft[b].intent = "replaced"
      <4>1. /\ b < n /\ draft[b + 1].target = draft[b].wanted
            /\ draft[b].status = "expired" /\ draft[b].sub = "none"
        BY <1>1, <1>2, <3>1, <3>2 DEF Consent
      <4>2. b + 1 \in 1 .. n /\ SameWork(draft[b + 1], new[b + 1])
        BY <1>4, <1>7, <3>1, <4>1
      <4> QED
        BY <1>7, <3>1, <4>1, <4>2 DEF SameWork
    <3>3. CASE b = n /\ call[h].handoff
      BY <1>3, <1>6, <1>7, <3>1, <3>3 DEF SameWork
    <3> QED
      BY <1>4, <3>1, <3>2, <3>3
  <2> QED
    BY <2>1 DEF Consent
<1>10. /\ Later /\ SessionsSound'
       /\ \A a : Answers(a)' = Answers(a) /\ (Finished(a) => Finished(a)')
       /\ \A r, a : RowTrue(r, a) => RowTrue(r, a)'
  BY <1>2, StripeStill
<1> DEFINE l == [call[h] EXCEPT !.pc = "relock", !.row = n + 1]
<1>11. Move(h, l)
  BY <1>1 DEF Insert
<1>12. n + 1 \in Attempts
  BY <1>2, Typed DEF Attempts
<1>13. /\ l \in Place /\ l.pc = "relock" /\ l.row = n + 1 /\ l.op = call[h].op
       /\ l.target = call[h].target /\ l.seen = call[h].seen
  BY <1>2, <1>12 DEF Place
<1> HIDE DEF l
<1>14. call'[h] = l /\ call' \in [Requests -> Place]
  BY <1>2, <1>11, <1>13, Moved
<1>15. TypeOK'
  BY <1>2, <1>7, <1>12, <1>14 DEF TypeOK, Attempts
<1>16. Tables'
  <2>1. Truth(rows)' /\ Truth(draft)'
    BY <1>2, <1>8, <1>10 DEF Truth
  <2>2. Consent(rows)' /\ Consent(draft)'
    BY <1>2, <1>9 DEF Consent
  <2> QED
    BY <1>2, <2>1, <2>2 DEF Tables
<1>17. Chain'
  <2>1. \A s \in DOMAIN sessions : sessions[s].attempt <= n + 1
    BY <1>2 DEF Chain, SessionsSound, Attempts
  <2>2. \A a \in flying : a <= n + 1
    BY <1>2, Typed DEF Chain, TypeOK, Attempts
  <2>3. \A a \in 1 .. n : Finished(a)
    BY <1>1, <1>2 DEF Chain, Holding
  <2> QED
    BY <1>2, <1>7, <1>10, <2>1, <2>2, <2>3 DEF Chain
<1>18. Loose(h)' /\ Holding(h)'
  BY <1>1, <1>2, <1>7, <1>13, <1>14, PlaceTyped DEF Loose, Holding, Inside, Source
<1> QED
  BY <1>2, <1>7, <1>10, <1>11, <1>13, <1>15, <1>16, <1>17, <1>18, CheckoutAssumption, OneMoves

LEMMA RelockKeeps ==
    ASSUME BuyInv, NEW h \in Requests, Relock(h)
    PROVE  BuyInv'
<1>1. /\ TypeOK /\ SessionsSound /\ Chain /\ call[h] \in Place /\ lock = Free /\ h # Free /\ Loose(h)
      /\ flying \subseteq Attempts /\ (\A a \in flying : a <= Len(rows))
      /\ intents \in 0 .. MaxIntents /\ faults \in 0 .. MaxFaults
      /\ UNCHANGED <<closing, intents, faults, sessions, age, flying>> /\ UNCHANGED stripe
      /\ draft = rows /\ rows \in Seq(Row) /\ Truth(rows) /\ call[h].pc = "relock"
  BY Typed, CheckoutAssumption DEF BuyInv, Relock, Calls, TypeOK, Chain, Tables, At, stripe
<1>2. Savable(rows) /\ Savable(draft)
  BY TablesAreSavable
<1> DEFINE a == call[h].row
<1>3. a \in 1 .. Len(rows)
  BY <1>1 DEF Loose
<1>4. CASE Over(h) /\ UNCHANGED <<rows, draft, lock>>
  BY <1>1, <1>2, <1>4, OverKeeps
<1>5. CASE Over(h) /\ Readable(rows[a]) /\ Commit(Synced(rows, a))
  <2> DEFINE rs == Synced(rows, a)
  <2> HIDE DEF a
  <2>1. Follows(rows, rs)
    BY <1>1, <1>3, <1>5, SyncedFollows
  <2>2. Savable(rs)
    BY <1>2, <2>1, WhatFollowsIsSavable
  <2>3. rows' = rs /\ draft' = rs /\ lock' = Free
    BY <1>5 DEF Commit
  <2> HIDE DEF rs
  <2> QED
    BY <1>1, <1>5, <2>2, <2>3, OverKeeps
<1>6. CASE lock' = h /\ Step(h, "post") /\ UNCHANGED <<rows, draft>> /\ ~closing /\ Len(rows) = a
  <2> DEFINE l == [call[h] EXCEPT !.pc = "post"]
  <2>1. l \in Place /\ l.pc = "post" /\ SameButPc(call[h], l)
    BY <1>1, PlaceSteps DEF Pcs
  <2>2. Move(h, l)
    BY <1>6 DEF Step
  <2> HIDE DEF l
  <2>3. Len(draft') = a /\ a > 0
    BY <1>1, <1>3, <1>6
  <2>4. call'[h] = l => Holding(h)'
    BY <2>1, <2>3 DEF Holding, Source, SameButPc
  <2>5. /\ l.target \in Targets /\ (l.op = "replace" => l.seen \in 1 .. Len(rows))
    BY <1>1, <2>1 DEF Loose, SameButPc
  <2> QED
    BY <1>1, <1>2, <1>6, <2>1, <2>2, <2>4, <2>5, GoesOn DEF Inside, Source
<1> QED
  BY <1>4, <1>5, <1>6 DEF Relock

\* Creating a session: the answer of a key that was used is its session.
LEMMA CreatesKeeps ==
    ASSUME TypeOK, SessionsSound, NEW a \in Attempts, Creates(a), UNCHANGED age
    PROVE  /\ sessions' \in Seq(Session) /\ Len(sessions') <= MaxAttempts + 1
           /\ SessionsSound' /\ Later
           /\ \A s \in DOMAIN sessions' : s \in DOMAIN sessions \/ sessions'[s].attempt = a
<1>1. CASE UNCHANGED sessions
  BY <1>1, StripeStill DEF TypeOK
<1>2. CASE ~UNCHANGED sessions
  <2> DEFINE new == [attempt |-> a, status |-> "open", sub |-> "none", linked |-> FALSE]
             n == Len(sessions)
  <2>1. /\ sessions' = Append(sessions, new) /\ Answers(a) = {} /\ ~(age[a] > 0) /\ n # MaxAttempts + 1
        /\ sessions \in Seq(Session) /\ n \in Nat /\ n <= MaxAttempts + 1 /\ MaxAttempts \in Nat /\ age[a] \in 0 .. 2
    BY <1>2, Typed DEF Creates, TypeOK
  <2>2. /\ new \in Session /\ new.attempt = a /\ new.status = "open" /\ new.sub = "none" /\ new.linked = FALSE
    BY DEF Session
  <2> HIDE DEF new, n
  <2>3. /\ sessions' \in Seq(Session) /\ Len(sessions') = n + 1 /\ sessions'[n + 1] = new
        /\ \A s \in 1 .. n : sessions'[s] = sessions[s]
    BY <2>1, <2>2 DEF n
  <2>4. DOMAIN sessions = 1 .. n /\ DOMAIN sessions' = 1 .. (n + 1)
    <3>1. DOMAIN sessions = 1 .. Len(sessions)
      BY Typed
    <3>2. DOMAIN sessions' = 1 .. Len(sessions')
      BY <2>3
    <3> QED
      BY <2>3, <3>1, <3>2 DEF n
  <2>5. \A s \in DOMAIN sessions' : s \in DOMAIN sessions \/ s = n + 1
    BY <2>1, <2>4
  <2>6. \A s \in DOMAIN sessions : s \in DOMAIN sessions' /\ sessions'[s] = sessions[s] /\ sessions[s].attempt # a
    BY <2>1, <2>3, <2>4 DEF Answers
  <2>7. age[a] = 0
    BY <2>1
  <2>8. SessionsSound'
    BY <2>2, <2>3, <2>5, <2>6 DEF SessionsSound, Attempts
  <2>9. Later
    <3>1. \A b \in Attempts : age'[b] >= age[b]
      BY Typed
    <3> QED
      BY <2>1, <2>2, <2>3, <2>5, <2>6, <2>7, <3>1 DEF Later
  <2> QED
    BY <2>1, <2>2, <2>3, <2>5, <2>8, <2>9
<1> QED
  BY <1>1, <1>2

\* What Stripe does leaves the tables true.
LEMMA StripeMoves ==
    ASSUME BuyInv, TypeOK', SessionsSound', Later, UNCHANGED <<rows, draft, lock>>,
           \A s \in DOMAIN sessions' : sessions'[s].attempt <= Len(rows),
           \A a \in flying' : a <= Len(rows)
    PROVE  Tables' /\ Chain'
<1>1. Truth(rows)' /\ Truth(draft)'
  BY LastingTruth DEF BuyInv
<1>2. Tables'
  BY <1>1 DEF BuyInv, Tables, Consent
<1>3. ASSUME NEW a \in 1 .. Len(rows), a < Len(rows) PROVE Finished(a)'
  <2>1. Finished(a) /\ a \in Attempts
    BY <1>3, Typed DEF BuyInv, Chain
  <2> QED
    BY <2>1, LastingFinish DEF BuyInv
<1> QED
  BY <1>2, <1>3 DEF Chain

\* Both calls that create a session: the attempt is the newest.
LEMMA CreationKeeps ==
    ASSUME BuyInv, NEW h \in Requests, NEW a \in 1 .. Len(rows), Creates(a),
           NEW pc \in {"record", "judge"}, Step(h, pc), lock = h,
           call[h].pc \in {"post", "replay"}, pc = "record" <=> call[h].pc = "post",
           UNCHANGED <<rows, draft, lock, closing, intents, faults, age, flying>>
    PROVE  BuyInv'
<1> DEFINE l == [call[h] EXCEPT !.pc = pc]
<1>1. /\ TypeOK /\ SessionsSound /\ Chain /\ call[h] \in Place /\ a \in Attempts /\ h # Free /\ ~closing
      /\ Loose(h) /\ Holding(h) /\ Len(rows) \in Nat
  BY Typed, CheckoutAssumption DEF BuyInv, Calls
<1>2. l \in Place /\ l.pc = pc /\ SameButPc(call[h], l) /\ Move(h, l)
  <2>1. pc \in Pcs
    BY DEF Pcs
  <2> QED
    BY <1>1, <2>1, PlaceSteps DEF Step
<1> HIDE DEF l
<1>3. call'[h] = l /\ call' \in [Requests -> Place]
  BY <1>1, <1>2, Moved
<1>4. /\ sessions' \in Seq(Session) /\ Len(sessions') <= MaxAttempts + 1
      /\ SessionsSound' /\ Later
      /\ \A s \in DOMAIN sessions' : s \in DOMAIN sessions \/ sessions'[s].attempt = a
  BY <1>1, CreatesKeeps
<1>5. TypeOK'
  BY <1>1, <1>3, <1>4 DEF TypeOK
<1>6. \A s \in DOMAIN sessions' : sessions'[s].attempt <= Len(rows)
  <2>1. ASSUME NEW s \in DOMAIN sessions', s \in DOMAIN sessions PROVE sessions'[s].attempt <= Len(rows)
    BY <1>1, <1>4, <2>1 DEF Chain, Later
  <2> QED
    BY <1>1, <1>4, <2>1
<1>7. Tables' /\ Chain'
  BY <1>1, <1>4, <1>5, <1>6, StripeMoves DEF Chain
<1>8. Loose(h)' /\ Holding(h)'
  BY <1>1, <1>2, <1>3 DEF Loose, Holding, Inside, Source, SameButPc
<1> QED
  BY <1>1, <1>2, <1>4, <1>5, <1>7, <1>8, OneMoves

LEMMA PostKeeps ==
    ASSUME BuyInv, NEW h \in Requests, Post(h)
    PROVE  BuyInv'
<1>1. call[h].row \in 1 .. Len(rows)
  BY Typed DEF BuyInv, Calls, Post, Holding, At, Tables
<1> QED
  BY <1>1, CreationKeeps DEF Post, At, Holds

LEMMA ReplayKeeps ==
    ASSUME BuyInv, NEW h \in Requests, Replay(h)
    PROVE  BuyInv'
<1>1. call[h].seen \in 1 .. Len(rows)
  BY DEF BuyInv, Calls, Replay, Loose, At, Source
<1> QED
  BY <1>1, CreationKeeps DEF Replay, At, Holds

LEMMA RecordKeeps ==
    ASSUME BuyInv, NEW h \in Requests, Record(h)
    PROVE  BuyInv'
<1> DEFINE a == call[h].row
<1>1. /\ TypeOK /\ SessionsSound /\ Chain /\ call[h] \in Place /\ h # Free /\ lock = h
      /\ flying \subseteq Attempts /\ (\A b \in flying : b <= Len(rows)) /\ faults \in 0 .. MaxFaults
      /\ UNCHANGED <<closing, intents, faults, sessions, age, flying>>
      /\ a \in 1 .. Len(draft) /\ draft \in Seq(Row) /\ Truth(draft)
      /\ call[h].pc \in Inside
  BY Typed, CheckoutAssumption DEF BuyInv, Record, Calls, TypeOK, Chain, Tables, At, Holds, Holding, stripe, Inside
<1>2. CASE Abort(h)
  BY <1>1, <1>2, AbortKeeps
<1>3. ASSUME NEW s \in Answers(a), Commit([draft EXCEPT ![a] = Created(draft[a], s)]), Over(h)
      PROVE  BuyInv'
  <2> DEFINE row == Created(draft[a], s)
             rs  == [draft EXCEPT ![a] = row]
  <2>1. draft[a] \in Row /\ RowTrue(draft[a], a) /\ Savable(draft)
    BY <1>1, TablesAreSavable DEF Truth
  <2>2. row \in Row /\ RowTrue(row, a) /\ SameTerms(draft[a], row)
    BY <1>1, <2>1, CreatedRow
  <2>3. ~(draft[a].intent = "replaced")
    BY <1>1, Typed DEF BuyInv, Calls, Record, At, Holding, Tables, Consent
  <2>4. rows' = rs /\ draft' = rs /\ lock' = Free
    BY <1>3 DEF Commit
  <2> HIDE DEF row
  <2>5. Follows(draft, rs)
    BY <1>1, <2>2, <2>3, OneRowFollows
  <2> HIDE DEF rs
  <2>6. Savable(rs)
    BY <2>1, <2>5, WhatFollowsIsSavable
  <2> QED
    BY <1>1, <1>3, <2>4, <2>6, OverKeeps
<1> QED
  BY <1>2, <1>3 DEF Record

-----------------------------------------------------------------------------
(* The replacement.                                                            *)

\* A decision about an intent changes nothing else of the table.
LEMMA IntentIsSavable ==
    ASSUME NEW rs, Savable(rs), NEW a \in 1 .. Len(rs), NEW row \in Row,
           row.target = rs[a].target, row.session = rs[a].session, row.status = rs[a].status,
           row.sub = rs[a].sub, row.intent # "replaced"
    PROVE  Savable([rs EXCEPT ![a] = row])
<1> DEFINE new == [rs EXCEPT ![a] = row]
<1>1. rs \in Seq(Row) /\ Len(rs) \in Nat
  BY DEF Savable
<1>2. /\ new \in Seq(Row) /\ Len(new) = Len(rs)
      /\ \A b \in 1 .. Len(rs) : new[b] = IF b = a THEN row ELSE rs[b]
  BY <1>1, SetRow
<1> HIDE DEF new
<1>3. \A b \in 1 .. Len(rs) : new[b].target = rs[b].target
  BY <1>2
<1>4. Truth(new)
  BY <1>2 DEF Savable, Truth, RowTrue
<1>5. Consent(new)
  <2>1. ASSUME NEW b \in 1 .. Len(new), new[b].intent = "replaced"
        PROVE  /\ b < Len(new) /\ new[b + 1].target = new[b].wanted
               /\ new[b].status = "expired" /\ new[b].sub = "none"
    <3>1. b # a /\ new[b] = rs[b] /\ b \in 1 .. Len(rs)
      BY <1>2, <2>1
    <3>2. b < Len(rs) /\ rs[b + 1].target = rs[b].wanted /\ rs[b].status = "expired" /\ rs[b].sub = "none"
      BY <2>1, <3>1 DEF Savable, Consent
    <3>3. b + 1 \in 1 .. Len(rs)
      BY <1>1, <3>1, <3>2
    <3> QED
      BY <1>2, <1>3, <3>1, <3>2, <3>3
  <2> QED
    BY <2>1 DEF Consent
<1> QED
  BY <1>1, <1>2, <1>4, <1>5 DEF Savable, new

LEMMA BlockedIsSavable ==
    ASSUME NEW rs, Savable(rs), NEW a \in 1 .. Len(rs)
    PROVE  Savable([rs EXCEPT ![a].intent = "blocked"])
<1> DEFINE row == [rs[a] EXCEPT !.intent = "blocked"]
<1>1. rs[a] \in Row
  BY DEF Savable
<1>2. row \in Row /\ row.intent = "blocked" /\ SameWork(rs[a], row)
  BY <1>1, SavesIntent
<1>3. [rs EXCEPT ![a].intent = "blocked"] = [rs EXCEPT ![a] = row]
  OBVIOUS
<1> HIDE DEF row
<1>4. row.intent # "replaced" /\ row.target = rs[a].target /\ row.session = rs[a].session
  BY <1>2 DEF SameWork
<1>5. row.status = rs[a].status /\ row.sub = rs[a].sub
  BY <1>2 DEF SameWork
<1>6. Savable([rs EXCEPT ![a] = row])
  BY <1>2, <1>4, <1>5, IntentIsSavable
<1> QED
  BY <1>3, <1>6

LEMMA AcceptedIsSavable ==
    ASSUME NEW rs, Savable(rs), NEW a \in 1 .. Len(rs), NEW t \in Targets, NEW number \in Nat
    PROVE  Savable([rs EXCEPT ![a].intent = "pending", ![a].wanted = t, ![a].number = number])
<1> DEFINE row == [rs[a] EXCEPT !.intent = "pending", !.wanted = t, !.number = number]
<1>1. rs[a] \in Row /\ rs \in Seq(Row)
  BY DEF Savable
<1>2. /\ row \in Row /\ row.intent = "pending" /\ row.target = rs[a].target
      /\ row.session = rs[a].session /\ row.status = rs[a].status /\ row.sub = rs[a].sub
  BY <1>1 DEF Row
<1>3. [rs EXCEPT ![a].intent = "pending", ![a].wanted = t, ![a].number = number] = [rs EXCEPT ![a] = row]
  BY <1>1
<1> HIDE DEF row
<1>4. Savable([rs EXCEPT ![a] = row])
  BY <1>2, IntentIsSavable
<1> QED
  BY <1>3, <1>4

LEMMA LockReplaceKeeps ==
    ASSUME BuyInv, NEW h \in Requests, LockReplace(h)
    PROVE  BuyInv'
<1> DEFINE a == call[h].seen
<1>1. /\ TypeOK /\ call[h] \in Place /\ lock = Free /\ h # Free /\ Loose(h)
      /\ flying \subseteq Attempts /\ (\A b \in flying : b <= Len(rows))
      /\ intents \in 0 .. MaxIntents /\ faults \in 0 .. MaxFaults
      /\ UNCHANGED <<closing, faults, sessions, age, flying>> /\ UNCHANGED stripe
      /\ draft = rows /\ rows \in Seq(Row) /\ Len(rows) \in Nat
      /\ call[h].pc = "lock" /\ call[h].op = "replace"
  BY Typed, CheckoutAssumption DEF BuyInv, LockReplace, Calls, TypeOK, Chain, Tables, At, stripe
<1>2. Savable(rows) /\ Savable(draft)
  BY TablesAreSavable
<1>3. a \in 1 .. Len(rows) /\ a \in Attempts /\ ~call[h].handoff /\ rows[a] \in Row /\ call[h].target \in Targets
  BY <1>1, PlaceTyped, Typed DEF Loose
<1>4. CASE Over(h) /\ UNCHANGED <<rows, draft, lock, intents>>
  BY <1>1, <1>2, <1>4, OverKeeps
<1>5. ASSUME ~closing, NEW seen \in Attempts, seen = Len(rows), lock' = h, UNCHANGED <<rows, draft, intents>>,
             Move(h, [call[h] EXCEPT !.op = "start", !.pc = "sync", !.seen = seen])
      PROVE  BuyInv'
  <2> DEFINE l == [call[h] EXCEPT !.op = "start", !.pc = "sync", !.seen = seen]
  <2>1. /\ l \in Place /\ l.pc = "sync" /\ l.op = "start" /\ l.target = call[h].target /\ l.handoff = call[h].handoff
    BY <1>1 DEF Place
  <2>2. Move(h, l)
    BY <1>5
  <2> HIDE DEF l
  <2>3. Len(draft') > 0
    BY <1>1, <1>3, <1>5
  <2>4. call'[h] = l => Holding(h)'
    BY <1>3, <2>1, <2>3 DEF Holding, Source
  <2> QED
    BY <1>1, <1>2, <1>3, <1>5, <2>1, <2>2, <2>4, GoesOn DEF Inside, Source
<1>6. CASE /\ ~closing /\ a = Len(rows) /\ lock' = h /\ UNCHANGED <<rows, draft, intents>>
           /\ Move(h, [call[h] EXCEPT !.pc = "canonical", !.number = rows[a].number])
  <2> DEFINE l == [call[h] EXCEPT !.pc = "canonical", !.number = rows[a].number]
  <2>1. /\ l \in Place /\ l.pc = "canonical" /\ l.op = "replace" /\ l.target = call[h].target
        /\ l.handoff = call[h].handoff /\ l.seen = a
    BY <1>1, <1>3, RowTyped DEF Place
  <2>2. Move(h, l)
    BY <1>6
  <2> HIDE DEF l
  <2>3. Len(draft') = a
    BY <1>1, <1>6
  <2>4. call'[h] = l => Holding(h)'
    BY <1>3, <2>1, <2>3 DEF Holding, Source
  <2> QED
    BY <1>1, <1>2, <1>3, <1>6, <2>1, <2>2, <2>4, GoesOn DEF Inside, Source
<1>7. CASE /\ Commit([rows EXCEPT ![a].intent = "pending", ![a].wanted = call[h].target, ![a].number = intents + 1])
           /\ intents' = intents + 1 /\ intents # MaxIntents /\ Step(h, "reopen")
  <2> DEFINE l  == [call[h] EXCEPT !.pc = "reopen"]
             rs == [rows EXCEPT ![a].intent = "pending", ![a].wanted = call[h].target, ![a].number = intents + 1]
  <2>1. l \in Place /\ l.pc = "reopen" /\ SameButPc(call[h], l) /\ Move(h, l)
    BY <1>1, <1>7, PlaceSteps DEF Pcs, Step
  <2>2. intents + 1 \in Nat /\ intents' \in 0 .. MaxIntents
    BY <1>1, <1>7, CheckoutAssumption
  <2> HIDE DEF l, a
  <2>3. Savable(rs)
    BY <1>2, <1>3, <2>2, AcceptedIsSavable
  <2>4. rows' = rs /\ draft' = rs /\ lock' = Free
    BY <1>7 DEF Commit
  <2> HIDE DEF rs
  <2>5. call'[h] = l => Holding(h)'
    BY <1>3, <2>1 DEF Holding, Source, SameButPc
  <2>6. l.target \in Targets /\ l.op = "replace" /\ l.seen \in 1 .. Len(rows) /\ ~l.handoff
    BY <1>1, <1>3, <2>1 DEF SameButPc, a
  <2> QED
    BY <1>1, <2>1, <2>2, <2>3, <2>4, <2>5, <2>6, GoesOn DEF Inside, Source
<1>8. a + 1 = Len(rows) => Len(rows) \in Attempts
  BY <1>1, <1>3, Typed
<1> QED
  BY <1>1, <1>3, <1>4, <1>5, <1>6, <1>7, <1>8 DEF LockReplace

LEMMA ReopenKeeps ==
    ASSUME BuyInv, NEW h \in Requests, Reopen(h)
    PROVE  BuyInv'
<1> DEFINE a == call[h].seen
<1>1. /\ TypeOK /\ call[h] \in Place /\ lock = Free /\ h # Free /\ Loose(h)
      /\ flying \subseteq Attempts /\ (\A b \in flying : b <= Len(rows))
      /\ intents \in 0 .. MaxIntents /\ faults \in 0 .. MaxFaults
      /\ UNCHANGED <<rows, draft, closing, intents, faults, sessions, age, flying>> /\ UNCHANGED stripe
      /\ draft = rows /\ rows \in Seq(Row) /\ Len(rows) \in Nat /\ call[h].pc = "reopen"
  BY Typed, CheckoutAssumption DEF BuyInv, Reopen, Calls, TypeOK, Chain, Tables, At, stripe
<1>2. Savable(rows) /\ Savable(draft)
  BY TablesAreSavable
<1>3. /\ a \in 1 .. Len(rows) /\ ~call[h].handoff /\ rows[a] \in Row /\ call[h].target \in Targets
      /\ call[h].op = "replace"
  BY <1>1, PlaceTyped, Typed DEF Loose
<1>4. CASE Over(h) /\ UNCHANGED lock
  BY <1>1, <1>2, <1>4, OverKeeps
<1>5. CASE Step(h, "lock") /\ UNCHANGED lock
  <2> DEFINE l  == [call[h] EXCEPT !.pc = "lock"]
  <2>1. l \in Place /\ l.pc = "lock" /\ SameButPc(call[h], l) /\ Move(h, l)
    BY <1>1, <1>5, PlaceSteps DEF Pcs, Step
  <2> HIDE DEF l
  <2>2. call'[h] = l => Holding(h)'
    BY <1>3, <2>1 DEF Holding, Source, SameButPc
  <2>3. l.target \in Targets /\ l.op = "replace" /\ l.seen \in 1 .. Len(rows) /\ ~l.handoff
    BY <1>3, <2>1 DEF SameButPc
  <2> QED
    BY <1>1, <1>2, <1>5, <2>1, <2>2, <2>3, GoesOn DEF Inside, Source
<1>6. CASE /\ ~closing /\ a = Len(rows) /\ lock' = h
           /\ Move(h, [call[h] EXCEPT !.pc = "canonical", !.number = rows[a].number])
  <2> DEFINE l == [call[h] EXCEPT !.pc = "canonical", !.number = rows[a].number]
  <2>1. /\ l \in Place /\ l.pc = "canonical" /\ l.op = "replace" /\ l.target = call[h].target
        /\ l.handoff = call[h].handoff /\ l.seen = a
    BY <1>1, <1>3, RowTyped DEF Place
  <2>2. Move(h, l)
    BY <1>6
  <2> HIDE DEF l
  <2>3. Len(draft') = a
    BY <1>1, <1>6
  <2>4. call'[h] = l => Holding(h)'
    BY <1>3, <2>1, <2>3 DEF Holding, Source
  <2> QED
    BY <1>1, <1>2, <1>3, <1>6, <2>1, <2>2, <2>4, GoesOn DEF Inside, Source
<1> QED
  BY <1>1, <1>4, <1>5, <1>6 DEF Reopen

\* Only a session that is confirmed to be over hands over to a successor.
LEMMA JudgeKeeps ==
    ASSUME BuyInv, NEW h \in Requests, call[h].pc \in Source, NEW rs, Savable(rs),
           NEW unexpired \in {"expire", "failed"}, Judge(h, rs, unexpired),
           LET row == rs[Len(rs)] IN
           unexpired = "expire" /\ row.sub = "none" /\ row.status \notin {"complete", "expired"} => row.session # NoSession,
           UNCHANGED <<closing, intents, faults, stripe>>
    PROVE  BuyInv'
<1>1. PICK a \in Nat : a = call[h].seen
  BY Typed, PlaceTyped DEF BuyInv
<1>2. /\ TypeOK /\ SessionsSound /\ call[h] \in Place /\ lock = h /\ h # Free /\ ~closing /\ Loose(h)
      /\ call[h].pc \in Inside /\ call[h].op = "replace" /\ ~call[h].handoff /\ call[h].target \in Targets
      /\ a \in 1 .. Len(rows) /\ a = Len(rs) /\ rs \in Seq(Row) /\ Len(rs) = Len(rows)
      /\ faults' = faults /\ UNCHANGED <<stripe, closing, sessions, age>> /\ intents' \in 0 .. MaxIntents
  <2>1. call[h].pc \notin {"plan", "relock", "post", "record", "failed", "idle"}
    BY DEF Source
  <2>2. call[h] \in Place /\ Loose(h) /\ Holding(h) /\ TypeOK /\ Tables
    BY Typed DEF BuyInv, Calls
  <2>3. a \in 1 .. Len(rows) /\ a = Len(draft) /\ lock = h
    BY <1>1, <2>1, <2>2 DEF Loose, Holding, Inside
  <2>4. ~call[h].handoff /\ call[h].target \in Targets /\ call[h].op = "replace"
    BY <2>1, <2>2, PlaceTyped DEF Loose
  <2> QED
    BY <1>1, <2>1, <2>2, <2>3, <2>4, CheckoutAssumption
       DEF BuyInv, Calls, TypeOK, Tables, Savable, stripe, Inside
<1> DEFINE row == rs[a]
<1>3. row \in Row /\ RowTrue(row, a) /\ a \in 1 .. Len(rs)
  BY <1>2 DEF Savable, Truth
<1>4. CASE row.sub # "none" \/ row.status = "complete"
  <2>1. Savable([rs EXCEPT ![a].intent = "blocked"])
    BY <1>3, BlockedIsSavable
  <2>2. Stop(h, [rs EXCEPT ![a].intent = "blocked"])
    BY <1>1, <1>4 DEF Judge
  <2> QED
    BY <1>2, <2>1, <2>2, StopKeeps
<1>5. CASE row.sub = "none" /\ row.status # "complete"
  <2>1. draft' = rs /\ rows' = rows /\ lock' = lock
    BY <1>1, <1>5 DEF Judge, Write
  <2>2. Savable(rows)
    BY TablesAreSavable
  <2>3. Len(draft') = a
    BY <1>2, <2>1
  <2>4. CASE row.status = "expired" /\ row.wanted = call[h].target
    <3> DEFINE l == [call[h] EXCEPT !.pc = "plan", !.handoff = TRUE]
    <3>1. Move(h, l)
      BY <1>1, <1>5, <2>4 DEF Judge, HandOver
    <3>2. /\ l \in Place /\ l.pc = "plan" /\ l.handoff /\ l.op = call[h].op
          /\ l.target = call[h].target /\ l.seen = call[h].seen
      BY <1>2 DEF Place
    <3> HIDE DEF l
    <3>3. Finished(a)
      BY <1>2, <1>3, <1>5, <2>4, OverIsFinished
    <3>4. \A b : Finished(b) => Finished(b)'
      BY <1>2, StripeStill
    <3>5. call'[h] = l => Holding(h)'
      BY <1>2, <1>5, <2>1, <2>3, <2>4, <3>2, <3>3, <3>4 DEF Holding, Source
    <3> QED
      BY <1>1, <1>2, <2>1, <2>2, <3>1, <3>2, <3>5, GoesOn DEF Inside, Source
  <2>5. ASSUME NEW pc \in {"expire", "failed"}, Step(h, pc),
               pc = "expire" => unexpired = "expire" /\ row.status # "expired"
        PROVE  BuyInv'
    <3> DEFINE l == [call[h] EXCEPT !.pc = pc]
    <3>1. pc \in Pcs
      BY DEF Pcs
    <3>2. l \in Place /\ l.pc = pc /\ SameButPc(call[h], l) /\ Move(h, l)
      BY <1>2, <2>5, <3>1, PlaceSteps DEF Step
    <3>3. pc = "expire" => row.session # NoSession
      BY <1>2, <1>5, <2>5
    <3> HIDE DEF l
    <3>4. l.target \in Targets /\ l.op = "replace" /\ l.seen = a /\ ~l.handoff
      BY <1>1, <1>2, <3>2 DEF SameButPc
    <3>5. call'[h] = l => Holding(h)'
      BY <2>1, <2>3, <3>2, <3>3, <3>4 DEF Holding, Source
    <3>6. pc \in Inside \cup {"failed"} /\ pc \notin {"idle", "relock"}
      BY DEF Inside, Source
    <3> QED
      BY <1>2, <2>1, <2>2, <3>2, <3>4, <3>5, <3>6, GoesOn
  <2>6. CASE row.status = "expired" /\ row.wanted # call[h].target
    BY <1>1, <1>5, <2>5, <2>6 DEF Judge, HandOver
  <2>7. CASE row.status # "expired"
    BY <1>1, <1>5, <2>5, <2>7 DEF Judge
  <2> QED
    BY <2>4, <2>6, <2>7
<1> QED
  BY <1>4, <1>5

\* The newest attempt's row, read again from Stripe, and judged.
LEMMA RereadKeeps ==
    ASSUME BuyInv, NEW h \in Requests, call[h].pc \in Source, NEW rs, Savable(rs),
           NEW unexpired \in {"expire", "failed"}, Judge(h, Synced(rs, call[h].seen), unexpired),
           Readable(rs[call[h].seen]),
           unexpired = "expire" => rs[call[h].seen].session # NoSession \/ rs[call[h].seen].sub # "none",
           UNCHANGED <<closing, intents, faults, stripe>>
    PROVE  BuyInv'
<1>1. PICK a \in Nat : a = call[h].seen
  BY Typed, PlaceTyped DEF BuyInv
<1>2. TypeOK /\ SessionsSound /\ a \in 1 .. Len(rs) /\ rs \in Seq(Row) /\ Truth(rs) /\ a = Len(rs)
  <2>1. call[h] \in Place /\ Loose(h) /\ Holding(h) /\ TypeOK /\ Tables /\ SessionsSound
    BY Typed DEF BuyInv, Calls
  <2>2. a \in 1 .. Len(rows) /\ a = Len(draft)
    BY <1>1, <2>1 DEF Loose, Holding, Inside
  <2> QED
    BY <2>1, <2>2 DEF Tables, Savable
<1> DEFINE new == Synced(rs, a)
<1>3. /\ Follows(rs, new) /\ new[a].session = rs[a].session
      /\ rs[a].session = NoSession => (rs[a].sub # "none" => new[a].sub # "none")
  BY <1>1, <1>2, SyncedFollows
<1> HIDE DEF new
<1>4. Savable(new) /\ Len(new) = a
  BY <1>2, <1>3, WhatFollowsIsSavable DEF Follows
<1>5. LET row == new[Len(new)] IN
      unexpired = "expire" /\ row.sub = "none" /\ row.status \notin {"complete", "expired"} => row.session # NoSession
  BY <1>1, <1>3, <1>4
<1>6. Judge(h, new, unexpired)
  BY <1>1 DEF new
<1> QED
  BY <1>4, <1>5, <1>6, JudgeKeeps

LEMMA CanonicalKeeps ==
    ASSUME BuyInv, NEW h \in Requests, Canonical(h)
    PROVE  BuyInv'
<1> DEFINE a == call[h].seen
<1>1. /\ TypeOK /\ call[h] \in Place /\ h # Free /\ Loose(h) /\ Holding(h) /\ Tables /\ lock = h /\ ~closing
      /\ intents \in 0 .. MaxIntents /\ faults \in 0 .. MaxFaults
      /\ UNCHANGED <<closing, intents, faults, sessions, age, flying>> /\ UNCHANGED stripe
      /\ call[h].pc = "canonical" /\ call[h].pc \in Source /\ call[h].pc \in Inside
  BY Typed, CheckoutAssumption DEF BuyInv, Canonical, Calls, TypeOK, At, Holds, stripe, Source, Inside
<1>2. Savable(rows) /\ Savable(draft)
  BY TablesAreSavable
<1>3. CASE Abort(h)
  BY <1>1, <1>3, AbortKeeps
<1>4. CASE Step(h, "replay") /\ UNCHANGED <<rows, draft, lock>>
  <2> DEFINE l  == [call[h] EXCEPT !.pc = "replay"]
  <2>1. l \in Place /\ l.pc = "replay" /\ SameButPc(call[h], l) /\ Move(h, l)
    BY <1>1, <1>4, PlaceSteps DEF Pcs, Step
  <2> HIDE DEF l
  <2>2. l.target \in Targets /\ l.op = "replace" /\ l.seen = a /\ l.seen \in 1 .. Len(rows) /\ ~l.handoff
    BY <1>1, <2>1, PlaceTyped DEF SameButPc, Loose
  <2>3. Len(draft') = a
    BY <1>1, <1>4 DEF Holding
  <2>4. call'[h] = l => Holding(h)'
    BY <2>1, <2>2, <2>3 DEF Holding
  <2> QED
    BY <1>1, <1>2, <1>4, <2>1, <2>2, <2>4, GoesOn DEF Inside, Source
<1>5. CASE /\ ~(draft[a].session = NoSession /\ draft[a].sub = "none")
           /\ Readable(draft[a]) /\ Judge(h, Synced(draft, a), "expire")
  BY <1>1, <1>2, <1>5, RereadKeeps
<1> QED
  BY <1>3, <1>4, <1>5 DEF Canonical

LEMMA RetrieveKeeps ==
    ASSUME BuyInv, NEW h \in Requests, Retrieve(h)
    PROVE  BuyInv'
<1>1. PICK a \in Nat : a = call[h].seen
  BY Typed, PlaceTyped DEF BuyInv
<1>2. /\ TypeOK /\ call[h] \in Place /\ Holding(h) /\ Loose(h) /\ Consent(draft) /\ faults' \in 0 .. MaxFaults
      /\ UNCHANGED <<closing, intents, faults, sessions, age, flying>> /\ UNCHANGED stripe
      /\ call[h].pc \in Source /\ call[h].pc \in Inside /\ Savable(draft) /\ Len(draft) = Len(rows)
  BY Typed, TablesAreSavable DEF BuyInv, Retrieve, Calls, TypeOK, At, Holds, stripe, Source, Inside, Tables
<1>3. a \in 1 .. Len(draft) /\ a = Len(draft)
  BY <1>1, <1>2 DEF Loose, Holding
<1>4. CASE Abort(h)
  BY <1>2, <1>4, AbortKeeps
<1>5. ASSUME NEW s \in Answers(a), Readable([draft EXCEPT ![a] = Created(@, s)][a]),
             Judge(h, Synced([draft EXCEPT ![a] = Created(@, s)], a), "expire")
      PROVE  BuyInv'
  <2> DEFINE row == Created(draft[a], s)
             rs  == [draft EXCEPT ![a] = row]
  <2>1. draft[a] \in Row /\ RowTrue(draft[a], a) /\ draft \in Seq(Row) /\ Truth(draft)
    BY <1>2, <1>3 DEF Savable, Truth
  <2>2. row \in Row /\ RowTrue(row, a) /\ SameTerms(draft[a], row) /\ row.session = s /\ s # NoSession
    BY <1>2, <2>1, CreatedRow, AnswersTyped
  <2>3. ~(draft[a].intent = "replaced")
    BY <1>2, <1>3 DEF Consent
  <2>4. Readable(rs[a]) /\ Judge(h, Synced(rs, a), "expire")
    BY <1>5
  <2> HIDE DEF row
  <2>5. rs[a] = row
    BY <1>3, <2>1
  <2>6. Follows(draft, rs)
    BY <1>3, <2>1, <2>2, <2>3, OneRowFollows
  <2> HIDE DEF rs
  <2>7. Savable(rs)
    BY <1>2, <2>6, WhatFollowsIsSavable
  <2> QED
    BY <1>1, <1>2, <2>2, <2>4, <2>5, <2>7, RereadKeeps
<1> QED
  BY <1>1, <1>4, <1>5 DEF Retrieve

LEMMA ConfirmKeeps ==
    ASSUME BuyInv, NEW h \in Requests, Confirm(h)
    PROVE  BuyInv'
<1>1. /\ faults' \in 0 .. MaxFaults /\ call[h].pc \in Source /\ call[h].pc \in Inside
      /\ UNCHANGED <<closing, intents, faults, sessions, age, flying>> /\ UNCHANGED stripe
  BY DEF BuyInv, Confirm, TypeOK, At, stripe, Source, Inside
<1>2. Savable(draft)
  BY TablesAreSavable
<1> QED
  BY <1>1, <1>2, AbortKeeps, RereadKeeps DEF Confirm

\* The except clause of the replacement: what it blocks stays what it was.
LEMMA FailedKeeps ==
    ASSUME BuyInv, NEW h \in Requests, Failed(h)
    PROVE  BuyInv'
<1>1. PICK a \in Nat : a = call[h].seen
  BY Typed, PlaceTyped DEF BuyInv
<1>2. /\ TypeOK /\ call[h] \in Place /\ Loose(h) /\ Tables /\ faults' \in 0 .. MaxFaults
      /\ flying \subseteq Attempts /\ (\A b \in flying : b <= Len(rows))
      /\ UNCHANGED <<closing, intents, faults, sessions, age, flying>>
      /\ call[h].pc = "failed" /\ lock \in {Free, h} /\ Over(h)
  BY Typed DEF BuyInv, Failed, Calls, TypeOK, At, stripe, Chain
<1>3. Savable(rows) /\ Savable(draft) /\ Len(draft) = Len(rows)
  BY <1>2, TablesAreSavable DEF Tables
<1>4. a \in 1 .. Len(draft)
  BY <1>1, <1>2, <1>3 DEF Loose
<1>5. CASE closing /\ UNCHANGED <<rows, draft, lock>>
  <2>1. lock # h
    BY <1>5 DEF BuyInv, Calls
  <2>2. lock' = Free /\ draft' = rows'
    BY <1>2, <1>5, <2>1 DEF Tables
  <2> QED
    BY <1>2, <1>3, <1>5, <2>2, OverKeeps
<1>6. CASE Commit([draft EXCEPT ![a].intent = "blocked"])
  <2>1. Savable([draft EXCEPT ![a].intent = "blocked"])
    BY <1>3, <1>4, BlockedIsSavable
  <2> QED
    BY <1>2, <1>6, <2>1, OverKeeps DEF Commit
<1>7. CASE Rollback
  BY <1>2, <1>3, <1>7, OverKeeps DEF Rollback
<1> QED
  BY <1>1, <1>5, <1>6, <1>7 DEF Failed

LEMMA LoseKeeps ==
    ASSUME BuyInv, NEW h \in Requests, Lose(h)
    PROVE  BuyInv'
<1>1. call[h].pc \in Inside /\ faults' \in 0 .. MaxFaults /\ UNCHANGED <<closing, intents, sessions, age, flying>>
  BY CheckoutAssumption DEF BuyInv, Lose, Fault, TypeOK, Inside, Source, stripe
<1> QED
  BY <1>1, AbortKeeps DEF Lose

\* A creation may still be on its way after its process has died.
LEMMA CrashKeeps ==
    ASSUME BuyInv, NEW h \in Requests, Crash(h)
    PROVE  BuyInv'
<1>1. /\ TypeOK /\ Tables /\ Loose(h) /\ Holding(h) /\ call[h] \in Place /\ h # Free /\ faults' \in 0 .. MaxFaults
      /\ flying \subseteq Attempts /\ (\A b \in flying : b <= Len(rows)) /\ Len(rows) \in Nat
      /\ UNCHANGED <<closing, intents, sessions, age>> /\ Over(h)
  BY Typed, CheckoutAssumption DEF BuyInv, Crash, Fault, Calls, TypeOK, Chain
<1>2. call[h].pc = "post" => call[h].row \in 1 .. Len(rows)
  BY <1>1 DEF Loose, Holding, Inside, Tables
<1>3. call[h].pc = "replay" => call[h].seen \in 1 .. Len(rows)
  BY <1>1 DEF Loose, Source
<1>4. \A b \in 1 .. Len(rows) : b \in Attempts /\ b <= Len(rows)
  BY <1>1, Typed
<1>5. flying' \subseteq Attempts /\ \A b \in flying' : b <= Len(rows)
  BY <1>1, <1>2, <1>3, <1>4 DEF Crash, At
<1>6. Savable(rows) /\ Savable(draft)
  BY TablesAreSavable
<1>7. CASE lock = h
  BY <1>1, <1>5, <1>6, <1>7, OverKeeps DEF Crash, Holds, Rollback
<1>8. CASE lock # h
  <2>1. UNCHANGED <<rows, draft, lock>>
    BY <1>8 DEF Crash, Holds
  <2>2. lock' = Free => draft' = rows'
    BY <1>1, <2>1 DEF Tables
  <2>3. IF lock \in {Free, h} THEN lock' = Free ELSE UNCHANGED <<rows, draft, lock>>
    BY <1>8, <2>1
  <2> QED
    BY <1>1, <1>5, <1>6, <2>1, <2>2, <2>3, OverKeeps
<1> QED
  BY <1>7, <1>8

-----------------------------------------------------------------------------
(* Stripe and its customer.                                                    *)

\* What may follow session s.
MayFollow(s, new) ==
    /\ new \in Session /\ new.attempt = sessions[s].attempt
    /\ sessions[s].status # "open" => new.status = sessions[s].status
    /\ sessions[s].sub # "none" => new.sub # "none"
    /\ sessions[s].sub = "ended" => new.sub = "ended"
    /\ new.status = "complete" <=> new.sub # "none"
    /\ new.linked => new.status = "complete"

\* A session changes to what may follow, at most by ending.
LEMMA SessionBecomes ==
    ASSUME TypeOK, SessionsSound, NEW s \in DOMAIN sessions, NEW new, MayFollow(s, new),
           sessions' = [sessions EXCEPT ![s] = new], UNCHANGED age
    PROVE  /\ sessions' \in Seq(Session) /\ Len(sessions') = Len(sessions) /\ DOMAIN sessions' = DOMAIN sessions
           /\ SessionsSound' /\ Later
           /\ \A t \in DOMAIN sessions : sessions'[t].attempt = sessions[t].attempt
<1>0. /\ new \in Session /\ new.attempt = sessions[s].attempt
      /\ sessions[s].status # "open" => new.status = sessions[s].status
      /\ sessions[s].sub # "none" => new.sub # "none"
      /\ sessions[s].sub = "ended" => new.sub = "ended"
      /\ new.status = "complete" <=> new.sub # "none"
      /\ new.linked => new.status = "complete"
  BY DEF MayFollow
<1>1. sessions \in Seq(Session) /\ DOMAIN sessions = 1 .. Len(sessions)
  BY Typed DEF TypeOK
<1>2. /\ sessions' \in Seq(Session) /\ Len(sessions') = Len(sessions) /\ DOMAIN sessions' = DOMAIN sessions
      /\ \A t \in DOMAIN sessions : sessions'[t] = IF t = s THEN new ELSE sessions[t]
  BY <1>0, <1>1
<1>3. \A t \in DOMAIN sessions : sessions'[t].attempt = sessions[t].attempt
  BY <1>0, <1>2
<1>4. SessionsSound'
  BY <1>0, <1>2, <1>3 DEF SessionsSound, Attempts
<1>5. \A a \in Attempts : age'[a] >= age[a]
  BY Typed
<1>6. Later
  BY <1>0, <1>2, <1>3, <1>5 DEF Later
<1> QED
  BY <1>2, <1>3, <1>4, <1>6

LEMMA Paid ==
    ASSUME TypeOK, SessionsSound, NEW s \in DOMAIN sessions, sessions[s].status = "open"
    PROVE  MayFollow(s, [sessions[s] EXCEPT !.status = "complete", !.sub = "live"])
<1>1. sessions[s] \in Session
  BY Typed
<1> QED
  BY <1>1, SessionStates DEF MayFollow, Session

LEMMA LinkedUp ==
    ASSUME TypeOK, SessionsSound, NEW s \in DOMAIN sessions, sessions[s].status = "complete"
    PROVE  MayFollow(s, [sessions[s] EXCEPT !.linked = TRUE])
<1>1. sessions[s] \in Session
  BY Typed
<1> QED
  BY <1>1, SessionStates DEF MayFollow, Session

LEMMA Cancelled ==
    ASSUME TypeOK, SessionsSound, NEW s \in DOMAIN sessions, sessions[s].sub # "none"
    PROVE  MayFollow(s, [sessions[s] EXCEPT !.sub = "ended"])
<1>1. sessions[s] \in Session
  BY Typed
<1> QED
  BY <1>1, SessionStates DEF MayFollow, Session

LEMMA Expired ==
    ASSUME TypeOK, SessionsSound, NEW s \in DOMAIN sessions, sessions[s].status = "open"
    PROVE  MayFollow(s, [sessions[s] EXCEPT !.status = "expired"])
<1>1. sessions[s] \in Session
  BY Typed
<1> QED
  BY <1>1, SessionStates DEF MayFollow, Session

\* While no request moves and the tables stay, Stripe may go on.
LEMMA NobodyMoves ==
    ASSUME BuyInv, TypeOK', SessionsSound', Later, UNCHANGED <<rows, draft, lock, closing, call>>,
           \A s \in DOMAIN sessions' : sessions'[s].attempt <= Len(rows),
           \A a \in flying' : a <= Len(rows)
    PROVE  BuyInv'
<1>1. Tables' /\ Chain'
  BY StripeMoves
<1>2. \A a \in Attempts : Finished(a) => Finished(a)'
  BY LastingFinish DEF BuyInv
<1>3. Len(rows') \in Nat /\ Len(rows) <= Len(rows')
  BY Typed DEF BuyInv
<1>4. ASSUME NEW g \in Requests PROVE Loose(g)' /\ Holding(g)'
  BY <1>2, <1>3, OtherRequests
<1> QED
  BY <1>1, <1>4 DEF BuyInv, Calls

LEMMA BecomesKeeps ==
    ASSUME BuyInv, NEW s \in DOMAIN sessions, Pay(s) \/ Link(s) \/ Cancel(s) \/ Lapse(s)
    PROVE  BuyInv'
<1>1. TypeOK /\ SessionsSound /\ Chain /\ sessions[s] \in Session
  BY Typed DEF BuyInv
<1>2. PICK new : MayFollow(s, new) /\ sessions' = [sessions EXCEPT ![s] = new]
  <2>1. CASE Pay(s)
    BY <1>1, <2>1, Paid DEF Pay, Becomes
  <2>2. CASE Link(s)
    BY <1>1, <2>2, LinkedUp DEF Link, Becomes
  <2>3. CASE Cancel(s)
    BY <1>1, <2>3, Cancelled DEF Cancel, Becomes
  <2>4. CASE Lapse(s)
    BY <1>1, <2>4, Expired DEF Lapse, Becomes
  <2> QED
    BY <2>1, <2>2, <2>3, <2>4
<1>3. UNCHANGED <<rows, draft, lock, closing, call, age, flying, intents, faults>>
  BY DEF Pay, Link, Cancel, Lapse, Becomes
<1>4. /\ sessions' \in Seq(Session) /\ Len(sessions') = Len(sessions) /\ DOMAIN sessions' = DOMAIN sessions
      /\ SessionsSound' /\ Later
      /\ \A t \in DOMAIN sessions : sessions'[t].attempt = sessions[t].attempt
  BY <1>1, <1>2, <1>3, SessionBecomes
<1>5. TypeOK'
  BY <1>1, <1>3, <1>4 DEF TypeOK
<1>6. /\ \A t \in DOMAIN sessions' : sessions'[t].attempt <= Len(rows)
      /\ \A a \in flying' : a <= Len(rows)
  BY <1>1, <1>3, <1>4 DEF Chain
<1> QED
  BY <1>3, <1>4, <1>5, <1>6, NobodyMoves

LEMMA GrowKeeps ==
    ASSUME BuyInv, NEW a \in Attempts, Grow(a)
    PROVE  BuyInv'
<1>1. TypeOK /\ SessionsSound /\ Chain /\ age[a] \in 0 .. 2 /\ age[a] < 2
  BY Typed DEF BuyInv, Grow
<1>2. /\ UNCHANGED <<rows, draft, lock, closing, call, sessions, flying, intents, faults>>
      /\ age' = [age EXCEPT ![a] = @ + 1]
  BY DEF Grow
<1>3. age' \in [Attempts -> 0 .. 2] /\ \A b \in Attempts : age'[b] >= age[b]
  <2>1. age \in [Attempts -> 0 .. 2] /\ age[a] + 1 \in 0 .. 2
    BY <1>1 DEF TypeOK
  <2>2. age' \in [Attempts -> 0 .. 2]
    BY <1>2, <2>1
  <2>3. \A b \in Attempts : age[b] \in 0 .. 2 /\ age'[b] = IF b = a THEN age[a] + 1 ELSE age[b]
    BY <1>2, <2>1
  <2> QED
    BY <1>1, <2>2, <2>3
<1>4. TypeOK'
  BY <1>1, <1>2, <1>3 DEF TypeOK
<1>5. Later /\ SessionsSound'
  BY <1>1, <1>2, <1>3 DEF Later, SessionsSound
<1> QED
  BY <1>1, <1>2, <1>4, <1>5, NobodyMoves DEF Chain

LEMMA ArriveKeeps ==
    ASSUME BuyInv, NEW a \in Attempts, Arrive(a)
    PROVE  BuyInv'
<1>1. TypeOK /\ SessionsSound /\ Chain /\ a <= Len(rows)
  BY DEF BuyInv, Arrive, Chain
<1>2. /\ UNCHANGED <<rows, draft, lock, closing, call, age, intents, faults>>
      /\ flying' = flying \ {a} /\ Creates(a)
  BY DEF Arrive
<1>3. /\ sessions' \in Seq(Session) /\ Len(sessions') <= MaxAttempts + 1
      /\ SessionsSound' /\ Later
      /\ \A s \in DOMAIN sessions' : s \in DOMAIN sessions \/ sessions'[s].attempt = a
  BY <1>1, <1>2, CreatesKeeps
<1>4. TypeOK'
  BY <1>1, <1>2, <1>3 DEF TypeOK
<1>5. \A s \in DOMAIN sessions' : sessions'[s].attempt <= Len(rows)
  <2>1. ASSUME NEW s \in DOMAIN sessions', s \in DOMAIN sessions PROVE sessions'[s].attempt <= Len(rows)
    BY <1>1, <1>3, <2>1 DEF Chain, Later
  <2> QED
    BY <1>1, <1>3, <2>1
<1> QED
  BY <1>1, <1>2, <1>3, <1>4, <1>5, NobodyMoves DEF Chain

\* POST expire, by a replacement: a session that was paid meanwhile stays paid.
LEMMA ExpireKeeps ==
    ASSUME BuyInv, NEW h \in Requests, Expire(h)
    PROVE  BuyInv'
<1>1. PICK a \in Nat : a = call[h].seen
  BY Typed, PlaceTyped DEF BuyInv
<1>2. /\ TypeOK /\ SessionsSound /\ Chain /\ Tables /\ call[h] \in Place /\ Loose(h) /\ Holding(h) /\ h # Free
      /\ call[h].pc = "expire" /\ lock = h /\ ~closing
      /\ UNCHANGED <<rows, draft, lock, closing, intents, age, flying>> /\ faults' \in 0 .. MaxFaults
  BY Typed, CheckoutAssumption DEF BuyInv, Expire, Calls, TypeOK, At, Holds, Fault
<1>3. a \in 1 .. Len(draft) /\ a = Len(draft) /\ a \in 1 .. Len(rows) /\ draft[a].session # NoSession
  BY <1>1, <1>2 DEF Loose, Holding, Source, Tables
<1> DEFINE s == draft[a].session
<1>4. s \in DOMAIN sessions /\ sessions[s] \in Session
  BY <1>2, <1>3, AnswersTyped DEF Tables, Truth, RowTrue
<1>5. /\ sessions' \in Seq(Session) /\ Len(sessions') = Len(sessions) /\ DOMAIN sessions' = DOMAIN sessions
      /\ SessionsSound' /\ Later
      /\ \A t \in DOMAIN sessions : sessions'[t].attempt = sessions[t].attempt
  <2>1. CASE UNCHANGED sessions
    BY <1>2, <2>1, StripeStill DEF TypeOK
  <2>2. CASE sessions[s].status = "open" /\ sessions' = [sessions EXCEPT ![s].status = "expired"]
    <3> DEFINE new == [sessions[s] EXCEPT !.status = "expired"]
    <3>1. MayFollow(s, new)
      BY <1>2, <1>4, <2>2, Expired
    <3>2. sessions' = [sessions EXCEPT ![s] = new]
      BY <2>2
    <3> HIDE DEF new, s
    <3> QED
      BY <1>2, <1>4, <3>1, <3>2, SessionBecomes
  <2> QED
    BY <1>1, <2>1, <2>2 DEF Expire
<1> HIDE DEF s
<1> DEFINE l == [call[h] EXCEPT !.pc = "confirm"]
<1>6. l \in Place /\ l.pc = "confirm" /\ SameButPc(call[h], l) /\ Move(h, l)
  BY <1>2, PlaceSteps DEF Pcs, Step, Expire
<1> HIDE DEF l
<1>7. call'[h] = l /\ call' \in [Requests -> Place]
  BY <1>2, <1>6, Moved
<1>8. TypeOK'
  BY <1>2, <1>5, <1>7 DEF TypeOK
<1>9. Tables' /\ Chain'
  BY <1>2, <1>5, <1>8, StripeMoves DEF Chain
<1>10. Loose(h)' /\ Holding(h)'
  BY <1>1, <1>2, <1>3, <1>6, <1>7 DEF Loose, Holding, Inside, Source, SameButPc
<1> QED
  BY <1>2, <1>5, <1>6, <1>8, <1>9, <1>10, Typed, OneMoves

-----------------------------------------------------------------------------
(* Observers.                                                                  *)

\* Whoever is not a request may save a table, and take and release the row.
LEMMA OthersSave ==
    ASSUME BuyInv, lock \notin Requests, lock' \in Ticks \cup {Free}, Savable(rows'), Savable(draft'),
           lock' = Free => draft' = rows',
           UNCHANGED <<closing, call, intents, sessions, age, flying>>, faults' \in 0 .. MaxFaults
    PROVE  BuyInv'
<1>1. TypeOK /\ SessionsSound /\ Chain /\ Tables /\ Len(rows) \in Nat /\ Len(rows') = Len(rows)
  BY Typed DEF BuyInv, Savable
<1>2. /\ Later /\ SessionsSound'
      /\ \A a : Answers(a)' = Answers(a) /\ (Finished(a) => Finished(a)')
      /\ \A r, a : RowTrue(r, a) => RowTrue(r, a)'
  BY <1>1, StripeStill
<1>3. TypeOK'
  BY <1>1 DEF TypeOK, Savable
<1>4. Tables'
  <2>1. Truth(rows)' /\ Truth(draft)'
    BY <1>1, <1>2 DEF Truth, Savable
  <2>2. Consent(rows)' /\ Consent(draft)'
    BY <1>1 DEF Consent, Savable
  <2>3. Len(draft') = Len(rows')
    BY <1>1 DEF Savable
  <2> QED
    BY <1>1, <2>1, <2>2, <2>3 DEF Tables
<1>5. Chain'
  BY <1>1, <1>2 DEF Chain
<1>6. lock' \notin Requests
  BY CheckoutAssumption
<1>7. ASSUME NEW g \in Requests PROVE Loose(g)' /\ Holding(g)'
  <2>1. IF lock = g THEN lock' = g /\ draft' = draft ELSE lock' # g
    BY <1>6
  <2> QED
    BY <1>1, <1>2, <2>1, OtherRequests
<1> QED
  BY <1>2, <1>3, <1>4, <1>5, <1>6, <1>7 DEF BuyInv, Calls

LEMMA SavingKeeps ==
    ASSUME BuyInv, lock = Free, NEW rs, Savable(rs), Commit(rs),
           UNCHANGED <<closing, call, intents, faults, stripe>>
    PROVE  BuyInv'
<1>1. /\ rows' = rs /\ draft' = rs /\ lock' = Free /\ faults' \in 0 .. MaxFaults /\ lock \notin Requests
      /\ UNCHANGED <<closing, call, intents, sessions, age, flying>>
  BY CheckoutAssumption DEF BuyInv, TypeOK, Commit, stripe
<1> QED
  BY <1>1, OthersSave

LEMMA ObserveKeeps ==
    ASSUME BuyInv, NEW a \in Attempts, Observe(a)
    PROVE  BuyInv'
<1>1. /\ TypeOK /\ SessionsSound /\ lock = Free /\ a \in 1 .. Len(rows) /\ rows \in Seq(Row) /\ Truth(rows)
      /\ UNCHANGED <<closing, call, intents, faults, stripe>>
      /\ rows[a] \in Row /\ RowTrue(rows[a], a) /\ Savable(rows)
  BY Typed, TablesAreSavable DEF BuyInv, Observe, Attempts, Tables, Truth
<1>2. rows[a].intent = "replaced" => OverUnpaid(rows[a])
  BY <1>1 DEF Savable, Consent, OverUnpaid
<1>3. ASSUME NEW row \in Row, RowTrue(row, a), SameTerms(rows[a], row),
             OverUnpaid(rows[a]) => OverUnpaid(row), Commit([rows EXCEPT ![a] = row])
      PROVE  BuyInv'
  <2> DEFINE rs == [rows EXCEPT ![a] = row]
  <2>1. Follows(rows, rs)
    BY <1>1, <1>3, OneRowFollows
  <2>2. Commit(rs)
    BY <1>3
  <2> HIDE DEF rs
  <2>3. Savable(rs)
    BY <1>1, <2>1, WhatFollowsIsSavable
  <2> QED
    BY <1>1, <2>2, <2>3, SavingKeeps
<1>4. ASSUME NEW s \in Answers(a), Accepts(rows[a], s), Commit([rows EXCEPT ![a] = Observed(@, s)])
      PROVE  BuyInv'
  <2> DEFINE row == Observed(rows[a], s)
  <2>1. row \in Row /\ RowTrue(row, a) /\ SameTerms(rows[a], row) /\ (OverUnpaid(rows[a]) => OverUnpaid(row))
    BY <1>1, <1>4, ObservedRow
  <2>2. Commit([rows EXCEPT ![a] = row])
    BY <1>4
  <2> HIDE DEF row
  <2> QED
    BY <1>3, <2>1, <2>2
<1>5. ASSUME NEW s \in Answers(a), sessions[s].sub # "none", Commit([rows EXCEPT ![a] = Subscribed(@, s)])
      PROVE  BuyInv'
  <2> DEFINE row == Subscribed(rows[a], s)
  <2>1. row \in Row /\ RowTrue(row, a) /\ SameTerms(rows[a], row) /\ (OverUnpaid(rows[a]) => OverUnpaid(row))
    BY <1>1, <1>5, SubscribedRow
  <2>2. Commit([rows EXCEPT ![a] = row])
    BY <1>5
  <2> HIDE DEF row
  <2> QED
    BY <1>3, <2>1, <2>2
<1>6. CASE Readable(rows[a]) /\ Commit(Synced(rows, a))
  <2> DEFINE rs == Synced(rows, a)
  <2>1. Follows(rows, rs)
    BY <1>1, <1>6, SyncedFollows
  <2>2. Commit(rs)
    BY <1>6
  <2> HIDE DEF rs
  <2>3. Savable(rs)
    BY <1>1, <2>1, WhatFollowsIsSavable
  <2> QED
    BY <1>1, <2>2, <2>3, SavingKeeps
<1> QED
  BY <1>4, <1>5, <1>6 DEF Observe

-----------------------------------------------------------------------------
(* Buying is safe.                                                             *)

LEMMA BuyStarts == Init => BuyInv
<1> SUFFICES ASSUME Init PROVE BuyInv
  OBVIOUS
<1>1. /\ rows = <<>> /\ draft = <<>> /\ sessions = <<>> /\ lock = Free /\ flying = {} /\ closing = FALSE
      /\ intents = 0 /\ faults = 0
      /\ call = [h \in Requests |-> Idle] /\ age = [a \in Attempts |-> 0]
  BY DEF Init
<1>2. TypeOK
  <2>1. rows \in Seq(Row) /\ draft \in Seq(Row) /\ sessions \in Seq(Session) /\ Len(rows) = 0 /\ Len(sessions) = 0
    BY <1>1
  <2>2. call \in [Requests -> Place] /\ age \in [Attempts -> 0 .. 2]
    BY <1>1, IdlePlace
  <2>3. MaxAttempts \in Nat /\ MaxIntents \in Nat /\ MaxFaults \in Nat
    BY CheckoutAssumption
  <2>4. lock \in Requests \cup Ticks \cup {Free} /\ closing \in BOOLEAN /\ flying \subseteq Attempts
    BY <1>1
  <2>5. 0 <= MaxAttempts /\ 0 <= MaxAttempts + 1 /\ intents \in 0 .. MaxIntents /\ faults \in 0 .. MaxFaults
    BY <1>1, <2>3
  <2> QED
    BY <2>1, <2>2, <2>4, <2>5 DEF TypeOK
<1>3. DOMAIN sessions = {} /\ 1 .. Len(rows) = {} /\ 1 .. Len(draft) = {} /\ Len(rows) = 0 /\ Len(draft) = 0
  BY <1>1
<1>4. SessionsSound /\ Tables /\ Chain
  BY <1>1, <1>3 DEF SessionsSound, Tables, Chain, Truth, Consent
<1>5. Calls
  BY <1>1, IdlePlace, CheckoutAssumption DEF Calls, Loose, Holding, Inside, Source
<1> QED
  BY <1>2, <1>4, <1>5 DEF BuyInv

\* Nothing that is kept is lost while nothing changes.
LEMMA BuyStutters ==
    ASSUME BuyInv, UNCHANGED vars
    PROVE  BuyInv'
<1>1. /\ TypeOK' /\ SessionsSound' /\ Later
      /\ UNCHANGED <<rows, draft, lock, closing, call, sessions, flying>>
  BY StripeStill DEF BuyInv, TypeOK, vars
<1> QED
  BY <1>1, NobodyMoves DEF BuyInv, Chain

LEMMA BuySteps ==
    ASSUME BuyInv, [Next]_vars
    PROVE  BuyInv'
<1>1. ASSUME NEW h \in Requests, Request(h) PROVE BuyInv'
  <2>1. ASSUME NEW op \in {"start", "replace"}, NEW t \in Targets, NEW a \in 0 .. Len(rows), Ask(h, op, t, a)
        PROVE  BuyInv'
    BY <2>1, AskKeeps
  <2>2. CASE Resume(h)
    BY <2>2, ResumeKeeps
  <2>3. CASE LockStart(h)
    BY <2>3, LockStartKeeps
  <2>4. CASE Sync(h)
    BY <2>4, SyncKeeps
  <2>5. CASE Insert(h)
    BY <2>5, InsertKeeps
  <2>6. CASE Relock(h)
    BY <2>6, RelockKeeps
  <2>7. CASE Post(h)
    BY <2>7, PostKeeps
  <2>8. CASE Record(h)
    BY <2>8, RecordKeeps
  <2>9. CASE LockReplace(h)
    BY <2>9, LockReplaceKeeps
  <2>10. CASE Reopen(h)
    BY <2>10, ReopenKeeps
  <2>11. CASE Canonical(h)
    BY <2>11, CanonicalKeeps
  <2>12. CASE Replay(h)
    BY <2>12, ReplayKeeps
  <2>13. CASE Retrieve(h)
    BY <2>13, RetrieveKeeps
  <2>14. CASE Expire(h)
    BY <2>14, ExpireKeeps
  <2>15. CASE Confirm(h)
    BY <2>15, ConfirmKeeps
  <2>16. CASE Failed(h)
    BY <2>16, FailedKeeps
  <2> QED
    BY <1>1, <2>1, <2>2, <2>3, <2>4, <2>5, <2>6, <2>7, <2>8, <2>9, <2>10, <2>11, <2>12, <2>13, <2>14, <2>15, <2>16
       DEF Request
<1>2. ASSUME NEW h \in Requests, Lose(h) \/ Crash(h) PROVE BuyInv'
  BY <1>2, LoseKeeps, CrashKeeps
<1>3. ASSUME NEW a \in Attempts, Observe(a) PROVE BuyInv'
  BY <1>3, ObserveKeeps
<1>4. CASE Outside
  <2>1. ASSUME NEW s \in DOMAIN sessions, Pay(s) \/ Link(s) \/ Cancel(s) \/ Lapse(s) PROVE BuyInv'
    BY <2>1, BecomesKeeps
  <2>2. ASSUME NEW a \in Attempts, Grow(a) \/ Arrive(a) PROVE BuyInv'
    BY <2>2, GrowKeeps, ArriveKeeps
  <2> QED
    BY <1>4, <2>1, <2>2 DEF Outside
<1>5. CASE UNCHANGED vars
  BY <1>5, BuyStutters
<1> QED
  BY <1>1, <1>2, <1>3, <1>4, <1>5 DEF Next

LEMMA BuyInvariant == Spec => []BuyInv
<1> QED
  BY BuyStarts, BuySteps, PTL DEF Spec

\* Two sessions that could be paid would belong to two attempts, of which one
\* is not the newest; all but the newest are finished.
LEMMA SoundIsPayableOnce == SessionsSound /\ TypeOK /\ Chain => PayableOnce
<1> SUFFICES ASSUME SessionsSound, TypeOK, Chain,
                    NEW s \in DOMAIN sessions, NEW t \in DOMAIN sessions, Payable(s), Payable(t)
             PROVE  s = t
  BY DEF PayableOnce
<1>1. ASSUME NEW u \in DOMAIN sessions, Payable(u) PROVE sessions[u].attempt = Len(rows)
  <2>1. sessions[u].attempt \in Attempts /\ sessions[u].attempt <= Len(rows) /\ Len(rows) \in Nat
    BY Typed DEF SessionsSound, Chain
  <2>2. u \in Answers(sessions[u].attempt)
    BY DEF Answers
  <2> QED
    BY <1>1, <2>1, <2>2 DEF Chain, Finished, Attempts
<1> QED
  BY <1>1 DEF SessionsSound

\* Buying keeps to its types, for any number of windows and attempts.
THEOREM CheckoutIsTyped == Spec => []TypeOK
<1>1. BuyInv => TypeOK
  BY DEF BuyInv
<1> QED
  BY <1>1, BuyInvariant, PTL

\* However start_checkout, its replacement, the observers, late creations and
\* crashes interleave, the account never has two checkouts it could pay for.
THEOREM NothingIsPaidTwice == Spec => []PayableOnce
<1>1. BuyInv => PayableOnce
  BY SoundIsPayableOnce DEF BuyInv
<1> QED
  BY <1>1, BuyInvariant, PTL

LEMMA EndsTrue == BuyInv => EndsAreTrue
<1> SUFFICES ASSUME BuyInv, NEW a \in DOMAIN rows
             PROVE  /\ rows[a].status = "expired" => \A s \in Answers(a) : sessions[s].status = "expired"
                    /\ rows[a].sub = "ended" => \A s \in Answers(a) : sessions[s].sub # "live"
  BY DEF EndsAreTrue
<1>1. RowTrue(rows[a], a)
  BY Typed DEF BuyInv, Tables, Truth
<1> QED
  BY <1>1 DEF RowTrue

\* An attempt that sandbox_checkouts calls expired cannot be paid, and a
\* subscription it calls ended does not bill.
THEOREM SavedEndsAreTrue == Spec => []EndsAreTrue
<1> QED
  BY EndsTrue, BuyInvariant, PTL

\* A replaced attempt has the successor its owner agreed to and was not paid.
THEOREM ReplacementsKeepConsent == Spec => []ConsentKept
<1>1. BuyInv => ConsentKept
  <2>1. ASSUME BuyInv PROVE DOMAIN rows = 1 .. Len(rows) /\ Consent(rows)
    BY <2>1, Typed DEF BuyInv, Tables
  <2> QED
    BY <2>1 DEF ConsentKept, Consent
<1> QED
  BY <1>1, BuyInvariant, PTL

-----------------------------------------------------------------------------
(* The loop that closes.                                                       *)

LEMMA TickTyped ==
    ASSUME NEW l \in TickPlace
    PROVE  /\ l.attempt \in 1 .. MaxAttempts + 1 /\ l.attempt \in Nat /\ l.attempt > 0 /\ l.issues \in BOOLEAN
           /\ l.pc \in {"idle", "relock", "look", "expire", "stop", "finish", "failed"}
  BY CheckoutAssumption DEF TickPlace

LEMMA TickGoes ==
    ASSUME NEW l \in TickPlace, NEW pc \in {"idle", "relock", "look", "expire", "stop", "finish", "failed"}
    PROVE  LET new == [l EXCEPT !.pc = pc] IN
           new \in TickPlace /\ new.pc = pc /\ new.attempt = l.attempt /\ new.issues = l.issues
  BY DEF TickPlace

LEMMA TickGoesOn ==
    ASSUME NEW l \in TickPlace, l.attempt <= MaxAttempts, NEW issue \in BOOLEAN
    PROVE  LET new == [l EXCEPT !.pc = "look", !.attempt = @ + 1, !.issues = @ \/ issue] IN
           new \in TickPlace /\ new.pc = "look" /\ new.attempt = l.attempt + 1 /\ new.issues = (l.issues \/ issue)
<1> DEFINE n == l.attempt + 1
           i == l.issues \/ issue
           new == [l EXCEPT !.pc = "look", !.attempt = n, !.issues = i]
<1>1. n \in 1 .. MaxAttempts + 1 /\ i \in BOOLEAN
  BY CheckoutAssumption, TickTyped
<1> HIDE DEF n, i
<1>2. new \in TickPlace /\ new.pc = "look" /\ new.attempt = n /\ new.issues = i
  BY <1>1 DEF TickPlace
<1>3. [l EXCEPT !.pc = "look", !.attempt = @ + 1, !.issues = @ \/ issue] = new
  BY DEF TickPlace, n, i
<1> HIDE DEF new
<1> QED
  BY <1>2, <1>3 DEF n, i

LEMMA AsleepTyped == Asleep \in TickPlace /\ Asleep.pc = "idle" /\ Asleep.attempt = 1
  BY CheckoutAssumption DEF Asleep, TickPlace

LEMMA TickFacts ==
    ASSUME Ticking, NEW k \in Ticks
    PROVE  /\ tick[k] \in TickPlace /\ Dealt(k) /\ k # Free /\ k \notin Requests
           /\ (tick[k].pc # "idle" => closing) /\ (lock = k => closing)
  BY CheckoutAssumption DEF Ticking, Dealt, Looking

\* One loop moves; the others hold nothing, or nothing of theirs changes.
LEMMA OneTickMoves ==
    ASSUME Ticking, NEW k \in Ticks, NEW l \in TickPlace, tick' = [tick EXCEPT ![k] = l],
           closing, UNCHANGED <<closing, work>>, closure' \in Closure, notice' \in Notice,
           IF lock \in {Free, k} THEN lock' \in {Free, k} ELSE UNCHANGED <<draft, lock, sessions, age>>,
           tick'[k] = l => Dealt(k)'
    PROVE  Ticking'
<1>1. tick' \in [Ticks -> TickPlace] /\ tick'[k] = l /\ \A j \in Ticks : j # k => tick'[j] = tick[j]
  BY DEF Ticking
<1>2. ASSUME NEW j \in Ticks, j # k PROVE Dealt(j)'
  <2>1. Dealt(j) /\ tick'[j] = tick[j] /\ j # Free
    BY <1>1, <1>2, CheckoutAssumption DEF Ticking
  <2>2. CASE lock \in {Free, k}
    <3>1. tick[j].pc \notin Looking /\ lock' # j
      BY <1>2, <2>1, <2>2 DEF Dealt
    <3> QED
      BY <2>1, <3>1 DEF Dealt, Looking
  <2>3. CASE lock \notin {Free, k}
    <3>1. UNCHANGED <<draft, lock, sessions, age>>
      BY <2>3
    <3>2. \A a : Finished(a) => Finished(a)'
      BY <3>1 DEF Finished, Answers, Payable
    <3> QED
      BY <2>1, <3>1, <3>2 DEF Dealt
  <2> QED
    BY <2>2, <2>3
<1> QED
  BY <1>1, <1>2 DEF Ticking

\* No loop moves, and none loses what it is sure of.
LEMMA NoTickMoves ==
    ASSUME Ticking, UNCHANGED tick, work' \in BOOLEAN, closure' \in Closure, notice' \in Notice,
           closing => closing', closure'.state # "none" \/ closure'.done => closing',
           \A k \in Ticks : lock = k <=> lock' = k,
           \A k \in Ticks : lock = k => Dealt(k)'
    PROVE  Ticking'
<1>1. ASSUME NEW k \in Ticks PROVE Dealt(k)'
  <2>1. CASE lock # k
    BY <2>1 DEF Ticking, Dealt, Looking
  <2> QED
    BY <2>1
<1> QED
  BY <1>1 DEF Ticking

\* No request takes the account's row from a loop, or writes while one has it.
LEMMA RequestsWait ==
    ASSUME Next, CheckoutAssumption
    PROVE  /\ closing' = closing
           /\ \A k \in Ticks : lock = k => UNCHANGED <<rows, draft, lock>>
           /\ \A k \in Ticks : lock # k => lock' # k
<1> USE CheckoutAssumption
<1>1. ASSUME NEW h \in Requests, Request(h)
      PROVE  /\ closing' = closing
             /\ \A k \in Ticks : lock = k => UNCHANGED <<rows, draft, lock>>
             /\ \A k \in Ticks : lock # k => lock' # k
  <2>1. CASE \E op \in {"start", "replace"}, t \in Targets, a \in 0 .. Len(rows) : Ask(h, op, t, a)
    BY <2>1 DEF Ask
  <2>2. CASE Resume(h)
    BY <2>2 DEF Resume
  <2>3. CASE LockStart(h)
    BY <2>3 DEF LockStart
  <2>4. CASE Sync(h)
    BY <2>4 DEF Sync, Holds, Write, Stop, Abort, Commit, Rollback
  <2>5. CASE Insert(h)
    BY <2>5 DEF Insert, Holds, Commit
  <2>6. CASE Relock(h)
    BY <2>6 DEF Relock, Commit
  <2>7. CASE Post(h) \/ Record(h)
    BY <2>7 DEF Post, Record, Holds, Abort, Commit, Rollback
  <2>8. CASE LockReplace(h) \/ Reopen(h)
    BY <2>8 DEF LockReplace, Reopen, Commit
  <2>9. CASE Canonical(h)
    BY <2>9 DEF Canonical, Holds, Abort, Rollback, Judge, Stop, Commit, Write
  <2>10. CASE Replay(h) \/ Retrieve(h)
    BY <2>10 DEF Replay, Retrieve, Holds, Abort, Rollback, Judge, Stop, Commit, Write
  <2>11. CASE Expire(h) \/ Confirm(h)
    BY <2>11 DEF Expire, Confirm, Holds, Abort, Rollback, Judge, Stop, Commit, Write
  <2>12. CASE Failed(h)
    BY <2>12 DEF Failed, Commit, Rollback
  <2> QED
    BY <1>1, <2>1, <2>2, <2>3, <2>4, <2>5, <2>6, <2>7, <2>8, <2>9, <2>10, <2>11, <2>12 DEF Request
<1>2. ASSUME NEW h \in Requests, Lose(h) \/ Crash(h)
      PROVE  /\ closing' = closing
             /\ \A k \in Ticks : lock = k => UNCHANGED <<rows, draft, lock>>
             /\ \A k \in Ticks : lock # k => lock' # k
  BY <1>2 DEF Lose, Crash, Holds, Abort, Rollback
<1>3. ASSUME NEW a \in Attempts, Observe(a)
      PROVE  /\ closing' = closing
             /\ \A k \in Ticks : lock = k => UNCHANGED <<rows, draft, lock>>
             /\ \A k \in Ticks : lock # k => lock' # k
  BY <1>3 DEF Observe, Commit
<1>4. CASE Outside
  BY <1>4 DEF Outside, Pay, Link, Cancel, Lapse, Becomes, Grow, Arrive
<1> QED
  BY <1>1, <1>2, <1>3, <1>4 DEF Next

\* Every step of buying leaves what is known of the sessions.
LEMMA StripeGoesOn ==
    ASSUME BuyInv, Next
    PROVE  Later
<1>1. TypeOK /\ SessionsSound
  BY DEF BuyInv
<1>2. CASE UNCHANGED <<sessions, age>>
  BY <1>1, <1>2, StripeStill
<1>3. ASSUME NEW a \in Attempts, Creates(a), UNCHANGED age PROVE Later
  BY <1>1, <1>3, CreatesKeeps
<1>4. ASSUME NEW s \in DOMAIN sessions, NEW new, MayFollow(s, new), sessions' = [sessions EXCEPT ![s] = new],
             UNCHANGED age
      PROVE  Later
  BY <1>1, <1>4, SessionBecomes
<1>5. ASSUME NEW h \in Requests, Request(h) PROVE Later
  <2>1. CASE Post(h) \/ Replay(h)
    <3>1. call[h].pc = "post" => call[h].row \in 1 .. Len(rows)
      BY Typed DEF BuyInv, Calls, Loose, Holding, Inside, Tables
    <3>2. call[h].pc = "replay" => call[h].seen \in 1 .. Len(rows)
      BY DEF BuyInv, Calls, Loose, Source
    <3>3. \A b \in 1 .. Len(rows) : b \in Attempts
      BY <1>1, Typed
    <3> QED
      BY <1>3, <2>1, <3>1, <3>2, <3>3 DEF Post, Replay, At
  <2>2. CASE Expire(h)
    <3>1. PICK a \in Nat : a = call[h].seen
      BY <1>1, Typed, PlaceTyped
    <3>2. call[h].pc = "expire" /\ a \in 1 .. Len(draft) /\ a = Len(draft) /\ draft[a].session # NoSession
      BY <2>2, <3>1 DEF BuyInv, Calls, Loose, Holding, Source, Tables, Expire, At
    <3> DEFINE s == draft[a].session
               new == [sessions[s] EXCEPT !.status = "expired"]
    <3>3. s \in DOMAIN sessions
      BY <1>1, <3>2, AnswersTyped DEF BuyInv, Tables, Truth, RowTrue
    <3>4. UNCHANGED age /\ (UNCHANGED sessions \/ (sessions[s].status = "open" /\ sessions' = [sessions EXCEPT ![s] = new]))
      BY <2>2, <3>1 DEF Expire
    <3>5. sessions[s].status = "open" => MayFollow(s, new)
      BY <1>1, <3>3, Expired
    <3> HIDE DEF s, new
    <3> QED
      BY <1>2, <1>4, <3>3, <3>4, <3>5
  <2>3. CASE ~(Post(h) \/ Replay(h) \/ Expire(h))
    <3>1. UNCHANGED <<sessions, age>>
      BY <1>5, <2>3 DEF Request, Ask, Resume, LockStart, Sync, Insert, Relock, Record, LockReplace, Reopen,
         Canonical, Retrieve, Confirm, Failed, stripe
    <3> QED
      BY <1>2, <3>1
  <2> QED
    BY <2>1, <2>2, <2>3
<1>6. ASSUME NEW h \in Requests, Lose(h) \/ Crash(h) PROVE Later
  BY <1>2, <1>6 DEF Lose, Crash, stripe
<1>7. ASSUME NEW a \in Attempts, Observe(a) PROVE Later
  BY <1>2, <1>7 DEF Observe, stripe
<1>8. ASSUME NEW s \in DOMAIN sessions, Pay(s) \/ Link(s) \/ Cancel(s) \/ Lapse(s) PROVE Later
  <2>1. CASE Pay(s)
    BY <1>1, <1>4, <2>1, Paid DEF Pay, Becomes
  <2>2. CASE Link(s)
    BY <1>1, <1>4, <2>2, LinkedUp DEF Link, Becomes
  <2>3. CASE Cancel(s)
    BY <1>1, <1>4, <2>3, Cancelled DEF Cancel, Becomes
  <2>4. CASE Lapse(s)
    BY <1>1, <1>4, <2>4, Expired DEF Lapse, Becomes
  <2> QED
    BY <1>8, <2>1, <2>2, <2>3, <2>4
<1>9. ASSUME NEW a \in Attempts, Grow(a) PROVE Later
  <2>1. age[a] \in 0 .. 2 /\ age \in [Attempts -> 0 .. 2] /\ sessions' = sessions /\ age' = [age EXCEPT ![a] = @ + 1]
    BY <1>1, <1>9, Typed DEF TypeOK, Grow
  <2>2. \A b \in Attempts : age[b] \in 0 .. 2 /\ age'[b] = IF b = a THEN age[a] + 1 ELSE age[b]
    BY <2>1
  <2> QED
    BY <2>1, <2>2 DEF Later
<1>10. ASSUME NEW a \in Attempts, Arrive(a) PROVE Later
  BY <1>3, <1>10 DEF Arrive
<1> QED
  BY <1>5, <1>6, <1>7, <1>8, <1>9, <1>10 DEF Next, Outside

\* While the account's windows go on, no loop loses what it is sure of.
LEMMA BuyingTicks ==
    ASSUME BuyInv, BuyInv', Ticking, Next, UNCHANGED closureVars
    PROVE  Ticking'
<1>1. /\ Later /\ closing' = closing
      /\ \A k \in Ticks : lock = k => UNCHANGED <<rows, draft, lock>>
      /\ \A k \in Ticks : lock # k => lock' # k
  BY StripeGoesOn, RequestsWait, CheckoutAssumption
<1>2. /\ UNCHANGED <<tick, closure, work, notice>> /\ closure \in Closure /\ work \in BOOLEAN /\ notice \in Notice
      /\ closure.state # "none" \/ closure.done => closing
  BY DEF closureVars, Ticking
<1>3. ASSUME NEW k \in Ticks, lock = k PROVE Dealt(k)'
  <2>1. \A a \in 1 .. Len(draft) : Finished(a) => Finished(a)'
    <3>1. \A a \in 1 .. Len(draft) : a \in Attempts
      BY Typed DEF BuyInv, Tables
    <3> QED
      BY <1>1, <3>1, LastingFinish DEF BuyInv
  <2>2. \A a \in 1 .. Len(draft) : draft[a].session # NoSession => draft[a].session \in DOMAIN sessions
    BY AnswersTyped DEF BuyInv, Tables, Truth, RowTrue
  <2>3. Dealt(k) /\ draft' = draft /\ lock' = lock /\ tick' = tick
    BY <1>1, <1>2, <1>3 DEF Ticking
  <2>4. tick[k].attempt \in Nat /\ tick[k].attempt > 0 /\ Len(draft) \in Nat
    BY TickFacts, TickTyped, Typed DEF BuyInv
  <2>5. tick[k].pc = "stop" => tick[k].attempt \in 1 .. Len(draft)
    BY <2>3, <2>4 DEF Dealt
  <2> QED
    BY <1>1, <2>1, <2>2, <2>3, <2>4, <2>5 DEF Dealt, Later
<1>4. \A k \in Ticks : lock = k <=> lock' = k
  BY <1>1
<1> QED
  BY <1>1, <1>2, <1>3, <1>4, NoTickMoves

-----------------------------------------------------------------------------
(* After the closure.                                                          *)

\* The sessions of a closed account may still be linked, no more.
LEMMA ClosedLasts ==
    ASSUME Closed, UNCHANGED <<rows, draft, closing, age>>,
           call' \in [Requests -> Place], lock' \in Ticks \cup {Free},
           faults' \in 0 .. MaxFaults, intents' = intents, flying' \subseteq flying,
           \A h \in Requests : call'[h].pc \notin Inside,
           UNCHANGED sessions \/ \E s \in DOMAIN sessions : Link(s)
    PROVE  Closed'
<1>1. TypeOK /\ SessionsSound /\ closing /\ rows = <<>> /\ draft = <<>>
  BY DEF Closed
<1>2. /\ sessions' \in Seq(Session) /\ Len(sessions') = Len(sessions) /\ DOMAIN sessions' = DOMAIN sessions
      /\ SessionsSound' /\ Later
      /\ \A t \in DOMAIN sessions : sessions'[t].attempt = sessions[t].attempt
      /\ \A t \in DOMAIN sessions : sessions'[t].status = sessions[t].status /\ sessions'[t].sub = sessions[t].sub
  <2>1. CASE UNCHANGED sessions
    BY <1>1, <2>1, StripeStill DEF TypeOK
  <2>2. ASSUME NEW s \in DOMAIN sessions, Link(s)
        PROVE  /\ sessions' \in Seq(Session) /\ Len(sessions') = Len(sessions) /\ DOMAIN sessions' = DOMAIN sessions
               /\ SessionsSound' /\ Later
               /\ \A t \in DOMAIN sessions : sessions'[t].attempt = sessions[t].attempt
               /\ \A t \in DOMAIN sessions : sessions'[t].status = sessions[t].status /\ sessions'[t].sub = sessions[t].sub
    <3> DEFINE new == [sessions[s] EXCEPT !.linked = TRUE]
    <3>1. MayFollow(s, new) /\ sessions' = [sessions EXCEPT ![s] = new]
      BY <1>1, <2>2, LinkedUp DEF Link, Becomes
    <3>2. sessions[s] \in Session /\ sessions \in Seq(Session)
      BY <1>1, Typed DEF TypeOK
    <3>3. new.status = sessions[s].status /\ new.sub = sessions[s].sub
      BY <3>2 DEF Session
    <3> HIDE DEF new
    <3>4. /\ sessions' \in Seq(Session) /\ Len(sessions') = Len(sessions) /\ DOMAIN sessions' = DOMAIN sessions
          /\ SessionsSound' /\ Later
          /\ \A t \in DOMAIN sessions : sessions'[t].attempt = sessions[t].attempt
      BY <1>1, <3>1, SessionBecomes
    <3>5. \A t \in DOMAIN sessions : sessions'[t] = IF t = s THEN new ELSE sessions[t]
      BY <3>1, <3>2
    <3> QED
      BY <3>3, <3>4, <3>5
  <2> QED
    BY <2>1, <2>2
<1>3. TypeOK'
  <2>1. flying' \subseteq Attempts /\ lock' \in Requests \cup Ticks \cup {Free}
    BY <1>1 DEF TypeOK
  <2> QED
    BY <1>1, <1>2, <2>1 DEF TypeOK
<1>4. \A s \in DOMAIN sessions' : ~Payable(s)'
  BY <1>2 DEF Closed, Payable
<1>5. \A a : Answers(a)' = Answers(a)
  BY <1>2 DEF Answers
<1>6. \A a \in flying' : Answers(a)' = {} => age'[a] > 0
  BY <1>5 DEF Closed
<1>7. lock' \notin Requests
  BY CheckoutAssumption
<1> QED
  BY <1>1, <1>2, <1>3, <1>4, <1>6, <1>7 DEF Closed

\* A request that was under way only ends.
LEMMA ClosedRefuses ==
    ASSUME Closed, NEW h \in Requests, Request(h) \/ Lose(h) \/ Crash(h)
    PROVE  /\ Over(h) /\ UNCHANGED <<rows, draft, closing, lock, sessions, age, flying, intents>>
           /\ faults' \in 0 .. MaxFaults
<1>1. closing /\ lock # h /\ call[h].pc \notin Inside /\ rows = <<>> /\ draft = <<>> /\ faults \in 0 .. MaxFaults
  BY DEF Closed, TypeOK
<1>2. /\ \A op, t, a : ~Ask(h, op, t, a)
      /\ ~Resume(h) /\ ~Sync(h) /\ ~Insert(h) /\ ~Post(h) /\ ~Record(h) /\ ~Canonical(h) /\ ~Replay(h) /\ ~Retrieve(h)
      /\ ~Expire(h) /\ ~Confirm(h) /\ ~Lose(h)
  BY <1>1 DEF Ask, Resume, Sync, Insert, Post, Record, Canonical, Replay, Retrieve, Expire, Confirm, Lose, Holds
<1>3. CASE LockStart(h) \/ Relock(h) \/ Reopen(h) \/ Failed(h)
  BY <1>1, <1>3 DEF LockStart, Relock, Reopen, Failed, stripe
<1>4. CASE LockReplace(h)
  BY <1>1, <1>4 DEF LockReplace, stripe
<1>5. CASE Crash(h)
  BY <1>1, <1>5, CheckoutAssumption DEF Crash, Holds, Fault, At, Inside, Source
<1> QED
  BY <1>2, <1>3, <1>4, <1>5 DEF Request

LEMMA ClosedSteps ==
    ASSUME Closed, Next
    PROVE  Closed'
<1>1. /\ TypeOK /\ SessionsSound /\ closing /\ rows = <<>> /\ Len(rows) = 0 /\ lock \in Ticks \cup {Free}
      /\ (\A h \in Requests : call[h].pc \notin Inside) /\ call \in [Requests -> Place] /\ faults \in 0 .. MaxFaults
  BY DEF Closed, TypeOK
<1>2. ASSUME NEW h \in Requests, Request(h) \/ Lose(h) \/ Crash(h) PROVE Closed'
  <2>1. /\ Move(h, Idle) /\ UNCHANGED <<rows, draft, closing, lock, sessions, age, flying, intents>>
        /\ faults' \in 0 .. MaxFaults
    BY <1>2, ClosedRefuses DEF Over
  <2>2. call' \in [Requests -> Place] /\ call' = [call EXCEPT ![h] = Idle]
    BY <1>1, <2>1, IdlePlace, Moved DEF Move
  <2>3. \A g \in Requests : call'[g].pc \notin Inside
    BY <1>1, <2>2, IdlePlace DEF Inside, Source
  <2> QED
    BY <1>1, <2>1, <2>2, <2>3, ClosedLasts
<1>3. ASSUME NEW a \in Attempts PROVE ~Observe(a) /\ ~Grow(a)
  <2>1. a \in 1 .. MaxAttempts /\ MaxAttempts \in Nat
    BY CheckoutAssumption DEF Attempts
  <2>2. ~(a <= Len(rows))
    BY <1>1, <2>1
  <2> QED
    BY <2>2 DEF Observe, Grow
<1>4. ASSUME NEW s \in DOMAIN sessions PROVE ~Pay(s) /\ ~Cancel(s) /\ ~Lapse(s)
  BY DEF Closed, Payable, Pay, Cancel, Lapse
<1>5. ASSUME NEW s \in DOMAIN sessions, Link(s) PROVE Closed'
  BY <1>1, <1>5, ClosedLasts DEF Link, Becomes
<1>6. ASSUME NEW a \in Attempts, Arrive(a) PROVE Closed'
  <2>1. UNCHANGED <<rows, draft, lock, closing, call, age, intents, faults>> /\ flying' \subseteq flying
    BY <1>6 DEF Arrive
  <2>2. UNCHANGED sessions
    BY <1>6 DEF Arrive, Closed, Creates
  <2> QED
    BY <1>1, <2>1, <2>2, ClosedLasts
<1> QED
  BY <1>2, <1>3, <1>4, <1>5, <1>6 DEF Next, Outside

\* While everything else goes on, no loop of a closed account has to do more.
LEMMA ClosedTicks ==
    ASSUME Closed, Ticking, Next, UNCHANGED closureVars
    PROVE  Ticking'
<1>1. /\ closing' = closing
      /\ \A k \in Ticks : lock = k => UNCHANGED <<rows, draft, lock>>
      /\ \A k \in Ticks : lock # k => lock' # k
  BY RequestsWait, CheckoutAssumption
<1>2. /\ UNCHANGED <<tick, closure, work, notice>> /\ closure \in Closure /\ work \in BOOLEAN /\ notice \in Notice
      /\ closure.state # "none" \/ closure.done => closing
  BY DEF closureVars, Ticking
<1>3. ASSUME NEW k \in Ticks, lock = k PROVE Dealt(k)'
  <2>1. draft = <<>> /\ Len(draft) = 0
    BY DEF Closed
  <2>2. Dealt(k) /\ draft' = draft /\ lock' = lock /\ tick' = tick
    BY <1>1, <1>2, <1>3 DEF Ticking
  <2>3. tick[k].attempt \in Nat /\ tick[k].attempt > 0
    BY TickFacts, TickTyped
  <2>4. tick[k].pc \notin {"expire", "stop"}
    BY <2>1, <2>2, <2>3 DEF Dealt
  <2> QED
    BY <2>1, <2>2, <2>3, <2>4 DEF Dealt
<1>4. \A k \in Ticks : lock = k <=> lock' = k
  BY <1>1
<1> QED
  BY <1>1, <1>2, <1>3, <1>4, NoTickMoves

-----------------------------------------------------------------------------
(* The steps of the closure.                                                   *)

Either == IF closure.done THEN Closed ELSE BuyInv

LEMMA EitherOne ==
    ASSUME Either
    PROVE  /\ TypeOK /\ SessionsSound
           /\ closure.done => draft = rows /\ Len(draft) = 0 /\ lock \in Ticks \cup {Free} /\ closing
           /\ ~closure.done => BuyInv /\ Savable(rows) /\ Savable(draft) /\ Tables
  BY TablesAreSavable DEF Either, Closed, BuyInv, TypeOK

LEMMA ClosureTyped ==
    ASSUME Ticking
    PROVE  /\ closure \in Closure /\ closure.attempts \in 0 .. Tries /\ closure.done \in BOOLEAN /\ closure.removed \in BOOLEAN
           /\ notice \in Notice /\ notice.tries \in 0 .. Tries /\ notice.email \in BOOLEAN
           /\ Tries \in Nat /\ Tries > 0
  BY ClosureAssumption DEF Ticking, Closure, Notice

\* Nothing but the count of faults changes of the account.
LEMMA EitherStays ==
    ASSUME Either, closure'.done = closure.done, faults' \in 0 .. MaxFaults,
           UNCHANGED <<rows, draft, lock, closing, call, sessions, age, flying, intents>>
    PROVE  Either'
<1>1. CASE closure.done
  <2>1. /\ Closed /\ call \in [Requests -> Place] /\ lock \in Ticks \cup {Free}
        /\ \A h \in Requests : call[h].pc \notin Inside
    BY <1>1, EitherOne DEF Either, Closed, TypeOK
  <2>2. Closed'
    BY <2>1, ClosedLasts
  <2> QED
    BY <1>1, <2>2 DEF Either
<1>2. CASE ~closure.done
  <2>1. BuyInv /\ TypeOK /\ SessionsSound /\ Chain
    BY <1>2 DEF Either, BuyInv
  <2>2. /\ TypeOK' /\ SessionsSound' /\ Later
    BY <2>1, StripeStill DEF TypeOK
  <2>3. BuyInv'
    BY <2>1, <2>2, NobodyMoves DEF Chain
  <2> QED
    BY <1>2, <2>3 DEF Either
<1> QED
  BY <1>1, <1>2

\* A transaction of a loop begins, goes on or ends, and saves a table that is true.
LEMMA TickTurn ==
    ASSUME Either, Ticking, NEW k \in Ticks, closing, NEW l \in TickPlace, tick' = [tick EXCEPT ![k] = l],
           lock \in {Free, k}, lock' \in {Free, k}, lock' = Free => draft' = rows',
           IF closure.done THEN UNCHANGED <<rows, draft>> ELSE Savable(rows') /\ Savable(draft'),
           UNCHANGED <<closing, call, intents, sessions, age, flying, work>>, faults' \in 0 .. MaxFaults,
           closure' \in Closure, closure'.done = closure.done, notice' \in Notice,
           tick'[k] = l => Dealt(k)'
    PROVE  Either' /\ Ticking'
<1>1. Ticking'
  BY OneTickMoves
<1>2. lock \notin Requests /\ lock' \in Ticks \cup {Free}
  BY CheckoutAssumption
<1>3. CASE closure.done
  <2>1. Closed /\ call' \in [Requests -> Place] /\ (\A h \in Requests : call'[h].pc \notin Inside)
    BY <1>3 DEF Either, Closed, TypeOK
  <2>2. Closed'
    BY <1>2, <1>3, <2>1, ClosedLasts
  <2> QED
    BY <1>1, <1>3, <2>2 DEF Either
<1>4. CASE ~closure.done
  <2>1. BuyInv'
    BY <1>2, <1>4, OthersSave DEF Either
  <2> QED
    BY <1>1, <1>4, <2>1 DEF Either
<1> QED
  BY <1>3, <1>4

\* Steps that change neither the account nor a loop.
LEMMA NoticeKeeps ==
    ASSUME Either, Ticking, Retry \/ Notify \/ Forget \/ Start \/ End
    PROVE  Either' /\ Ticking'
<1>1. /\ closure \in Closure /\ closure.attempts \in 0 .. Tries /\ closure.done \in BOOLEAN
      /\ notice \in Notice /\ notice.tries \in 0 .. Tries /\ notice.email \in BOOLEAN
      /\ Tries \in Nat /\ Tries > 0 /\ work \in BOOLEAN
  BY ClosureTyped DEF Ticking
<1>2. /\ UNCHANGED <<rows, draft, lock, closing, call, sessions, age, flying, intents, tick>> /\ faults' \in 0 .. MaxFaults
  BY EitherOne DEF Retry, Notify, Forget, Start, End, vars, TypeOK
<1>3. /\ closure' \in Closure /\ closure'.done = closure.done
      /\ closure'.state # "none" \/ closure'.done => closing
  <2>1. CASE Retry
    <3>1. closure' = [closure EXCEPT !.state = "pending", !.attempts = 0] /\ closing /\ 0 \in 0 .. Tries
      BY <1>1, <2>1 DEF Retry
    <3> QED
      BY <1>1, <3>1 DEF Closure
  <2>2. CASE ~Retry
    BY <1>1, <2>2 DEF Notify, Forget, Start, End, Ticking
  <2> QED
    BY <2>1, <2>2
<1>4. work' \in BOOLEAN
  BY <1>1 DEF Retry, Notify, Forget, Start, End
<1>5. notice' \in Notice
  <2>1. CASE Notify
    <3> DEFINE n == IF notice.tries = Tries THEN Tries ELSE notice.tries + 1
    <3>1. n \in 0 .. Tries /\ 0 \in 0 .. Tries /\ (closure.state # "completed") \in BOOLEAN
      BY <1>1
    <3>2. \/ notice' = [state |-> "sent", email |-> closure.state # "completed", tries |-> 0]
          \/ notice' = [notice EXCEPT !.state = "retry", !.tries = n]
          \/ notice' = [notice EXCEPT !.state = "failed", !.tries = 0]
      BY <2>1 DEF Notify
    <3>3. CASE notice' = [notice EXCEPT !.state = "retry", !.tries = n]
      <4> HIDE DEF n
      <4> QED
        BY <1>1, <3>1, <3>3 DEF Notice
    <3>4. CASE notice' = [notice EXCEPT !.state = "failed", !.tries = 0]
      BY <1>1, <3>1, <3>4 DEF Notice
    <3>5. CASE notice' = [state |-> "sent", email |-> closure.state # "completed", tries |-> 0]
      <4> DEFINE open == closure.state # "completed"
      <4>1. open \in BOOLEAN
        OBVIOUS
      <4>2. notice' = [state |-> "sent", email |-> open, tries |-> 0]
        BY <3>5
      <4> HIDE DEF open
      <4> QED
        BY <3>1, <4>1, <4>2 DEF Notice
    <3> QED
      BY <3>2, <3>3, <3>4, <3>5
  <2>2. CASE Forget
    BY <1>1, <2>2 DEF Forget, Notice
  <2>3. CASE Retry \/ Start \/ End
    BY <1>1, <2>3 DEF Retry, Start, End
  <2> QED
    BY <2>1, <2>2, <2>3
<1>6. ASSUME NEW k \in Ticks PROVE Dealt(k)'
  <2>1. \A a : Finished(a) => Finished(a)'
    BY <1>2, StripeStill, EitherOne
  <2> QED
    BY <1>2, <2>1 DEF Ticking, Dealt
<1>7. Ticking'
  BY <1>2, <1>3, <1>4, <1>5, <1>6, NoTickMoves
<1> QED
  BY <1>2, <1>3, <1>7, EitherStays

LEMMA RequestClosureKeeps ==
    ASSUME Either, Ticking, RequestClosure
    PROVE  Either' /\ Ticking'
<1>1. /\ lock = Free /\ ~closing /\ closing' = TRUE
      /\ closure' = [closure EXCEPT !.state = "pending"] /\ notice' = [notice EXCEPT !.email = TRUE]
      /\ UNCHANGED <<rows, draft, lock, call, sessions, age, flying, intents, faults, tick, work>>
  BY DEF RequestClosure
<1>2. ~closure.done /\ BuyInv
  BY <1>1 DEF Ticking, Either
<1>3. closure' \in Closure /\ closure'.done = closure.done /\ notice' \in Notice /\ work \in BOOLEAN
  BY <1>1, ClosureTyped DEF Closure, Notice, Ticking
<1>4. /\ SessionsSound' /\ Later /\ TypeOK' /\ \A a : Finished(a) => Finished(a)'
  BY <1>1, <1>2, StripeStill DEF BuyInv, TypeOK
<1>5. Tables' /\ Chain'
  BY <1>1, <1>2, <1>4, StripeMoves DEF BuyInv, Chain
<1>6. \A g \in Requests : Loose(g)' /\ Holding(g)'
  BY <1>1, <1>2, <1>4 DEF BuyInv, Calls, Loose, Holding
<1>7. lock' \notin Requests
  BY <1>1, CheckoutAssumption
<1>8. BuyInv'
  BY <1>4, <1>5, <1>6, <1>7 DEF BuyInv, Calls
<1>9. \A k \in Ticks : lock # k
  BY <1>1, CheckoutAssumption
<1>10. Ticking'
  BY <1>1, <1>3, <1>9, NoTickMoves
<1> QED
  BY <1>2, <1>3, <1>8, <1>10 DEF Either

\* A session that is found for a row without one is its own.
LEMMA FoundFollows ==
    ASSUME TypeOK, NEW rs, Savable(rs), NEW a \in 1 .. Len(rs), NEW s \in Answers(a), rs[a].session = NoSession
    PROVE  Savable([rs EXCEPT ![a].session = s])
<1> DEFINE row == [rs[a] EXCEPT !.session = s]
<1>1. rs[a] \in Row /\ RowTrue(rs[a], a) /\ s \in SessionIds /\ s # NoSession /\ rs \in Seq(Row) /\ Truth(rs)
  BY AnswersTyped DEF Savable, Truth
<1>2. /\ row \in Row /\ SameTerms(rs[a], row) /\ row.session = s /\ row.status = rs[a].status /\ row.sub = rs[a].sub
  BY <1>1 DEF Row, SameTerms
<1>3. [rs EXCEPT ![a].session = s] = [rs EXCEPT ![a] = row]
  BY <1>1
<1> HIDE DEF row
<1>4. RowTrue(row, a) /\ (OverUnpaid(rs[a]) => OverUnpaid(row))
  BY <1>1, <1>2 DEF RowTrue, OverUnpaid
<1>5. Follows(rs, [rs EXCEPT ![a] = row])
  BY <1>1, <1>2, <1>4, OneRowFollows
<1>6. Savable([rs EXCEPT ![a] = row])
  BY <1>5, WhatFollowsIsSavable
<1> QED
  BY <1>3, <1>6

LEMMA RecoverKeeps ==
    ASSUME Either, Ticking, NEW a \in Attempts, NEW s \in DOMAIN sessions, Recover(a, s)
    PROVE  Either' /\ Ticking'
<1>1. /\ lock = Free /\ closing /\ a <= Len(rows) /\ rows[a].session = NoSession /\ s \in Answers(a)
      /\ Commit([rows EXCEPT ![a].session = s])
      /\ closure' = [closure EXCEPT !.state = "pending", !.attempts = 0]
      /\ UNCHANGED <<closing, call, sessions, age, flying, intents, faults, tick, work, notice>>
  BY DEF Recover, Same
<1>2. TypeOK /\ a \in 1 .. Len(rows)
  BY <1>1, Typed, EitherOne DEF Attempts
<1>3. ~closure.done
  BY <1>2 DEF Either, Closed
<1>4. closure' \in Closure /\ closure'.done = closure.done
  <2>1. 0 \in 0 .. Tries /\ closure \in Closure
    BY ClosureTyped
  <2> QED
    BY <1>1, <2>1 DEF Closure
<1> DEFINE rs == [rows EXCEPT ![a].session = s]
<1>5. Savable(rs)
  BY <1>1, <1>2, <1>3, EitherOne, FoundFollows
<1> HIDE DEF rs
<1>6. BuyInv'
  BY <1>1, <1>3, <1>5, SavingKeeps DEF Either, stripe, rs
<1>7. \A k \in Ticks : lock # k /\ lock' # k
  BY <1>1, CheckoutAssumption DEF Commit
<1>8. notice \in Notice /\ work \in BOOLEAN
  BY DEF Ticking
<1>9. Ticking'
  BY <1>1, <1>4, <1>7, <1>8, NoTickMoves
<1> QED
  BY <1>3, <1>4, <1>6, <1>9 DEF Either

LEMMA EraseFirstKeeps ==
    ASSUME Either, Ticking, NEW k \in Ticks, EraseFirst(k)
    PROVE  Either' /\ Ticking'
<1> DEFINE n == IF closure.attempts = Tries THEN Tries ELSE closure.attempts + 1
           erasing == ~closure.removed /\ ~work
           removed == closure.removed \/ erasing
<1>1. /\ On(k, "idle") /\ lock = Free /\ Open
      /\ UNCHANGED <<rows, draft, lock, closing, call, sessions, age, flying, intents, work, notice>>
      /\ \/ /\ closure' = [closure EXCEPT !.attempts = n, !.removed = removed]
            /\ Goes(k, "relock") /\ UNCHANGED faults
         \/ /\ Fault /\ closure' = [closure EXCEPT !.attempts = n, !.state = "needs_review"] /\ UNCHANGED tick
  BY DEF EraseFirst
<1>2. /\ TypeOK /\ closing /\ closure \in Closure /\ n \in 0 .. Tries /\ removed \in BOOLEAN /\ work \in BOOLEAN
      /\ notice \in Notice
  BY <1>1, EitherOne, ClosureTyped DEF Ticking, Open
<1> HIDE DEF n, removed
<1>3. closure' \in Closure /\ closure'.done = closure.done /\ faults' \in 0 .. MaxFaults
  <2>1. faults' \in 0 .. MaxFaults
    BY <1>1, <1>2, CheckoutAssumption DEF Fault, TypeOK
  <2>2. CASE closure' = [closure EXCEPT !.attempts = n, !.removed = removed]
    BY <1>2, <2>1, <2>2 DEF Closure
  <2>3. CASE closure' = [closure EXCEPT !.attempts = n, !.state = "needs_review"]
    BY <1>2, <2>1, <2>3 DEF Closure
  <2> QED
    BY <1>1, <2>2, <2>3
<1>4. Either'
  BY <1>1, <1>3, EitherStays
<1>5. CASE Goes(k, "relock")
  <2> DEFINE l == [tick[k] EXCEPT !.pc = "relock"]
  <2>1. tick[k] \in TickPlace /\ Dealt(k) /\ k # Free /\ tick[k].pc = "idle"
    BY <1>1, TickFacts DEF On
  <2>2. l \in TickPlace /\ l.pc = "relock" /\ l.attempt = 1
    BY <2>1, TickGoes DEF Dealt
  <2>3. tick' = [tick EXCEPT ![k] = l]
    BY <1>5 DEF Goes
  <2> HIDE DEF l
  <2>4. tick'[k] = l => Dealt(k)'
    BY <1>1, <2>1, <2>2 DEF Dealt, Looking
  <2> QED
    BY <1>1, <1>2, <1>3, <1>4, <2>2, <2>3, <2>4, OneTickMoves
<1>6. CASE UNCHANGED tick
  <2>1. \A j \in Ticks : lock # j
    BY <1>1, CheckoutAssumption
  <2> QED
    BY <1>1, <1>2, <1>3, <1>4, <1>6, <2>1, NoTickMoves
<1> QED
  BY <1>1, <1>5, <1>6

LEMMA RelockTickKeeps ==
    ASSUME Either, Ticking, NEW k \in Ticks, RelockTick(k)
    PROVE  Either' /\ Ticking'
<1>1. /\ On(k, "relock") /\ lock = Free /\ ((lock' = k /\ Goes(k, "look")) \/ (Sleeps(k) /\ UNCHANGED lock))
      /\ UNCHANGED <<rows, draft, closing, call, sessions, age, flying, intents, faults, closure, work, notice>>
  BY DEF RelockTick
<1>2. /\ tick[k] \in TickPlace /\ Dealt(k) /\ k # Free /\ tick[k].pc = "relock" /\ tick[k].attempt = 1 /\ closing
  BY <1>1, TickFacts DEF On, Dealt
<1>3. /\ faults' \in 0 .. MaxFaults /\ closure' \in Closure /\ closure'.done = closure.done /\ notice' \in Notice
      /\ draft = rows /\ Len(draft) \in Nat
      /\ IF closure.done THEN UNCHANGED <<rows, draft>> ELSE Savable(rows') /\ Savable(draft')
  BY <1>1, EitherOne, ClosureTyped, Typed DEF TypeOK, Tables
<1>4. CASE lock' = k /\ Goes(k, "look")
  <2> DEFINE l == [tick[k] EXCEPT !.pc = "look"]
  <2>1. l \in TickPlace /\ l.pc = "look" /\ l.attempt = 1
    BY <1>2, TickGoes
  <2>2. tick' = [tick EXCEPT ![k] = l]
    BY <1>4 DEF Goes
  <2> HIDE DEF l
  <2>3. tick'[k] = l => Dealt(k)'
    BY <1>1, <1>3, <1>4, <2>1 DEF Dealt, Looking
  <2> QED
    BY <1>1, <1>2, <1>3, <1>4, <2>1, <2>2, <2>3, TickTurn
<1>5. CASE Sleeps(k) /\ UNCHANGED lock
  <2>1. tick' = [tick EXCEPT ![k] = Asleep]
    BY <1>5 DEF Sleeps
  <2>2. tick'[k] = Asleep => Dealt(k)'
    BY <1>1, <1>2, <1>5, AsleepTyped DEF Dealt, Looking
  <2> QED
    BY <1>1, <1>2, <1>3, <1>5, <2>1, <2>2, AsleepTyped, TickTurn
<1> QED
  BY <1>1, <1>4, <1>5

\* The ends of a loop's transactions.
LEMMA SleepsKeeps ==
    ASSUME Either, Ticking, NEW k \in Ticks, closing, Sleeps(k), closure' \in Closure, closure'.done = closure.done,
           UNCHANGED <<closing, call, sessions, age, flying, intents, work, notice>>, faults' \in 0 .. MaxFaults,
           IF lock = k THEN Rollback ELSE UNCHANGED <<rows, draft, lock>>
    PROVE  Either' /\ Ticking'
<1>1. tick' = [tick EXCEPT ![k] = Asleep] /\ k # Free /\ notice' \in Notice
  BY ClosureTyped, TickFacts DEF Sleeps
<1>2. lock' # k
  BY <1>1 DEF Rollback
<1>3. tick'[k] = Asleep => Dealt(k)'
  BY <1>2, AsleepTyped DEF Dealt, Looking
<1>4. CASE lock = k
  BY <1>1, <1>3, <1>4, EitherOne, AsleepTyped, TickTurn DEF Rollback
<1>5. CASE lock # k
  <2>1. Either'
    BY <1>5, EitherStays
  <2>2. IF lock \in {Free, k} THEN lock' \in {Free, k} ELSE UNCHANGED <<draft, lock, sessions, age>>
    BY <1>5
  <2>3. Ticking'
    BY <1>1, <1>3, <2>2, AsleepTyped, OneTickMoves
  <2> QED
    BY <2>1, <2>3
<1> QED
  BY <1>4, <1>5

LEMMA CrashTickKeeps ==
    ASSUME Either, Ticking, NEW k \in Ticks, CrashTick(k)
    PROVE  Either' /\ Ticking'
<1>1. closing /\ closure' \in Closure /\ closure'.done = closure.done /\ faults' \in 0 .. MaxFaults
  BY ClosureTyped, TickFacts, EitherOne, CheckoutAssumption DEF CrashTick, On, Fault, TypeOK
<1> QED
  BY <1>1, SleepsKeeps DEF CrashTick

LEMMA FailTickKeeps ==
    ASSUME Either, Ticking, NEW k \in Ticks, FailTick(k)
    PROVE  Either' /\ Ticking'
<1>1. /\ closing /\ lock # k /\ faults' \in 0 .. MaxFaults
      /\ UNCHANGED <<rows, draft, lock, closing, call, sessions, age, flying, intents, work, notice>>
  BY TickFacts, EitherOne DEF FailTick, On, vars, TypeOK
<1>2. closure' \in Closure /\ closure'.done = closure.done
  BY ClosureTyped DEF FailTick, Closure
<1> QED
  BY <1>1, <1>2, SleepsKeeps DEF FailTick

LEMMA FailsKeeps ==
    ASSUME Either, Ticking, NEW k \in Ticks, lock = k, Fails(k), faults' \in 0 .. MaxFaults,
           UNCHANGED <<closing, call, sessions, age, flying, intents, closure, work, notice>>
    PROVE  Either' /\ Ticking'
<1> DEFINE l == [tick[k] EXCEPT !.pc = "failed"]
<1>1. tick[k] \in TickPlace /\ k # Free /\ closing /\ closure \in Closure /\ notice \in Notice
  BY TickFacts, ClosureTyped
<1>2. l \in TickPlace /\ l.pc = "failed" /\ tick' = [tick EXCEPT ![k] = l]
  BY <1>1, TickGoes DEF Fails, Goes
<1> HIDE DEF l
<1>3. lock' = Free /\ draft' = rows /\ rows' = rows
  BY DEF Fails, Rollback
<1>4. tick'[k] = l => Dealt(k)'
  BY <1>1, <1>2, <1>3 DEF Dealt, Looking
<1>5. IF closure.done THEN UNCHANGED <<rows, draft>> ELSE Savable(rows') /\ Savable(draft')
  BY <1>3, EitherOne
<1> QED
  BY <1>1, <1>2, <1>3, <1>4, <1>5, TickTurn

LEMMA LoseTickKeeps ==
    ASSUME Either, Ticking, NEW k \in Ticks, LoseTick(k)
    PROVE  Either' /\ Ticking'
<1>1. lock = k /\ faults' \in 0 .. MaxFaults
  BY TickFacts, EitherOne, CheckoutAssumption DEF LoseTick, On, Fault, TypeOK, Dealt, Looking
<1> QED
  BY <1>1, FailsKeeps DEF LoseTick

\* What a loop does with an attempt that has no session and no subscription.
LEMMA LookWithoutSession ==
    ASSUME NEW k \in Ticks, Look(k), ~(tick[k].attempt > Len(draft)),
           draft[tick[k].attempt].session = NoSession, draft[tick[k].attempt].sub = "none"
    PROVE  LET a == tick[k].attempt IN
           \/ MayArrive(a) /\ Next1(k, TRUE) /\ UNCHANGED <<rows, draft, lock>>
           \/ /\ ~MayArrive(a) /\ Answers(a) = {}
              /\ Write([draft EXCEPT ![a].status = "expired"]) /\ Next1(k, FALSE)
           \/ /\ \E found \in Answers(a) : Write([draft EXCEPT ![a].session = found])
              /\ UNCHANGED tick
  BY Zenon DEF Look

\* One attempt is looked at under the account's row.
LEMMA LookKeeps ==
    ASSUME Either, Ticking, NEW k \in Ticks, Look(k)
    PROVE  Either' /\ Ticking'
<1>1. PICK a \in Nat : a = tick[k].attempt
  BY TickFacts, TickTyped
<1>2. /\ On(k, "look") /\ lock = k /\ UNCHANGED <<closing, call, sessions, age, flying, intents, faults, closure, work, notice>>
  BY DEF Look, Same
<1>3. /\ tick[k] \in TickPlace /\ Dealt(k) /\ k # Free /\ closing /\ tick[k].pc = "look" /\ a > 0
      /\ closure' \in Closure /\ closure'.done = closure.done /\ notice' \in Notice /\ faults' \in 0 .. MaxFaults
      /\ TypeOK /\ SessionsSound /\ Len(draft) \in Nat
  BY <1>1, <1>2, TickFacts, TickTyped, ClosureTyped, EitherOne, Typed DEF On, TypeOK
<1>4. a <= Len(draft) + 1 /\ (tick[k].issues \/ \A b \in 1 .. Len(draft) : b < a => Finished(b))
  BY <1>1, <1>3 DEF Dealt, Looking
<1>5. \A b : Answers(b)' = Answers(b) /\ (Finished(b) => Finished(b)')
  BY <1>2, <1>3, StripeStill
<1>6. ASSUME NEW l \in TickPlace, tick' = [tick EXCEPT ![k] = l], UNCHANGED <<rows, draft, lock>>,
             tick'[k] = l => Dealt(k)'
      PROVE  Either' /\ Ticking'
  <2>1. lock' = k
    BY <1>2, <1>6
  <2>2. IF closure.done THEN UNCHANGED <<rows, draft>> ELSE Savable(rows') /\ Savable(draft')
    BY <1>6, EitherOne
  <2> QED
    BY <1>2, <1>3, <1>6, <2>1, <2>2, TickTurn
<1>7. CASE a > Len(draft)
  <2> DEFINE l == [tick[k] EXCEPT !.pc = "finish"]
  <2>1. tick' = [tick EXCEPT ![k] = l] /\ UNCHANGED <<rows, draft, lock>>
    BY <1>1, <1>7 DEF Look, Goes
  <2>2. l \in TickPlace /\ l.pc = "finish" /\ l.attempt = a /\ l.issues = tick[k].issues
    BY <1>1, <1>3, TickGoes
  <2> HIDE DEF l
  <2>3. tick'[k] = l => Dealt(k)'
    BY <1>2, <1>3, <1>4, <1>5, <1>7, <2>1, <2>2 DEF Dealt, Looking
  <2> QED
    BY <1>6, <2>1, <2>2, <2>3
<1>8. CASE a <= Len(draft)
  <2>1. a \in 1 .. Len(draft) /\ ~closure.done
    BY <1>3, <1>8, EitherOne
  <2>2. /\ BuyInv /\ Savable(rows) /\ Savable(draft) /\ draft \in Seq(Row) /\ Truth(draft)
        /\ draft[a] \in Row /\ RowTrue(draft[a], a) /\ a <= MaxAttempts /\ a \in Attempts
    BY <2>1, EitherOne, Typed DEF Truth, Savable, Attempts
  <2> DEFINE row == draft[a]
             s == row.session
  <2>3. ASSUME NEW rs, Savable(rs), Write(rs), NEW l \in TickPlace, tick' = [tick EXCEPT ![k] = l],
               tick'[k] = l /\ draft' = rs => Dealt(k)'
        PROVE  Either' /\ Ticking'
    <3>1. rows' = rows /\ draft' = rs /\ lock' = k
      BY <1>2, <2>3 DEF Write
    <3> QED
      BY <1>2, <1>3, <2>1, <2>2, <2>3, <3>1, TickTurn
  <2>4. CASE s # NoSession /\ sessions[s].status = "open"
    <3> DEFINE l == [tick[k] EXCEPT !.pc = "expire"]
    <3>1. tick' = [tick EXCEPT ![k] = l] /\ UNCHANGED <<rows, draft, lock>>
      BY <1>1, <1>3, <1>8, <2>4 DEF Look, Goes
    <3>2. l \in TickPlace /\ l.pc = "expire" /\ l.attempt = a /\ l.issues = tick[k].issues
      BY <1>1, <1>3, TickGoes
    <3> HIDE DEF l
    <3>3. tick'[k] = l => Dealt(k)'
      BY <1>2, <1>3, <1>4, <1>5, <1>8, <2>4, <3>1, <3>2 DEF Dealt, Looking
    <3> QED
      BY <1>6, <3>1, <3>2, <3>3
  <2>5. CASE s # NoSession /\ sessions[s].status # "open" /\ ~Accepts(row, s)
    <3>1. Fails(k)
      BY <1>1, <1>3, <1>8, <2>5 DEF Look
    <3> QED
      BY <1>2, <1>3, <3>1, FailsKeeps
  <2>6. CASE s # NoSession /\ sessions[s].status # "open" /\ Accepts(row, s)
    <3> DEFINE new == Observed(row, s)
               l == [tick[k] EXCEPT !.pc = "stop"]
               rs == [draft EXCEPT ![a] = new]
    <3>1. tick' = [tick EXCEPT ![k] = l] /\ Write(rs)
      BY <1>1, <1>3, <1>8, <2>6 DEF Look, Goes
    <3>2. l \in TickPlace /\ l.pc = "stop" /\ l.attempt = a /\ l.issues = tick[k].issues
      BY <1>1, <1>3, TickGoes
    <3>3. s \in Answers(a)
      BY <2>2, <2>6 DEF RowTrue
    <3>4. /\ new \in Row /\ RowTrue(new, a) /\ SameTerms(row, new) /\ (OverUnpaid(row) => OverUnpaid(new))
          /\ new.session = s /\ new.status = sessions[s].status
      BY <1>3, <2>2, <2>6, <3>3, ObservedRow
    <3> HIDE DEF new, l
    <3>5. Follows(draft, rs)
      BY <2>1, <2>2, <3>4, OneRowFollows
    <3>6. Len(rs) = Len(draft) /\ rs[a] = new
      BY <2>1, <2>2
    <3> HIDE DEF rs
    <3>7. Savable(rs)
      BY <2>2, <3>5, WhatFollowsIsSavable
    <3>8. sessions[s].status = "complete" => new.sub # "none"
      BY <3>4 DEF RowTrue
    <3>9. tick'[k] = l /\ draft' = rs => Dealt(k)'
      BY <1>2, <1>3, <1>4, <1>5, <1>8, <2>6, <3>1, <3>2, <3>4, <3>6, <3>8 DEF Dealt, Looking, Write
    <3> QED
      BY <2>3, <3>1, <3>2, <3>7, <3>9
  <2>7. CASE s = NoSession /\ row.sub # "none"
    <3> DEFINE l == [tick[k] EXCEPT !.pc = "stop"]
    <3>1. tick' = [tick EXCEPT ![k] = l] /\ UNCHANGED <<rows, draft, lock>>
      BY <1>1, <1>3, <1>8, <2>7 DEF Look, Goes
    <3>2. l \in TickPlace /\ l.pc = "stop" /\ l.attempt = a /\ l.issues = tick[k].issues
      BY <1>1, <1>3, TickGoes
    <3> HIDE DEF l
    <3>3. tick'[k] = l => Dealt(k)'
      BY <1>2, <1>3, <1>4, <1>5, <1>8, <2>7, <3>1, <3>2 DEF Dealt, Looking
    <3> QED
      BY <1>6, <3>1, <3>2, <3>3
  <2>8. s = NoSession /\ row.sub = "none" =>
          \/ MayArrive(a) /\ Next1(k, TRUE) /\ UNCHANGED <<rows, draft, lock>>
          \/ /\ ~MayArrive(a) /\ Answers(a) = {}
             /\ Write([draft EXCEPT ![a].status = "expired"]) /\ Next1(k, FALSE)
          \/ /\ \E found \in Answers(a) : Write([draft EXCEPT ![a].session = found])
             /\ UNCHANGED tick
    <3>1. ~(tick[k].attempt > Len(draft))
      BY <1>1, <1>3, <1>8
    <3> QED
      BY <1>1, <3>1, LookWithoutSession
  <2>9. CASE s = NoSession /\ row.sub = "none" /\ MayArrive(a) /\ Next1(k, TRUE) /\ UNCHANGED <<rows, draft, lock>>
    <3> DEFINE l == [tick[k] EXCEPT !.pc = "look", !.attempt = @ + 1, !.issues = @ \/ TRUE]
    <3>1. tick' = [tick EXCEPT ![k] = l] /\ UNCHANGED <<rows, draft, lock>>
      BY <1>1, <2>9 DEF Next1
    <3>2. l \in TickPlace /\ l.pc = "look" /\ l.attempt = a + 1 /\ l.issues
      BY <1>1, <1>3, <2>2, TickGoesOn
    <3> HIDE DEF l
    <3>3. tick'[k] = l => Dealt(k)'
      BY <1>2, <1>3, <1>8, <3>1, <3>2 DEF Dealt, Looking
    <3> QED
      BY <1>6, <3>1, <3>2, <3>3
  <2>10. CASE s = NoSession /\ row.sub = "none" /\ ~MayArrive(a) /\ Answers(a) = {}
                /\ Write([draft EXCEPT ![a].status = "expired"]) /\ Next1(k, FALSE)
    <3> DEFINE new == [row EXCEPT !.status = "expired"]
               rs == [draft EXCEPT ![a] = new]
               l == [tick[k] EXCEPT !.pc = "look", !.attempt = @ + 1, !.issues = @ \/ FALSE]
    <3>1. tick' = [tick EXCEPT ![k] = l] /\ Write(rs)
      BY <1>1, <2>10 DEF Next1
    <3>2. l \in TickPlace /\ l.pc = "look" /\ l.attempt = a + 1 /\ l.issues = (tick[k].issues \/ FALSE)
      BY <1>1, <1>3, <2>2, TickGoesOn
    <3>3. new \in Row /\ SameTerms(row, new) /\ new.session = s /\ new.status = "expired" /\ new.sub = row.sub
      BY <2>2 DEF Row, SameTerms
    <3>4. age[a] > 0
      BY <1>3, <2>2, <2>10, Typed DEF MayArrive
    <3> HIDE DEF new, l
    <3>5. RowTrue(new, a) /\ OverUnpaid(new) /\ Finished(a)
      BY <2>10, <3>3, <3>4 DEF RowTrue, OverUnpaid, Finished
    <3>6. Follows(draft, rs)
      BY <2>1, <2>2, <3>3, <3>5, OneRowFollows
    <3>7. Len(rs) = Len(draft)
      BY <2>2
    <3> HIDE DEF rs
    <3>8. Savable(rs)
      BY <2>2, <3>6, WhatFollowsIsSavable
    <3>9. l.issues \/ \A b \in 1 .. Len(draft) : b < a + 1 => Finished(b)
      <4>1. CASE tick[k].issues
        BY <3>2, <4>1
      <4>2. CASE ~tick[k].issues
        <5>1. \A b \in 1 .. Len(draft) : b < a + 1 => b < a \/ b = a
          BY <1>3
        <5> QED
          BY <1>4, <3>5, <4>2, <5>1
      <4> QED
        BY <4>1, <4>2
    <3>10. tick'[k] = l /\ draft' = rs => Dealt(k)'
      BY <1>2, <1>3, <1>5, <1>8, <3>1, <3>2, <3>7, <3>9 DEF Dealt, Looking, Write
    <3> QED
      BY <2>3, <3>1, <3>2, <3>8, <3>10
  <2>11. ASSUME s = NoSession, NEW found \in Answers(a), Write([draft EXCEPT ![a].session = found]), UNCHANGED tick
         PROVE  Either' /\ Ticking'
    <3> DEFINE rs == [draft EXCEPT ![a].session = found]
    <3>1. Savable(rs)
      BY <1>3, <2>1, <2>2, <2>11, FoundFollows
    <3>2. Len(rs) = Len(draft) /\ Write(rs)
      BY <2>2, <2>11
    <3> HIDE DEF rs
    <3>3. tick' = [tick EXCEPT ![k] = tick[k]]
      BY <2>11 DEF Ticking
    <3>4. draft' = rs => Dealt(k)'
      BY <1>2, <1>3, <1>5, <2>11, <3>2 DEF Dealt, Looking, Write
    <3> QED
      BY <1>3, <2>3, <3>1, <3>2, <3>3, <3>4
  <2> QED
    BY <2>4, <2>5, <2>6, <2>7, <2>8, <2>9, <2>10, <2>11
<1> QED
  BY <1>3, <1>7, <1>8

\* A loop ends something at Stripe and writes it down for the attempt it is at.
LEMMA EndingKeeps ==
    ASSUME BuyInv, Ticking, NEW k \in Ticks, lock = k, closing, ~closure.done, closure' = closure,
           UNCHANGED <<rows, lock, closing, call, age, flying, intents, faults, work, notice>>,
           sessions' \in Seq(Session), Len(sessions') = Len(sessions), SessionsSound', Later,
           \A s \in DOMAIN sessions' : sessions'[s].attempt <= Len(rows),
           NEW a \in 1 .. Len(draft), a = tick[k].attempt,
           NEW row \in Row, draft' = [draft EXCEPT ![a] = row], SameTerms(draft[a], row), RowTrue(row, a)',
           OverUnpaid(draft[a]) => OverUnpaid(row), Finished(a)',
           NEW issue \in BOOLEAN, Next1(k, issue),
           tick[k].issues \/ \A b \in 1 .. Len(draft) : b < a => Finished(b)
    PROVE  BuyInv' /\ Ticking'
<1>1. /\ TypeOK /\ SessionsSound /\ Tables /\ Chain /\ draft \in Seq(Row) /\ Len(draft) \in Nat /\ k # Free
      /\ tick[k] \in TickPlace /\ a <= MaxAttempts /\ k \notin Requests /\ MaxAttempts \in Nat
      /\ Truth(draft) /\ Consent(draft) /\ Len(draft) = Len(rows) /\ \A b \in 1 .. Len(draft) : b \in Attempts
  <2>1. TypeOK /\ SessionsSound /\ Tables /\ Chain
    BY DEF BuyInv
  <2> QED
    BY <2>1, Typed, TickFacts DEF Tables
<1>2. /\ draft' \in Seq(Row) /\ Len(draft') = Len(draft)
      /\ \A b \in 1 .. Len(draft) : draft'[b] = IF b = a THEN row ELSE draft[b]
  BY <1>1, SetRow
<1>3. TypeOK'
  BY <1>1, <1>2 DEF TypeOK
<1>4. Truth(draft)'
  <2>1. ASSUME NEW b \in 1 .. Len(draft), NEW r, b # a, r = draft[b] PROVE RowTrue(r, b)'
    <3>1. b \in Attempts /\ RowTrue(r, b)
      BY <1>1, <2>1 DEF Truth
    <3> QED
      BY <1>1, <1>3, <3>1, LastingRow
  <2> QED
    BY <1>2, <2>1 DEF Truth
<1>5. Consent(draft')
  <2>1. ASSUME NEW b \in 1 .. Len(draft') PROVE SameTerms(draft[b], draft'[b])
    BY <1>2 DEF SameTerms
  <2>2. ASSUME NEW b \in 1 .. Len(draft'), OverUnpaid(draft[b]) PROVE OverUnpaid(draft'[b])
    BY <1>2, <2>2
  <2> QED
    BY <1>1, <1>2, <2>1, <2>2 DEF Consent, SameTerms, OverUnpaid
<1>6. Truth(rows)'
  <2>1. ASSUME NEW b \in 1 .. Len(rows), NEW r, r = rows[b] PROVE RowTrue(r, b)'
    <3>1. b \in Attempts /\ RowTrue(r, b)
      BY <1>1, <2>1 DEF Tables, Truth
    <3> QED
      BY <1>1, <1>3, <3>1, LastingRow
  <2> QED
    BY <2>1 DEF Truth
<1>7. Tables'
  BY <1>1, <1>2, <1>4, <1>5, <1>6 DEF Tables, Consent
<1>8. \A b \in Attempts : Finished(b) => Finished(b)'
  BY <1>1, <1>3, LastingFinish
<1>9. Chain'
  BY <1>1, <1>8 DEF Chain
<1>10. ASSUME NEW g \in Requests PROVE Loose(g)' /\ Holding(g)'
  BY <1>1, <1>8, Typed, OtherRequests
<1>11. BuyInv'
  BY <1>1, <1>3, <1>7, <1>9, <1>10 DEF BuyInv, Calls
<1> DEFINE l == [tick[k] EXCEPT !.pc = "look", !.attempt = @ + 1, !.issues = @ \/ issue]
<1>12. tick' = [tick EXCEPT ![k] = l]
  BY DEF Next1
<1>13. l \in TickPlace /\ l.pc = "look" /\ l.attempt = a + 1 /\ l.issues = (tick[k].issues \/ issue)
  BY <1>1, TickGoesOn
<1> HIDE DEF l
<1>14. l.issues \/ \A b \in 1 .. Len(draft) : b < a + 1 => Finished(b)'
  <2>1. CASE tick[k].issues
    BY <1>13, <2>1
  <2>2. CASE ~tick[k].issues
    <3>1. \A b \in 1 .. Len(draft) : b < a + 1 => b < a \/ b = a
      BY <1>1
    <3> QED
      BY <1>1, <1>8, <2>2, <3>1
  <2> QED
    BY <2>1, <2>2
<1>15. tick'[k] = l => Dealt(k)'
  BY <1>1, <1>2, <1>13, <1>14 DEF Dealt, Looking
<1>16. closure' \in Closure /\ notice' \in Notice
  BY ClosureTyped
<1>17. IF lock \in {Free, k} THEN lock' \in {Free, k} ELSE UNCHANGED <<draft, lock, sessions, age>>
  OBVIOUS
<1>18. Ticking'
  BY <1>12, <1>13, <1>15, <1>16, <1>17, OneTickMoves
<1> QED
  BY <1>11, <1>18

\* The places of a loop that has an attempt before it.
LEMMA AtAnAttempt ==
    ASSUME Either, Ticking, NEW k \in Ticks, lock = k, tick[k].pc \in {"expire", "stop"}
    PROVE  /\ BuyInv /\ ~closure.done /\ closing /\ TypeOK /\ SessionsSound /\ Dealt(k) /\ draft \in Seq(Row)
           /\ tick[k].attempt \in 1 .. Len(draft) /\ tick[k].attempt \in Attempts
           /\ draft[tick[k].attempt] \in Row /\ RowTrue(draft[tick[k].attempt], tick[k].attempt)
           /\ tick[k].issues \/ \A b \in 1 .. Len(draft) : b < tick[k].attempt => Finished(b)
<1>1. Dealt(k) /\ tick[k] \in TickPlace /\ closing /\ TypeOK /\ SessionsSound
  BY TickFacts, EitherOne
<1>2. tick[k].attempt \in 1 .. Len(draft)
  BY <1>1, TickTyped, Typed DEF Dealt
<1>3. ~closure.done /\ BuyInv /\ Tables
  BY <1>1, <1>2, EitherOne
<1> QED
  BY <1>1, <1>2, <1>3, Typed DEF Dealt, Looking, Tables, Truth

\* A session that was still open is expired, and cannot be paid any more.
LEMMA ExpireSessionKeeps ==
    ASSUME Either, Ticking, NEW k \in Ticks, ExpireSession(k)
    PROVE  Either' /\ Ticking'
<1>1. PICK a \in Nat : a = tick[k].attempt
  BY TickFacts, TickTyped
<1>2. /\ lock = k /\ tick[k].pc = "expire"
      /\ UNCHANGED <<closing, call, age, flying, intents, faults, closure, work, notice>>
  BY DEF ExpireSession, On
<1>3. /\ BuyInv /\ ~closure.done /\ closing /\ TypeOK /\ SessionsSound /\ Dealt(k) /\ draft \in Seq(Row) /\ Chain
      /\ a \in 1 .. Len(draft) /\ a \in Attempts /\ draft[a] \in Row /\ RowTrue(draft[a], a)
      /\ tick[k].issues \/ \A b \in 1 .. Len(draft) : b < a => Finished(b)
  BY <1>1, <1>2, AtAnAttempt DEF BuyInv
<1>4. PICK s \in SessionIds : s = draft[a].session /\ s # NoSession /\ s \in Answers(a)
  BY <1>1, <1>2, <1>3, RowTyped DEF Dealt, RowTrue
<1>5. s \in DOMAIN sessions /\ sessions[s].attempt = a
  BY <1>3, <1>4, AnswersTyped
<1>6. CASE sessions[s].status # "open"
  <2>1. Fails(k) /\ UNCHANGED sessions
    BY <1>1, <1>4, <1>6 DEF ExpireSession
  <2>2. faults' \in 0 .. MaxFaults
    BY <1>2, <1>3 DEF TypeOK
  <2> QED
    BY <1>2, <2>1, <2>2, FailsKeeps
<1>7. CASE sessions[s].status = "open"
  <2>1. sessions[s] \in Session /\ sessions \in Seq(Session) /\ sessions[s].sub = "none"
    BY <1>3, <1>5, <1>7, Typed, SessionStates DEF TypeOK
  <2>2. PICK new \in Session : new = [sessions[s] EXCEPT !.status = "expired"]
    BY <2>1 DEF Session
  <2>3. PICK row \in Row : row = [draft[a] EXCEPT !.status = "expired"]
    BY <1>3 DEF Row
  <2>4. new.status = "expired" /\ new.sub = "none" /\ new.attempt = a
    BY <1>5, <2>1, <2>2 DEF Session
  <2>5. /\ SameTerms(draft[a], row) /\ row.session = s /\ row.status = "expired" /\ row.sub = draft[a].sub
    BY <1>3, <1>4, <2>3 DEF Row, SameTerms
  <2>6. /\ sessions' = [sessions EXCEPT ![s] = new] /\ draft' = [draft EXCEPT ![a] = row]
        /\ UNCHANGED <<rows, lock>> /\ Next1(k, FALSE)
    BY <1>1, <1>3, <1>4, <1>5, <1>7, <2>1, <2>2, <2>3 DEF ExpireSession, Write
  <2>7. MayFollow(s, new)
    BY <1>3, <1>5, <1>7, <2>2, Expired
  <2>8. /\ sessions' \in Seq(Session) /\ Len(sessions') = Len(sessions) /\ DOMAIN sessions' = DOMAIN sessions
        /\ SessionsSound' /\ Later
        /\ \A t \in DOMAIN sessions : sessions'[t].attempt = sessions[t].attempt
    BY <1>2, <1>3, <1>5, <2>6, <2>7, SessionBecomes
  <2>9. sessions'[s] = new
    BY <1>5, <2>1, <2>6
  <2>10. \A t \in DOMAIN sessions' : sessions'[t].attempt <= Len(rows)
    BY <1>3, <2>8 DEF Chain
  <2>11. Answers(a)' = Answers(a) /\ \A t \in Answers(a) : t = s
    BY <1>3, <1>4, <1>5, <2>8, LastingAnswers, AnswersTyped DEF SessionsSound
  <2>12. row.sub = "none"
    BY <1>3, <2>1, <2>5, <2>11, RowTyped DEF RowTrue
  <2>13. \A r : r = row => RowTrue(r, a)'
    BY <1>4, <2>4, <2>5, <2>9, <2>11, <2>12 DEF RowTrue
  <2>14. Finished(a)'
    BY <1>4, <2>4, <2>9, <2>11 DEF Finished, Payable
  <2>15. OverUnpaid(row)
    BY <2>5, <2>12 DEF OverUnpaid
  <2>16. closure' = closure /\ UNCHANGED <<rows, lock, closing, call, age, flying, intents, faults, work, notice>>
    BY <1>2, <2>6
  <2>17. BuyInv' /\ Ticking'
    BY <1>1, <1>2, <1>3, <2>5, <2>6, <2>8, <2>10, <2>13, <2>14, <2>15, <2>16, EndingKeeps
  <2> QED
    BY <1>2, <1>3, <2>17 DEF Either
<1> QED
  BY <1>6, <1>7

\* A subscription is cancelled; without one the session has to be expired.
LEMMA StopSubscriptionKeeps ==
    ASSUME Either, Ticking, NEW k \in Ticks, StopSubscription(k)
    PROVE  Either' /\ Ticking'
<1>1. PICK a \in Nat : a = tick[k].attempt
  BY TickFacts, TickTyped
<1>2. /\ lock = k /\ tick[k].pc = "stop"
      /\ UNCHANGED <<rows, lock, closing, call, age, flying, intents, faults, closure, work, notice>>
  BY DEF StopSubscription, On, Write
<1>3. /\ BuyInv /\ ~closure.done /\ closing /\ TypeOK /\ SessionsSound /\ Dealt(k) /\ draft \in Seq(Row) /\ Chain
      /\ a \in 1 .. Len(draft) /\ a \in Attempts /\ draft[a] \in Row /\ RowTrue(draft[a], a)
      /\ tick[k].issues \/ \A b \in 1 .. Len(draft) : b < a => Finished(b)
  BY <1>1, <1>2, AtAnAttempt DEF BuyInv
<1>4. PICK ended \in SUBSET DOMAIN sessions : ended = {s \in Answers(a) : draft[a].sub # "none"}
  BY DEF Answers
<1>5. PICK issue \in BOOLEAN :
          /\ sessions' = [s \in DOMAIN sessions |->
                             IF s \in ended THEN [sessions[s] EXCEPT !.sub = "ended"] ELSE sessions[s]]
          /\ draft' = [draft EXCEPT ![a].sub = IF ended = {} THEN @ ELSE "ended"]
          /\ Next1(k, issue)
  <2>1. PICK unsettled \in BOOLEAN : Next1(k, ended # {} /\ unsettled)
    BY <1>1, <1>4 DEF StopSubscription
  <2>2. (ended # {} /\ unsettled) \in BOOLEAN
    OBVIOUS
  <2> QED
    BY <1>1, <1>4, <2>1, <2>2 DEF StopSubscription, Write
<1>6. sessions \in Seq(Session) /\ DOMAIN sessions = 1 .. Len(sessions) /\ \A s \in Answers(a) : s \in DOMAIN sessions
  BY <1>3, Typed, AnswersTyped DEF TypeOK
<1>9. Next1(k, issue)
  BY <1>5
<1>10. /\ BuyInv /\ lock = k /\ closing /\ ~closure.done
       /\ a \in 1 .. Len(draft) /\ a = tick[k].attempt
       /\ tick[k].issues \/ \A b \in 1 .. Len(draft) : b < a => Finished(b)
       /\ UNCHANGED <<rows, lock, closing, call, age, flying, intents, faults, closure, work, notice>>
  BY <1>1, <1>2, <1>3
<1>7. CASE draft[a].sub = "none"
  <2>1. ended = {}
    BY <1>4, <1>7
  <2>2. PICK row \in Row : row = draft[a]
    BY <1>3
  <2>3. sessions' = sessions
    <3>1. sessions' = [s \in DOMAIN sessions |-> sessions[s]]
      BY <1>5, <2>1
    <3> QED
      BY <1>6, <3>1
  <2>4. draft' = [draft EXCEPT ![a] = row]
    BY <1>3, <1>5, <2>1, <2>2 DEF Row
  <2>5. /\ draft[a].session # NoSession /\ draft[a].session \in Answers(a)
        /\ sessions[draft[a].session].status \notin {"open", "complete"}
    BY <1>1, <1>2, <1>3, <1>7 DEF Dealt, RowTrue
  <2>6. UNCHANGED <<sessions, age>>
    BY <1>2, <2>3
  <2>7. /\ Answers(a)' = Answers(a) /\ SessionsSound' /\ Later /\ (Finished(a) => Finished(a)')
        /\ \A r, b : RowTrue(r, b) => RowTrue(r, b)'
    BY <1>3, <2>6, StripeStill
  <2>8. Finished(a)
    <3>1. \A s \in Answers(a) : s = draft[a].session
      BY <1>3, <2>5, AnswersTyped DEF SessionsSound
    <3>2. \A s \in Answers(a) : ~Payable(s)
      BY <1>3, <1>6, <2>5, <3>1, SessionStates DEF Payable
    <3> QED
      BY <2>5, <3>2 DEF Finished
  <2>9. SameTerms(draft[a], row) /\ RowTrue(row, a)
    BY <1>3, <2>2 DEF SameTerms
  <2>10. RowTrue(row, a)'
    BY <2>7, <2>9
  <2>11. /\ sessions' \in Seq(Session) /\ Len(sessions') = Len(sessions)
         /\ \A t \in DOMAIN sessions' : sessions'[t].attempt <= Len(rows)
    BY <1>3, <1>6, <2>3 DEF Chain
  <2>12. closure' = closure /\ Finished(a)' /\ (OverUnpaid(draft[a]) => OverUnpaid(row))
    BY <1>2, <2>2, <2>7, <2>8
  <2>13. BuyInv' /\ Ticking'
    BY <1>9, <1>10, <2>4, <2>7, <2>9, <2>10, <2>11, <2>12, EndingKeeps
  <2> QED
    BY <1>2, <1>3, <2>13 DEF Either
<1>8. CASE draft[a].sub # "none"
  <2>1. PICK s \in Answers(a) : sessions[s].sub # "none"
    BY <1>3, <1>8 DEF RowTrue
  <2>2. \A t \in Answers(a) : t = s
    BY <1>3, <2>1, AnswersTyped DEF SessionsSound
  <2>3. ended = {s} /\ ended # {}
    BY <1>4, <1>8, <2>2
  <2>4. s \in DOMAIN sessions /\ sessions[s].attempt = a /\ sessions[s] \in Session
    BY <1>3, <2>1, AnswersTyped
  <2>5. PICK new \in Session : new = [sessions[s] EXCEPT !.sub = "ended"]
    BY <2>4 DEF Session
  <2>6. PICK row \in Row : row = [draft[a] EXCEPT !.sub = "ended"]
    BY <1>3 DEF Row
  <2>7. sessions' = [sessions EXCEPT ![s] = new]
    BY <1>5, <1>6, <2>3, <2>4, <2>5
  <2>8. draft' = [draft EXCEPT ![a] = row]
    BY <1>3, <1>5, <2>3, <2>6
  <2>9. MayFollow(s, new)
    BY <1>3, <2>1, <2>4, <2>5, Cancelled
  <2>10. new.sub = "ended" /\ new.attempt = a /\ new.status = sessions[s].status
    BY <2>4, <2>5 DEF Session
  <2>11. /\ SameTerms(draft[a], row) /\ row.session = draft[a].session
         /\ row.status = draft[a].status /\ row.sub = "ended"
    BY <1>3, <2>6 DEF Row, SameTerms
  <2>12. /\ sessions' \in Seq(Session) /\ Len(sessions') = Len(sessions) /\ DOMAIN sessions' = DOMAIN sessions
         /\ SessionsSound' /\ Later
         /\ \A t \in DOMAIN sessions : sessions'[t].attempt = sessions[t].attempt
    BY <1>2, <1>3, <2>4, <2>7, <2>9, SessionBecomes
  <2>13. sessions'[s] = new
    BY <1>6, <2>4, <2>7
  <2>14. \A t \in DOMAIN sessions' : sessions'[t].attempt <= Len(rows)
    BY <1>3, <2>12 DEF Chain
  <2>15. Answers(a)' = Answers(a)
    BY <1>6, <2>1, <2>12, LastingAnswers
  <2>16. sessions[s].status = "complete"
    BY <1>3, <2>1, <2>4, SessionStates
  <2>17. RowTrue(row, a)'
    BY <1>3, <2>1, <2>2, <2>10, <2>11, <2>13, <2>15, <2>16 DEF RowTrue
  <2>18. Finished(a)'
    BY <2>1, <2>2, <2>10, <2>13, <2>15, <2>16 DEF Finished, Payable
  <2>19. ~OverUnpaid(draft[a]) /\ closure' = closure
    BY <1>2, <1>8 DEF OverUnpaid
  <2>20. BuyInv' /\ Ticking'
    BY <1>9, <1>10, <2>8, <2>11, <2>12, <2>14, <2>17, <2>18, <2>19, EndingKeeps
  <2> QED
    BY <1>2, <1>3, <2>20 DEF Either
<1> QED
  BY <1>7, <1>8

\* The last transaction: everything of the account is finished before its rows go.
LEMMA FinishKeeps ==
    ASSUME Either, Ticking, NEW k \in Ticks, Finish(k)
    PROVE  Either' /\ Ticking'
<1>1. /\ lock = k /\ tick[k].pc = "finish" /\ Sleeps(k)
      /\ UNCHANGED <<closing, call, sessions, age, flying, intents, faults, work>>
  BY DEF Finish, On, Same
<1>2. /\ tick[k] \in TickPlace /\ Dealt(k) /\ k # Free /\ k \notin Requests /\ closing
      /\ TypeOK /\ SessionsSound /\ faults' \in 0 .. MaxFaults
  BY <1>1, TickFacts, EitherOne DEF TypeOK
<1>3. /\ tick' = [tick EXCEPT ![k] = Asleep] /\ Asleep \in TickPlace
      /\ (lock' # k /\ tick'[k] = Asleep => Dealt(k)')
  BY <1>1, AsleepTyped DEF Sleeps, Dealt, Looking
<1> DEFINE goesOn == /\ Commit(draft) /\ UNCHANGED notice
                     /\ \/ closure' = [closure EXCEPT !.state = "waiting"]
                        \/ closure' = [closure EXCEPT !.state = "needs_review", !.removed = TRUE]
           completes ==
              /\ ~work /\ ~tick[k].issues
              /\ closure' = [closure EXCEPT !.state = "completed", !.removed = TRUE, !.done = TRUE]
              /\ Commit(<<>>)
              /\ notice' = IF notice.email THEN [notice EXCEPT !.state = "pending", !.tries = 0] ELSE notice
<1>4. goesOn \/ completes
  BY DEF Finish
<1>5. CASE goesOn
  <2>1. /\ Commit(draft) /\ UNCHANGED notice
        /\ \/ closure' = [closure EXCEPT !.state = "waiting"]
           \/ closure' = [closure EXCEPT !.state = "needs_review", !.removed = TRUE]
    BY <1>5
  <2>2. closure' \in Closure /\ closure'.done = closure.done /\ notice' \in Notice
    BY <2>1, ClosureTyped DEF Closure
  <2>3. rows' = draft /\ draft' = draft /\ lock' = Free
    BY <2>1 DEF Commit
  <2>4. IF closure.done THEN UNCHANGED <<rows, draft>> ELSE Savable(rows') /\ Savable(draft')
    BY <2>3, EitherOne
  <2> QED
    BY <1>1, <1>2, <1>3, <2>2, <2>3, <2>4, TickTurn
<1>6. CASE completes
  <2>1. /\ rows' = <<>> /\ draft' = <<>> /\ lock' = Free
        /\ closure' = [closure EXCEPT !.state = "completed", !.removed = TRUE, !.done = TRUE]
        /\ notice' = IF notice.email THEN [notice EXCEPT !.state = "pending", !.tries = 0] ELSE notice
    BY <1>6 DEF Commit
  <2>2. closure' \in Closure /\ closure'.done /\ notice' \in Notice
    <3>1. closure' \in Closure /\ closure'.done
      BY <2>1, ClosureTyped DEF Closure
    <3>2. notice \in Notice /\ 0 \in 0 .. Tries
      BY ClosureTyped
    <3>3. [notice EXCEPT !.state = "pending", !.tries = 0] \in Notice
      BY <3>2 DEF Notice
    <3> QED
      BY <2>1, <3>1, <3>2, <3>3
  <2>3. Ticking'
    BY <1>1, <1>2, <1>3, <2>1, <2>2, OneTickMoves
  <2>4. /\ \A s \in DOMAIN sessions : ~Payable(s)
        /\ \A a \in flying : Answers(a) = {} => age[a] > 0
        /\ \A h \in Requests : call[h].pc \notin Inside
    <3>1. CASE closure.done
      BY <3>1 DEF Either, Closed
    <3>2. CASE ~closure.done
      <4>1. Chain /\ Calls /\ Len(draft) = Len(rows) /\ Len(rows) \in Nat
        BY <1>2, <3>2, EitherOne, Typed DEF BuyInv, Tables
      <4>2. \A b \in 1 .. Len(rows) : Finished(b)
        BY <1>1, <1>2, <1>6, <4>1, TickTyped DEF Dealt, Looking
      <4>3. ASSUME NEW s \in DOMAIN sessions PROVE ~Payable(s)
        <5>1. sessions[s].attempt \in 1 .. Len(rows) /\ s \in Answers(sessions[s].attempt)
          BY <1>2, <4>1 DEF SessionsSound, Chain, Answers, Attempts
        <5> QED
          BY <4>2, <5>1 DEF Finished
      <4>4. ASSUME NEW a \in flying PROVE Answers(a) = {} => age[a] > 0
        BY <1>2, <4>1, <4>2 DEF Chain, Finished, TypeOK, Attempts
      <4>5. ASSUME NEW h \in Requests PROVE call[h].pc \notin Inside
        BY <1>1, <1>2, <4>1 DEF Calls, Loose
      <4> QED
        BY <4>3, <4>4, <4>5
    <3> QED
      BY <3>1, <3>2
  <2>5. TypeOK' /\ SessionsSound'
    <3>1. SessionsSound'
      BY <1>1, <1>2, StripeStill
    <3>2. TypeOK'
      BY <1>1, <1>2, <2>1, CheckoutAssumption DEF TypeOK
    <3> QED
      BY <3>1, <3>2
  <2>6. Closed'
    BY <1>1, <1>2, <2>1, <2>4, <2>5, CheckoutAssumption DEF Closed, Payable, Answers
  <2> QED
    BY <2>2, <2>3, <2>6 DEF Either
<1> QED
  BY <1>4, <1>5, <1>6

-----------------------------------------------------------------------------
(* The closure's invariant.                                                    *)

LEMMA ClosureStarts == ClosureInit => ClosureInv
<1> SUFFICES ASSUME ClosureInit PROVE Either /\ Ticking
  BY DEF ClosureInv, Either
<1>1. /\ Init /\ closure = [state |-> "none", attempts |-> 0, removed |-> FALSE, done |-> FALSE]
      /\ tick = [k \in Ticks |-> Asleep] /\ work \in BOOLEAN
      /\ notice = [state |-> "pending", email |-> FALSE, tries |-> 0]
  BY DEF ClosureInit
<1>2. BuyInv /\ lock = Free
  BY <1>1, BuyStarts DEF Init
<1>3. closure \in Closure /\ ~closure.done /\ closure.state = "none" /\ notice \in Notice
  BY <1>1, ClosureAssumption DEF Closure, Notice
<1>4. \A k \in Ticks : tick[k].pc = "idle" /\ Dealt(k)
  BY <1>1, <1>2, AsleepTyped, CheckoutAssumption DEF Dealt, Looking
<1>5. tick \in [Ticks -> TickPlace]
  BY <1>1, AsleepTyped
<1> QED
  BY <1>1, <1>2, <1>3, <1>4, <1>5 DEF Either, Ticking

LEMMA ClosureSteps ==
    ASSUME Either, Ticking, [ClosureNext]_allVars
    PROVE  Either' /\ Ticking'
<1>1. CASE Next /\ UNCHANGED closureVars
  <2>1. closure' = closure
    BY <1>1 DEF closureVars
  <2>2. CASE closure.done
    BY <1>1, <2>1, <2>2, ClosedSteps, ClosedTicks DEF Either
  <2>3. CASE ~closure.done
    BY <1>1, <2>1, <2>3, BuySteps, BuyingTicks DEF Either
  <2> QED
    BY <2>2, <2>3
<1>2. CASE RequestClosure
  BY <1>2, RequestClosureKeeps
<1>3. CASE Retry \/ Notify \/ Forget \/ Start \/ End
  BY <1>3, NoticeKeeps
<1>4. ASSUME NEW a \in Attempts, NEW s \in DOMAIN sessions, Recover(a, s) PROVE Either' /\ Ticking'
  BY <1>4, RecoverKeeps
<1>5. ASSUME NEW k \in Ticks, Process(k) \/ LoseTick(k) \/ CrashTick(k) PROVE Either' /\ Ticking'
  <2>1. CASE EraseFirst(k)
    BY <2>1, EraseFirstKeeps
  <2>2. CASE RelockTick(k)
    BY <2>2, RelockTickKeeps
  <2>3. CASE Look(k)
    BY <2>3, LookKeeps
  <2>4. CASE ExpireSession(k)
    BY <2>4, ExpireSessionKeeps
  <2>5. CASE StopSubscription(k)
    BY <2>5, StopSubscriptionKeeps
  <2>6. CASE Finish(k)
    BY <2>6, FinishKeeps
  <2>7. CASE FailTick(k)
    BY <2>7, FailTickKeeps
  <2>8. CASE LoseTick(k)
    BY <2>8, LoseTickKeeps
  <2>9. CASE CrashTick(k)
    BY <2>9, CrashTickKeeps
  <2> QED
    BY <1>5, <2>1, <2>2, <2>3, <2>4, <2>5, <2>6, <2>7, <2>8, <2>9 DEF Process
<1>6. CASE UNCHANGED allVars
  <2>1. /\ UNCHANGED <<rows, draft, lock, closing, call, sessions, age, flying, intents, faults>>
        /\ UNCHANGED <<closure, tick, work, notice>>
    BY <1>6 DEF allVars, vars, closureVars
  <2>2. Either'
    BY <2>1, EitherOne, EitherStays DEF TypeOK
  <2>3. \A k \in Ticks : Dealt(k)'
    BY <2>1 DEF Ticking, Dealt, Finished, Answers, Payable
  <2>4. Ticking'
    BY <2>1, <2>3 DEF Ticking
  <2> QED
    BY <2>2, <2>4
<1> QED
  BY <1>1, <1>2, <1>3, <1>4, <1>5, <1>6 DEF ClosureNext

LEMMA ClosureInvariant == ClosureSpec => []ClosureInv
<1>1. ClosureInv /\ [ClosureNext]_allVars => ClosureInv'
  BY ClosureSteps DEF ClosureInv, Either
<1> QED
  BY <1>1, ClosureStarts, PTL DEF ClosureSpec

\* Closing keeps to its types, however many loops run beside however many windows.
THEOREM ClosureIsTyped == ClosureSpec => []ClosureTypeOK
<1>1. ClosureInv => ClosureTypeOK
  BY DEF ClosureInv, ClosureTypeOK, Ticking, Closed, BuyInv
<1> QED
  BY <1>1, ClosureInvariant, PTL

\* Once process_one has completed a closure, no session of the account can be
\* paid and no subscription of it runs, whatever was still on its way.
THEOREM ClosureStopsPayments == ClosureSpec => []ClosedMeansStopped
<1>1. ClosureInv => ClosedMeansStopped
  BY DEF ClosureInv, ClosedMeansStopped, Closed
<1> QED
  BY <1>1, ClosureInvariant, PTL

\* A loop that closes the account beside its windows leaves the account with one
\* checkout it could pay for, and with rows whose ends are true.
THEOREM ClosingKeepsBuyingSound == ClosureSpec => [](PayableOnce /\ EndsAreTrue)
<1>1. ClosureInv => PayableOnce /\ EndsAreTrue
  <2> SUFFICES ASSUME ClosureInv PROVE PayableOnce /\ EndsAreTrue
    OBVIOUS
  <2>1. CASE closure.done
    BY <2>1, Typed DEF ClosureInv, Closed, PayableOnce, EndsAreTrue
  <2>2. CASE ~closure.done
    BY <2>2, SoundIsPayableOnce, EndsTrue DEF ClosureInv, BuyInv
  <2> QED
    BY <2>1, <2>2
<1> QED
  BY <1>1, ClosureInvariant, PTL

===============================================================================
