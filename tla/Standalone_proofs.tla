--------------------------- MODULE Standalone_proofs ---------------------------
(* Components that share no state with one another, most of them checked in one *)
(* run by MCStandalone: each has its invariant, its steps and its theorems      *)
(* below.                                                                       *)
EXTENDS RateLimits, EmailVerification, BenchmarkReview, PlanChanges, Recurrence,
        FiniteSetTheorems, SequenceTheorems, NaturalsInduction, WellFoundedInduction, TLAPS

-----------------------------------------------------------------------------
(* RateLimits.  A window's limit holds for any number of requests, any limit   *)
(* and any number of windows: a granted request holds its bucket's row, below  *)
(* the limit, until its transaction ends, and the count of what was granted is *)
(* the bucket.                                                                 *)

Granted(r) == AtStatement(r, "granted")

\* No two open transactions have changed the same row.
OneHolder ==
    \A r, s \in Requests : Granted(r) /\ Granted(s) /\ asking[r].window = asking[s].window => r = s

\* A granted request has found room, and it stays until the request ends.
RoomIsKept == \A r \in Requests : Granted(r) => bucket[asking[r].window] < Limit

\* Nobody asks for a window to come, so that its row is absent.
NothingAhead ==
    /\ \A r \in Requests : asking[r].window <= window
    /\ \A w \in Windows : w > window => bucket[w] = Absent

LimitInv ==
    /\ LimitTypeOK /\ OneHolder /\ RoomIsKept /\ NothingAhead
    /\ granted = bucket[window] /\ granted <= Limit

LEMMA LimitInitially == LimitInit => LimitInv
<1>1. SUFFICES ASSUME LimitInit PROVE LimitInv
  OBVIOUS
<1>2. \A r \in Requests : asking[r] = Waiting
  BY <1>1 DEF LimitInit
<1>3. 1 \in Windows
  BY <1>1, LimitAssumption DEF Windows
<1>4. LimitTypeOK
  BY <1>1, <1>3, LimitAssumption DEF LimitInit, LimitTypeOK, Absent, Waiting, Asking, Statements
<1>5. OneHolder /\ RoomIsKept /\ NothingAhead
  BY <1>1, <1>2, <1>3 DEF LimitInit, OneHolder, RoomIsKept, NothingAhead, Granted, AtStatement, Waiting, Absent
<1> QED
  BY <1>1, <1>3, <1>4, <1>5, LimitAssumption DEF LimitInv, LimitInit, Absent

\* A step that only moves request r, and grants it only what nobody holds and
\* what has room, keeps the invariant.
LEMMA OneMoves ==
    ASSUME LimitInv, Reading, NEW r \in Requests, NEW place \in Asking,
           asking' = [asking EXCEPT ![r] = place], place.window <= window,
           place.at = "granted" => /\ \A o \in Requests \ {r} :
                                         ~(Granted(o) /\ asking[o].window = place.window)
                                   /\ bucket[place.window] < Limit
    PROVE  LimitInv'
<1>1. /\ \A s \in Requests : asking'[s] = IF s = r THEN place ELSE asking[s]
      /\ window' = window /\ bucket' = bucket /\ granted' = granted
  BY DEF LimitInv, LimitTypeOK, Reading
<1>2. LimitTypeOK'
  BY <1>1 DEF LimitInv, LimitTypeOK
<1>3. OneHolder'
  BY <1>1 DEF LimitInv, OneHolder, Granted, AtStatement
<1>4. RoomIsKept'
  BY <1>1 DEF LimitInv, RoomIsKept, Granted, AtStatement
<1>5. NothingAhead'
  BY <1>1 DEF LimitInv, NothingAhead
<1> QED
  BY <1>1, <1>2, <1>3, <1>4, <1>5 DEF LimitInv

\* The same for a step that leaves the request's window as it is.
LEMMA Moves ==
    ASSUME LimitInv, Reading, NEW r \in Requests, NEW at \in {"idle"} \cup Statements, Ask(r, at)
    PROVE  LimitInv'
<1> DEFINE place == [asking[r] EXCEPT !.at = at]
<1>1. asking[r] \in Asking
  BY DEF LimitInv, LimitTypeOK
<1>2. place \in Asking /\ place.window = asking[r].window /\ place.at = at
  BY <1>1 DEF Asking
<1>3. asking' = [asking EXCEPT ![r] = place]
  BY DEF Ask
<1>4. place.window <= window /\ place.at # "granted"
  BY <1>2 DEF LimitInv, NothingAhead, Statements
<1> QED
  BY <1>2, <1>3, <1>4, OneMoves

LEMMA Grants ==
    ASSUME LimitInv, Reading, NEW r \in Requests, Ask(r, "granted"), ~Held(r),
           bucket[asking[r].window] < Limit
    PROVE  LimitInv'
<1> DEFINE place == [asking[r] EXCEPT !.at = "granted"]
<1>1. asking[r] \in Asking
  BY DEF LimitInv, LimitTypeOK
<1>2. place \in Asking /\ place.window = asking[r].window
  BY <1>1 DEF Asking
<1>3. asking' = [asking EXCEPT ![r] = place]
  BY DEF Ask
<1>4. place.window <= window
  BY <1>2 DEF LimitInv, NothingAhead
<1>5. \A o \in Requests \ {r} : ~(Granted(o) /\ asking[o].window = place.window)
  BY <1>2 DEF Held, Granted, AtStatement
<1>6. bucket[place.window] < Limit
  BY <1>2
<1> QED
  BY <1>2, <1>3, <1>4, <1>5, <1>6, OneMoves

LEMMA Commits ==
    ASSUME LimitInv, NEW r \in Requests, CommitRequest(r)
    PROVE  LimitInv'
<1> DEFINE w == asking[r].window
           place == [asking[r] EXCEPT !.at = "idle"]
<1>1. asking[r] \in Asking /\ w \in Windows /\ Granted(r)
  BY DEF LimitInv, LimitTypeOK, Asking, CommitRequest, Granted
<1>2. place \in Asking /\ place.window = w /\ place.at = "idle"
  BY <1>1 DEF Asking
<1>3. \A s \in Requests : asking'[s] = IF s = r THEN place ELSE asking[s]
  BY DEF CommitRequest, Ask, LimitInv, LimitTypeOK
<1>4. /\ \A v \in Windows : bucket'[v] = IF v = w THEN bucket[v] + 1 ELSE bucket[v]
      /\ window' = window
  BY <1>1 DEF CommitRequest, LimitInv, LimitTypeOK
<1>5. bucket' \in [Windows -> Nat] /\ asking' \in [Requests -> Asking]
  <2>1. PICK n \in Nat : n = bucket[w] + 1
    BY <1>1 DEF LimitInv, LimitTypeOK
  <2>2. bucket' = [bucket EXCEPT ![w] = n]
    BY <2>1 DEF CommitRequest
  <2>3. asking' = [asking EXCEPT ![r] = place]
    BY DEF CommitRequest, Ask
  <2>4. bucket' \in [Windows -> Nat]
    BY <2>2 DEF LimitInv, LimitTypeOK
  <2> QED BY <1>2, <2>3, <2>4 DEF LimitInv, LimitTypeOK
<1>6. bucket[w] < Limit
  BY <1>1 DEF LimitInv, RoomIsKept
<1>7. /\ granted' \in Nat /\ granted' = bucket'[window] /\ granted' <= Limit
  <2>1. /\ granted \in Nat /\ granted = bucket[window] /\ granted <= Limit /\ bucket[window] \in Nat
        /\ window \in Windows /\ Limit \in Nat
    BY LimitAssumption DEF LimitInv, LimitTypeOK
  <2>2. granted' = IF w = window THEN granted + 1 ELSE granted
    BY DEF CommitRequest
  <2> QED BY <1>4, <1>6, <2>1, <2>2
<1>8. OneHolder'
  <2>1. \A s \in Requests : Granted(s)' => s # r /\ asking'[s] = asking[s] /\ Granted(s)
    BY <1>2, <1>3 DEF Granted, AtStatement
  <2>2. OneHolder
    BY DEF LimitInv
  <2> QED BY <2>1, <2>2 DEF OneHolder
<1>9. RoomIsKept'
  <2>1. SUFFICES ASSUME NEW s \in Requests, Granted(s)' PROVE (bucket[asking[s].window] < Limit)'
    BY DEF RoomIsKept
  <2>2. s # r /\ asking'[s] = asking[s] /\ Granted(s)
    BY <1>2, <1>3, <2>1 DEF Granted, AtStatement
  <2>3. asking[s].window # w
    BY <1>1, <2>2 DEF LimitInv, OneHolder
  <2>4. asking[s].window \in Windows
    BY DEF LimitInv, LimitTypeOK, Asking
  <2>5. bucket[asking[s].window] < Limit
    BY <2>2 DEF LimitInv, RoomIsKept
  <2> QED BY <1>4, <2>2, <2>3, <2>4, <2>5
<1>10. NothingAhead'
  <2>1. \A s \in Requests : asking'[s].window <= window'
    BY <1>2, <1>3, <1>4 DEF LimitInv, NothingAhead
  <2>2. w <= window
    BY DEF LimitInv, NothingAhead
  <2>3. \A v \in Windows : v > window' => bucket'[v] = Absent
    <3>1. SUFFICES ASSUME NEW v \in Windows, v > window PROVE bucket'[v] = Absent
      BY <1>4
    <3>2. v # w
      BY <1>1, <2>2, <3>1 DEF LimitInv, LimitTypeOK, Windows
    <3> QED BY <1>4, <3>1, <3>2 DEF LimitInv, NothingAhead
  <2> QED BY <2>1, <2>3 DEF NothingAhead
<1> QED
  BY <1>4, <1>5, <1>7, <1>8, <1>9, <1>10 DEF LimitInv, LimitTypeOK

LEMMA Cleans == LimitInv /\ CleanBuckets => LimitInv'
<1>1. SUFFICES ASSUME LimitInv, CleanBuckets PROVE LimitInv'
  OBVIOUS
<1>2. /\ window' = window /\ asking' = asking /\ granted' = granted
      /\ \A w \in Windows : bucket'[w] = IF w < window THEN 0 ELSE bucket[w]
  BY <1>1 DEF CleanBuckets, Absent
<1>3. LimitTypeOK'
  BY <1>1, <1>2 DEF LimitInv, LimitTypeOK, CleanBuckets, Absent
<1>4. RoomIsKept'
  <2>1. SUFFICES ASSUME NEW r \in Requests, Granted(r) PROVE bucket'[asking[r].window] < Limit
    BY <1>2 DEF RoomIsKept, Granted, AtStatement
  <2>2. asking[r].window \in Windows /\ bucket[asking[r].window] < Limit
    BY <1>1, <2>1 DEF LimitInv, LimitTypeOK, Asking, RoomIsKept
  <2> QED BY <1>2, <2>2, LimitAssumption
<1>5. NothingAhead' /\ OneHolder'
  BY <1>1, <1>2 DEF LimitInv, NothingAhead, OneHolder, Granted, AtStatement, LimitTypeOK, Windows, Absent
<1>6. granted' = bucket'[window'] /\ granted' <= Limit
  BY <1>1, <1>2 DEF LimitInv, LimitTypeOK, Windows
<1> QED
  BY <1>3, <1>4, <1>5, <1>6 DEF LimitInv

LEMMA Turns == LimitInv /\ NextWindow => LimitInv'
<1>1. SUFFICES ASSUME LimitInv, NextWindow PROVE LimitInv'
  OBVIOUS
<1>2. /\ window' = window + 1 /\ asking' = asking /\ granted' = 0 /\ bucket' = bucket
      /\ window \in Nat /\ window + 1 \in Windows
  BY <1>1, LimitAssumption DEF NextWindow, LimitInv, LimitTypeOK, Windows
<1>3. LimitTypeOK'
  BY <1>1, <1>2 DEF LimitInv, LimitTypeOK
<1>4. bucket[window + 1] = 0
  BY <1>1, <1>2 DEF LimitInv, NothingAhead, Absent
<1>5. RoomIsKept' /\ OneHolder'
  BY <1>1, <1>2 DEF LimitInv, RoomIsKept, OneHolder, Granted, AtStatement
<1>6. NothingAhead'
  BY <1>1, <1>2 DEF LimitInv, NothingAhead, LimitTypeOK, Asking, Windows
<1> QED
  BY <1>2, <1>3, <1>4, <1>5, <1>6, LimitAssumption DEF LimitInv

LEMMA LimitStep == LimitInv /\ [LimitNext]_limitVars => LimitInv'
<1>1. SUFFICES ASSUME LimitInv, [LimitNext]_limitVars PROVE LimitInv'
  OBVIOUS
<1>2. ASSUME NEW r \in Requests, BeginRequest(r) PROVE LimitInv'
  <2> DEFINE place == [at |-> "update", window |-> window]
  <2>1. place \in Asking /\ place.window <= window /\ place.at # "granted"
    BY <1>1 DEF LimitInv, LimitTypeOK, Asking, Statements, Windows
  <2>2. Reading /\ asking' = [asking EXCEPT ![r] = place]
    BY <1>2 DEF BeginRequest
  <2> QED BY <1>1, <2>1, <2>2, OneMoves
<1>3. ASSUME NEW r \in Requests, UpdateBucket(r) PROVE LimitInv'
  BY <1>1, <1>3, Moves, Grants DEF UpdateBucket, Statements
<1>4. ASSUME NEW r \in Requests, LookBucket(r) PROVE LimitInv'
  BY <1>1, <1>4, Moves DEF LookBucket, Statements
<1>5. ASSUME NEW r \in Requests, InsertBucket(r) PROVE LimitInv'
  BY <1>1, <1>5, Moves, Grants, LimitAssumption DEF InsertBucket, Statements, Present, Absent
<1>6. ASSUME NEW r \in Requests, UpdateAfter(r) PROVE LimitInv'
  BY <1>1, <1>6, Moves, Grants DEF UpdateAfter
<1>7. ASSUME NEW r \in Requests, CommitRequest(r) PROVE LimitInv'
  BY <1>1, <1>7, Commits
<1>8. ASSUME NEW r \in Requests, RollBackRequest(r) PROVE LimitInv'
  BY <1>1, <1>8, Moves DEF RollBackRequest
<1>9. ASSUME UNCHANGED limitVars PROVE LimitInv'
  BY <1>1, <1>9 DEF limitVars, LimitInv, LimitTypeOK, OneHolder, RoomIsKept, NothingAhead, Granted, AtStatement
<1> QED
  BY <1>1, <1>2, <1>3, <1>4, <1>5, <1>6, <1>7, <1>8, <1>9, Cleans, Turns DEF LimitNext

\* No window grants more than its limit (rate_limit_service.consume), however many
\* requests race for the row, its first insertion and its last unit.
THEOREM Limited == LimitSpec => []WithinLimit
<1>1. LimitInv => WithinLimit
  BY DEF LimitInv, WithinLimit
<1> QED
  BY <1>1, LimitInitially, LimitStep, PTL DEF LimitSpec

-----------------------------------------------------------------------------
(* BenchmarkReview.  The property is inductive once the reviews are typed: an   *)
(* appended final decision is next to the last final one before it, which is    *)
(* the one that append_review compares it with, and an appended draft or        *)
(* dispute is no decision.                                                      *)

\* What the property says of one case.
SoundHistory(s) ==
    \A i, j \in FinalsOf(s) :
        (/\ i < j /\ ~\E k \in FinalsOf(s) : i < k /\ k < j
         /\ s[i].by # s[j].by /\ Differs(s[i], s[j].state, s[j].verdict))
        => s[j].by \in Supers /\ s[j - 1].state = "disputed"

BenchmarkInv ==
    /\ reviews \in [Cases -> Seq(Review)]
    /\ \A c \in Cases : SoundHistory(reviews[c])

\* A history keeps sound that gains a review, when a decision among two of
\* different administrators that differ resolves a dispute.
LEMMA HistoryGrows ==
    ASSUME NEW s \in Seq(Review), NEW new \in Review, SoundHistory(s),
           new.state \in Final =>
              \A i \in FinalsOf(s) :
                 (/\ \A k \in FinalsOf(s) : k <= i
                  /\ s[i].by # new.by /\ Differs(s[i], new.state, new.verdict))
                 => new.by \in Supers /\ Len(s) > 0 /\ s[Len(s)].state = "disputed"
    PROVE  SoundHistory(Append(s, new))
<1>1. PICK t : t = Append(s, new)
  OBVIOUS
<1>2. /\ DOMAIN t = 1 .. Len(s) + 1 /\ Len(s) \in Nat /\ DOMAIN s = 1 .. Len(s)
      /\ t[Len(s) + 1] = new
      /\ \A i \in 1 .. Len(s) : t[i] = s[i]
  BY <1>1
<1>3. \A i \in 1 .. Len(s) : i \in FinalsOf(t) <=> i \in FinalsOf(s)
  BY <1>2 DEF FinalsOf
<1>4. FinalsOf(s) \subseteq 1 .. Len(s) /\ FinalsOf(t) \subseteq 1 .. Len(s) + 1
  BY <1>2 DEF FinalsOf
<1>5. ASSUME NEW i \in FinalsOf(t), NEW j \in FinalsOf(t), i < j,
             ~\E k \in FinalsOf(t) : i < k /\ k < j,
             t[i].by # t[j].by, Differs(t[i], t[j].state, t[j].verdict)
      PROVE  t[j].by \in Supers /\ t[j - 1].state = "disputed"
  <2>1. i \in 1 .. Len(s) /\ t[i] = s[i] /\ i \in FinalsOf(s)
    BY <1>2, <1>3, <1>4, <1>5
  <2>2. CASE j \in 1 .. Len(s)
    <3>1. t[j] = s[j] /\ j \in FinalsOf(s)
      BY <1>2, <1>3, <1>5, <2>2
    <3>2. ~\E k \in FinalsOf(s) : i < k /\ k < j
      BY <1>3, <1>4, <1>5
    <3>3. s[j].by \in Supers /\ s[j - 1].state = "disputed"
      BY <1>5, <2>1, <3>1, <3>2 DEF SoundHistory
    <3>4. j - 1 \in 1 .. Len(s) /\ t[j - 1] = s[j - 1]
      BY <1>2, <1>5, <2>1, <2>2
    <3> QED
      BY <3>1, <3>3, <3>4
  <2>3. CASE j = Len(s) + 1
    <3>1. t[j] = new /\ new.state \in Final
      BY <1>2, <1>5, <2>3 DEF FinalsOf
    <3>2. \A k \in FinalsOf(s) : k <= i
      BY <1>2, <1>3, <1>4, <1>5, <2>1, <2>3
    <3>3. new.by \in Supers /\ Len(s) > 0 /\ s[Len(s)].state = "disputed"
      BY <1>5, <2>1, <3>1, <3>2
    <3>4. j - 1 = Len(s) /\ t[j - 1] = s[Len(s)]
      BY <1>2, <2>3, <3>3
    <3> QED
      BY <3>1, <3>3, <3>4
  <2> QED
    BY <1>2, <1>4, <1>5, <2>2, <2>3
<1> QED
  BY <1>1, <1>5 DEF SoundHistory

LEMMA BenchmarkInitially == BenchmarkInit => BenchmarkInv
<1> SUFFICES ASSUME BenchmarkInit PROVE BenchmarkInv
  OBVIOUS
<1>1. reviews = [c \in Cases |-> <<>>] /\ <<>> \in Seq(Review)
  BY DEF BenchmarkInit
<1>2. FinalsOf(<<>>) = {}
  BY DEF FinalsOf
<1>3. SoundHistory(<<>>)
  BY <1>2 DEF SoundHistory
<1> QED
  BY <1>1, <1>3 DEF BenchmarkInv

LEMMA ReviewSaved ==
    ASSUME BenchmarkInv, NEW u \in Admins, NEW c \in Cases, NEW expected,
           NEW state \in Final \cup {"draft", "disputed"}, NEW verdict \in Verdicts \cup {NoVerdict},
           NEW resolve \in BOOLEAN, SaveReview(u, c, expected, state, verdict, resolve)
    PROVE  BenchmarkInv'
<1>1. PICK put : put = IF Conflict(c, u, state, verdict) THEN "disputed" ELSE state
  OBVIOUS
<1>2. PICK new : new = [state |-> put, verdict |-> verdict, by |-> u, name |-> u]
  OBVIOUS
<1>3. PICK s : s = reviews[c]
  OBVIOUS
<1>4. s \in Seq(Review) /\ Len(s) \in Nat /\ reviews \in [Cases -> Seq(Review)] /\ SoundHistory(s)
  BY <1>3 DEF BenchmarkInv
<1>5. new \in Review
  BY <1>1, <1>2 DEF Review, Names
<1>6. reviews' = [reviews EXCEPT ![c] = Append(s, new)]
  BY <1>1, <1>2, <1>3 DEF SaveReview
<1>7. ASSUME new.state \in Final, NEW i \in FinalsOf(s), \A k \in FinalsOf(s) : k <= i,
             s[i].by # new.by, Differs(s[i], new.state, new.verdict)
      PROVE  new.by \in Supers /\ Len(s) > 0 /\ s[Len(s)].state = "disputed"
  <2>1. "disputed" \notin Final
    BY DEF Final
  <2>2. put = state /\ state \in Final /\ ~Conflict(c, u, state, verdict)
    BY <1>1, <1>2, <1>7, <2>1
  <2>3. i \in LastFinal(c)
    BY <1>3, <1>7 DEF LastFinal
  <2>4. reviews[c][i].by # u /\ Differs(reviews[c][i], state, verdict)
    BY <1>2, <1>3, <1>7, <2>2
  <2>5. Disputed(c)
    BY <2>2, <2>3, <2>4 DEF Conflict
  <2>6. u \in Supers
    BY <2>1, <2>2, <2>5 DEF SaveReview, MaySave
  <2> QED
    BY <1>2, <1>3, <2>5, <2>6 DEF Disputed, Version
<1>8. SoundHistory(Append(s, new))
  BY <1>4, <1>5, <1>7, HistoryGrows
<1>9. Append(s, new) \in Seq(Review)
  BY <1>4, <1>5
<1> QED
  BY <1>4, <1>6, <1>8, <1>9 DEF BenchmarkInv

LEMMA ReviewsImported ==
    ASSUME BenchmarkInv, NEW u \in Admins, NEW set \in SUBSET Cases, NEW expected,
           ImportReviews(u, set, expected)
    PROVE  BenchmarkInv'
<1>1. PICK draft : draft = [state |-> "draft", verdict |-> NoVerdict, by |-> u, name |-> u]
  OBVIOUS
<1>2. draft \in Review /\ draft.state \notin Final
  BY <1>1 DEF Review, Names, Final
<1>3. reviews' = [c \in Cases |-> IF c \in set THEN <<draft>> ELSE reviews[c]]
  BY <1>1 DEF ImportReviews
<1>4. <<draft>> \in Seq(Review) /\ FinalsOf(<<draft>>) = {}
  BY <1>2 DEF FinalsOf
<1>5. SoundHistory(<<draft>>)
  BY <1>4 DEF SoundHistory
<1> QED
  BY <1>3, <1>4, <1>5 DEF BenchmarkInv

\* Redaction changes no decision.
LEMMA HistoryRedacted ==
    ASSUME NEW s \in Seq(Review), NEW u \in Admins, SoundHistory(s), NEW t,
           t = [i \in DOMAIN s |-> [s[i] EXCEPT !.name = Redacted(@, u)]]
    PROVE  t \in Seq(Review) /\ SoundHistory(t)
<1>1. \A i \in DOMAIN s : s[i] \in Review
  OBVIOUS
<1>2. \A i \in DOMAIN s : Redacted(s[i].name, u) \in Names
  BY <1>1 DEF Review, Redacted, Names
<1>3. DOMAIN t = DOMAIN s /\ \A i \in DOMAIN s :
         t[i] \in Review /\ t[i].state = s[i].state /\ t[i].by = s[i].by /\ t[i].verdict = s[i].verdict
  BY <1>1, <1>2 DEF Review
<1>4. t \in Seq(Review)
  <2>1. DOMAIN s = 1 .. Len(s) /\ Len(s) \in Nat
    OBVIOUS
  <2>2. t \in [1 .. Len(s) -> Review]
    BY <1>3, <2>1
  <2> QED
    BY <2>1, <2>2
<1>5. FinalsOf(t) = FinalsOf(s)
  BY <1>3 DEF FinalsOf
<1>6. FinalsOf(s) \subseteq DOMAIN s /\ DOMAIN s = 1 .. Len(s) /\ Len(s) \in Nat
  BY DEF FinalsOf
<1>7. \A i, j \in FinalsOf(s) : i < j => j - 1 \in DOMAIN s
  BY <1>6
<1>8. SoundHistory(t)
  <2>1. SUFFICES ASSUME NEW i \in FinalsOf(t), NEW j \in FinalsOf(t), i < j,
                        ~\E k \in FinalsOf(t) : i < k /\ k < j,
                        t[i].by # t[j].by, Differs(t[i], t[j].state, t[j].verdict)
                 PROVE  t[j].by \in Supers /\ t[j - 1].state = "disputed"
    BY DEF SoundHistory
  <2>2. i \in DOMAIN s /\ j \in DOMAIN s /\ j - 1 \in DOMAIN s
    BY <1>5, <1>6, <1>7, <2>1
  <2>3. Differs(s[i], s[j].state, s[j].verdict) /\ s[i].by # s[j].by
    BY <1>3, <2>1, <2>2 DEF Differs
  <2>4. s[j].by \in Supers /\ s[j - 1].state = "disputed"
    BY <1>5, <2>1, <2>3 DEF SoundHistory
  <2> QED
    BY <1>3, <2>2, <2>4
<1> QED
  BY <1>4, <1>8

LEMMA BenchmarkStep == BenchmarkInv /\ [BenchmarkNext]_benchmarkVars => BenchmarkInv'
<1> SUFFICES ASSUME BenchmarkInv, [BenchmarkNext]_benchmarkVars PROVE BenchmarkInv'
  OBVIOUS
<1>1. ASSUME NEW u \in Admins, NEW c \in Cases, NEW expected \in 0 .. MaxVersions,
             NEW state \in Final \cup {"draft", "disputed"}, NEW verdict \in Verdicts \cup {NoVerdict},
             NEW resolve \in BOOLEAN, SaveReview(u, c, expected, state, verdict, resolve)
      PROVE  BenchmarkInv'
  BY <1>1, ReviewSaved
<1>2. ASSUME NEW u \in Admins, NEW set \in SUBSET Cases, NEW expected \in 0 .. MaxRevision,
             ImportReviews(u, set, expected)
      PROVE  BenchmarkInv'
  BY <1>2, ReviewsImported
<1>3. ASSUME NEW u \in Admins, NEW expected \in 0 .. MaxRevision, NEW status \in {"draft", "approved"},
             SaveCriteria(u, expected, status)
      PROVE  BenchmarkInv'
  BY <1>3 DEF SaveCriteria, BenchmarkInv
<1>4. ASSUME NEW u \in Admins, NEW expected \in 0 .. MaxRevision, Publish(u, expected)
      PROVE  BenchmarkInv'
  BY <1>4 DEF Publish, BenchmarkInv
<1>5. ASSUME NEW u \in Admins, Redact(u) PROVE BenchmarkInv'
  <2>1. reviews' = [c \in Cases |-> [i \in DOMAIN reviews[c] |->
                       [reviews[c][i] EXCEPT !.name = Redacted(@, u)]]]
    BY <1>5 DEF Redact
  <2>2. \A c \in Cases : reviews'[c] \in Seq(Review) /\ SoundHistory(reviews'[c])
    <3> TAKE c \in Cases
    <3>1. PICK s : s = reviews[c]
      OBVIOUS
    <3>2. PICK t : t = reviews'[c]
      OBVIOUS
    <3>3. s \in Seq(Review) /\ SoundHistory(s)
      BY <3>1 DEF BenchmarkInv
    <3>4. t = [i \in DOMAIN s |-> [s[i] EXCEPT !.name = Redacted(@, u)]]
      BY <2>1, <3>1, <3>2
    <3>5. t \in Seq(Review) /\ SoundHistory(t)
      BY <3>3, <3>4, HistoryRedacted
    <3> QED
      BY <3>2, <3>5
  <2>3. reviews' \in [Cases -> Seq(Review)]
    BY <2>1, <2>2
  <2> QED
    BY <2>2, <2>3 DEF BenchmarkInv
<1>6. CASE UNCHANGED benchmarkVars
  BY <1>6 DEF benchmarkVars, BenchmarkInv
<1> QED
  BY <1>1, <1>2, <1>3, <1>4, <1>5, <1>6 DEF BenchmarkNext

\* Two final decisions in a row that differ, of different administrators: the
\* second is a super-admin's resolution of a dispute, for any number of reviews,
\* cases and administrators, and whatever lies between the two.
THEOREM DisagreementsAreDisputed == BenchmarkSpec => []DisagreementIsDisputed
<1>1. BenchmarkInv => DisagreementIsDisputed
  BY DEF BenchmarkInv, SoundHistory, DisagreementIsDisputed
<1> QED
  BY BenchmarkInitially, BenchmarkStep, <1>1, PTL DEF BenchmarkSpec

-----------------------------------------------------------------------------
(* EmailVerification.  A transaction that has written or locked a challenge     *)
(* holds its address until it ends, so what it has read is what is there when   *)
(* it gives the address to an account.                                          *)

Holding(w) == request[w].at \notin {"idle", "insert"}
\* The transaction holds a challenge that was there before it.
OnChallenge(w) == request[w].at \in {"resending", "confirming", "agreed"}

RequestsSound ==
    \A w \in Clients : request[w].at # "idle" => request[w].who \in People /\ request[w].row \in Challenge

\* No two transactions hold one address, and none deletes the challenge of another.
OneHolds ==
    \A w, o \in Clients : w # o /\ Holding(w) /\ Holding(o) =>
        /\ request[w].address # request[o].address
        /\ OnChallenge(o) => request[o].row.id \notin request[w].drop

\* The challenge a transaction has read is the one at its address, and its code the
\* newest unless the transaction is to write a newer one.
IsBacked(w) ==
    LET c == pending[request[w].address] IN
    /\ c \in Challenge /\ c.who = request[w].who /\ c.id = request[w].row.id
    /\ request[w].at # "resending" => c.code = request[w].row.code
Backed == \A w \in Clients : OnChallenge(w) => IsBacked(w)

VerificationInv == VerificationTypeOK /\ RequestsSound /\ OneHolds /\ Backed

\* A challenge is none of the absent ones.
LEMMA ChallengesHaveIds == \A c \in Challenge : c # None /\ c.id # 0
  BY DEF Challenge, None

\* The row another transaction holds is not free.
LEMMA HeldIsNotFree ==
    ASSUME NEW w \in Clients, NEW a, Free(w, a), NEW o \in Clients \ {w}, Holding(o)
    PROVE  request[o].address # a /\ pending[a].id \notin request[o].drop
  BY DEF Free, HoldsRow, Holding

LEMMA VerificationInitially == VerificationInit => VerificationInv
<1> SUFFICES ASSUME VerificationInit PROVE VerificationInv
  OBVIOUS
<1>1. PICK a : a = CHOOSE b \in Addresses : TRUE
  OBVIOUS
<1>2. a \in Addresses
  BY <1>1, VerificationAssumption
<1>3. Idle(a) \in Request /\ Idle(a).at = "idle"
  BY <1>2 DEF Idle, Request, Places
<1>4. request = [w \in Clients |-> Idle(a)]
  BY <1>1 DEF VerificationInit
<1>5. VerificationTypeOK
  BY <1>3, <1>4 DEF VerificationInit, VerificationTypeOK
<1>6. \A w \in Clients : request[w].at = "idle"
  BY <1>3, <1>4
<1> QED
  BY <1>5, <1>6 DEF VerificationInv, RequestsSound, OneHolds, Backed, OnChallenge, Holding

\* Transaction w moves to a place, and the challenges change in no row that
\* another transaction has read.
LEMMA OneRequestMoves ==
    ASSUME VerificationInv, NEW w \in Clients, NEW place \in Request,
           request' = [request EXCEPT ![w] = place],
           VerificationTypeOK',
           place.at # "idle" => place.who \in People /\ place.row \in Challenge,
           place.at \notin {"idle", "insert"} =>
              \A o \in Clients \ {w} : Holding(o) =>
                 /\ request[o].address # place.address
                 /\ OnChallenge(o) => request[o].row.id \notin place.drop
                 /\ place.at \in {"resending", "confirming", "agreed"}
                       => place.row.id \notin request[o].drop,
           \A o \in Clients \ {w} : OnChallenge(o) =>
              LET c == pending[request[o].address]  d == pending'[request[o].address] IN
              d \in Challenge /\ d.who = c.who /\ d.id = c.id /\ d.code = c.code,
           place.at \in {"resending", "confirming", "agreed"} =>
              LET d == pending'[place.address] IN
              /\ d \in Challenge /\ d.who = place.who /\ d.id = place.row.id
              /\ place.at # "resending" => d.code = place.row.code
    PROVE  VerificationInv'
<1>1. \A o \in Clients : request'[o] = IF o = w THEN place ELSE request[o]
  BY DEF VerificationInv, VerificationTypeOK
<1>2. RequestsSound'
  BY <1>1 DEF VerificationInv, RequestsSound
<1>3. OneHolds'
  BY <1>1 DEF VerificationInv, OneHolds, Holding, OnChallenge
<1>4. Backed'
  <2> SUFFICES ASSUME NEW o \in Clients, OnChallenge(o)' PROVE IsBacked(o)'
    BY DEF Backed
  <2>1. CASE o = w
    BY <1>1, <2>1 DEF OnChallenge, IsBacked
  <2>2. CASE o # w
    <3>1. request'[o] = request[o] /\ OnChallenge(o)
      BY <1>1, <2>2 DEF OnChallenge
    <3>2. IsBacked(o)
      BY <3>1 DEF VerificationInv, Backed
    <3> QED
      BY <2>2, <3>1, <3>2 DEF IsBacked
  <2> QED
    BY <2>1, <2>2
<1> QED
  BY <1>2, <1>3, <1>4 DEF VerificationInv

\* The transaction ends, and leaves what the others have read.
LEMMA OneRequestEnds ==
    ASSUME VerificationInv, NEW w \in Clients, End(w), VerificationTypeOK',
           \A o \in Clients \ {w} : OnChallenge(o) =>
              pending'[request[o].address] = pending[request[o].address]
    PROVE  VerificationInv'
<1>1. PICK place : place = Idle(request[w].address)
  OBVIOUS
<1>2. request[w].address \in Addresses
  BY DEF VerificationInv, VerificationTypeOK, Request
<1>3. place \in Request /\ place.at = "idle"
  BY <1>1, <1>2 DEF Idle, Request, Places
<1>4. request' = [request EXCEPT ![w] = place]
  BY <1>1 DEF End
<1>5. \A o \in Clients : OnChallenge(o) => pending[request[o].address] \in Challenge
  BY DEF VerificationInv, Backed, IsBacked
<1> QED
  BY <1>3, <1>4, <1>5, OneRequestMoves

LEMMA EndIsTyped ==
    ASSUME VerificationTypeOK, NEW w \in Clients, End(w)
    PROVE  request' \in [Clients -> Request]
<1>1. request[w].address \in Addresses
  BY DEF VerificationTypeOK, Request
<1>2. Idle(request[w].address) \in Request
  BY <1>1 DEF Idle, Request, Places
<1> QED
  BY <1>2 DEF End, VerificationTypeOK

\* What every step starts from.
LEMMA VerificationFacts ==
    ASSUME VerificationInv
    PROVE  /\ holder \in [Addresses -> People \cup {Nobody}]
           /\ pending \in [Addresses -> Challenge \cup {None}]
           /\ request \in [Clients -> Request]
           /\ legal \in Nat /\ leaving \in SUBSET Owners /\ challenges \in Nat /\ codes \in Nat
           /\ \A w \in Clients : request[w].address \in Addresses
           /\ \A w \in Clients : Holding(w) => request[w].who \in People /\ request[w].row \in Challenge
           /\ \A w \in Clients : OnChallenge(w) => Holding(w) /\ IsBacked(w)
  BY DEF VerificationInv, VerificationTypeOK, Request, RequestsSound, Holding, OnChallenge, Backed

LEMMA ChallengeStarts ==
    ASSUME VerificationInv, NEW w \in Clients, NEW who \in People, NEW a \in Addresses, Start(w, who, a)
    PROVE  VerificationInv'
<1> USE VerificationFacts
<1>1. PICK drop : drop = {pending[b].id : b \in {b \in Addresses :
                              pending[b] # None /\ (b = a \/ (who \in Owners /\ pending[b].who = who))}}
  OBVIOUS
<1>2. drop \in SUBSET Nat
  BY <1>1 DEF Challenge
<1>3. PICK row : row = [id |-> 1, who |-> who, legal |-> legal, code |-> 0, attempts |-> 0, expired |-> FALSE]
  OBVIOUS
<1>4. row \in Challenge
  BY <1>3 DEF Challenge
<1>5. PICK place : place = [at |-> "insert", who |-> who, address |-> a, row |-> row, drop |-> drop]
  OBVIOUS
<1>6. place \in Request /\ place.at = "insert" /\ place.who \in People /\ place.row \in Challenge
  BY <1>2, <1>4, <1>5 DEF Request, Places
<1>7. request' = [request EXCEPT ![w] = place] /\ UNCHANGED <<holder, pending, legal, leaving, challenges, codes>>
  BY <1>1, <1>3, <1>5 DEF Start
<1>8. VerificationTypeOK'
  BY <1>6, <1>7 DEF VerificationTypeOK
<1>9. \A o \in Clients : OnChallenge(o) => pending[request[o].address] \in Challenge
  BY DEF IsBacked
<1> QED
  BY <1>6, <1>7, <1>8, <1>9, OneRequestMoves

LEMMA Inserts ==
    ASSUME VerificationInv, NEW w \in Clients, Insert(w)
    PROVE  VerificationInv'
<1> USE VerificationFacts
<1>1. PICK a : a = request[w].address
  OBVIOUS
<1>2. /\ request[w].at = "insert" /\ UNCHANGED <<holder, pending, legal, leaving>>
      /\ \A b \in Addresses : b = a \/ (pending[b] # None /\ Dropped(w, b)) => Free(w, b)
  BY <1>1 DEF Insert, Place
<1>3. CASE End(w) /\ UNCHANGED <<challenges, codes>>
  <2>1. VerificationTypeOK'
    BY <1>2, <1>3, EndIsTyped DEF VerificationInv, VerificationTypeOK
  <2> QED
    BY <1>2, <1>3, <2>1, OneRequestEnds
<1>4. CASE /\ challenges' = challenges + 1 /\ codes' = codes + 1
           /\ request' = [request EXCEPT ![w].at = "inserted", ![w].row.id = challenges + 1,
                                         ![w].row.code = codes + 1]
  <2>1. PICK row : row = [request[w].row EXCEPT !.id = challenges + 1, !.code = codes + 1]
    OBVIOUS
  <2>2. request[w].row \in Challenge /\ request[w].who \in People
    BY <1>2 DEF VerificationInv, RequestsSound
  <2>3. row \in Challenge
    <3>1. PICK old \in Challenge : old = request[w].row
      BY <2>2
    <3>2. challenges + 1 \in Nat \ {0} /\ codes + 1 \in Nat
      OBVIOUS
    <3>3. row = [old EXCEPT !.id = challenges + 1, !.code = codes + 1]
      BY <2>1, <3>1
    <3> QED
      BY <3>2, <3>3 DEF Challenge
  <2>4. PICK place : place = [request[w] EXCEPT !.at = "inserted", !.row = row]
    OBVIOUS
  <2>5. /\ place \in Request /\ place.at = "inserted" /\ place.who = request[w].who /\ place.row = row
        /\ place.address = a /\ place.drop = request[w].drop
    BY <1>1, <2>3, <2>4 DEF Request, Places
  <2>6. request' = [request EXCEPT ![w] = place]
    BY <1>4, <2>1, <2>4
  <2>7. VerificationTypeOK'
    <3>1. request' \in [Clients -> Request]
      BY <2>5, <2>6
    <3>2. challenges' = challenges + 1 /\ codes' = codes + 1
      BY <1>4
    <3>3. challenges' \in Nat /\ codes' \in Nat
      BY <3>2
    <3> QED
      BY <1>2, <3>1, <3>3 DEF VerificationInv, VerificationTypeOK
  <2>8. ASSUME NEW o \in Clients \ {w}, Holding(o)
        PROVE  request[o].address # a /\ (OnChallenge(o) => request[o].row.id \notin request[w].drop)
    <3>1. a \in Addresses /\ Free(w, a)
      BY <1>1, <1>2
    <3>2. request[o].address # a
      BY <2>8, <3>1, HeldIsNotFree
    <3>3. ASSUME OnChallenge(o), request[o].row.id \in request[w].drop PROVE FALSE
      <4>1. PICK b \in Addresses : b = request[o].address
        BY <2>8
      <4>2. pending[b] \in Challenge /\ pending[b].id = request[o].row.id
        BY <3>3, <4>1, <2>8 DEF IsBacked
      <4>3. Free(w, b)
        BY <1>2, <3>3, <4>2, ChallengesHaveIds DEF Dropped
      <4> QED
        BY <2>8, <4>1, <4>3, HeldIsNotFree
    <3> QED
      BY <3>2, <3>3
  <2>9. \A o \in Clients : OnChallenge(o) => pending[request[o].address] \in Challenge
    BY DEF IsBacked
  <2> QED
    BY <1>2, <2>2, <2>3, <2>5, <2>6, <2>7, <2>8, <2>9, OneRequestMoves
<1> QED
  BY <1>1, <1>3, <1>4 DEF Insert

LEMMA InsertsCommit ==
    ASSUME VerificationInv, NEW w \in Clients, CommitInsert(w)
    PROVE  VerificationInv'
<1> USE VerificationFacts
<1>1. /\ request[w].at = "inserted" /\ End(w) /\ UNCHANGED <<holder, legal, leaving, challenges, codes>>
      /\ pending' = [a \in Addresses |->
            IF a = request[w].address THEN request[w].row
            ELSE IF Dropped(w, a) THEN None ELSE pending[a]]
  BY DEF CommitInsert, Place
<1>2. request[w].row \in Challenge /\ Holding(w)
  BY <1>1 DEF Holding
<1>3. pending' \in [Addresses -> Challenge \cup {None}]
  BY <1>1, <1>2
<1>4. VerificationTypeOK'
  BY <1>1, <1>3, EndIsTyped DEF VerificationInv, VerificationTypeOK
<1>5. ASSUME NEW o \in Clients \ {w}, OnChallenge(o)
      PROVE  pending'[request[o].address] = pending[request[o].address]
  <2>1. Holding(o) /\ IsBacked(o)
    BY <1>5
  <2>2. request[o].address # request[w].address /\ request[o].row.id \notin request[w].drop
    BY <1>2, <1>5, <2>1 DEF VerificationInv, OneHolds
  <2>3. PICK b \in Addresses : b = request[o].address
    BY <1>5
  <2>4. ~Dropped(w, b)
    BY <2>1, <2>2, <2>3 DEF Dropped, IsBacked
  <2> QED
    BY <1>1, <2>2, <2>3, <2>4
<1> QED
  BY <1>1, <1>4, <1>5, OneRequestEnds

LEMMA ResendsCommit ==
    ASSUME VerificationInv, NEW w \in Clients, CommitResend(w)
    PROVE  VerificationInv'
<1> USE VerificationFacts
<1>1. PICK a \in Addresses : a = request[w].address
  OBVIOUS
<1>2. PICK code : code = request[w].row.code
  OBVIOUS
<1>3. /\ request[w].at = "resending" /\ End(w) /\ UNCHANGED <<holder, legal, leaving, challenges, codes>>
      /\ pending' = [pending EXCEPT ![a].code = code]
  BY <1>1, <1>2 DEF CommitResend, Place
<1>4. Holding(w) /\ IsBacked(w) /\ code \in Nat /\ pending[a] \in Challenge
  BY <1>1, <1>2, <1>3 DEF OnChallenge, IsBacked, Challenge
<1>5. PICK row : row = [pending[a] EXCEPT !.code = code]
  OBVIOUS
<1>6. row \in Challenge
  BY <1>4, <1>5 DEF Challenge
<1>7. pending' = [pending EXCEPT ![a] = row]
  BY <1>3, <1>5
<1>8. VerificationTypeOK'
  BY <1>3, <1>6, <1>7, EndIsTyped DEF VerificationInv, VerificationTypeOK
<1>9. \A o \in Clients \ {w} : OnChallenge(o) => request[o].address # a
  BY <1>1, <1>4 DEF VerificationInv, OneHolds
<1>10. \A o \in Clients \ {w} : OnChallenge(o) =>
          pending'[request[o].address] = pending[request[o].address]
  BY <1>7, <1>9
<1> QED
  BY <1>3, <1>8, <1>10, OneRequestEnds

\* A transaction that locks the challenge of an address and reads it.
LEMMA Locks ==
    ASSUME VerificationInv, NEW w \in Clients, NEW who \in People, NEW a \in Addresses,
           Free(w, a), pending[a] \in Challenge, pending[a].who = who,
           NEW at \in {"resending", "confirming", "agreed"}, NEW row \in Challenge,
           row.id = pending[a].id, at # "resending" => row.code = pending[a].code,
           request' = [request EXCEPT ![w] = [at |-> at, who |-> who, address |-> a, row |-> row, drop |-> {}]],
           UNCHANGED <<holder, pending, legal, leaving, challenges>>, codes' \in Nat
    PROVE  VerificationInv'
<1> USE VerificationFacts
<1>1. PICK place : place = [at |-> at, who |-> who, address |-> a, row |-> row, drop |-> {}]
  OBVIOUS
<1>2. /\ place \in Request /\ place.at = at /\ place.who = who /\ place.address = a /\ place.row = row
      /\ place.drop = {}
  BY <1>1 DEF Request, Places
<1>3. VerificationTypeOK'
  BY <1>1, <1>2 DEF VerificationInv, VerificationTypeOK
<1>4. \A o \in Clients \ {w} : Holding(o) => request[o].address # a /\ row.id \notin request[o].drop
  BY HeldIsNotFree
<1>5. \A o \in Clients : OnChallenge(o) => pending[request[o].address] \in Challenge
  BY DEF IsBacked
<1> QED
  BY <1>1, <1>2, <1>3, <1>4, <1>5, OneRequestMoves

LEMMA Reads ==
    ASSUME VerificationInv, NEW w \in Clients, NEW who \in People, NEW a \in Addresses,
           Resend(w, who, a) \/ \E code \in 1 .. codes : WrongCode(w, who, a, code) \/ RightCode(w, who, a, code)
    PROVE  VerificationInv'
<1> USE VerificationFacts
<1>1. Live(w, who, a) /\ Free(w, a)
  BY DEF Resend, WrongCode, RightCode
<1>2. pending[a] \in Challenge /\ pending[a].who = who /\ request[w].at = "idle"
  BY <1>1 DEF Live, Place
<1>3. CASE Resend(w, who, a)
  <2>1. PICK row : row = [pending[a] EXCEPT !.code = codes + 1]
    OBVIOUS
  <2>2. row \in Challenge /\ row.id = pending[a].id
    BY <1>2, <2>1 DEF Challenge
  <2>3. request' = [request EXCEPT ![w] = [at |-> "resending", who |-> who, address |-> a, row |-> row, drop |-> {}]]
    BY <1>3, <2>1 DEF Resend
  <2>4. UNCHANGED <<holder, pending, legal, leaving, challenges>> /\ codes' \in Nat
    BY <1>3 DEF Resend
  <2> QED
    BY <1>1, <1>2, <2>2, <2>3, <2>4, Locks
<1>4. ASSUME NEW code \in 1 .. codes, RightCode(w, who, a, code) PROVE VerificationInv'
  <2>1. PICK at : at = IF who \in Guests THEN "confirming" ELSE "agreed"
    OBVIOUS
  <2>2. at \in {"confirming", "agreed"}
    BY <2>1
  <2>3. PICK row : row = pending[a]
    OBVIOUS
  <2>4. request' = [request EXCEPT ![w] = [at |-> at, who |-> who, address |-> a, row |-> row, drop |-> {}]]
    BY <1>4, <2>1, <2>3 DEF RightCode, Checking
  <2>5. UNCHANGED <<holder, pending, legal, leaving, challenges>> /\ codes' \in Nat
    BY <1>4 DEF RightCode
  <2> QED
    BY <1>1, <1>2, <2>2, <2>3, <2>4, <2>5, Locks
<1>5. ASSUME NEW code \in 1 .. codes, WrongCode(w, who, a, code) PROVE VerificationInv'
  <2>1. PICK row : row = [pending[a] EXCEPT !.attempts = @ + 1]
    OBVIOUS
  <2>2. row \in Challenge
    BY <1>2, <2>1 DEF Challenge
  <2>3. pending' = [pending EXCEPT ![a] = row] /\ UNCHANGED <<holder, request, legal, leaving, challenges, codes>>
    BY <1>5, <2>1 DEF WrongCode
  <2>4. VerificationTypeOK'
    BY <2>2, <2>3 DEF VerificationInv, VerificationTypeOK
  <2>5. \A o \in Clients : OnChallenge(o) => o # w
    BY <1>2 DEF OnChallenge
  <2>6. \A o \in Clients : OnChallenge(o) => request[o].address # a
    BY <1>1, <2>5, HeldIsNotFree
  <2>7. Backed'
    BY <2>3, <2>6 DEF Backed, OnChallenge, IsBacked
  <2> QED
    BY <2>3, <2>4, <2>7 DEF VerificationInv, RequestsSound, OneHolds, Holding, OnChallenge
<1> QED
  BY <1>3, <1>4, <1>5

LEMMA AgreementsChecked ==
    ASSUME VerificationInv, NEW w \in Clients, CheckAgreement(w)
    PROVE  VerificationInv'
<1> USE VerificationFacts
<1>1. PICK a \in Addresses : a = request[w].address
  OBVIOUS
<1>2. /\ request[w].at = "confirming" /\ UNCHANGED <<holder, legal, leaving, challenges, codes>>
      /\ Holding(w) /\ OnChallenge(w) /\ IsBacked(w)
  BY DEF CheckAgreement, Place, Holding, OnChallenge
<1>3. \A o \in Clients \ {w} : Holding(o) =>
         /\ request[o].address # a /\ request[w].row.id \notin request[o].drop
         /\ OnChallenge(o) => request[o].row.id \notin request[w].drop
  BY <1>1, <1>2 DEF VerificationInv, OneHolds
<1>4. CASE pending' = [pending EXCEPT ![a] = None] /\ End(w)
  <2>1. VerificationTypeOK'
    BY <1>2, <1>4, EndIsTyped DEF VerificationInv, VerificationTypeOK
  <2>2. \A o \in Clients \ {w} : OnChallenge(o) =>
           pending'[request[o].address] = pending[request[o].address]
    BY <1>3, <1>4
  <2> QED
    BY <1>4, <2>1, <2>2, OneRequestEnds
<1>5. CASE request' = [request EXCEPT ![w].at = "agreed"] /\ UNCHANGED pending
  <2>1. PICK place : place = [request[w] EXCEPT !.at = "agreed"]
    OBVIOUS
  <2>2. /\ place \in Request /\ place.at = "agreed" /\ place.who = request[w].who /\ place.row = request[w].row
        /\ place.address = a /\ place.drop = request[w].drop
    BY <1>1, <2>1 DEF Request, Places
  <2>3. request' = [request EXCEPT ![w] = place] /\ pending' = pending
    BY <1>5, <2>1
  <2>4. VerificationTypeOK'
    BY <1>2, <2>2, <2>3 DEF VerificationInv, VerificationTypeOK
  <2>5. request[w].who \in People /\ request[w].row \in Challenge
    BY <1>2
  <2>6. /\ pending[a] \in Challenge /\ pending[a].who = place.who
        /\ pending[a].id = place.row.id /\ pending[a].code = place.row.code
    BY <1>1, <1>2, <2>2 DEF IsBacked
  <2>7. \A o \in Clients : OnChallenge(o) => pending[request[o].address] \in Challenge
    BY DEF IsBacked
  <2> QED
    BY <1>3, <2>2, <2>3, <2>4, <2>5, <2>6, <2>7, OneRequestMoves
<1> QED
  BY <1>1, <1>4, <1>5 DEF CheckAgreement

LEMMA AddressesTaken ==
    ASSUME VerificationInv, NEW w \in Clients, TakeAddress(w)
    PROVE  VerificationInv'
<1> USE VerificationFacts
<1>1. PICK a \in Addresses : a = request[w].address
  OBVIOUS
<1>2. PICK who : who = request[w].who
  OBVIOUS
<1>3. /\ request[w].at = "agreed" /\ End(w) /\ UNCHANGED <<legal, leaving, challenges, codes>>
      /\ Holding(w) /\ who \in People
      /\ \/ UNCHANGED <<holder, pending>>
         \/ /\ pending' = [pending EXCEPT ![a] = None]
            /\ holder' = [b \in Addresses |->
                  IF b = a THEN who ELSE IF who \in Owners /\ holder[b] = who THEN Nobody ELSE holder[b]]
  BY <1>1, <1>2 DEF TakeAddress, Place, Holding
<1>4. \A o \in Clients \ {w} : Holding(o) => request[o].address # a
  BY <1>1, <1>3 DEF VerificationInv, OneHolds
<1>5. holder' \in [Addresses -> People \cup {Nobody}] /\ pending' \in [Addresses -> Challenge \cup {None}]
  BY <1>3
<1>6. VerificationTypeOK'
  BY <1>3, <1>5, EndIsTyped DEF VerificationInv, VerificationTypeOK
<1>7. \A o \in Clients \ {w} : OnChallenge(o) =>
         pending'[request[o].address] = pending[request[o].address]
  BY <1>3, <1>4
<1> QED
  BY <1>3, <1>6, <1>7, OneRequestEnds

\* A step of nobody's transaction that keeps what the open ones have read.
LEMMA NoRequestMoves ==
    ASSUME VerificationInv, UNCHANGED request, VerificationTypeOK',
           \A o \in Clients : OnChallenge(o) =>
              LET c == pending[request[o].address]  d == pending'[request[o].address] IN
              d \in Challenge /\ d.who = c.who /\ d.id = c.id /\ d.code = c.code
    PROVE  VerificationInv'
<1>1. Backed'
  BY DEF VerificationInv, Backed, OnChallenge, IsBacked
<1> QED
  BY <1>1 DEF VerificationInv, RequestsSound, OneHolds, Holding, OnChallenge

LEMMA OthersPass ==
    ASSUME VerificationInv,
           \/ CleanExpired \/ PublishLegal
           \/ \E a \in Addresses : Expire(a)
           \/ \E u \in Owners : ChangePassword(u) \/ CloseOwner(u)
    PROVE  VerificationInv'
<1> USE VerificationFacts
<1>0. \A o \in Clients : OnChallenge(o) => pending[request[o].address] \in Challenge
  BY DEF IsBacked
<1>1. CASE CleanExpired
  <2>1. /\ pending' = [a \in Addresses |->
                          IF pending[a] # None /\ pending[a].expired THEN None ELSE pending[a]]
        /\ UNCHANGED <<holder, request, legal, leaving, challenges, codes>>
    BY <1>1 DEF CleanExpired
  <2>2. VerificationTypeOK'
    BY <2>1 DEF VerificationInv, VerificationTypeOK
  <2>3. ASSUME NEW o \in Clients, OnChallenge(o)
        PROVE  pending'[request[o].address] = pending[request[o].address]
    <3>1. PICK a \in Addresses : a = request[o].address
      OBVIOUS
    <3>2. HoldsRow(o, a) /\ pending[a] # None
      BY <2>3, <3>1, <1>0, ChallengesHaveIds DEF HoldsRow, OnChallenge
    <3>3. ~pending[a].expired
      BY <1>1, <3>2 DEF CleanExpired
    <3> QED
      BY <2>1, <3>1, <3>3
  <2> QED
    BY <1>0, <2>1, <2>2, <2>3, NoRequestMoves
<1>2. CASE PublishLegal
  <2>1. VerificationTypeOK'
    BY <1>2 DEF PublishLegal, VerificationInv, VerificationTypeOK
  <2> QED
    BY <1>0, <1>2, <2>1, NoRequestMoves DEF PublishLegal
<1>3. ASSUME NEW a \in Addresses, Expire(a) PROVE VerificationInv'
  <2>1. PICK old : old = pending[a]
    OBVIOUS
  <2>2. PICK row : row = [old EXCEPT !.expired = TRUE]
    OBVIOUS
  <2>3. old \in Challenge
    BY <1>3, <2>1 DEF Expire
  <2>4. row \in Challenge /\ row.who = old.who /\ row.id = old.id /\ row.code = old.code
    BY <2>2, <2>3 DEF Challenge
  <2>5. pending' = [pending EXCEPT ![a] = row] /\ UNCHANGED <<holder, request, legal, leaving, challenges, codes>>
    BY <1>3, <2>1, <2>2 DEF Expire
  <2>6. VerificationTypeOK'
    BY <2>4, <2>5 DEF VerificationInv, VerificationTypeOK
  <2> QED
    BY <1>0, <2>1, <2>4, <2>5, <2>6, NoRequestMoves
<1>4. ASSUME NEW u \in Owners, ChangePassword(u) PROVE VerificationInv'
  <2>1. /\ pending' = [a \in Addresses |->
                          IF pending[a] # None /\ pending[a].who = u THEN None ELSE pending[a]]
        /\ UNCHANGED <<holder, request, legal, leaving, challenges, codes>>
    BY <1>4 DEF ChangePassword
  <2>2. VerificationTypeOK'
    BY <2>1 DEF VerificationInv, VerificationTypeOK
  <2>3. ASSUME NEW o \in Clients, OnChallenge(o)
        PROVE  pending'[request[o].address] = pending[request[o].address]
    <3>1. PICK a \in Addresses : a = request[o].address
      OBVIOUS
    <3>2. pending[a].who = request[o].who
      BY <2>3, <3>1 DEF IsBacked
    <3>3. pending[a].who # u
      BY <1>4, <3>2 DEF ChangePassword, UserLocked
    <3> QED
      BY <2>1, <3>1, <3>3
  <2> QED
    BY <1>0, <2>1, <2>2, <2>3, NoRequestMoves
<1>5. ASSUME NEW u \in Owners, CloseOwner(u) PROVE VerificationInv'
  <2>1. VerificationTypeOK'
    BY <1>5 DEF CloseOwner, VerificationInv, VerificationTypeOK
  <2> QED
    BY <1>0, <1>5, <2>1, NoRequestMoves DEF CloseOwner
<1> QED
  BY <1>1, <1>2, <1>3, <1>4, <1>5

LEMMA VerificationStep == VerificationInv /\ [VerificationNext]_verificationVars => VerificationInv'
<1> SUFFICES ASSUME VerificationInv, [VerificationNext]_verificationVars PROVE VerificationInv'
  OBVIOUS
<1>1. ASSUME NEW w \in Clients, NEW who \in People, NEW a \in Addresses,
             \/ Start(w, who, a) \/ Resend(w, who, a)
             \/ \E code \in 1 .. codes : WrongCode(w, who, a, code) \/ RightCode(w, who, a, code)
      PROVE  VerificationInv'
  BY <1>1, ChallengeStarts, Reads
<1>2. ASSUME NEW w \in Clients, Transaction(w) PROVE VerificationInv'
  BY <1>2, Inserts, InsertsCommit, ResendsCommit, AgreementsChecked, AddressesTaken DEF Transaction
<1>3. ASSUME NEW w \in Clients, GiveUp(w) PROVE VerificationInv'
  <2>1. End(w) /\ UNCHANGED <<holder, pending, legal, leaving, challenges, codes>>
    BY <1>3 DEF GiveUp
  <2>2. VerificationTypeOK'
    BY <2>1, EndIsTyped DEF VerificationInv, VerificationTypeOK
  <2> QED
    BY <2>1, <2>2, OneRequestEnds
<1>4. CASE \/ CleanExpired \/ PublishLegal
           \/ \E a \in Addresses : Expire(a)
           \/ \E u \in Owners : ChangePassword(u) \/ CloseOwner(u)
  BY <1>4, OthersPass
<1>5. CASE UNCHANGED verificationVars
  <2>1. VerificationTypeOK' /\ RequestsSound'
    BY <1>5 DEF verificationVars, VerificationInv, VerificationTypeOK, RequestsSound
  <2>2. OneHolds' /\ Backed'
    BY <1>5 DEF verificationVars, VerificationInv, OneHolds, Backed, Holding, OnChallenge, IsBacked
  <2> QED
    BY <2>1, <2>2 DEF VerificationInv
<1> QED
  BY <1>1, <1>2, <1>3, <1>4, <1>5 DEF VerificationNext

\* What the property says of one step.
GivenByNewest ==
    \A a \in Addresses : holder'[a] \notin {holder[a], Nobody} =>
        /\ pending[a] # None /\ pending[a].who = holder'[a]
        /\ \E w \in Clients : /\ request[w].at = "agreed" /\ request[w].address = a
                              /\ request[w].row.id = pending[a].id
                              /\ request[w].row.code = pending[a].code

LEMMA OnlyTheNewestGives == VerificationInv /\ [VerificationNext]_verificationVars => GivenByNewest
<1> SUFFICES ASSUME VerificationInv, [VerificationNext]_verificationVars PROVE GivenByNewest
  OBVIOUS
<1> USE VerificationFacts
<1>1. ASSUME NEW w \in Clients, TakeAddress(w) PROVE GivenByNewest
  <2>1. PICK a \in Addresses : a = request[w].address
    OBVIOUS
  <2>2. request[w].at = "agreed" /\ IsBacked(w)
    BY <1>1 DEF TakeAddress, Place, OnChallenge
  <2>3. /\ pending[a] \in Challenge /\ pending[a].who = request[w].who
        /\ pending[a].id = request[w].row.id /\ pending[a].code = request[w].row.code
    BY <2>1, <2>2 DEF IsBacked
  <2>4. \/ holder' = holder
        \/ holder' = [b \in Addresses |-> IF b = a THEN request[w].who
                         ELSE IF request[w].who \in Owners /\ holder[b] = request[w].who THEN Nobody
                         ELSE holder[b]]
    BY <1>1, <2>1 DEF TakeAddress
  <2>5. \A b \in Addresses : holder'[b] \notin {holder[b], Nobody} => b = a /\ holder'[b] = request[w].who
    BY <2>4
  <2> QED
    BY <2>1, <2>2, <2>3, <2>5, ChallengesHaveIds DEF GivenByNewest
<1>2. CASE holder' = holder
  BY <1>2 DEF GivenByNewest
<1>3. holder' = holder \/ \E w \in Clients : TakeAddress(w)
  BY DEF VerificationNext, verificationVars, Start, Resend, WrongCode, RightCode, Transaction, Insert,
         CommitInsert, CommitResend, CheckAgreement, GiveUp, Expire, CleanExpired, ChangePassword,
         CloseOwner, PublishLegal
<1> QED
  BY <1>1, <1>2, <1>3

\* Every account, challenge and transaction keeps its type.
THEOREM VerificationTyped == VerificationSpec => []VerificationTypeOK
<1>1. VerificationInv => VerificationTypeOK
  BY DEF VerificationInv
<1> QED
  BY VerificationInitially, VerificationStep, <1>1, PTL DEF VerificationSpec

\* An account gets an address only by the newest code of a challenge that is still
\* there when the transaction ends, for any number of guests, owners, addresses and
\* concurrent requests.
THEOREM NewestCodeProves == VerificationSpec => ProvenByNewest
<1>1. VerificationInv /\ [VerificationNext]_verificationVars
      => [\A a \in Addresses : holder'[a] \notin {holder[a], Nobody} =>
            /\ pending[a] # None /\ pending[a].who = holder'[a]
            /\ \E w \in Clients : /\ request[w].at = "agreed" /\ request[w].address = a
                                  /\ request[w].row.id = pending[a].id
                                  /\ request[w].row.code = pending[a].code]_verificationVars
  BY OnlyTheNewestGives DEF GivenByNewest
<1> QED
  BY VerificationInitially, VerificationStep, <1>1, PTL DEF VerificationSpec, ProvenByNewest

-----------------------------------------------------------------------------
(* PlanChanges.  A change that is called undone never takes effect, for any    *)
(* number of periods, intents, failures and faults.  While a change can still  *)
(* be undone it is the newest of all intents, its schedule is the only one at  *)
(* Stripe and no upgrade is being bought, so that a renewal can only turn its  *)
(* own price; and where the schedule has its second phase, it is in force      *)
(* before its boundary, or was given up before it, or the boundary has turned  *)
(* the price, which Finish then finds.                                         *)

ChangeStates == Work \cup ChangeTerminal \cup {"scheduled", "awaiting_payment", "needs_review"}
UpgradeStates == Open \cup {"preview", "applied", "expired"}

LEMMA SeqOf ==
    ASSUME NEW S, NEW T, NEW s \in Seq(S), NEW t \in [DOMAIN s -> T]
    PROVE  t \in Seq(T) /\ Len(t) = Len(s) /\ DOMAIN t = DOMAIN s
<1>1. Len(s) \in Nat /\ DOMAIN s = 1 .. Len(s)
  BY LenProperties
<1>2. t \in Seq(T)
  BY <1>1, SeqDef
<1> QED BY <1>1, <1>2, LenProperties

LEMMA SeqAgain ==
    ASSUME NEW S, NEW s \in Seq(S), NEW t \in [DOMAIN s -> S]
    PROVE  t \in Seq(S) /\ Len(t) = Len(s) /\ DOMAIN t = DOMAIN s
BY SeqOf

LEMMA SeqMember ==
    ASSUME NEW S, NEW s \in Seq(S), NEW k \in DOMAIN s
    PROVE  s[k] \in S /\ k \in 1 .. Len(s) /\ k \in Nat /\ Len(s) \in Nat
BY LenProperties, ElementOfSeq

LEMMA SavedFields ==
    ASSUME NEW d \in Saved
    PROVE  /\ d.plan \in Prices /\ d.matches \in BOOLEAN /\ d.period \in Periods
           /\ d.status \in {"active", "past_due", "canceled"} /\ d.papers \in Seq(Paper)
           /\ d.changes \in Seq(Change) /\ d.upgrades \in Seq(Upgrade)
           /\ \A i \in DOMAIN d.changes : d.changes[i] \in Change
           /\ \A j \in DOMAIN d.upgrades : d.upgrades[j] \in Upgrade
BY SeqMember DEF Saved

-----------------------------------------------------------------------------
\* What an observation or a failure may make of a change: it takes effect, or it
\* is no longer undoable.
KeptChange(c, e) ==
    /\ e.known = c.known /\ e.at = c.at /\ e.source = c.source /\ e.target = c.target
    /\ c.applied => e.applied
    /\ \/ e.state = c.state /\ e.applied = c.applied
       \/ e.state \in {"stopped", "awaiting_payment", "finalizing", "needs_review"}

KeptBy(d, e) ==
    /\ e \in Saved
    /\ DOMAIN e.changes = DOMAIN d.changes /\ DOMAIN e.upgrades = DOMAIN d.upgrades
    /\ \A i \in DOMAIN d.changes : KeptChange(d.changes[i], e.changes[i])
    /\ \A j \in DOMAIN d.upgrades : e.upgrades[j].state = "submitting" => d.upgrades[j].state = "submitting"

LEMMA KeptTwice ==
    ASSUME NEW d, NEW e, NEW f, KeptBy(d, e), KeptBy(e, f)
    PROVE  KeptBy(d, f)
<1>1. ASSUME NEW i \in DOMAIN d.changes PROVE KeptChange(d.changes[i], f.changes[i])
  <2>1. KeptChange(d.changes[i], e.changes[i]) /\ KeptChange(e.changes[i], f.changes[i])
    BY DEF KeptBy
  <2> QED BY <2>1 DEF KeptChange
<1> QED BY <1>1 DEF KeptBy

LEMMA KeptItself == ASSUME NEW d \in Saved PROVE KeptBy(d, d)
BY DEF KeptBy, KeptChange

LEMMA PlanPut ==
    ASSUME NEW d \in Saved, NEW p \in Prices
    PROVE  LET e == [d EXCEPT !.plan = p] IN
           /\ e \in Saved /\ e.changes = d.changes /\ e.upgrades = d.upgrades /\ e.papers = d.papers
           /\ e.status = d.status /\ e.matches = d.matches /\ e.period = d.period /\ e.plan = p
BY DEF Saved

\* One change turned.
LEMMA BecameKeeps ==
    ASSUME NEW d \in Saved, NEW i, NEW state \in ChangeStates
    PROVE  /\ Became(d, i, state) \in Saved
           /\ DOMAIN Became(d, i, state).changes = DOMAIN d.changes
           /\ Len(Became(d, i, state).changes) = Len(d.changes)
           /\ \A k \in DOMAIN d.changes :
                 Became(d, i, state).changes[k] = IF k = i THEN [d.changes[k] EXCEPT !.state = state] ELSE d.changes[k]
           /\ Became(d, i, state).upgrades = d.upgrades
           /\ Became(d, i, state).status = d.status
<1> PICK old : old = d.changes
  OBVIOUS
<1> PICK rows : rows = [old EXCEPT ![i].state = state]
  OBVIOUS
<1> PICK e : e = [d EXCEPT !.changes = rows]
  OBVIOUS
<1>1. Became(d, i, state) = e
  BY DEF Became
<1>2. DOMAIN rows = DOMAIN old /\ \A k \in DOMAIN old : rows[k] = IF k = i THEN [old[k] EXCEPT !.state = state] ELSE old[k]
  OBVIOUS
<1>3. \A k \in DOMAIN old : old[k] \in Change
  BY SavedFields
<1>4. \A k \in DOMAIN old : rows[k] \in Change
  BY <1>2, <1>3 DEF Change, ChangeStates
<1>5. rows \in [DOMAIN old -> Change]
  BY <1>2, <1>4
<1>6. /\ e \in Saved /\ e.changes = rows /\ DOMAIN e.changes = DOMAIN d.changes /\ Len(e.changes) = Len(d.changes)
      /\ e.upgrades = d.upgrades /\ e.status = d.status
  <2>1. rows \in Seq(Change) /\ Len(rows) = Len(old) /\ DOMAIN rows = DOMAIN old
    BY <1>5, SavedFields, SeqOf
  <2> QED BY <2>1 DEF Saved
<1> QED BY <1>1, <1>2, <1>6

LEMMA TurnedKeeps ==
    ASSUME NEW d \in Saved, NEW j, NEW state \in UpgradeStates
    PROVE  /\ Turned(d, j, state) \in Saved
           /\ DOMAIN Turned(d, j, state).upgrades = DOMAIN d.upgrades
           /\ Len(Turned(d, j, state).upgrades) = Len(d.upgrades)
           /\ \A k \in DOMAIN d.upgrades :
                 Turned(d, j, state).upgrades[k] = IF k = j THEN [d.upgrades[k] EXCEPT !.state = state] ELSE d.upgrades[k]
           /\ Turned(d, j, state).changes = d.changes
<1> PICK old : old = d.upgrades
  OBVIOUS
<1> PICK rows : rows = [old EXCEPT ![j].state = state]
  OBVIOUS
<1> PICK e : e = [d EXCEPT !.upgrades = rows]
  OBVIOUS
<1>1. Turned(d, j, state) = e
  BY DEF Turned
<1>2. DOMAIN rows = DOMAIN old /\ \A k \in DOMAIN old : rows[k] = IF k = j THEN [old[k] EXCEPT !.state = state] ELSE old[k]
  OBVIOUS
<1>3. \A k \in DOMAIN old : old[k] \in Upgrade
  BY SavedFields
<1>4. \A k \in DOMAIN old : rows[k] \in Upgrade
  BY <1>2, <1>3 DEF Upgrade, UpgradeStates
<1>5. rows \in [DOMAIN old -> Upgrade]
  BY <1>2, <1>4
<1>6. /\ e \in Saved /\ e.upgrades = rows /\ DOMAIN e.upgrades = DOMAIN d.upgrades /\ Len(e.upgrades) = Len(d.upgrades)
      /\ e.changes = d.changes /\ e.status = d.status
  <2>1. rows \in Seq(Upgrade) /\ Len(rows) = Len(old) /\ DOMAIN rows = DOMAIN old
    BY <1>5, SavedFields, SeqOf
  <2> QED BY <2>1 DEF Saved
<1> QED BY <1>1, <1>2, <1>6

\* A change that took effect.
Taken(d, i, p) == [d EXCEPT !.plan = p, !.changes[i].applied = TRUE, !.changes[i].state = "awaiting_payment"]
TakenRows(rows, i) == [rows EXCEPT ![i].applied = TRUE, ![i].state = "awaiting_payment"]

Took(c) == [c EXCEPT !.applied = TRUE, !.state = "awaiting_payment"]

LEMMA TakenRow == ASSUME NEW c \in Change PROVE Took(c) \in Change /\ KeptChange(c, Took(c))
<1> PICK new : new = Took(c)
  OBVIOUS
<1>1. new \in Change
  BY DEF Took, Change
<1>2. /\ new.known = c.known /\ new.at = c.at /\ new.source = c.source /\ new.target = c.target
      /\ new.applied = TRUE /\ new.state = "awaiting_payment"
  BY DEF Took, Change
<1> QED BY <1>1, <1>2 DEF KeptChange

LEMMA TakenIs ==
    ASSUME NEW d \in Saved, NEW i, NEW p
    PROVE  Taken(d, i, p) = [d EXCEPT !.plan = p, !.changes = TakenRows(d.changes, i)]
BY DEF Taken, TakenRows, Saved

LEMMA ObserveChangeKeeps ==
    ASSUME NEW d \in Saved, sub \in Subscription
    PROVE  KeptBy(d, ObserveChange(d)) /\ ObserveChange(d).upgrades = d.upgrades
<1>1. \A k, p : Taken(d, k, p) = [d EXCEPT !.plan = p, !.changes = TakenRows(d.changes, k)]
  BY TakenIs
<1> PICK unfinished : unfinished = {h \in DOMAIN d.changes : d.changes[h].state \notin ChangeTerminal}
  OBVIOUS
<1> PICK i : i = Last(unfinished)
  OBVIOUS
<1> PICK c : c = d.changes[i]
  OBVIOUS
<1> PICK e : e = ObserveChange(d)
  OBVIOUS
<1>2. CASE e = d
  BY <1>2, KeptItself
<1>3. CASE e = Became(d, i, "stopped")
  <2>1. /\ e \in Saved /\ DOMAIN e.changes = DOMAIN d.changes /\ e.upgrades = d.upgrades
        /\ \A k \in DOMAIN d.changes : e.changes[k] = IF k = i THEN [d.changes[k] EXCEPT !.state = "stopped"] ELSE d.changes[k]
    BY <1>3, BecameKeeps DEF ChangeStates, ChangeTerminal
  <2>2. ASSUME NEW k \in DOMAIN d.changes PROVE KeptChange(d.changes[k], e.changes[k])
    <3>1. d.changes[k] \in Change
      BY <2>2, SavedFields
    <3> PICK new : new = e.changes[k]
      OBVIOUS
    <3>2. new = IF k = i THEN [d.changes[k] EXCEPT !.state = "stopped"] ELSE d.changes[k]
      BY <2>1, <2>2
    <3>3. /\ new.known = d.changes[k].known /\ new.at = d.changes[k].at /\ new.source = d.changes[k].source
          /\ new.target = d.changes[k].target /\ new.applied = d.changes[k].applied
          /\ new.state = "stopped" \/ new.state = d.changes[k].state
      BY <3>1, <3>2 DEF Change
    <3> QED BY <3>3 DEF KeptChange
  <2> QED BY <2>1, <2>2 DEF KeptBy
<1>4. CASE e = [d EXCEPT !.plan = c.target] /\ sub.price = c.target
  <2>1. e \in Saved /\ e.changes = d.changes /\ e.upgrades = d.upgrades
    BY <1>4, PlanPut DEF Subscription
  <2> QED BY <2>1 DEF KeptBy, KeptChange
<1>5. CASE e = Taken(d, i, c.target) /\ sub.price = c.target
  <2> PICK old : old = d.changes
    OBVIOUS
  <2> PICK p : p = c.target
    OBVIOUS
  <2> PICK rows : rows = TakenRows(old, i)
    OBVIOUS
  <2>1. e = [d EXCEPT !.plan = p, !.changes = rows]
    BY <1>1, <1>5
  <2>2. p \in Prices
    BY <1>5 DEF Subscription
  <2>3. DOMAIN rows = DOMAIN old
        /\ \A k \in DOMAIN old :
              rows[k] = IF k = i THEN Took(old[k]) ELSE old[k]
    BY DEF TakenRows, Took
  <2>4. ASSUME NEW k \in DOMAIN old
        PROVE  rows[k] \in Change /\ KeptChange(old[k], rows[k])
    <3>1. old[k] \in Change
      BY <2>4, SavedFields
    <3>2. Took(old[k]) \in Change /\ KeptChange(old[k], Took(old[k]))
      BY <3>1, TakenRow
    <3>3. KeptChange(old[k], old[k])
      BY DEF KeptChange
    <3> QED BY <2>3, <2>4, <3>1, <3>2, <3>3
  <2>5. rows \in Seq(Change)
    <3>1. rows \in [DOMAIN old -> Change]
      <4>1. rows = [k \in DOMAIN old |-> rows[k]]
        BY <2>3 DEF TakenRows
      <4> QED BY <2>4, <4>1
    <3>2. old \in Seq(Change)
      BY SavedFields
    <3> QED BY <3>1, <3>2, SeqAgain
  <2>6. e \in Saved /\ e.changes = rows /\ e.upgrades = d.upgrades
    BY <2>1, <2>5, <2>2 DEF Saved
  <2> QED BY <2>3, <2>4, <2>6 DEF KeptBy
<1>6. \/ e = d
      \/ e = Became(d, i, "stopped")
      \/ e = [d EXCEPT !.plan = c.target] /\ sub.price = c.target
      \/ e = Taken(d, i, c.target) /\ sub.price = c.target
  BY DEF ObserveChange, Became, Taken
<1> QED BY <1>2, <1>3, <1>4, <1>5, <1>6

LEMMA TurnedAway ==
    ASSUME NEW d \in Saved, NEW j, NEW state \in UpgradeStates \ {"submitting"}
    PROVE  KeptBy(d, Turned(d, j, state)) /\ Turned(d, j, state).changes = d.changes
<1> PICK e : e = Turned(d, j, state)
  OBVIOUS
<1>1. /\ e \in Saved /\ DOMAIN e.upgrades = DOMAIN d.upgrades /\ e.changes = d.changes
      /\ \A k \in DOMAIN d.upgrades : e.upgrades[k] = IF k = j THEN [d.upgrades[k] EXCEPT !.state = state] ELSE d.upgrades[k]
  BY TurnedKeeps
<1>2. ASSUME NEW k \in DOMAIN d.upgrades, e.upgrades[k].state = "submitting"
      PROVE  d.upgrades[k].state = "submitting"
  BY <1>1, <1>2, SavedFields DEF Upgrade
<1> QED BY <1>1, <1>2 DEF KeptBy, KeptChange

\* What an upgrade's row becomes is a state of it that is not "submitting" again,
\* or with its invoice found.
LEMMA JudgedKeeps ==
    ASSUME NEW d \in Saved, NEW j
    PROVE  KeptBy(d, Judged(d, j)) /\ Judged(d, j).changes = d.changes
<1> PICK e : e = Judged(d, j)
  OBVIOUS
<1>1. ASSUME NEW state \in {"needs_review", "expired", "pending_payment"}, e = Turned(d, j, state)
      PROVE  KeptBy(d, e) /\ e.changes = d.changes
  <2>1. state \in UpgradeStates \ {"submitting"}
    BY DEF UpgradeStates, Open
  <2> QED BY <1>1, <2>1, TurnedAway
<1>2. CASE e = [d EXCEPT !.plan = High, !.upgrades[j].state = "applied", !.upgrades[j].applied = TRUE]
  <2> PICK old : old = d.upgrades
    OBVIOUS
  <2> PICK rows : rows = [old EXCEPT ![j].state = "applied", ![j].applied = TRUE]
    OBVIOUS
  <2>1. e = [d EXCEPT !.plan = High, !.upgrades = rows]
    BY <1>2
  <2>2. DOMAIN rows = DOMAIN old
        /\ \A k \in DOMAIN old :
              rows[k] = IF k = j THEN [old[k] EXCEPT !.state = "applied", !.applied = TRUE] ELSE old[k]
    OBVIOUS
  <2>3. ASSUME NEW k \in DOMAIN old
        PROVE  rows[k] \in Upgrade /\ (rows[k].state = "submitting" => old[k].state = "submitting")
    <3>1. old[k] \in Upgrade
      BY <2>3, SavedFields
    <3>2. rows[k] \in Upgrade
      BY <2>2, <2>3, <3>1 DEF Upgrade
    <3>3. rows[k].state = "submitting" => old[k].state = "submitting"
      BY <2>2, <2>3, <3>1 DEF Upgrade
    <3> QED BY <3>2, <3>3
  <2>4. rows \in Seq(Upgrade)
    <3>1. rows \in [DOMAIN old -> Upgrade]
      <4>1. rows = [k \in DOMAIN old |-> rows[k]]
        BY <2>2
      <4> QED BY <2>3, <4>1
    <3>2. old \in Seq(Upgrade)
      BY SavedFields
    <3>3. \A t \in [DOMAIN old -> Upgrade] : t \in Seq(Upgrade)
      BY <3>2, SeqAgain
    <3> QED BY <3>1, <3>3
  <2>5. e \in Saved /\ e.upgrades = rows /\ e.changes = d.changes
    BY <2>1, <2>4 DEF Saved, Prices
  <2> QED BY <2>2, <2>3, <2>5 DEF KeptBy, KeptChange
<1>3. \/ \E state \in {"needs_review", "expired", "pending_payment"} : e = Turned(d, j, state)
      \/ e = [d EXCEPT !.plan = High, !.upgrades[j].state = "applied", !.upgrades[j].applied = TRUE]
  BY DEF Judged, Turned
<1> QED BY <1>1, <1>2, <1>3

LEMMA PapersTyped ==
    ASSUME NEW d \in Saved, invoices \in Seq(Invoice)
    PROVE  ObservedPapers(d) \in Seq(Paper)
<1>1. ASSUME NEW k PROVE InvoiceIssue(d, k) \in BOOLEAN
  BY DEF InvoiceIssue
<1> PICK rows : rows = ObservedPapers(d)
  OBVIOUS
<1>2. rows = [k \in DOMAIN invoices |->
                 [status |-> invoices[k].status, tried |-> invoices[k].tried, issue |-> InvoiceIssue(d, k)]]
  BY DEF ObservedPapers
<1>3. ASSUME NEW k \in DOMAIN invoices PROVE rows[k] \in Paper
  <2>1. invoices[k] \in Invoice
    BY SeqMember
  <2>2. rows[k] = [status |-> invoices[k].status, tried |-> invoices[k].tried, issue |-> InvoiceIssue(d, k)]
    BY <1>2
  <2> QED BY <1>1, <2>1, <2>2 DEF Paper, Invoice
<1>4. rows \in [DOMAIN invoices -> Paper]
  BY <1>2, <1>3
<1> QED BY <1>4, SeqOf

LEMMA EvidenceKeeps ==
    ASSUME NEW d \in Saved, invoices \in Seq(Invoice)
    PROVE  /\ Evidence(d) \in Saved
           /\ Evidence(d).changes = d.changes /\ Evidence(d).upgrades = d.upgrades
BY PapersTyped DEF Evidence, Saved

LEMMA ObserveUpgradeKeeps ==
    ASSUME NEW d \in Saved, invoices \in Seq(Invoice)
    PROVE  KeptBy(d, ObserveUpgrade(d)) /\ ObserveUpgrade(d).changes = d.changes
<1> PICK j : j = Last({h \in DOMAIN d.upgrades : d.upgrades[h].submitted})
  OBVIOUS
<1> PICK e : e = ObserveUpgrade(d)
  OBVIOUS
<1> PICK found : found = [d EXCEPT !.upgrades[j].invoice = Len(invoices)]
  OBVIOUS
<1>1. \/ e = d \/ e = Judged(Evidence(d), j) \/ e = Judged(Evidence(found), j) \/ e = Turned(d, j, "needs_review")
  BY DEF ObserveUpgrade, Turned
<1>2. CASE e = d
  BY <1>2, KeptItself
<1>3. ASSUME NEW f \in Saved, KeptBy(d, f), f.changes = d.changes, e = Judged(Evidence(f), j)
      PROVE  KeptBy(d, e) /\ e.changes = d.changes
  <2> PICK g : g = Evidence(f)
    OBVIOUS
  <2>1. g \in Saved /\ g.changes = f.changes /\ g.upgrades = f.upgrades
    BY <1>3, EvidenceKeeps
  <2>2. KeptBy(f, g)
    BY <2>1 DEF KeptBy, KeptChange
  <2>3. KeptBy(g, e) /\ e.changes = g.changes
    BY <1>3, <2>1, JudgedKeeps
  <2>4. KeptBy(d, g)
    BY <1>3, <2>2, KeptTwice
  <2> QED BY <1>3, <2>1, <2>3, <2>4, KeptTwice
<1>4. found \in Saved /\ KeptBy(d, found) /\ found.changes = d.changes
  <2> PICK old : old = d.upgrades
    OBVIOUS
  <2> PICK rows : rows = [old EXCEPT ![j].invoice = Len(invoices)]
    OBVIOUS
  <2>1. found = [d EXCEPT !.upgrades = rows]
    OBVIOUS
  <2>2. DOMAIN rows = DOMAIN old
        /\ \A k \in DOMAIN old : rows[k] = IF k = j THEN [old[k] EXCEPT !.invoice = Len(invoices)] ELSE old[k]
    OBVIOUS
  <2>3. Len(invoices) \in Nat
    BY LenProperties
  <2>4. ASSUME NEW k \in DOMAIN old
        PROVE  rows[k] \in Upgrade /\ rows[k].state = old[k].state
    <3>1. old[k] \in Upgrade
      BY <2>4, SavedFields
    <3> QED BY <2>2, <2>3, <2>4, <3>1 DEF Upgrade
  <2>5. rows \in Seq(Upgrade)
    <3>1. rows \in [DOMAIN old -> Upgrade]
      <4>1. rows = [k \in DOMAIN old |-> rows[k]]
        BY <2>2
      <4> QED BY <2>4, <4>1
    <3>2. old \in Seq(Upgrade)
      BY SavedFields
    <3>3. \A t \in [DOMAIN old -> Upgrade] : t \in Seq(Upgrade)
      BY <3>2, SeqAgain
    <3> QED BY <3>1, <3>3
  <2>6. found \in Saved /\ found.upgrades = rows /\ found.changes = d.changes
    BY <2>1, <2>5 DEF Saved
  <2> QED BY <2>2, <2>4, <2>6 DEF KeptBy, KeptChange
<1>5. CASE e = Turned(d, j, "needs_review")
  <2>1. "needs_review" \in UpgradeStates \ {"submitting"}
    BY DEF UpgradeStates, Open
  <2> QED BY <1>5, <2>1, TurnedAway
<1>6. KeptBy(d, d)
  BY KeptItself
<1> QED BY <1>1, <1>2, <1>3, <1>4, <1>5, <1>6

LEMMA ReconciledKeeps ==
    ASSUME NEW d \in Saved, invoices \in Seq(Invoice), sub \in Subscription
    PROVE  KeptBy(d, Reconciled(d)) /\ Reconciled(d).changes = d.changes /\ Reconciled(d).status = sub.status
<1> PICK papers : papers = ObservedPapers(d)
  OBVIOUS
<1> PICK e : e = Reconciled(d)
  OBVIOUS
<1>1. papers \in Seq(Paper)
  BY PapersTyped
<1>2. e = [d EXCEPT !.matches = (sub.price = d.plan), !.period = sub.period, !.status = sub.status, !.papers = papers]
  BY DEF Reconciled
<1>3. /\ e \in Saved /\ e.changes = d.changes /\ e.upgrades = d.upgrades /\ e.status = sub.status
  BY <1>1, <1>2 DEF Saved, Subscription
<1> QED BY <1>3 DEF KeptBy, KeptChange

LEMMA PaidKeeps ==
    ASSUME NEW d \in Saved
    PROVE  KeptBy(d, Paid(d)) /\ Paid(d).status = d.status
<1> PICK e : e = Paid(d)
  OBVIOUS
<1> PICK old : old = d.changes
  OBVIOUS
<1> PICK rows : rows = [i \in DOMAIN old |->
             IF old[i].state = "awaiting_payment" THEN [old[i] EXCEPT !.state = "finalizing"] ELSE old[i]]
  OBVIOUS
<1>1. e = d \/ e = [d EXCEPT !.changes = rows]
  BY DEF Paid
<1>2. CASE e = d
  BY <1>2, KeptItself
<1>3. CASE e = [d EXCEPT !.changes = rows]
  <2>1. ASSUME NEW k \in DOMAIN old PROVE rows[k] \in Change /\ KeptChange(old[k], rows[k])
    <3>1. old[k] \in Change
      BY <2>1, SavedFields
    <3>2. rows[k] = IF old[k].state = "awaiting_payment" THEN [old[k] EXCEPT !.state = "finalizing"] ELSE old[k]
      OBVIOUS
    <3>3. rows[k] \in Change
      BY <3>1, <3>2 DEF Change, Work
    <3>4. KeptChange(old[k], rows[k])
      BY <3>1, <3>2 DEF KeptChange, Change
    <3> QED BY <3>3, <3>4
  <2>2. rows \in Seq(Change)
    <3>1. rows \in [DOMAIN old -> Change]
      BY <2>1
    <3>2. old \in Seq(Change)
      BY SavedFields
    <3>3. \A t \in [DOMAIN old -> Change] : t \in Seq(Change)
      BY <3>2, SeqAgain
    <3> QED BY <3>1, <3>3
  <2>3. e \in Saved /\ e.changes = rows /\ e.upgrades = d.upgrades /\ e.status = d.status
    BY <1>3, <2>2 DEF Saved
  <2>4. DOMAIN rows = DOMAIN old
    OBVIOUS
  <2> QED BY <2>1, <2>3, <2>4 DEF KeptBy
<1> QED BY <1>1, <1>2, <1>3

\* The order of an observation's steps.
LEMMA ObservedIs ==
    ASSUME NEW d
    PROVE  Observed(d) = Paid(Reconciled(ObserveUpgrade(ObserveChange(d))))
BY DEF Observed

LEMMA ObservedKeeps ==
    ASSUME NEW d \in Saved, invoices \in Seq(Invoice), sub \in Subscription
    PROVE  /\ KeptBy(d, Observed(d)) /\ Observed(d).status = sub.status
           /\ \A i \in DOMAIN d.changes : ObserveChange(d).changes[i].applied => Observed(d).changes[i].applied
<1> PICK c : c = ObserveChange(d)
  OBVIOUS
<1> PICK u : u = ObserveUpgrade(c)
  OBVIOUS
<1> PICK r : r = Reconciled(u)
  OBVIOUS
<1> PICK e : e = Paid(r)
  OBVIOUS
<1>1. KeptBy(d, c) /\ c \in Saved
  BY ObserveChangeKeeps DEF KeptBy
<1>2. KeptBy(c, u) /\ u \in Saved
  BY <1>1, ObserveUpgradeKeeps DEF KeptBy
<1>3. KeptBy(u, r) /\ r \in Saved /\ r.status = sub.status
  BY <1>2, ReconciledKeeps DEF KeptBy
<1>4. KeptBy(r, e) /\ e.status = sub.status
  BY <1>3, PaidKeeps
<1>5. KeptBy(c, e)
  BY <1>2, <1>3, <1>4, KeptTwice
<1>6. KeptBy(d, e)
  BY <1>1, <1>5, KeptTwice
<1>7. e = Observed(d)
  BY ObservedIs
<1>8. \A i \in DOMAIN d.changes : c.changes[i].applied => e.changes[i].applied
  BY <1>1, <1>5 DEF KeptBy, KeptChange
<1> QED BY <1>4, <1>6, <1>7, <1>8

-----------------------------------------------------------------------------
\* A change that can still be undone has never ended: neither an observation nor a
\* late failure makes a change undoable again.
Undoable(d, i) == d.changes[i].state \in {"preparing", "scheduled", "undoing"}

\* What is true of an undone change.
Spent(d, i) == sched[i].status # "active" /\ (HasTarget(i) => sched[i].early) /\ ~d.changes[i].applied

\* Where a schedule with its second phase can be, while its change is undoable.
Placed(d, i) ==
    \/ sub.status = "canceled"
    \/ sched[i].status = "active" /\ sub.period = d.changes[i].at
    \/ sched[i].status = "released" /\ sched[i].early
    \/ sub.period > d.changes[i].at /\ sub.price = d.changes[i].target

\* It is the newest of all intents, alone at Stripe, and nobody buys an upgrade.
Newest(d, i) ==
    /\ i = Len(d.changes) /\ ~d.changes[i].applied
    /\ \A j \in DOMAIN d.upgrades : d.upgrades[j].state # "submitting"
    /\ tx.pc \notin {"charge", "charged"} /\ sub.pending = NoId
    /\ Attached \subseteq {i} /\ (HasTarget(i) => Placed(d, i))

Sound(d) ==
    \A i \in DOMAIN d.changes : /\ d.changes[i].state = "undone" => Spent(d, i)
                                /\ Undoable(d, i) => Newest(d, i)
                                /\ HasTarget(i) => d.changes[i].known

SchedulesOK ==
    /\ \A i \in Ids : /\ i \notin DOMAIN db.changes => sched[i].status = "none"
                      /\ sched[i].status = "none" => sched[i].phases = 1
    /\ \A i, k \in Attached : i = k

TxOK ==
    /\ DOMAIN tx.draft.changes = DOMAIN db.changes /\ DOMAIN tx.draft.upgrades = DOMAIN db.upgrades
    /\ \A i \in DOMAIN db.changes : tx.draft.changes[i].known = db.changes[i].known
    /\ tx.pc \notin {"charge", "charged"} => tx.draft = db
    /\ tx.pc \in {"create", "configure"} => tx.id \in DOMAIN db.changes /\ db.changes[tx.id].state = "preparing"
    /\ tx.pc = "configure" => db.changes[tx.id].known
    /\ tx.pc \in {"release", "released"} =>
          tx.id \in DOMAIN db.changes /\ db.changes[tx.id].state \in {"undoing", "finalizing"}
    /\ tx.pc = "released" => sched[tx.id].status # "active"
    /\ tx.pc \in {"charge", "charged"} => tx.id \in DOMAIN db.upgrades

\* The row that a request means is there.
Addressed(c, d) ==
    /\ c.what # "upgrade failed" => c.id \in DOMAIN d.changes
    /\ c.what = "configure" => d.changes[c.id].known
    /\ c.what = "upgrade failed" => c.id \in DOMAIN d.upgrades

PlanInv ==
    /\ PlanTypeOK /\ (near => sub.period < MaxPeriod) /\ Len(db.changes) + Len(db.upgrades) <= MaxIntents
    /\ Sound(db) /\ Sound(tx.draft) /\ SchedulesOK /\ TxOK
    /\ \A c \in calls : Addressed(c, db)

LEMMA SameBound ==
    ASSUME NEW m \in Nat, NEW n \in Nat, 1 .. m = 1 .. n
    PROVE  m = n
<1>1. \A k \in Int : 1 <= k /\ k <= m <=> 1 <= k /\ k <= n
  OBVIOUS
<1> QED BY <1>1

LEMMA IdsOf ==
    ASSUME PlanInv
    PROVE  /\ DOMAIN db.changes = 1 .. Len(db.changes) /\ DOMAIN db.upgrades = 1 .. Len(db.upgrades)
           /\ Len(db.changes) \in Nat /\ Len(db.upgrades) \in Nat /\ db \in Saved /\ tx.draft \in Saved
           /\ DOMAIN db.changes \subseteq Ids /\ DOMAIN db.upgrades \subseteq Ids
           /\ Len(tx.draft.changes) = Len(db.changes)
<1>1. db \in Saved /\ tx.draft \in Saved
  BY DEF PlanInv, PlanTypeOK
<1>2. /\ db.changes \in Seq(Change) /\ db.upgrades \in Seq(Upgrade)
      /\ tx.draft.changes \in Seq(Change)
  BY <1>1, SavedFields
<1>3. /\ DOMAIN db.changes = 1 .. Len(db.changes) /\ DOMAIN db.upgrades = 1 .. Len(db.upgrades)
      /\ Len(db.changes) \in Nat /\ Len(db.upgrades) \in Nat
      /\ DOMAIN tx.draft.changes = 1 .. Len(tx.draft.changes) /\ Len(tx.draft.changes) \in Nat
  BY <1>2, LenProperties
<1>4. Len(db.changes) + Len(db.upgrades) <= MaxIntents /\ MaxIntents \in Nat
  BY PlanAssumption DEF PlanInv
<1>5. DOMAIN db.changes \subseteq Ids /\ DOMAIN db.upgrades \subseteq Ids
  <2>1. \A m, n \in Nat : m + n <= MaxIntents => 1 .. m \subseteq Ids /\ 1 .. n \subseteq Ids
    BY <1>4 DEF Ids
  <2> QED BY <1>3, <1>4, <2>1
<1>6. DOMAIN tx.draft.changes = DOMAIN db.changes
  BY DEF PlanInv, TxOK
<1>7. Len(tx.draft.changes) = Len(db.changes)
  <2>1. 1 .. Len(tx.draft.changes) = 1 .. Len(db.changes)
    BY <1>3, <1>6
  <2> QED BY <1>3, <2>1, SameBound
<1> QED BY <1>1, <1>3, <1>5, <1>7

LEMMA SameLength ==
    ASSUME NEW d \in Saved, NEW e \in Saved, DOMAIN d.changes = DOMAIN e.changes
    PROVE  Len(d.changes) = Len(e.changes)
<1>1. d.changes \in Seq(Change) /\ e.changes \in Seq(Change)
  BY SavedFields
<1>2. /\ DOMAIN d.changes = 1 .. Len(d.changes) /\ Len(d.changes) \in Nat
      /\ DOMAIN e.changes = 1 .. Len(e.changes) /\ Len(e.changes) \in Nat
  BY <1>1, LenProperties
<1> QED BY <1>2, SameBound

\* An observation keeps what is true of the changes.
LEMMA SoundKept ==
    ASSUME NEW d \in Saved, NEW e, Sound(d), KeptBy(d, e)
    PROVE  Sound(e)
<1>1. e \in Saved /\ DOMAIN e.changes = DOMAIN d.changes /\ DOMAIN e.upgrades = DOMAIN d.upgrades
  BY DEF KeptBy
<1>2. Len(e.changes) = Len(d.changes)
  BY <1>1, SameLength
<1>3. ASSUME NEW i \in DOMAIN e.changes
      PROVE  /\ e.changes[i].state = "undone" => Spent(e, i)
             /\ Undoable(e, i) => Newest(e, i)
             /\ HasTarget(i) => e.changes[i].known
  <2>1. KeptChange(d.changes[i], e.changes[i])
    BY <1>1, <1>3 DEF KeptBy
  <2>2. /\ d.changes[i].state = "undone" => Spent(d, i)
        /\ Undoable(d, i) => Newest(d, i)
        /\ HasTarget(i) => d.changes[i].known
    BY <1>1, <1>3 DEF Sound
  <2>3. CASE e.changes[i].state = d.changes[i].state /\ e.changes[i].applied = d.changes[i].applied
    <3>1. e.changes[i].state = "undone" => Spent(e, i)
      BY <2>2, <2>3 DEF Spent
    <3>2. ASSUME Undoable(e, i) PROVE Newest(e, i)
      <4>1. Newest(d, i)
        BY <2>2, <2>3, <3>2 DEF Undoable
      <4>2. \A j \in DOMAIN e.upgrades : e.upgrades[j].state # "submitting"
        BY <1>1, <4>1 DEF Newest, KeptBy
      <4>3. HasTarget(i) => Placed(e, i)
        BY <2>1, <4>1 DEF Newest, Placed, KeptChange
      <4> QED BY <1>2, <2>3, <4>1, <4>2, <4>3 DEF Newest
    <3> QED BY <2>1, <2>2, <3>1, <3>2 DEF KeptChange
  <2>4. CASE e.changes[i].state \in {"stopped", "awaiting_payment", "finalizing", "needs_review"}
    BY <2>1, <2>2, <2>4 DEF KeptChange, Undoable
  <2> QED BY <2>1, <2>3, <2>4 DEF KeptChange
<1> QED BY <1>3 DEF Sound

\* A change turned to a state that is true of it.
LEMMA SoundBecame ==
    ASSUME NEW d \in Saved, NEW i \in DOMAIN d.changes, NEW state \in ChangeStates, Sound(d),
           state = "undone" => Spent(d, i),
           state \in {"preparing", "scheduled", "undoing"} => Undoable(d, i)
    PROVE  /\ Sound(Became(d, i, state)) /\ Became(d, i, state) \in Saved
           /\ DOMAIN Became(d, i, state).changes = DOMAIN d.changes
           /\ DOMAIN Became(d, i, state).upgrades = DOMAIN d.upgrades
           /\ \A k \in DOMAIN d.changes : Became(d, i, state).changes[k].known = d.changes[k].known
<1> PICK e : e = Became(d, i, state)
  OBVIOUS
<1>1. /\ e \in Saved /\ DOMAIN e.changes = DOMAIN d.changes /\ Len(e.changes) = Len(d.changes)
      /\ \A k \in DOMAIN d.changes : e.changes[k] = IF k = i THEN [d.changes[k] EXCEPT !.state = state] ELSE d.changes[k]
      /\ e.upgrades = d.upgrades
  BY BecameKeeps
<1>2. ASSUME NEW k \in DOMAIN d.changes
      PROVE  /\ e.changes[k].known = d.changes[k].known /\ e.changes[k].applied = d.changes[k].applied
             /\ e.changes[k].at = d.changes[k].at /\ e.changes[k].target = d.changes[k].target
             /\ e.changes[k].state = IF k = i THEN state ELSE d.changes[k].state
  <2>1. d.changes[k] \in Change
    BY <1>2, SavedFields
  <2> QED BY <1>1, <1>2, <2>1 DEF Change
<1>3. ASSUME NEW k \in DOMAIN d.changes
      PROVE  /\ e.changes[k].state = "undone" => Spent(e, k)
             /\ Undoable(e, k) => Newest(e, k)
             /\ HasTarget(k) => e.changes[k].known
  <2>1. /\ d.changes[k].state = "undone" => Spent(d, k)
        /\ Undoable(d, k) => Newest(d, k)
        /\ HasTarget(k) => d.changes[k].known
    BY <1>3 DEF Sound
  <2>2. e.changes[k].state = "undone" => Spent(e, k)
    BY <1>2, <1>3, <2>1 DEF Spent
  <2>3. ASSUME Undoable(e, k) PROVE Newest(e, k)
    <3>1. Newest(d, k)
      BY <1>2, <1>3, <2>1, <2>3 DEF Undoable
    <3>2. Placed(d, k) => Placed(e, k)
      BY <1>2, <1>3 DEF Placed
    <3> QED BY <1>1, <1>2, <1>3, <3>1, <3>2 DEF Newest
  <2> QED BY <1>2, <1>3, <2>1, <2>2, <2>3
<1>4. Sound(e)
  BY <1>1, <1>3 DEF Sound
<1> QED BY <1>1, <1>2, <1>4

-----------------------------------------------------------------------------
\* Steps that leave Stripe as it is.
LEMMA SoundStays ==
    ASSUME NEW d, Sound(d), UNCHANGED <<sub, sched>>, tx'.pc \notin {"charge", "charged"}
    PROVE  Sound(d)'
<1>1. Attached' = Attached
  BY DEF Attached
<1>2. ASSUME NEW i \in DOMAIN d.changes
      PROVE  /\ (HasTarget(i)' <=> HasTarget(i)) /\ (Spent(d, i) => Spent(d, i)') /\ (Newest(d, i) => Newest(d, i)')
  <2>1. (HasTarget(i)' <=> HasTarget(i)) /\ (Placed(d, i)' <=> Placed(d, i))
    BY DEF HasTarget, Placed
  <2>2. Spent(d, i) => Spent(d, i)'
    BY <2>1 DEF Spent
  <2>3. Newest(d, i) => Newest(d, i)'
    BY <1>1, <2>1 DEF Newest
  <2> QED BY <2>1, <2>2, <2>3
<1> QED BY <1>2 DEF Sound, Undoable

CallSet == [what : {"configure", "change failed", "upgrade failed"}, id : Ids]

LEMMA FaultsBounded ==
    ASSUME PlanInv, faults' = faults \/ Fault
    PROVE  faults' \in 0 .. MaxFaults
<1>1. faults \in 0 .. MaxFaults /\ MaxFaults \in Nat
  BY PlanAssumption DEF PlanInv, PlanTypeOK
<1> QED BY <1>1 DEF Fault

LEMMA CallsTyped == ASSUME PlanInv PROVE calls \subseteq CallSet /\ done \subseteq Ids
BY DEF PlanInv, PlanTypeOK, CallSet

\* A transaction ends with d saved.
LEMMA CommitInv ==
    ASSUME PlanInv, NEW d \in Saved, Sound(d), Commit(d),
           DOMAIN db.changes \subseteq DOMAIN d.changes, Len(d.changes) + Len(d.upgrades) <= MaxIntents,
           UNCHANGED <<sub, invoices, sched, near>>, done' \subseteq Ids, faults' \in 0 .. MaxFaults,
           calls' \subseteq CallSet, \A c \in calls' : Addressed(c, d)
    PROVE  PlanInv'
<1>1. db' = d /\ tx' = [pc |-> "idle", id |-> NoId, draft |-> d]
  BY DEF Commit
<1>2. tx'.pc = "idle" /\ tx'.draft = d
  BY <1>1
<1>3. Sound(d)'
  BY <1>2, SoundStays
<1>4. Sound(db)' /\ Sound(tx.draft)'
  BY <1>1, <1>2, <1>3 DEF Sound, Spent, Undoable, Newest, Placed, HasTarget, Attached
<1>5. PlanTypeOK'
  BY <1>1, <1>2 DEF PlanInv, PlanTypeOK, CallSet
<1>6. TxOK'
  BY <1>1, <1>2 DEF TxOK
<1>7. SchedulesOK'
  BY <1>1 DEF PlanInv, SchedulesOK, Attached
<1>8. (near => sub.period < MaxPeriod)' /\ (Len(db.changes) + Len(db.upgrades) <= MaxIntents)'
  BY <1>1 DEF PlanInv
<1>9. (\A c \in calls : Addressed(c, db))'
  BY <1>1 DEF Addressed
<1> QED BY <1>4, <1>5, <1>6, <1>7, <1>8, <1>9 DEF PlanInv

\* ... with the rows it has found.
LEMMA CommitRows ==
    ASSUME PlanInv, NEW d \in Saved, Sound(d), Commit(d),
           DOMAIN d.changes = DOMAIN db.changes, DOMAIN d.upgrades = DOMAIN db.upgrades,
           \A i \in DOMAIN d.changes : db.changes[i].known => d.changes[i].known,
           UNCHANGED <<sub, invoices, sched, near>>, done' \subseteq Ids, faults' \in 0 .. MaxFaults,
           calls' \subseteq CallSet, \A c \in calls' : Addressed(c, db)
    PROVE  PlanInv'
<1>1. /\ d.changes \in Seq(Change) /\ db.changes \in Seq(Change)
      /\ d.upgrades \in Seq(Upgrade) /\ db.upgrades \in Seq(Upgrade)
  BY IdsOf, SavedFields
<1>2. /\ DOMAIN d.changes = 1 .. Len(d.changes) /\ Len(d.changes) \in Nat
      /\ DOMAIN db.changes = 1 .. Len(db.changes) /\ Len(db.changes) \in Nat
      /\ DOMAIN d.upgrades = 1 .. Len(d.upgrades) /\ Len(d.upgrades) \in Nat
      /\ DOMAIN db.upgrades = 1 .. Len(db.upgrades) /\ Len(db.upgrades) \in Nat
  BY <1>1, LenProperties
<1>3. Len(d.changes) = Len(db.changes) /\ Len(d.upgrades) = Len(db.upgrades)
  <2>1. 1 .. Len(d.changes) = 1 .. Len(db.changes) /\ 1 .. Len(d.upgrades) = 1 .. Len(db.upgrades)
    BY <1>2
  <2> QED BY <1>2, <2>1, SameBound
<1>4. Len(d.changes) + Len(d.upgrades) <= MaxIntents
  BY <1>3 DEF PlanInv
<1>5. \A c \in calls' : Addressed(c, d)
  BY DEF Addressed
<1> QED BY <1>4, <1>5, CommitInv

\* ... the calls to come being those that were.
LEMMA CommitSame ==
    ASSUME PlanInv, NEW d \in Saved, Sound(d), Commit(d),
           DOMAIN d.changes = DOMAIN db.changes, DOMAIN d.upgrades = DOMAIN db.upgrades,
           \A i \in DOMAIN d.changes : db.changes[i].known => d.changes[i].known,
           UNCHANGED <<sub, invoices, sched, near>>, done' \subseteq done,
           faults' = faults \/ Fault, calls' \subseteq calls
    PROVE  PlanInv'
<1>1. done' \subseteq Ids /\ calls' \subseteq CallSet
  BY CallsTyped
<1>2. faults' \in 0 .. MaxFaults
  BY FaultsBounded
<1>3. \A c \in calls' : Addressed(c, db)
  BY DEF PlanInv
<1> QED BY <1>1, <1>2, <1>3, CommitRows

\* An error is rolled back, its failure is to be counted.
LEMMA RaiseSame ==
    ASSUME PlanInv, NEW what \in {"change failed", "upgrade failed"}, NEW i, Raise(what, i),
           IF what = "change failed" THEN i \in DOMAIN db.changes ELSE i \in DOMAIN db.upgrades,
           UNCHANGED <<sub, invoices, sched, near, done>>, faults' = faults \/ Fault
    PROVE  PlanInv'
<1> PICK new : new = [what |-> what, id |-> i]
  OBVIOUS
<1>1. Commit(db) /\ calls' = calls \cup {new} /\ db' = db
  BY DEF Raise, Commit
<1>2. i \in Ids
  BY IdsOf
<1>3. done' \subseteq Ids /\ calls' \subseteq CallSet
  <2>1. new \in CallSet
    BY <1>2 DEF CallSet
  <2> QED BY <1>1, <2>1, CallsTyped
<1>4. faults' \in 0 .. MaxFaults
  BY FaultsBounded
<1>5. \A c \in calls' : Addressed(c, db)
  <2>1. Addressed(new, db)
    BY DEF Addressed
  <2>2. \A c \in calls : Addressed(c, db)
    BY DEF PlanInv
  <2> QED BY <1>1, <2>1, <2>2
<1>6. db \in Saved /\ Sound(db)
  BY IdsOf DEF PlanInv
<1> QED BY <1>1, <1>3, <1>4, <1>5, <1>6, CommitRows

\* A transaction that is about to call Stripe holds what it has read.
LEMMA HoldSame ==
    ASSUME PlanInv, NEW pc \in {"create", "configure", "release", "charge"}, NEW i, NEW d \in Saved,
           Hold(pc, i, d), Sound(d),
           pc # "charge" => d = db /\ i \in DOMAIN db.changes,
           pc \in {"create", "configure"} => db.changes[i].state = "preparing",
           pc = "configure" => db.changes[i].known,
           pc = "release" => db.changes[i].state \in {"undoing", "finalizing"},
           pc = "charge" => /\ i \in DOMAIN db.upgrades /\ DOMAIN d.changes = DOMAIN db.changes
                            /\ DOMAIN d.upgrades = DOMAIN db.upgrades
                            /\ \A k \in DOMAIN db.changes : /\ ~Undoable(db, k) /\ ~Undoable(d, k)
                                                            /\ d.changes[k].known = db.changes[k].known,
           UNCHANGED <<sub, invoices, sched, near, done, faults>>, calls' \subseteq calls
    PROVE  PlanInv'
<1>1. db' = db /\ tx' = [pc |-> pc, id |-> i, draft |-> d]
  BY DEF Hold
<1>2. tx'.pc = pc /\ tx'.draft = d /\ tx'.id = i
  BY <1>1
<1>3. Sound(db)' /\ Sound(tx.draft)'
  <2>1. CASE pc # "charge"
    <3>1. Sound(db)'
      <4>1. PICK b : b = db /\ Sound(b)
        BY DEF PlanInv
      <4>2. Sound(b)'
        BY <1>2, <2>1, <4>1, SoundStays
      <4> QED BY <1>1, <4>1, <4>2 DEF Sound, Spent, Undoable, Newest, Placed, HasTarget, Attached
    <3>2. tx'.draft = db'
      BY <1>1, <1>2, <2>1
    <3> QED BY <3>1, <3>2 DEF Sound, Spent, Undoable, Newest, Placed, HasTarget, Attached
  <2>2. CASE pc = "charge"
    <3>1. \A e : e = db \/ e = d => Sound(e) /\ \A k \in DOMAIN e.changes : ~Undoable(e, k)
      BY <2>2 DEF PlanInv
    <3>2. \A e : e = db' \/ e = tx'.draft => e = db \/ e = d
      BY <1>1, <1>2
    <3>3. ASSUME NEW e, e = db' \/ e = tx'.draft
          PROVE  \A k \in DOMAIN e.changes : /\ e.changes[k].state = "undone" => Spent(e, k)'
                                             /\ ~Undoable(e, k)
                                             /\ HasTarget(k)' => e.changes[k].known
      BY <3>1, <3>2, <3>3 DEF Sound, Spent, HasTarget
    <3> QED BY <3>3 DEF Sound, Spent, Undoable, HasTarget
  <2> QED BY <2>1, <2>2
<1>4. PlanTypeOK'
  BY <1>1, <1>2 DEF PlanInv, PlanTypeOK
<1>5. TxOK'
  BY <1>1, <1>2 DEF TxOK
<1>6. SchedulesOK'
  BY <1>1 DEF PlanInv, SchedulesOK, Attached
<1>7. (near => sub.period < MaxPeriod)' /\ (Len(db.changes) + Len(db.upgrades) <= MaxIntents)'
  BY <1>1 DEF PlanInv
<1>8. (\A c \in calls : Addressed(c, db))'
  BY <1>1 DEF PlanInv, Addressed
<1> QED BY <1>3, <1>4, <1>5, <1>6, <1>7, <1>8 DEF PlanInv

-----------------------------------------------------------------------------
\* Steps of Stripe's: a schedule is only ever given up.
Given == \A i \in Ids : \/ sched'[i] = sched[i]
                        \/ /\ sched[i].status = "active" /\ sched'[i].status \in {"released", "canceled"}
                           /\ sched'[i].phases = sched[i].phases

LEMMA GivenKeeps ==
    ASSUME Given, sched \in [Ids -> Schedule]
    PROVE  /\ Attached' \subseteq Attached
           /\ \A i \in Ids : /\ HasTarget(i)' <=> HasTarget(i)
                             /\ sched[i].status # "active" => sched'[i] = sched[i]
                             /\ sched'[i].status = "none" => sched[i].status = "none"
BY DEF Given, Attached, HasTarget

LEMMA SpentForever ==
    ASSUME Given, sched \in [Ids -> Schedule], NEW d, NEW i \in DOMAIN d.changes, i \in Ids, Spent(d, i)
    PROVE  Spent(d, i)'
<1>1. sched'[i] = sched[i] /\ (HasTarget(i)' <=> HasTarget(i))
  BY GivenKeeps DEF Spent
<1> QED BY <1>1 DEF Spent

LEMMA StripeMoves ==
    ASSUME PlanInv, UNCHANGED <<db, tx, calls, faults, done>>, Given,
           sub' \in Subscription, invoices' \in Seq(Invoice), sched' \in [Ids -> Schedule],
           near' \in BOOLEAN, near' => sub'.period < MaxPeriod,
           \A i \in DOMAIN db.changes : Undoable(db, i) /\ Newest(db, i) => Newest(db, i)'
    PROVE  PlanInv'
<1>1. PlanTypeOK'
  BY DEF PlanInv, PlanTypeOK
<1>2. sched \in [Ids -> Schedule] /\ DOMAIN db.changes \subseteq Ids
  BY IdsOf DEF PlanInv, PlanTypeOK
<1>3. Sound(db)'
  <2>1. ASSUME NEW i \in DOMAIN db.changes
        PROVE  /\ db.changes[i].state = "undone" => Spent(db, i)'
               /\ Undoable(db, i) => Newest(db, i)'
               /\ HasTarget(i)' => db.changes[i].known
    <3>1. /\ db.changes[i].state = "undone" => Spent(db, i)
          /\ Undoable(db, i) => Newest(db, i)
          /\ HasTarget(i) => db.changes[i].known
      BY <2>1 DEF PlanInv, Sound
    <3>2. HasTarget(i)' <=> HasTarget(i)
      BY <1>2, <2>1, GivenKeeps
    <3>3. Spent(db, i) => Spent(db, i)'
      <4>1. ASSUME NEW d, d = db, Spent(d, i) PROVE Spent(d, i)'
        BY <1>2, <2>1, <4>1, SpentForever
      <4> QED BY <4>1 DEF Spent, HasTarget
    <3> QED BY <2>1, <3>1, <3>2, <3>3
  <2> QED BY <2>1 DEF Sound, Undoable
<1>4. Sound(tx.draft)'
  <2>1. CASE tx.pc \notin {"charge", "charged"}
    <3>1. tx'.draft = db'
      BY <2>1 DEF PlanInv, TxOK
    <3> QED BY <1>3, <3>1 DEF Sound, Spent, Undoable, Newest, Placed, HasTarget, Attached
  <2>2. CASE tx.pc \in {"charge", "charged"}
    <3> PICK d : d = tx.draft
      OBVIOUS
    <3>1. Sound(d) /\ DOMAIN d.changes \subseteq Ids
      BY <1>2 DEF PlanInv, TxOK
    <3>2. ASSUME NEW i \in DOMAIN d.changes
          PROVE  /\ d.changes[i].state = "undone" => Spent(d, i)'
                 /\ ~Undoable(d, i)
                 /\ HasTarget(i)' => d.changes[i].known
      <4>1. /\ d.changes[i].state = "undone" => Spent(d, i)
            /\ Undoable(d, i) => Newest(d, i)
            /\ HasTarget(i) => d.changes[i].known
        BY <3>1, <3>2 DEF Sound
      <4>2. HasTarget(i)' <=> HasTarget(i)
        BY <1>2, <3>1, <3>2, GivenKeeps
      <4>3. Spent(d, i) => Spent(d, i)'
        BY <1>2, <3>1, <3>2, SpentForever
      <4> QED BY <2>2, <4>1, <4>2, <4>3 DEF Newest
    <3>3. Sound(d)'
      BY <3>2 DEF Sound, Undoable
    <3>4. tx'.draft = d
      OBVIOUS
    <3> QED BY <3>3, <3>4 DEF Sound, Spent, Undoable, Newest, Placed, HasTarget, Attached
  <2> QED BY <2>1, <2>2
<1>5. SchedulesOK'
  <2>1. ASSUME NEW i \in Ids
        PROVE  /\ i \notin DOMAIN db'.changes => sched'[i].status = "none"
               /\ sched'[i].status = "none" => sched'[i].phases = 1
    <3>1. /\ i \notin DOMAIN db.changes => sched[i].status = "none"
          /\ sched[i].status = "none" => sched[i].phases = 1
      BY <2>1 DEF PlanInv, SchedulesOK
    <3> QED BY <1>2, <2>1, <3>1, GivenKeeps
  <2>2. \A i, k \in Attached' : i = k
    BY <1>2, GivenKeeps DEF PlanInv, SchedulesOK
  <2> QED BY <2>1, <2>2 DEF SchedulesOK
<1>6. TxOK'
  <2>1. tx.pc = "released" => sched'[tx.id].status # "active"
    <3>1. ASSUME tx.pc = "released" PROVE sched[tx.id].status # "active" /\ tx.id \in Ids
      BY <1>2, <3>1 DEF PlanInv, TxOK
    <3> QED BY <1>2, <3>1, GivenKeeps
  <2> QED BY <2>1 DEF PlanInv, TxOK
<1>7. (\A c \in calls : Addressed(c, db))' /\ (Len(db.changes) + Len(db.upgrades) <= MaxIntents)'
  BY DEF PlanInv, Addressed
<1> QED BY <1>1, <1>3, <1>4, <1>5, <1>6, <1>7 DEF PlanInv

LEMMA StripeTyped ==
    ASSUME PlanInv
    PROVE  /\ sub \in Subscription /\ invoices \in Seq(Invoice) /\ sched \in [Ids -> Schedule] /\ near \in BOOLEAN
           /\ near => sub.period < MaxPeriod
           /\ \A k \in DOMAIN invoices : invoices[k] \in Invoice
           /\ \A i \in Ids : sched[i] \in Schedule
BY SeqMember DEF PlanInv, PlanTypeOK

LEMMA NearKeeps == ASSUME PlanInv, Near PROVE PlanInv'
<1>1. Given /\ Attached' = Attached
  BY DEF Near, Given, Attached
<1>2. near' => sub'.period < MaxPeriod
  BY DEF Near
<1>3. ASSUME NEW i, Newest(db, i) PROVE Newest(db, i)'
  BY <1>1, <1>3 DEF Near, Local, Newest, HasTarget, Placed
<1>4. /\ UNCHANGED <<db, tx, calls, faults, done>>
      /\ sub' \in Subscription /\ invoices' \in Seq(Invoice) /\ sched' \in [Ids -> Schedule]
  BY StripeTyped DEF Near, Local
<1>5. near' \in BOOLEAN
  BY DEF Near
<1> QED BY <1>1, <1>2, <1>3, <1>4, <1>5, StripeMoves

LEMMA VoidedTyped ==
    ASSUME invoices \in Seq(Invoice), NEW set
    PROVE  Voided(set) \in Seq(Invoice)
<1> PICK rows : rows = Voided(set)
  OBVIOUS
<1>1. rows = [k \in DOMAIN invoices |->
                 IF invoices[k].by \in set \ {NoId} /\ invoices[k].status = "open"
                 THEN [invoices[k] EXCEPT !.status = "void"] ELSE invoices[k]]
  BY DEF Voided
<1>2. ASSUME NEW k \in DOMAIN invoices PROVE rows[k] \in Invoice
  <2>1. invoices[k] \in Invoice
    BY SeqMember
  <2>2. rows[k] = invoices[k] \/ rows[k] = [invoices[k] EXCEPT !.status = "void"]
    BY <1>1
  <2> QED BY <2>1, <2>2 DEF Invoice
<1>3. rows \in [DOMAIN invoices -> Invoice]
  BY <1>1, <1>2
<1> QED BY <1>3, SeqAgain

\* Stripe's invoices when an update is paid or discarded, and its subscription.
LEMMA PayUpgradeKeeps == ASSUME PlanInv, PayUpgrade PROVE PlanInv'
<1> PICK rows : rows = invoices'
  OBVIOUS
<1>1. rows = [k \in DOMAIN invoices |-> IF invoices[k].by = sub.pending
                       THEN [invoices[k] EXCEPT !.status = "paid"] ELSE invoices[k]]
  BY DEF PayUpgrade
<1>2. ASSUME NEW k \in DOMAIN invoices PROVE rows[k] \in Invoice
  <2>1. invoices[k] \in Invoice
    BY StripeTyped
  <2>2. rows[k] = invoices[k] \/ rows[k] = [invoices[k] EXCEPT !.status = "paid"]
    BY <1>1
  <2> QED BY <2>1, <2>2 DEF Invoice
<1>3. rows \in Seq(Invoice)
  <2>1. rows \in [DOMAIN invoices -> Invoice]
    BY <1>1, <1>2
  <2>2. invoices \in Seq(Invoice)
    BY StripeTyped
  <2> QED BY <2>1, <2>2, SeqAgain
<1>4. sub' = [sub EXCEPT !.price = High, !.pending = NoId] /\ sub.pending # NoId
  BY DEF PayUpgrade
<1>5. sub' \in Subscription /\ sub'.period = sub.period
  BY <1>4, StripeTyped DEF Subscription, Prices
<1>6. /\ UNCHANGED <<db, tx, calls, faults, done>> /\ sched' \in [Ids -> Schedule] /\ sched' = sched
      /\ near' \in BOOLEAN /\ (near' => sub'.period < MaxPeriod)
  BY <1>5, StripeTyped DEF PayUpgrade, Local
<1>7. Given
  BY <1>6 DEF Given
<1>8. ASSUME NEW i, Newest(db, i) PROVE FALSE
  BY <1>4, <1>8 DEF Newest
<1> QED BY <1>3, <1>5, <1>6, <1>7, <1>8, StripeMoves

LEMMA DiscardUpgradeKeeps == ASSUME PlanInv, DiscardUpgrade PROVE PlanInv'
<1>1. sub' = [sub EXCEPT !.pending = NoId] /\ sub.pending # NoId /\ invoices' = Voided({sub.pending})
  BY DEF DiscardUpgrade
<1>2. sub' \in Subscription /\ sub'.period = sub.period
  BY <1>1, StripeTyped DEF Subscription
<1>3. invoices' \in Seq(Invoice)
  BY <1>1, StripeTyped, VoidedTyped
<1>4. /\ UNCHANGED <<db, tx, calls, faults, done>> /\ sched' \in [Ids -> Schedule] /\ sched' = sched
      /\ near' \in BOOLEAN /\ (near' => sub'.period < MaxPeriod)
  BY <1>2, StripeTyped DEF DiscardUpgrade, Local
<1>5. Given
  BY <1>4 DEF Given
<1>6. ASSUME NEW i, Newest(db, i) PROVE FALSE
  BY <1>1, <1>6 DEF Newest
<1> QED BY <1>2, <1>3, <1>4, <1>5, <1>6, StripeMoves

LEMMA CancelKeeps == ASSUME PlanInv, Cancel PROVE PlanInv'
<1>1. sub' = [sub EXCEPT !.status = "canceled", !.pending = NoId] /\ invoices' = Voided({sub.pending}) /\ ~near'
  BY DEF Cancel
<1>2. sub' \in Subscription /\ sub'.status = "canceled" /\ sub'.pending = NoId
  BY <1>1, StripeTyped DEF Subscription
<1>3. invoices' \in Seq(Invoice)
  BY <1>1, StripeTyped, VoidedTyped
<1>4. ASSUME NEW i \in Ids
      PROVE  /\ sched'[i] \in Schedule /\ sched'[i].phases = sched[i].phases
             /\ IF sched[i].status = "active" THEN sched'[i].status = "canceled" ELSE sched'[i] = sched[i]
  <2>1. sched'[i] = IF sched[i].status = "active" THEN [sched[i] EXCEPT !.status = "canceled"] ELSE sched[i]
    BY <1>4 DEF Cancel, Attached
  <2>2. sched[i] \in Schedule
    BY <1>4, StripeTyped
  <2> QED BY <2>1, <2>2 DEF Schedule
<1>5. sched' \in [Ids -> Schedule]
  BY <1>4 DEF Cancel
<1>6. Given
  BY <1>4 DEF Given
<1>7. UNCHANGED <<db, tx, calls, faults, done>> /\ near' \in BOOLEAN
  BY DEF Cancel, Local
<1>8. ASSUME NEW i \in DOMAIN db.changes, Newest(db, i) PROVE Newest(db, i)'
  <2>1. Attached' \subseteq {i}
    BY <1>6, <1>8, GivenKeeps, StripeTyped DEF Newest
  <2>2. Placed(db, i)'
    BY <1>2 DEF Placed
  <2> QED BY <1>2, <1>7, <1>8, <2>1, <2>2 DEF Newest
<1> QED BY <1>1, <1>2, <1>3, <1>5, <1>6, <1>7, <1>8, StripeMoves

LEMMA OperatorReleaseKeeps == ASSUME PlanInv, NEW i \in Ids, OperatorRelease(i) PROVE PlanInv'
<1>1. i \in Attached /\ i \in DOMAIN db.changes /\ db.changes[i].state = "needs_review"
  BY DEF OperatorRelease
<1> PICK early : early = (sub.period = db.changes[i].at)
  OBVIOUS
<1>2. sched' = [sched EXCEPT ![i].status = "released", ![i].early = early]
  BY DEF OperatorRelease
<1>3. sched'[i] \in Schedule /\ sched'[i].status = "released" /\ sched'[i].phases = sched[i].phases
  <2>1. sched[i] \in Schedule /\ early \in BOOLEAN
    BY StripeTyped
  <2>2. sched'[i] = [sched[i] EXCEPT !.status = "released", !.early = early]
    BY <1>2, StripeTyped
  <2> QED BY <2>1, <2>2 DEF Schedule
<1>4. \A k \in Ids : k # i => sched'[k] = sched[k]
  BY <1>2, StripeTyped
<1>5. sched' \in [Ids -> Schedule]
  BY <1>2, <1>3, <1>4, StripeTyped
<1>6. Given
  BY <1>1, <1>3, <1>4 DEF Given, Attached
<1>7. /\ UNCHANGED <<db, tx, calls, faults, done>>
      /\ sub' \in Subscription /\ invoices' \in Seq(Invoice) /\ near' \in BOOLEAN /\ (near' => sub'.period < MaxPeriod)
  BY StripeTyped DEF OperatorRelease, Local
<1>8. ASSUME NEW k, Undoable(db, k), Newest(db, k) PROVE FALSE
  BY <1>1, <1>8 DEF Newest, Undoable
<1> QED BY <1>5, <1>6, <1>7, <1>8, StripeMoves

LEMMA CollectKeeps == ASSUME PlanInv, NEW paid \in BOOLEAN, Collect(paid) PROVE PlanInv'
<1> PICK r : r = Renewal
  OBVIOUS
<1> PICK rows : rows = invoices'
  OBVIOUS
<1>1. rows = [invoices EXCEPT ![r].tried = TRUE, ![r].status = IF paid THEN "paid" ELSE @]
  BY DEF Collect
<1>2. ASSUME NEW k \in DOMAIN invoices PROVE rows[k] \in Invoice
  <2>1. invoices[k] \in Invoice
    BY StripeTyped
  <2>2. rows[k] = IF k = r THEN [invoices[k] EXCEPT !.tried = TRUE, !.status = IF paid THEN "paid" ELSE @] ELSE invoices[k]
    BY <1>1
  <2>3. CASE paid
    BY <2>1, <2>2, <2>3 DEF Invoice
  <2>4. CASE ~paid
    BY <2>1, <2>2, <2>4 DEF Invoice
  <2> QED BY <2>3, <2>4
<1>3. rows \in Seq(Invoice)
  <2>1. rows \in [DOMAIN invoices -> Invoice]
    <3>1. DOMAIN rows = DOMAIN invoices /\ rows = [k \in DOMAIN invoices |-> rows[k]]
      BY <1>1
    <3> QED BY <1>2, <3>1
  <2>2. invoices \in Seq(Invoice)
    BY StripeTyped
  <2> QED BY <2>1, <2>2, SeqAgain
<1>4. /\ sub' \in Subscription /\ sub'.period = sub.period /\ sub'.price = sub.price /\ sub'.pending = sub.pending
      /\ sub.status # "canceled"
  BY StripeTyped DEF Collect, Subscription
<1>5. /\ UNCHANGED <<db, tx, calls, faults, done>> /\ sched' \in [Ids -> Schedule] /\ sched' = sched
      /\ near' \in BOOLEAN /\ (near' => sub'.period < MaxPeriod)
  BY <1>4, StripeTyped DEF Collect, Local
<1>6. Given /\ Attached' = Attached
  BY <1>5 DEF Given, Attached
<1>7. ASSUME NEW i, Newest(db, i) PROVE Newest(db, i)'
  BY <1>4, <1>5, <1>6, <1>7 DEF Newest, HasTarget, Placed
<1> QED BY <1>3, <1>4, <1>5, <1>6, <1>7, StripeMoves

LEMMA LastOne == ASSUME NEW i \in Int PROVE Last({i}) = i
BY DEF Last

\* The period ends: the boundary of the only schedule there is turns its price.
LEMMA RenewKeeps == ASSUME PlanInv, Renew PROVE PlanInv'
<1> PICK turning : turning = {i \in Attached : sched[i].phases = 2 /\ db.changes[i].at = sub.period}
  OBVIOUS
<1> PICK price : price = IF turning # {} THEN db.changes[Last(turning)].target ELSE sub.price
  OBVIOUS
<1>1. /\ sched' = [i \in Ids |-> IF i \in Attached \ turning THEN [sched[i] EXCEPT !.status = "released"] ELSE sched[i]]
      /\ sub' = [sub EXCEPT !.price = price, !.period = sub.period + 1, !.pending = NoId]
      /\ invoices' = Append(Voided({sub.pending}), [price |-> price, period |-> sub.period + 1,
                             status |-> "open", tried |-> FALSE, by |-> NoId])
      /\ near /\ ~near' /\ sub.status # "canceled"
  BY DEF Renew
<1>2. \A i \in Attached : i \in Ids /\ i \in DOMAIN db.changes /\ i \in Int
  BY IdsOf DEF Attached, PlanInv, SchedulesOK, Ids
<1>3. ASSUME NEW i \in turning PROVE turning = {i} /\ price = db.changes[i].target
  <2>1. turning = {i}
    BY <1>3 DEF PlanInv, SchedulesOK
  <2>2. Last(turning) = i
    BY <1>2, <1>3, <2>1, LastOne
  <2> QED BY <1>3, <2>1, <2>2
<1>4. price \in Prices
  <2>1. CASE turning = {}
    BY <2>1, StripeTyped DEF Subscription
  <2>2. ASSUME NEW i \in turning PROVE price \in Prices
    <3>1. db.changes[i] \in Change
      BY <1>2, <2>2, IdsOf, SavedFields
    <3> QED BY <1>3, <2>2, <3>1 DEF Change
  <2> QED BY <2>1, <2>2
<1>5. sub.period \in Periods /\ sub.period + 1 \in Periods /\ sub.period \in Int
  <2>1. sub.period \in Periods /\ sub.period < MaxPeriod
    BY <1>1, StripeTyped DEF Subscription
  <2> QED BY <2>1, PlanAssumption DEF Periods
<1>6. /\ sub' \in Subscription /\ sub'.period = sub.period + 1 /\ sub'.price = price /\ sub'.pending = NoId
      /\ sub'.status = sub.status
  BY <1>1, <1>4, <1>5, StripeTyped DEF Subscription
<1>7. invoices' \in Seq(Invoice)
  <2> PICK new : new = [price |-> price, period |-> sub.period + 1, status |-> "open", tried |-> FALSE, by |-> NoId]
    OBVIOUS
  <2> PICK old : old = Voided({sub.pending})
    OBVIOUS
  <2>1. new \in Invoice
    BY <1>4, <1>5 DEF Invoice
  <2>2. old \in Seq(Invoice)
    BY StripeTyped, VoidedTyped
  <2>3. invoices' = Append(old, new)
    BY <1>1
  <2> QED BY <2>1, <2>2, <2>3, AppendProperties
<1>8. ASSUME NEW i \in Ids
      PROVE  /\ sched'[i] \in Schedule /\ sched'[i].phases = sched[i].phases /\ sched'[i].early = sched[i].early
             /\ IF i \in Attached \ turning THEN sched'[i].status = "released" ELSE sched'[i] = sched[i]
  <2>1. sched'[i] = IF i \in Attached \ turning THEN [sched[i] EXCEPT !.status = "released"] ELSE sched[i]
    BY <1>1, <1>8
  <2>2. sched[i] \in Schedule
    BY <1>8, StripeTyped
  <2> QED BY <2>1, <2>2 DEF Schedule
<1>9. sched' \in [Ids -> Schedule] /\ Given
  <2>1. sched' \in [Ids -> Schedule]
    BY <1>1, <1>8
  <2>2. Given
    BY <1>8 DEF Given, Attached
  <2> QED BY <2>1, <2>2
<1>10. UNCHANGED <<db, tx, calls, faults, done>> /\ near' \in BOOLEAN /\ ~near'
  BY DEF Renew, Local
<1>11. ASSUME NEW i \in DOMAIN db.changes, Newest(db, i) PROVE Newest(db, i)'
  <2>1. Attached \subseteq {i} /\ i \in Ids
    BY <1>11, IdsOf DEF Newest
  <2>2. Attached' \subseteq {i}
    BY <1>9, <2>1, GivenKeeps, StripeTyped
  <2>3. ASSUME HasTarget(i)' PROVE Placed(db, i)'
    <3>1. HasTarget(i) /\ Placed(db, i)
      BY <1>8, <1>11, <2>1, <2>3 DEF Newest, HasTarget
    <3>2. db.changes[i].at \in Int
      <4>1. db.changes[i] \in Change
        BY <1>11, IdsOf, SavedFields
      <4> QED BY <4>1, PlanAssumption DEF Change, Periods
    <3>3. CASE sched[i].status = "active" /\ sub.period = db.changes[i].at
      <4>1. i \in turning
        BY <2>1, <3>1, <3>3 DEF Attached, HasTarget
      <4>2. sub'.price = db.changes[i].target /\ sub'.period > db.changes[i].at
        <5>1. sub'.price = db.changes[i].target
          BY <1>3, <1>6, <4>1
        <5>2. sub'.period > db.changes[i].at
          BY <1>5, <1>6, <3>3
        <5> QED BY <5>1, <5>2
      <4>3. db' = db
        BY <1>10
      <4> QED BY <4>2, <4>3 DEF Placed
    <3>4. CASE sched[i].status = "released" /\ sched[i].early
      BY <1>8, <2>1, <3>4 DEF Placed, Attached
    <3>5. CASE sub.period > db.changes[i].at /\ sub.price = db.changes[i].target
      <4>1. turning = {}
        BY <1>5, <2>1, <3>2, <3>5
      <4>2. sub'.price = db.changes[i].target /\ sub'.period > db.changes[i].at
        BY <1>5, <1>6, <3>2, <3>5, <4>1
      <4>3. db' = db
        BY <1>10
      <4> QED BY <4>2, <4>3 DEF Placed
    <3> QED BY <1>1, <3>1, <3>3, <3>4, <3>5 DEF Placed
  <2> QED BY <1>6, <1>10, <1>11, <2>2, <2>3 DEF Newest
<1> QED BY <1>6, <1>7, <1>9, <1>10, <1>11, StripeMoves

-----------------------------------------------------------------------------
\* The handlers of changes.
LEMMA PlanTx ==
    ASSUME PlanInv
    PROVE  /\ db \in Saved /\ Sound(db) /\ tx.draft \in Saved /\ Sound(tx.draft)
           /\ \A i \in DOMAIN db.changes : /\ i \in Ids /\ db.changes[i] \in Change
                                           /\ db.changes[i].state = "undone" => Spent(db, i)
                                           /\ Undoable(db, i) => Newest(db, i)
                                           /\ HasTarget(i) => db.changes[i].known
BY IdsOf, SavedFields DEF PlanInv, Sound

\* What is observed of the rows.
LEMMA ObservedSound ==
    ASSUME PlanInv, NEW d, d = db \/ d = tx.draft
    PROVE  /\ Observed(d) \in Saved /\ Sound(Observed(d)) /\ KeptBy(d, Observed(d))
           /\ DOMAIN Observed(d).changes = DOMAIN db.changes /\ DOMAIN Observed(d).upgrades = DOMAIN db.upgrades
           /\ \A i \in DOMAIN db.changes : Observed(d).changes[i].known = d.changes[i].known
           /\ Observed(d).status = sub.status
<1>1. d \in Saved /\ Sound(d)
  BY PlanTx
<1>2. KeptBy(d, Observed(d)) /\ Observed(d).status = sub.status
  BY <1>1, ObservedKeeps, StripeTyped
<1>3. Sound(Observed(d))
  BY <1>1, <1>2, SoundKept
<1>4. DOMAIN d.changes = DOMAIN db.changes /\ DOMAIN d.upgrades = DOMAIN db.upgrades
  BY DEF PlanInv, TxOK
<1> QED BY <1>2, <1>3, <1>4 DEF KeptBy, KeptChange

\* A change turned in an observed or a saved database, and saved.
LEMMA CommitBecame ==
    ASSUME PlanInv, NEW d, d = db \/ d = Observed(db), NEW i \in DOMAIN db.changes, NEW state \in ChangeStates,
           Commit(Became(d, i, state)),
           state = "undone" => Spent(d, i),
           state \in {"preparing", "scheduled", "undoing"} => Undoable(d, i),
           UNCHANGED <<sub, invoices, sched, near, done, faults>>, calls' \subseteq calls
    PROVE  PlanInv'
<1> PICK e : e = Became(d, i, state)
  OBVIOUS
<1>1. /\ d \in Saved /\ Sound(d) /\ DOMAIN d.changes = DOMAIN db.changes /\ DOMAIN d.upgrades = DOMAIN db.upgrades
      /\ \A k \in DOMAIN db.changes : d.changes[k].known = db.changes[k].known
  BY PlanTx, ObservedSound
<1>2. /\ e \in Saved /\ Sound(e) /\ DOMAIN e.changes = DOMAIN d.changes /\ DOMAIN e.upgrades = DOMAIN d.upgrades
      /\ \A k \in DOMAIN d.changes : e.changes[k].known = d.changes[k].known
  BY <1>1, SoundBecame
<1> QED BY <1>1, <1>2, CommitSame

LEMMA CommitObserved ==
    ASSUME PlanInv, NEW d, d = db \/ d = tx.draft, Commit(Observed(d)),
           UNCHANGED <<sub, invoices, sched, near, done, faults>>, calls' \subseteq calls
    PROVE  PlanInv'
<1>1. \A i \in DOMAIN db.changes : d.changes[i].known = db.changes[i].known
  BY DEF PlanInv, TxOK
<1>2. /\ Observed(d) \in Saved /\ Sound(Observed(d))
      /\ DOMAIN Observed(d).changes = DOMAIN db.changes /\ DOMAIN Observed(d).upgrades = DOMAIN db.upgrades
      /\ \A i \in DOMAIN db.changes : Observed(d).changes[i].known = d.changes[i].known
  BY ObservedSound
<1> QED BY <1>1, <1>2, CommitSame

LEMMA CommitNothing ==
    ASSUME PlanInv, Commit(db), UNCHANGED <<sub, invoices, sched, near, done>>, faults' = faults \/ Fault,
           calls' \subseteq calls
    PROVE  PlanInv'
BY PlanTx, CommitSame

LEMMA UndoKeeps == ASSUME PlanInv, NEW i \in Ids, Undo(i) PROVE PlanInv'
<1>1. /\ i \in DOMAIN db.changes /\ Undoable(db, i) /\ Commit(Became(db, i, "undoing"))
      /\ UNCHANGED <<sub, invoices, sched, near, done, faults, calls>>
  BY DEF Undo, In, Undoable, Stripe
<1>2. "undoing" \in ChangeStates
  BY DEF ChangeStates, Work
<1> QED BY <1>1, <1>2, CommitBecame

LEMMA ReviewChangeKeeps == ASSUME PlanInv, NEW i \in Ids, ReviewChange(i) PROVE PlanInv'
<1>1. i \in DOMAIN db.changes /\ UNCHANGED <<sub, invoices, sched, near, done, faults, calls>>
  BY DEF ReviewChange, In, Stripe
<1>2. CASE Commit(Observed(db))
  BY <1>1, <1>2, CommitObserved
<1>3. CASE Commit(Became(db, i, "stopped"))
  <2>1. "stopped" \in ChangeStates
    BY DEF ChangeStates, ChangeTerminal
  <2> QED BY <1>1, <1>3, <2>1, CommitBecame
<1> QED BY <1>2, <1>3 DEF ReviewChange

LEMMA ObserveKeeps == ASSUME PlanInv, Observe PROVE PlanInv'
BY CommitObserved DEF Observe, Stripe

LEMMA ChargeSeenKeeps == ASSUME PlanInv, ChargeSeen PROVE PlanInv'
BY CommitObserved DEF ChargeSeen, Stripe

LEMMA VerifyChangeKeeps == ASSUME PlanInv, NEW i \in Ids, VerifyChange(i) PROVE PlanInv'
<1>1. /\ i \in DOMAIN db.changes /\ Undoable(db, i) /\ db.changes[i].known /\ Quiet
      /\ UNCHANGED <<sub, invoices, sched, near, done, faults>>
  BY DEF VerifyChange, In, Undoable, Stripe
<1>2. {"stopped", "scheduled", "needs_review"} \subseteq ChangeStates
  BY DEF ChangeStates, ChangeTerminal
<1>3. ASSUME NEW state \in {"stopped", "scheduled", "needs_review"}, Commit(Became(db, i, state)), UNCHANGED calls
      PROVE  PlanInv'
  BY <1>1, <1>2, <1>3, CommitBecame
<1>4. CASE Raise("change failed", i)
  BY <1>1, <1>4, RaiseSame
<1>5. CASE calls' = calls \cup {[what |-> "configure", id |-> i]} /\ UNCHANGED <<db, tx>>
  <2> PICK new : new = [what |-> "configure", id |-> i]
    OBVIOUS
  <2>1. calls' = calls \cup {new} /\ tx' = tx /\ db' = db
    BY <1>5
  <2>2. new \in CallSet /\ Addressed(new, db)
    BY <1>1 DEF CallSet, Addressed
  <2>3. calls' \subseteq CallSet /\ \A c \in calls' : Addressed(c, db)
    BY <2>1, <2>2, CallsTyped DEF PlanInv
  <2>4. Sound(db)' /\ Sound(tx.draft)' /\ SchedulesOK' /\ TxOK'
    BY <1>1, <2>1 DEF PlanInv, SchedulesOK, TxOK, Sound, Spent, Undoable, Newest, Placed, HasTarget, Attached
  <2>5. PlanTypeOK' /\ (near => sub.period < MaxPeriod)' /\ (Len(db.changes) + Len(db.upgrades) <= MaxIntents)'
    BY <1>1, <2>1, <2>3 DEF PlanInv, PlanTypeOK, CallSet
  <2>6. (\A c \in calls : Addressed(c, db))'
    BY <2>1, <2>3 DEF Addressed
  <2> QED BY <2>4, <2>5, <2>6 DEF PlanInv
<1> QED BY <1>3, <1>4, <1>5 DEF VerifyChange

LEMMA StartCreateKeeps == ASSUME PlanInv, NEW i \in Ids, StartCreate(i) PROVE PlanInv'
<1>1. /\ i \in DOMAIN db.changes /\ Quiet /\ db.changes[i].state = "preparing"
      /\ UNCHANGED <<sub, invoices, sched, near, done, faults>>
  BY DEF StartCreate, In, Stripe
<1>2. CASE Commit(Became(db, i, "needs_review")) /\ UNCHANGED calls
  <2>1. "needs_review" \in ChangeStates
    BY DEF ChangeStates
  <2> QED BY <1>1, <1>2, <2>1, CommitBecame
<1>3. CASE Raise("change failed", i)
  BY <1>1, <1>3, RaiseSame
<1>4. CASE Hold("create", i, db) /\ UNCHANGED calls
  BY <1>1, <1>4, PlanTx, HoldSame
<1> QED BY <1>2, <1>3, <1>4 DEF StartCreate

LEMMA RelockKeeps == ASSUME PlanInv, NEW i \in Ids, Relock(i) PROVE PlanInv'
<1> PICK call : call = [what |-> "configure", id |-> i]
  OBVIOUS
<1>1. /\ Quiet /\ call \in calls /\ calls' = calls \ {call}
      /\ UNCHANGED <<sub, invoices, sched, near, done, faults>>
  BY DEF Relock, Stripe
<1>2. i \in DOMAIN db.changes /\ db.changes[i].known
  <2>1. Addressed(call, db)
    BY <1>1 DEF PlanInv
  <2> QED BY <2>1 DEF Addressed
<1>3. CASE db.changes[i].state = "preparing" /\ Hold("configure", i, db)
  BY <1>1, <1>2, <1>3, PlanTx, HoldSame
<1>4. CASE UNCHANGED <<db, tx>>
  <2>1. db' = db /\ tx' = tx /\ calls' \subseteq calls
    BY <1>1, <1>4
  <2>2. Sound(db)' /\ Sound(tx.draft)' /\ SchedulesOK' /\ TxOK'
    BY <1>1, <2>1 DEF PlanInv, SchedulesOK, TxOK, Sound, Spent, Undoable, Newest, Placed, HasTarget, Attached
  <2>3. PlanTypeOK' /\ (near => sub.period < MaxPeriod)' /\ (Len(db.changes) + Len(db.upgrades) <= MaxIntents)'
    BY <1>1, <2>1 DEF PlanInv, PlanTypeOK
  <2>4. (\A c \in calls : Addressed(c, db))'
    BY <2>1 DEF PlanInv, Addressed
  <2> QED BY <2>2, <2>3, <2>4 DEF PlanInv
<1> QED BY <1>3, <1>4 DEF Relock

LEMMA DropKeeps == ASSUME PlanInv, NEW call \in calls, Drop(call) PROVE PlanInv'
<1>1. /\ db' = db /\ tx' = tx /\ calls' \subseteq calls /\ Fault
      /\ UNCHANGED <<sub, invoices, sched, near, done>>
  BY DEF Drop, Stripe
<1>2. Sound(db)' /\ Sound(tx.draft)' /\ SchedulesOK' /\ TxOK'
  BY <1>1 DEF PlanInv, SchedulesOK, TxOK, Sound, Spent, Undoable, Newest, Placed, HasTarget, Attached
<1>3. faults' \in 0 .. MaxFaults
  BY <1>1, FaultsBounded
<1>4. PlanTypeOK' /\ (near => sub.period < MaxPeriod)' /\ (Len(db.changes) + Len(db.upgrades) <= MaxIntents)'
  BY <1>1, <1>3 DEF PlanInv, PlanTypeOK
<1>5. (\A c \in calls : Addressed(c, db))'
  BY <1>1 DEF PlanInv, Addressed
<1> QED BY <1>2, <1>4, <1>5 DEF PlanInv

LEMMA LoseKeeps == ASSUME PlanInv, Lose PROVE PlanInv'
<1>1. UNCHANGED <<sub, invoices, sched, near, done>> /\ Fault /\ tx.pc # "idle"
  BY DEF Lose, Stripe, Quiet
<1>2. CASE Commit(db) /\ UNCHANGED calls
  BY <1>1, <1>2, CommitNothing
<1>3. CASE Raise(IF tx.pc \in {"charge", "charged"} THEN "upgrade failed" ELSE "change failed", tx.id)
  <2>1. IF tx.pc \in {"charge", "charged"} THEN tx.id \in DOMAIN db.upgrades ELSE tx.id \in DOMAIN db.changes
    BY <1>1 DEF PlanInv, PlanTypeOK, TxOK
  <2>2. CASE tx.pc \in {"charge", "charged"}
    BY <1>1, <1>3, <2>1, <2>2, RaiseSame
  <2>3. CASE tx.pc \notin {"charge", "charged"}
    BY <1>1, <1>3, <2>1, <2>3, RaiseSame
  <2> QED BY <2>2, <2>3
<1> QED BY <1>2, <1>3 DEF Lose

-----------------------------------------------------------------------------
\* The POSTs for a change: they touch the schedule of the change they are for.
SameRows(d, e) ==
    /\ DOMAIN e.changes = DOMAIN d.changes /\ e.upgrades = d.upgrades
    /\ \A k \in DOMAIN d.changes :
          /\ e.changes[k].state = "undone" => d.changes[k].state = "undone"
          /\ Undoable(e, k) => Undoable(d, k)
          /\ e.changes[k].applied = d.changes[k].applied
          /\ e.changes[k].at = d.changes[k].at /\ e.changes[k].target = d.changes[k].target
          /\ d.changes[k].known => e.changes[k].known

Posted(i) ==
    /\ sched' \in [Ids -> Schedule] /\ \A k \in Ids : k # i => sched'[k] = sched[k]
    /\ sched'[i].status # "none"
    /\ sched'[i].status = "active" => sched[i].status = "active" \/ (Attached = {} /\ Undoable(db, i))

LEMMA PostInv ==
    ASSUME PlanInv, NEW i \in DOMAIN db.changes, NEW d \in Saved, db' = d, tx'.draft = d, SameRows(db, d), Posted(i),
           db.changes[i].state # "undone",
           Undoable(db, i) /\ HasTarget(i)' => Placed(d, i)',
           HasTarget(i)' => d.changes[i].known,
           \/ tx'.pc = "idle"
           \/ /\ tx'.pc = "released" /\ tx'.id = i /\ sched'[i].status # "active"
              /\ d.changes[i].state \in {"undoing", "finalizing"},
           UNCHANGED <<sub, invoices, near, done>>, faults' = faults \/ Fault,
           calls' \subseteq CallSet, \A c \in calls' : Addressed(c, db)
    PROVE  PlanInv'
<1>1. i \in Ids /\ DOMAIN d.changes = DOMAIN db.changes /\ Len(d.changes) = Len(db.changes) /\ DOMAIN db.changes \subseteq Ids
  BY IdsOf, SameLength DEF SameRows
<1>2. \A k \in Attached' : k \in Attached \/ (k = i /\ Attached = {} /\ Undoable(db, i))
  BY <1>1 DEF Attached, Posted
<1>3. ASSUME NEW k \in DOMAIN d.changes
      PROVE  /\ d.changes[k].state = "undone" => Spent(d, k)'
             /\ Undoable(d, k) => Newest(d, k)'
             /\ HasTarget(k)' => d.changes[k].known
  <2>1. /\ k \in Ids /\ k \in DOMAIN db.changes
        /\ db.changes[k].state = "undone" => Spent(db, k)
        /\ Undoable(db, k) => Newest(db, k)
        /\ HasTarget(k) => db.changes[k].known
    BY <1>1, <1>3, PlanTx
  <2>2. /\ d.changes[k].state = "undone" => db.changes[k].state = "undone"
        /\ Undoable(d, k) => Undoable(db, k)
        /\ d.changes[k].applied = db.changes[k].applied
        /\ d.changes[k].at = db.changes[k].at /\ d.changes[k].target = db.changes[k].target
        /\ db.changes[k].known => d.changes[k].known
    BY <2>1 DEF SameRows
  <2>3. CASE k # i
    <3>1. sched'[k] = sched[k] /\ (HasTarget(k)' <=> HasTarget(k))
      BY <2>1, <2>3 DEF Posted, HasTarget
    <3>2. d.changes[k].state = "undone" => Spent(d, k)'
      BY <2>1, <2>2, <3>1 DEF Spent
    <3>3. ASSUME Undoable(d, k) PROVE Newest(d, k)'
      <4>1. Undoable(db, k) /\ Newest(db, k)
        BY <2>1, <2>2, <3>3
      <4>2. ~Undoable(db, i)
        BY <2>3, <4>1, PlanTx DEF Newest
      <4>3. Attached' \subseteq {k}
        BY <1>2, <4>1, <4>2 DEF Newest
      <4>4. Placed(db, k) => Placed(d, k)'
        BY <2>2, <3>1 DEF Placed
      <4>5. \A j \in DOMAIN d.upgrades : d.upgrades[j].state # "submitting"
        BY <4>1 DEF SameRows, Newest
      <4> QED BY <1>1, <2>2, <3>1, <4>1, <4>3, <4>4, <4>5 DEF Newest
    <3> QED BY <2>1, <2>2, <3>1, <3>2, <3>3
  <2>4. CASE k = i
    <3>1. ASSUME Undoable(d, i) PROVE Newest(d, i)'
      <4>1. Undoable(db, i) /\ Newest(db, i)
        BY <2>1, <2>2, <2>4, <3>1
      <4>2. Attached' \subseteq {i}
        BY <1>2, <4>1 DEF Newest
      <4>3. \A j \in DOMAIN d.upgrades : d.upgrades[j].state # "submitting"
        BY <4>1 DEF SameRows, Newest
      <4> QED BY <1>1, <2>2, <2>4, <4>1, <4>2, <4>3 DEF Newest
    <3> QED BY <2>2, <2>4, <3>1
  <2> QED BY <2>3, <2>4
<1>4. Sound(d)'
  BY <1>3 DEF Sound, Undoable
<1>5. Sound(db)' /\ Sound(tx.draft)'
  BY <1>4 DEF Sound, Spent, Undoable, Newest, Placed, HasTarget, Attached
<1>6. SchedulesOK'
  <2>1. ASSUME NEW k \in Ids
        PROVE  /\ k \notin DOMAIN db'.changes => sched'[k].status = "none"
               /\ sched'[k].status = "none" => sched'[k].phases = 1
    BY <1>1, <2>1 DEF PlanInv, SchedulesOK, Posted
  <2>2. \A k, l \in Attached' : k = l
    BY <1>2 DEF PlanInv, SchedulesOK
  <2> QED BY <2>1, <2>2 DEF SchedulesOK
<1>7. TxOK'
  BY <1>1 DEF TxOK, SameRows
<1>8. PlanTypeOK'
  <2>1. faults' \in 0 .. MaxFaults
    BY FaultsBounded
  <2> QED BY <2>1 DEF PlanInv, PlanTypeOK, CallSet, Posted
<1>9. (near => sub.period < MaxPeriod)' /\ (Len(db.changes) + Len(db.upgrades) <= MaxIntents)'
  BY <1>1 DEF PlanInv, SameRows
<1>10. (\A c \in calls : Addressed(c, db))'
  BY <1>1 DEF Addressed, SameRows
<1> QED BY <1>5, <1>6, <1>7, <1>8, <1>9, <1>10 DEF PlanInv

\* The calls that a raised error leaves.
LEMMA RaisedCalls ==
    ASSUME PlanInv, NEW i \in DOMAIN db.changes, Raise("change failed", i) \/ calls' = calls
    PROVE  calls' \subseteq CallSet /\ \A c \in calls' : Addressed(c, db)
<1> PICK new : new = [what |-> "change failed", id |-> i]
  OBVIOUS
<1>1. new \in CallSet /\ Addressed(new, db)
  BY IdsOf DEF CallSet, Addressed
<1>2. calls' \subseteq calls \cup {new}
  BY DEF Raise
<1> QED BY <1>1, <1>2, CallsTyped DEF PlanInv

LEMMA SameRowsItself == ASSUME NEW d PROVE SameRows(d, d)
BY DEF SameRows

\* One schedule's fields.
LEMMA SchedulePut ==
    ASSUME NEW i \in Ids, sched \in [Ids -> Schedule], NEW row \in Schedule, sched' = [sched EXCEPT ![i] = row]
    PROVE  /\ sched' \in [Ids -> Schedule] /\ sched'[i] = row
           /\ \A k \in Ids : k # i => sched'[k] = sched[k]
OBVIOUS

LEMMA CreateKeeps == ASSUME PlanInv, Create PROVE PlanInv'
<1> PICK i : i = tx.id
  OBVIOUS
<1>1. i \in DOMAIN db.changes /\ Undoable(db, i) /\ Newest(db, i) /\ i \in Ids /\ db.changes[i].state # "undone"
  BY PlanTx DEF Create, PlanInv, TxOK, Undoable
<1>2. UNCHANGED <<sub, invoices, near, done>>
  BY DEF Create
<1>3. CASE ~Creatable(i) /\ Raise("change failed", i) /\ UNCHANGED <<sched, faults>>
  BY <1>1, <1>2, <1>3, RaiseSame
<1>4. ASSUME Creatable(i), Created(i) PROVE Posted(i) /\ (HasTarget(i)' <=> HasTarget(i)) /\ (HasTarget(i) => Placed(db, i) /\ sched' = sched)
  <2>1. CASE sched[i].status # "none"
    <3>1. sched' = sched
      BY <1>4, <2>1 DEF Created
    <3> QED BY <1>1, <2>1, <3>1, StripeTyped DEF Posted, HasTarget, Newest
  <2>2. CASE sched[i].status = "none"
    <3>1. sched[i].phases = 1 /\ Attached = {}
      BY <1>1, <1>4, <2>2 DEF PlanInv, SchedulesOK, Creatable
    <3> PICK row : row = [sched[i] EXCEPT !.status = "active"]
      OBVIOUS
    <3>2. row \in Schedule /\ row.status = "active" /\ row.phases = 1
      BY <1>1, <3>1, StripeTyped DEF Schedule
    <3>3. sched' = [sched EXCEPT ![i] = row]
      BY <1>4, <2>2 DEF Created
    <3>4. sched' \in [Ids -> Schedule] /\ sched'[i] = row /\ \A k \in Ids : k # i => sched'[k] = sched[k]
      BY <1>1, <3>2, <3>3, StripeTyped
    <3>5. Posted(i)
      BY <1>1, <3>1, <3>2, <3>4 DEF Posted
    <3> QED BY <3>1, <3>2, <3>4, <3>5 DEF HasTarget
  <2> QED BY <2>1, <2>2
<1>5. CASE Creatable(i) /\ Created(i) /\ Commit([db EXCEPT !.changes[i].known = TRUE]) /\ UNCHANGED <<calls, faults>>
  <2> PICK old : old = db.changes
    OBVIOUS
  <2> PICK rows : rows = [old EXCEPT ![i].known = TRUE]
    OBVIOUS
  <2> PICK d : d = [db EXCEPT !.changes = rows]
    OBVIOUS
  <2>1. db' = d /\ tx'.pc = "idle" /\ tx'.draft = d
    BY <1>5 DEF Commit
  <2>2. DOMAIN rows = DOMAIN old
        /\ \A k \in DOMAIN old : rows[k] = IF k = i THEN [old[k] EXCEPT !.known = TRUE] ELSE old[k]
    OBVIOUS
  <2>3. ASSUME NEW k \in DOMAIN old
        PROVE  /\ rows[k] \in Change
               /\ rows[k].state = old[k].state /\ rows[k].applied = old[k].applied
               /\ rows[k].at = old[k].at /\ rows[k].target = old[k].target
               /\ (old[k].known => rows[k].known) /\ (k = i => rows[k].known)
    <3>1. old[k] \in Change
      BY <2>3, PlanTx
    <3> QED BY <2>2, <2>3, <3>1 DEF Change
  <2>4. rows \in Seq(Change)
    <3>1. rows \in [DOMAIN old -> Change]
      <4>1. rows = [k \in DOMAIN old |-> rows[k]]
        BY <2>2
      <4> QED BY <2>3, <4>1
    <3>2. old \in Seq(Change)
      BY PlanTx, SavedFields
    <3>3. \A t \in [DOMAIN old -> Change] : t \in Seq(Change)
      BY <3>2, SeqAgain
    <3> QED BY <3>1, <3>3
  <2>5. d \in Saved /\ d.changes = rows /\ d.upgrades = db.upgrades
    BY <2>4, PlanTx DEF Saved
  <2>6. SameRows(db, d) /\ d.changes[i].known
    <3>1. \A k \in DOMAIN old : Undoable(d, k) => Undoable(db, k)
      BY <2>3, <2>5 DEF Undoable
    <3>2. DOMAIN d.changes = DOMAIN db.changes /\ d.upgrades = db.upgrades
      BY <2>2, <2>5
    <3>3. \A k \in DOMAIN db.changes :
             /\ d.changes[k].state = db.changes[k].state /\ d.changes[k].applied = db.changes[k].applied
             /\ d.changes[k].at = db.changes[k].at /\ d.changes[k].target = db.changes[k].target
             /\ db.changes[k].known => d.changes[k].known
      BY <2>3, <2>5
    <3>4. d.changes[i].known
      BY <1>1, <2>3, <2>5
    <3> QED BY <3>1, <3>2, <3>3, <3>4 DEF SameRows
  <2>7. Posted(i) /\ (HasTarget(i)' => Placed(db, i) /\ sched' = sched)
    BY <1>4, <1>5
  <2>8. HasTarget(i)' => Placed(d, i)'
    <3>1. d.changes[i].at = db.changes[i].at /\ d.changes[i].target = db.changes[i].target
      <4>1. rows[i].at = old[i].at /\ rows[i].target = old[i].target
        BY <1>1, <2>3
      <4> QED BY <2>5, <4>1
    <3> QED BY <1>2, <2>7, <3>1 DEF Placed
  <2>9. calls' \subseteq CallSet /\ \A c \in calls' : Addressed(c, db)
    BY <1>1, <1>5, RaisedCalls
  <2> QED BY <1>1, <1>2, <1>5, <2>1, <2>5, <2>6, <2>7, <2>8, <2>9, PostInv
<1>6. CASE Creatable(i) /\ Fault /\ Created(i) /\ Raise("change failed", i)
  <2> PICK d : d = db
    OBVIOUS
  <2>1. db' = d /\ tx'.pc = "idle" /\ tx'.draft = d
    BY <1>6 DEF Raise, Commit
  <2>2. Posted(i) /\ (HasTarget(i)' <=> HasTarget(i)) /\ (HasTarget(i)' => Placed(db, i) /\ sched' = sched)
    BY <1>4, <1>6
  <2>3. HasTarget(i)' => Placed(d, i)'
    BY <1>2, <2>2 DEF Placed
  <2>4. HasTarget(i)' => d.changes[i].known
    BY <1>1, <2>2, PlanTx
  <2>5. calls' \subseteq CallSet /\ \A c \in calls' : Addressed(c, db)
    BY <1>1, <1>6, RaisedCalls
  <2>6. d \in Saved /\ SameRows(db, d)
    BY PlanTx, SameRowsItself
  <2> QED BY <1>1, <1>2, <1>6, <2>1, <2>2, <2>3, <2>4, <2>5, <2>6, PostInv
<1> QED BY <1>3, <1>5, <1>6 DEF Create

LEMMA ConfigureKeeps == ASSUME PlanInv, Configure PROVE PlanInv'
<1> PICK i : i = tx.id
  OBVIOUS
<1> PICK row : row = [sched[i] EXCEPT !.phases = 2]
  OBVIOUS
<1>1. /\ i \in DOMAIN db.changes /\ Undoable(db, i) /\ Newest(db, i) /\ i \in Ids
      /\ db.changes[i].state = "preparing" /\ db.changes[i].known
  BY PlanTx DEF Configure, PlanInv, TxOK, Undoable
<1>2. UNCHANGED <<sub, invoices, near, done>>
  BY DEF Configure
<1>3. CASE Raise("change failed", i) /\ UNCHANGED <<sched, faults>>
  BY <1>1, <1>2, <1>3, RaiseSame
<1>4. ASSUME sched[i].status = "active", sub.period = db.changes[i].at, sched' = [sched EXCEPT ![i] = row]
      PROVE  Posted(i) /\ sched'[i].status = "active"
  <2>1. row \in Schedule /\ row.status = "active"
    BY <1>1, <1>4, StripeTyped DEF Schedule
  <2>2. sched' \in [Ids -> Schedule] /\ sched'[i] = row /\ \A k \in Ids : k # i => sched'[k] = sched[k]
    BY <1>1, <1>4, <2>1, StripeTyped
  <2> QED BY <1>4, <2>1, <2>2 DEF Posted
<1>5. CASE /\ sched[i].status = "active" /\ sub.period = db.changes[i].at /\ sched' = [sched EXCEPT ![i] = row]
           /\ Commit(Became(db, i, "scheduled")) /\ UNCHANGED <<calls, faults>>
  <2> PICK d : d = Became(db, i, "scheduled")
    OBVIOUS
  <2>1. db' = d /\ tx'.pc = "idle" /\ tx'.draft = d
    BY <1>5 DEF Commit
  <2>2. Posted(i) /\ sched'[i].status = "active"
    BY <1>4, <1>5
  <2>3. "scheduled" \in ChangeStates
    BY DEF ChangeStates
  <2>4. /\ d \in Saved /\ DOMAIN d.changes = DOMAIN db.changes /\ d.upgrades = db.upgrades
        /\ \A k \in DOMAIN db.changes : d.changes[k] = IF k = i THEN [db.changes[k] EXCEPT !.state = "scheduled"] ELSE db.changes[k]
    <3>1. ASSUME NEW state \in ChangeStates, NEW e, e = Became(db, i, state)
          PROVE  /\ e \in Saved /\ DOMAIN e.changes = DOMAIN db.changes /\ e.upgrades = db.upgrades
                 /\ \A k \in DOMAIN db.changes :
                       e.changes[k] = IF k = i THEN [db.changes[k] EXCEPT !.state = state] ELSE db.changes[k]
      <4>1. db \in Saved
        BY PlanTx
      <4> QED BY <3>1, <4>1, BecameKeeps
    <3> QED BY <2>3, <3>1
  <2>5. ASSUME NEW k \in DOMAIN db.changes
        PROVE  /\ d.changes[k].state = IF k = i THEN "scheduled" ELSE db.changes[k].state
               /\ d.changes[k].applied = db.changes[k].applied /\ d.changes[k].at = db.changes[k].at
               /\ d.changes[k].target = db.changes[k].target /\ d.changes[k].known = db.changes[k].known
    <3>1. db.changes[k] \in Change
      BY <2>5, PlanTx
    <3> QED BY <2>4, <2>5, <3>1 DEF Change
  <2>6. SameRows(db, d)
    BY <1>1, <2>4, <2>5 DEF SameRows, Undoable
  <2>7. Placed(d, i)'
    BY <1>1, <1>2, <1>5, <2>2, <2>5 DEF Placed
  <2>8. calls' \subseteq CallSet /\ \A c \in calls' : Addressed(c, db)
    BY <1>1, <1>5, RaisedCalls
  <2>9. d.changes[i].known
    BY <1>1, <2>5
  <2> QED BY <1>1, <1>2, <1>5, <2>1, <2>2, <2>4, <2>6, <2>7, <2>8, <2>9, PostInv
<1>6. CASE /\ sched[i].status = "active" /\ sub.period = db.changes[i].at /\ sched' = [sched EXCEPT ![i] = row]
           /\ Fault /\ Raise("change failed", i)
  <2> PICK d : d = db
    OBVIOUS
  <2>1. db' = d /\ tx'.pc = "idle" /\ tx'.draft = d
    BY <1>6 DEF Raise, Commit
  <2>2. Posted(i) /\ sched'[i].status = "active"
    BY <1>4, <1>6
  <2>3. Placed(d, i)'
    BY <1>2, <1>6, <2>2 DEF Placed
  <2>4. calls' \subseteq CallSet /\ \A c \in calls' : Addressed(c, db)
    BY <1>1, <1>6, RaisedCalls
  <2>5. d \in Saved /\ SameRows(db, d)
    BY PlanTx, SameRowsItself
  <2> QED BY <1>1, <1>2, <1>6, <2>1, <2>2, <2>3, <2>4, <2>5, PostInv
<1>7. sched' = [sched EXCEPT ![i].phases = 2] <=> sched' = [sched EXCEPT ![i] = row]
  OBVIOUS
<1> QED BY <1>3, <1>5, <1>6, <1>7 DEF Configure

\* A change past its boundary at the new price is found to have taken effect.
LEMMA ObserveChangeTakes ==
    ASSUME PlanInv, NEW i \in DOMAIN db.changes, Undoable(db, i), HasTarget(i), ~sched[i].early,
           sub.status # "canceled", sub.period > db.changes[i].at, sub.price = db.changes[i].target
    PROVE  Observed(db).changes[i].applied
<1> PICK unfinished : unfinished = {h \in DOMAIN db.changes : db.changes[h].state \notin ChangeTerminal}
  OBVIOUS
<1> PICK old : old = db.changes
  OBVIOUS
<1> PICK p : p = old[i].target
  OBVIOUS
<1>1. i = Len(db.changes) /\ db.changes[i].known /\ ~db.changes[i].applied /\ db.changes[i] \in Change
  BY PlanTx DEF Newest
<1>2. i \in unfinished /\ \A h \in unfinished : h \in Nat /\ h <= i
  BY <1>1, IdsOf DEF Undoable, ChangeTerminal
<1>3. Last(unfinished) = i
  <2>1. \A h \in unfinished : (\A g \in unfinished : g <= h) => h = i
    BY <1>2
  <2> QED BY <1>2, <2>1 DEF Last
<1>4. ObserveChange(db) = Taken(db, i, p)
  BY <1>1, <1>2, <1>3 DEF ObserveChange, Taken
<1> PICK rows : rows = TakenRows(old, i)
  OBVIOUS
<1>5. ObserveChange(db) = [db EXCEPT !.plan = p, !.changes = rows]
  <2>1. db \in Saved
    BY PlanTx
  <2>2. Taken(db, i, p) = [db EXCEPT !.plan = p, !.changes = TakenRows(db.changes, i)]
    BY <2>1, TakenIs
  <2> QED BY <1>4, <2>2
<1>6. rows[i].applied
  BY <1>1 DEF Change, TakenRows
<1>7. ObserveChange(db).changes = rows
  BY <1>5, PlanTx DEF Saved
<1>8. ObserveChange(db).changes[i].applied => Observed(db).changes[i].applied
  BY PlanTx, StripeTyped, ObservedKeeps
<1> QED BY <1>6, <1>7, <1>8

\* The schedule is over: a change is called undone only when its schedule was given
\* up before its boundary.
LEMMA FinishKeeps ==
    ASSUME PlanInv, NEW i \in DOMAIN db.changes, db.changes[i].state \in {"undoing", "finalizing"},
           sched[i].status # "active", Finish(i), UNCHANGED <<sub, invoices, sched, near, done, faults, calls>>
    PROVE  PlanInv'
<1> PICK d : d = Observed(db)
  OBVIOUS
<1>1. {"undone", "needs_review", "applied"} \subseteq ChangeStates
  BY DEF ChangeStates, ChangeTerminal
<1>2. CASE /\ Commit(Became(d, i, "undone")) /\ db.changes[i].state = "undoing"
           /\ ~d.changes[i].applied /\ d.status # "canceled"
  <2>1. Undoable(db, i) /\ Newest(db, i) /\ d.status = sub.status
    BY <1>2, PlanTx, ObservedSound DEF Undoable
  <2>2. ASSUME HasTarget(i) PROVE sched[i].early
    <3>1. Placed(db, i)
      BY <2>1, <2>2 DEF Newest
    <3> QED BY <1>2, <2>1, <2>2, <3>1, ObserveChangeTakes DEF Placed
  <2>3. Spent(d, i)
    BY <1>2, <2>2 DEF Spent
  <2> QED BY <1>1, <1>2, <2>3, CommitBecame
<1>3. ASSUME NEW state \in {"needs_review", "applied"}, Commit(Became(d, i, state))
      PROVE  PlanInv'
  BY <1>1, <1>3, CommitBecame
<1>4. CASE Commit(d)
  BY <1>4, CommitObserved
<1> QED BY <1>2, <1>3, <1>4 DEF Finish

LEMMA StartReleaseKeeps == ASSUME PlanInv, NEW i \in Ids, StartRelease(i) PROVE PlanInv'
<1> PICK d : d = Observed(db)
  OBVIOUS
<1>1. /\ i \in DOMAIN db.changes /\ Quiet /\ db.changes[i].state \in {"undoing", "finalizing"}
      /\ UNCHANGED <<sub, invoices, sched, near, done, faults, calls>>
  BY DEF StartRelease, In, Stripe
<1>2. CASE sched[i].status # "active" /\ Finish(i)
  BY <1>1, <1>2, FinishKeeps
<1>3. CASE Commit(Became(d, i, "scheduled")) /\ d.changes[i].state = "undoing"
  <2>1. "scheduled" \in ChangeStates /\ Undoable(d, i)
    BY <1>3 DEF ChangeStates, Undoable
  <2> QED BY <1>1, <1>3, <2>1, CommitBecame
<1>4. CASE Commit(d)
  BY <1>1, <1>4, CommitObserved
<1>5. CASE Hold("release", i, db)
  BY <1>1, <1>5, PlanTx, HoldSame
<1> QED BY <1>2, <1>3, <1>4, <1>5 DEF StartRelease

LEMMA ReleasedKeeps == ASSUME PlanInv, Released PROVE PlanInv'
<1> PICK i : i = tx.id
  OBVIOUS
<1>1. i \in DOMAIN db.changes /\ db.changes[i].state \in {"undoing", "finalizing"} /\ sched[i].status # "active"
  BY DEF Released, PlanInv, TxOK
<1> QED BY <1>1, FinishKeeps DEF Released, Stripe

LEMMA GivenUp ==
    ASSUME NEW i, NEW early, NEW row, row = [sched[i] EXCEPT !.status = "released", !.early = early]
    PROVE  [sched EXCEPT ![i].status = "released", ![i].early = early] = [sched EXCEPT ![i] = row]
OBVIOUS

LEMMA ReleaseKeeps == ASSUME PlanInv, Release PROVE PlanInv'
<1>1. \A k, b, r : r = [sched[k] EXCEPT !.status = "released", !.early = b] =>
         [sched EXCEPT ![k].status = "released", ![k].early = b] = [sched EXCEPT ![k] = r]
  BY GivenUp
<1> PICK i : i = tx.id
  OBVIOUS
<1> PICK early : early = (sub.period = db.changes[i].at)
  OBVIOUS
<1> PICK row : row = [sched[i] EXCEPT !.status = "released", !.early = early]
  OBVIOUS
<1> PICK d : d = db
  OBVIOUS
<1>2. i \in DOMAIN db.changes /\ db.changes[i].state \in {"undoing", "finalizing"} /\ i \in Ids
  BY PlanTx DEF Release, PlanInv, TxOK
<1>3. UNCHANGED <<sub, invoices, near, done>>
  BY DEF Release
<1>4. CASE Raise("change failed", i) /\ UNCHANGED <<sched, faults>>
  BY <1>2, <1>3, <1>4, RaiseSame
<1>5. ASSUME sched[i].status = "active", sched' = [sched EXCEPT ![i] = row]
      PROVE  /\ Posted(i) /\ sched'[i].status # "active"
             /\ Undoable(db, i) /\ HasTarget(i)' => Placed(d, i)'
             /\ HasTarget(i)' => d.changes[i].known
             /\ d \in Saved /\ SameRows(db, d)
  <2>1. row \in Schedule /\ row.status = "released" /\ row.early = early /\ row.phases = sched[i].phases
    BY <1>2, StripeTyped DEF Schedule
  <2>2. sched' \in [Ids -> Schedule] /\ sched'[i] = row /\ \A k \in Ids : k # i => sched'[k] = sched[k]
    BY <1>2, <1>5, <2>1, StripeTyped, SchedulePut
  <2>3. Posted(i) /\ sched'[i].status # "active"
    BY <2>1, <2>2 DEF Posted
  <2>4. HasTarget(i)' <=> HasTarget(i)
    BY <2>1, <2>2 DEF HasTarget
  <2>5. ASSUME Undoable(db, i), HasTarget(i) PROVE Placed(d, i)'
    <3>1. Placed(db, i)
      BY <1>2, <2>5, PlanTx DEF Newest
    <3>2. \/ sub.status = "canceled" \/ early
          \/ sub.period > db.changes[i].at /\ sub.price = db.changes[i].target
      BY <1>5, <3>1 DEF Placed
    <3> QED BY <1>3, <2>1, <2>2, <3>2 DEF Placed
  <2> QED BY <1>2, <2>3, <2>4, <2>5, PlanTx, SameRowsItself
<1>6. CASE sched[i].status = "active" /\ Fault /\ sched' = [sched EXCEPT ![i] = row] /\ Raise("change failed", i)
  <2>1. db' = d /\ tx'.pc = "idle" /\ tx'.draft = d
    BY <1>6 DEF Raise, Commit
  <2>2. calls' \subseteq CallSet /\ \A c \in calls' : Addressed(c, db)
    BY <1>2, <1>6, RaisedCalls
  <2> QED BY <1>2, <1>3, <1>5, <1>6, <2>1, <2>2, PostInv
<1>7. CASE /\ sched[i].status = "active" /\ sched' = [sched EXCEPT ![i] = row]
           /\ Hold("released", i, db) /\ UNCHANGED <<calls, faults>>
  <2>1. db' = d /\ tx'.pc = "released" /\ tx'.draft = d /\ tx'.id = i
    BY <1>7 DEF Hold
  <2>2. calls' \subseteq CallSet /\ \A c \in calls' : Addressed(c, db)
    BY <1>2, <1>7, RaisedCalls
  <2> QED BY <1>2, <1>3, <1>5, <1>7, <2>1, <2>2, PostInv
<1>8. sched' = [sched EXCEPT ![i].status = "released", ![i].early = early] <=> sched' = [sched EXCEPT ![i] = row]
  BY <1>1
<1>9. \/ Raise("change failed", i) /\ UNCHANGED <<sched, faults>>
      \/ /\ sched[i].status = "active" /\ Fault
         /\ sched' = [sched EXCEPT ![i].status = "released", ![i].early = early] /\ Raise("change failed", i)
      \/ /\ sched[i].status = "active" /\ sched' = [sched EXCEPT ![i].status = "released", ![i].early = early]
         /\ Hold("released", i, db) /\ UNCHANGED <<calls, faults>>
  BY DEF Release
<1> QED BY <1>4, <1>6, <1>7, <1>8, <1>9

-----------------------------------------------------------------------------
\* Rows written anew.
WithChanges(d, rows) == [d EXCEPT !.changes = rows]
WithUpgrades(d, rows) == [d EXCEPT !.upgrades = rows]

LEMMA ChangesKept ==
    ASSUME NEW d \in Saved, NEW rows \in [DOMAIN d.changes -> Change],
           \A k \in DOMAIN d.changes : KeptChange(d.changes[k], rows[k])
    PROVE  KeptBy(d, WithChanges(d, rows))
<1> PICK old : old = d.changes
  OBVIOUS
<1> PICK e : e = WithChanges(d, rows)
  OBVIOUS
<1>1. rows \in Seq(Change) /\ DOMAIN rows = DOMAIN old
  BY SavedFields, SeqAgain
<1>2. e \in Saved /\ e.changes = rows /\ e.upgrades = d.upgrades
  BY <1>1 DEF WithChanges, Saved
<1> QED BY <1>1, <1>2 DEF KeptBy

LEMMA UpgradesKept ==
    ASSUME NEW d \in Saved, NEW rows \in [DOMAIN d.upgrades -> Upgrade],
           \A k \in DOMAIN d.upgrades : rows[k].state = "submitting" => d.upgrades[k].state = "submitting"
    PROVE  KeptBy(d, WithUpgrades(d, rows))
<1> PICK old : old = d.upgrades
  OBVIOUS
<1> PICK e : e = WithUpgrades(d, rows)
  OBVIOUS
<1>1. rows \in Seq(Upgrade) /\ DOMAIN rows = DOMAIN old
  BY SavedFields, SeqAgain
<1>2. e \in Saved /\ e.upgrades = rows /\ e.changes = d.changes
  BY <1>1 DEF WithUpgrades, Saved
<1> QED BY <1>1, <1>2 DEF KeptBy, KeptChange

\* What keeps the rows of the database may be saved.
LEMMA CommitKept ==
    ASSUME PlanInv, NEW e, KeptBy(db, e), Commit(e),
           UNCHANGED <<sub, invoices, sched, near, faults>>, done' \subseteq done, calls' \subseteq calls
    PROVE  PlanInv'
<1>1. e \in Saved /\ Sound(e) /\ DOMAIN e.changes = DOMAIN db.changes /\ DOMAIN e.upgrades = DOMAIN db.upgrades
  BY PlanTx, SoundKept DEF KeptBy
<1>2. \A k \in DOMAIN db.changes : e.changes[k].known = db.changes[k].known
  BY DEF KeptBy, KeptChange
<1> QED BY <1>1, <1>2, CommitSame

\* What a counted failure makes of a row.
ChangeFailed(c, n, state) == [c EXCEPT !.attempts = n, !.state = state]
UpgradeFailed(u, n, state) == [u EXCEPT !.attempts = n, !.state = state]

LEMMA ChangeFails ==
    ASSUME NEW c \in Change, NEW n \in Nat, NEW state \in {"needs_review", c.state}
    PROVE  ChangeFailed(c, n, state) \in Change /\ KeptChange(c, ChangeFailed(c, n, state))
<1> PICK row : row = [c EXCEPT !.attempts = n, !.state = state]
  OBVIOUS
<1>1. state \in ChangeStates
  BY DEF Change, ChangeStates
<1>2. row \in Change
  BY <1>1 DEF Change, ChangeStates
<1>3. /\ row.state = state /\ row.applied = c.applied /\ row.known = c.known
      /\ row.at = c.at /\ row.source = c.source /\ row.target = c.target
  BY DEF Change
<1>4. KeptChange(c, row)
  BY <1>3 DEF KeptChange
<1> QED BY <1>2, <1>4 DEF ChangeFailed

LEMMA UpgradeFails ==
    ASSUME NEW u \in Upgrade, NEW n \in Nat, NEW state \in {"needs_review", u.state}
    PROVE  UpgradeFailed(u, n, state) \in Upgrade /\ UpgradeFailed(u, n, state).state = state
<1> PICK row : row = [u EXCEPT !.attempts = n, !.state = state]
  OBVIOUS
<1>1. state \in UpgradeStates
  BY DEF Upgrade, UpgradeStates, Open
<1>2. row \in Upgrade /\ row.state = state
  BY <1>1 DEF Upgrade, UpgradeStates
<1> QED BY <1>2 DEF UpgradeFailed

LEMMA FailKeeps == ASSUME PlanInv, NEW i \in Ids, Fail(i) PROVE PlanInv'
<1> PICK old : old = db.changes
  OBVIOUS
<1>1. calls' \subseteq calls /\ UNCHANGED <<sub, invoices, sched, near, done, faults>>
  BY DEF Fail, Stripe
<1>2. i \in DOMAIN old /\ old[i] \in Change
  <2>1. i \in DOMAIN old
    <3> PICK call : call = [what |-> "change failed", id |-> i]
      OBVIOUS
    <3>1. call \in calls
      BY DEF Fail
    <3> QED BY <3>1 DEF PlanInv, Addressed
  <2> QED BY <2>1, PlanTx
<1> PICK a : a = old[i].attempts
  OBVIOUS
<1>3. a \in Nat
  BY <1>2 DEF Change
<1> PICK n : n = a + 1
  OBVIOUS
<1>4. n \in Nat
  BY <1>3
<1> PICK state : state = IF n >= MaxFailures THEN "needs_review" ELSE old[i].state
  OBVIOUS
<1>5. state \in {"needs_review", old[i].state}
  <2>1. CASE n >= MaxFailures
    BY <2>1
  <2>2. CASE ~(n >= MaxFailures)
    BY <2>2
  <2> QED BY <2>1, <2>2
<1>6. ChangeFailed(old[i], n, state) \in Change /\ KeptChange(old[i], ChangeFailed(old[i], n, state))
  <2>1. old[i] \in Change
    BY <1>2
  <2>2. \A c \in Change : \A m \in Nat : \A t \in {"needs_review", c.state} :
           ChangeFailed(c, m, t) \in Change /\ KeptChange(c, ChangeFailed(c, m, t))
    BY ChangeFails
  <2>3. \A m \in Nat : \A t \in {"needs_review", old[i].state} :
           ChangeFailed(old[i], m, t) \in Change /\ KeptChange(old[i], ChangeFailed(old[i], m, t))
    BY <2>1, <2>2
  <2> QED BY <1>4, <1>5, <2>3
<1> PICK row : row = [old[i] EXCEPT !.attempts = n, !.state = state]
  OBVIOUS
<1> PICK rows : rows = [old EXCEPT ![i] = row]
  OBVIOUS
<1>7. row \in Change /\ KeptChange(old[i], row)
  <2>1. row = ChangeFailed(old[i], n, state)
    BY DEF ChangeFailed
  <2> QED BY <1>5, <1>6, <2>1
<1>8. rows \in [DOMAIN old -> Change] /\ \A k \in DOMAIN old : KeptChange(old[k], rows[k])
  <2>1. \A k \in DOMAIN old : old[k] \in Change /\ KeptChange(old[k], old[k])
    BY PlanTx DEF KeptChange
  <2> QED BY <1>2, <1>7, <2>1
<1>9. Commit(WithChanges(db, rows))
  BY <1>2, ZenonT(60) DEF Fail, WithChanges, Change
<1>10. KeptBy(db, WithChanges(db, rows))
  BY <1>8, PlanTx, ChangesKept
<1> QED BY <1>1, <1>9, <1>10, CommitKept

LEMMA AgeChangeKeeps == ASSUME PlanInv, NEW i \in Ids, AgeChange(i) PROVE PlanInv'
<1> PICK old : old = db.changes
  OBVIOUS
<1> PICK row : row = [old[i] EXCEPT !.old = TRUE]
  OBVIOUS
<1> PICK rows : rows = [old EXCEPT ![i] = row]
  OBVIOUS
<1>1. i \in DOMAIN old /\ old[i] \in Change /\ UNCHANGED <<sub, invoices, sched, near, done, calls, faults>>
  BY PlanTx DEF AgeChange, In, Stripe
<1>2. row \in Change /\ KeptChange(old[i], row)
  BY <1>1 DEF Change, KeptChange
<1>3. rows \in [DOMAIN old -> Change] /\ \A k \in DOMAIN old : KeptChange(old[k], rows[k])
  <2>1. \A k \in DOMAIN old : old[k] \in Change /\ KeptChange(old[k], old[k])
    BY PlanTx DEF KeptChange
  <2> QED BY <1>1, <1>2, <2>1
<1>4. Commit(WithChanges(db, rows))
  BY DEF AgeChange, WithChanges
<1>5. KeptBy(db, WithChanges(db, rows))
  BY <1>3, PlanTx, ChangesKept
<1> QED BY <1>1, <1>4, <1>5, CommitKept

LEMMA AgeUpgradeKeeps == ASSUME PlanInv, NEW j \in Ids, AgeUpgrade(j) PROVE PlanInv'
<1> PICK old : old = db.upgrades
  OBVIOUS
<1> PICK row : row = [old[j] EXCEPT !.old = TRUE]
  OBVIOUS
<1> PICK rows : rows = [old EXCEPT ![j] = row]
  OBVIOUS
<1>1. /\ j \in DOMAIN old /\ \A k \in DOMAIN old : old[k] \in Upgrade
      /\ UNCHANGED <<sub, invoices, sched, near, calls, faults>> /\ done' \subseteq done
  BY PlanTx, SavedFields DEF AgeUpgrade, UpgradeIn
<1>2. row \in Upgrade /\ row.state = old[j].state
  BY <1>1 DEF Upgrade
<1>3. rows \in [DOMAIN old -> Upgrade] /\ \A k \in DOMAIN old : rows[k].state = old[k].state
  BY <1>1, <1>2
<1>4. Commit(WithUpgrades(db, rows))
  BY DEF AgeUpgrade, WithUpgrades
<1>5. KeptBy(db, WithUpgrades(db, rows))
  BY <1>3, PlanTx, UpgradesKept
<1> QED BY <1>1, <1>4, <1>5, CommitKept

LEMMA FailUpgradeKeeps == ASSUME PlanInv, NEW j \in Ids, FailUpgrade(j) PROVE PlanInv'
<1> PICK old : old = db.upgrades
  OBVIOUS
<1>1. calls' \subseteq calls /\ UNCHANGED <<sub, invoices, sched, near, done, faults>>
  BY DEF FailUpgrade, Stripe
<1>2. j \in DOMAIN old /\ \A k \in DOMAIN old : old[k] \in Upgrade
  <2>1. j \in DOMAIN old
    <3> PICK call : call = [what |-> "upgrade failed", id |-> j]
      OBVIOUS
    <3>1. call \in calls
      BY DEF FailUpgrade
    <3> QED BY <3>1 DEF PlanInv, Addressed
  <2> QED BY <2>1, PlanTx, SavedFields
<1> PICK a : a = old[j].attempts
  OBVIOUS
<1>3. a \in Nat
  BY <1>2 DEF Upgrade
<1> PICK n : n = a + 1
  OBVIOUS
<1>4. n \in Nat
  BY <1>3
<1> PICK state : state = IF n >= MaxFailures THEN "needs_review" ELSE old[j].state
  OBVIOUS
<1>5. state \in {"needs_review", old[j].state}
  <2>1. CASE n >= MaxFailures
    BY <2>1
  <2>2. CASE ~(n >= MaxFailures)
    BY <2>2
  <2> QED BY <2>1, <2>2
<1>6. UpgradeFailed(old[j], n, state) \in Upgrade /\ UpgradeFailed(old[j], n, state).state = state
  <2>1. old[j] \in Upgrade
    BY <1>2
  <2>2. \A u \in Upgrade : \A m \in Nat : \A t \in {"needs_review", u.state} :
           UpgradeFailed(u, m, t) \in Upgrade /\ UpgradeFailed(u, m, t).state = t
    BY UpgradeFails
  <2>3. \A m \in Nat : \A t \in {"needs_review", old[j].state} :
           UpgradeFailed(old[j], m, t) \in Upgrade /\ UpgradeFailed(old[j], m, t).state = t
    BY <2>1, <2>2
  <2> QED BY <1>4, <1>5, <2>3
<1> PICK row : row = [old[j] EXCEPT !.attempts = n, !.state = state]
  OBVIOUS
<1> PICK rows : rows = [old EXCEPT ![j] = row]
  OBVIOUS
<1>7. row \in Upgrade /\ (row.state = "submitting" => old[j].state = "submitting")
  <2>1. row = UpgradeFailed(old[j], n, state)
    BY DEF UpgradeFailed
  <2> QED BY <1>5, <1>6, <2>1
<1>8. /\ rows \in [DOMAIN old -> Upgrade]
      /\ \A k \in DOMAIN old : rows[k].state = "submitting" => old[k].state = "submitting"
  BY <1>2, <1>7
<1>9. Commit(WithUpgrades(db, rows))
  <2>1. j \in DOMAIN old /\ old[j] \in Upgrade
    BY <1>2
  <2> QED BY <2>1, ZenonT(60) DEF FailUpgrade, WithUpgrades, Upgrade
<1>10. KeptBy(db, WithUpgrades(db, rows))
  BY <1>8, PlanTx, UpgradesKept
<1> QED BY <1>1, <1>9, <1>10, CommitKept

LEMMA ExpireQuoteKeeps == ASSUME PlanInv, NEW j \in Ids, ExpireQuote(j) PROVE PlanInv'
<1>1. "expired" \in UpgradeStates \ {"submitting"}
  BY DEF UpgradeStates
<1>2. KeptBy(db, Turned(db, j, "expired"))
  BY <1>1, PlanTx, TurnedAway
<1> QED BY <1>2, CommitKept DEF ExpireQuote, Stripe

\* Without an open intent no change is undoable, and no observation makes one so.
LEMMA UnblockedKept ==
    ASSUME PlanInv, ~Blocked(db) \/ \E j \in DOMAIN db.upgrades : db.upgrades[j].state = "submitting"
    PROVE  \A k \in DOMAIN db.changes : ~Undoable(db, k) /\ ~Undoable(Observed(db), k)
<1>1. ASSUME NEW k \in DOMAIN db.changes PROVE ~Undoable(db, k)
  BY <1>1, PlanTx DEF Blocked, Undoable, ChangeTerminal, Newest
<1>2. ASSUME NEW k \in DOMAIN db.changes PROVE ~Undoable(Observed(db), k)
  <2>1. KeptChange(db.changes[k], Observed(db).changes[k])
    BY <1>2, ObservedSound DEF KeptBy
  <2> QED BY <1>1, <1>2, <2>1 DEF KeptChange, Undoable
<1> QED BY <1>1, <1>2

\* ... and an upgrade may be asked.
LEMMA SoundAsked ==
    ASSUME NEW d, NEW e, Sound(d), e.changes = d.changes, \A k \in DOMAIN d.changes : ~Undoable(d, k)
    PROVE  Sound(e)
BY DEF Sound, Undoable, Spent

LEMMA ConfirmQuoteKeeps == ASSUME PlanInv, NEW j \in Ids, ConfirmQuote(j) PROVE PlanInv'
<1> PICK d : d = Observed(db)
  OBVIOUS
<1> PICK f : f = Turned(d, j, "submitting")
  OBVIOUS
<1> PICK old : old = f.upgrades
  OBVIOUS
<1> PICK rows : rows = [old EXCEPT ![j].submitted = TRUE]
  OBVIOUS
<1> PICK e : e = WithUpgrades(f, rows)
  OBVIOUS
<1>1. /\ d \in Saved /\ Sound(d) /\ DOMAIN d.changes = DOMAIN db.changes /\ DOMAIN d.upgrades = DOMAIN db.upgrades
      /\ \A k \in DOMAIN db.changes : d.changes[k].known = db.changes[k].known
  BY ObservedSound
<1>2. f \in Saved /\ DOMAIN f.upgrades = DOMAIN d.upgrades /\ f.changes = d.changes
  <2>1. "submitting" \in UpgradeStates
    BY DEF UpgradeStates, Open
  <2> QED BY <1>1, <2>1, TurnedKeeps
<1>3. \A k \in DOMAIN db.changes : ~Undoable(d, k)
  BY UnblockedKept DEF ConfirmQuote
<1>4. rows \in [DOMAIN old -> Upgrade]
  <2>1. \A k \in DOMAIN old : old[k] \in Upgrade
    BY <1>2, SavedFields
  <2>2. ASSUME NEW k \in DOMAIN old PROVE rows[k] \in Upgrade
    <3>1. rows[k] = IF k = j THEN [old[k] EXCEPT !.submitted = TRUE] ELSE old[k]
      BY <2>2
    <3>2. [old[k] EXCEPT !.submitted = TRUE] \in Upgrade
      <4>1. old[k] \in Upgrade
        BY <2>1, <2>2
      <4> QED BY <4>1 DEF Upgrade
    <3> QED BY <2>1, <2>2, <3>1, <3>2
  <2> QED BY <2>2
<1>5. e \in Saved /\ e.changes = d.changes /\ DOMAIN e.upgrades = DOMAIN db.upgrades
  <2>1. rows \in Seq(Upgrade) /\ DOMAIN rows = DOMAIN old
    BY <1>2, <1>4, SavedFields, SeqAgain
  <2> QED BY <1>1, <1>2, <2>1 DEF WithUpgrades, Saved
<1>6. Sound(e)
  BY <1>1, <1>3, <1>5, SoundAsked
<1>7. Commit(e) /\ UNCHANGED <<sub, invoices, sched, near, done, calls, faults>>
  BY DEF ConfirmQuote, WithUpgrades, Stripe
<1> QED BY <1>1, <1>5, <1>6, <1>7, CommitSame

LEMMA RetryUpgradeKeeps == ASSUME PlanInv, NEW j \in Ids, RetryUpgrade(j) PROVE PlanInv'
<1> PICK d : d = Observed(db)
  OBVIOUS
<1>1. /\ j \in DOMAIN db.upgrades /\ Quiet /\ UNCHANGED <<sub, invoices, sched, near, done, calls, faults>>
  BY DEF RetryUpgrade, UpgradeIn, Stripe
<1>2. /\ d \in Saved /\ Sound(d) /\ KeptBy(db, d)
      /\ DOMAIN d.changes = DOMAIN db.changes /\ DOMAIN d.upgrades = DOMAIN db.upgrades
      /\ \A k \in DOMAIN db.changes : d.changes[k].known = db.changes[k].known
  BY ObservedSound
<1>3. CASE Commit(d)
  BY <1>1, <1>3, CommitObserved
<1>4. CASE Commit(Turned(d, j, "needs_review"))
  <2>1. "needs_review" \in UpgradeStates \ {"submitting"}
    BY DEF UpgradeStates, Open
  <2>2. KeptBy(d, Turned(d, j, "needs_review"))
    BY <1>2, <2>1, TurnedAway
  <2> QED BY <1>1, <1>2, <1>4, <2>2, KeptTwice, CommitKept
<1>5. CASE d.upgrades[j].state = "submitting" /\ Hold("charge", j, d)
  <2>1. db.upgrades[j].state = "submitting"
    BY <1>1, <1>2, <1>5 DEF KeptBy
  <2>2. \A k \in DOMAIN db.changes : ~Undoable(db, k) /\ ~Undoable(d, k)
    BY <1>1, <2>1, UnblockedKept
  <2> QED BY <1>1, <1>2, <1>5, <2>2, HoldSame
<1> QED BY <1>3, <1>4, <1>5 DEF RetryUpgrade

\* A charge: nobody can undo a change while it is on its way.
LEMMA ChargeInv ==
    ASSUME PlanInv, \A k \in DOMAIN db.changes : ~Undoable(db, k) /\ ~Undoable(tx.draft, k),
           UNCHANGED <<sched, near, db>>, sub' \in Subscription, sub'.period = sub.period, invoices' \in Seq(Invoice),
           done' \subseteq Ids, faults' \in 0 .. MaxFaults, calls' \subseteq CallSet, \A c \in calls' : Addressed(c, db),
           \/ tx'.pc = "idle" /\ tx'.draft = db
           \/ tx'.pc = "charged" /\ tx'.draft = tx.draft /\ tx'.id \in DOMAIN db.upgrades
    PROVE  PlanInv'
<1>1. ASSUME NEW d, d = db \/ d = tx.draft PROVE Sound(d)'
  <2>1. /\ DOMAIN d.changes = DOMAIN db.changes /\ Sound(d) /\ sched' = sched
        /\ \A k \in DOMAIN d.changes : ~Undoable(d, k)
    BY <1>1 DEF PlanInv, TxOK
  <2>2. ASSUME NEW i \in DOMAIN d.changes
        PROVE  /\ (HasTarget(i)' <=> HasTarget(i)) /\ (Spent(d, i) => Spent(d, i)') /\ ~Undoable(d, i)
               /\ d.changes[i].state = "undone" => Spent(d, i)
               /\ HasTarget(i) => d.changes[i].known
    BY <2>1, <2>2 DEF HasTarget, Spent, Sound
  <2> QED BY <2>2 DEF Sound, Undoable
<1>2. Sound(db)' /\ Sound(tx.draft)'
  <2>1. db' = db /\ (tx'.draft = db \/ tx'.draft = tx.draft)
    OBVIOUS
  <2> PICK d : d = db
    OBVIOUS
  <2> PICK e : e = tx.draft
    OBVIOUS
  <2>2. Sound(d)' /\ Sound(e)'
    BY <1>1
  <2>3. db' = d /\ (tx'.draft = d \/ tx'.draft = e)
    BY <2>1
  <2> QED BY <2>2, <2>3 DEF Sound, Spent, Undoable, Newest, Placed, HasTarget, Attached
<1>3. PlanTypeOK'
  BY DEF PlanInv, PlanTypeOK, CallSet
<1>4. TxOK'
  BY DEF PlanInv, TxOK
<1>5. SchedulesOK'
  BY DEF PlanInv, SchedulesOK, Attached
<1>6. (near => sub.period < MaxPeriod)' /\ (Len(db.changes) + Len(db.upgrades) <= MaxIntents)'
  BY DEF PlanInv
<1>7. (\A c \in calls : Addressed(c, db))'
  BY DEF Addressed
<1> QED BY <1>2, <1>3, <1>4, <1>5, <1>6, <1>7 DEF PlanInv

LEMMA ChargeTyped ==
    ASSUME PlanInv, NEW j \in Ids, Charged(j)
    PROVE  sub' \in Subscription /\ sub'.period = sub.period /\ invoices' \in Seq(Invoice) /\ done' \subseteq Ids
<1>1. sub \in Subscription /\ invoices \in Seq(Invoice) /\ done \subseteq Ids
  BY StripeTyped, CallsTyped
<1>2. CASE UNCHANGED <<sub, invoices, done>>
  BY <1>1, <1>2
<1>3. ASSUME NEW paid \in BOOLEAN,
             sub' = IF paid THEN [sub EXCEPT !.price = High] ELSE [sub EXCEPT !.pending = j],
             invoices' = Append(invoices, [price |-> High, period |-> sub.period,
                   status |-> IF paid THEN "paid" ELSE "open", tried |-> TRUE, by |-> j]),
             done' = done \cup {j}
      PROVE  sub' \in Subscription /\ sub'.period = sub.period /\ invoices' \in Seq(Invoice) /\ done' \subseteq Ids
  <2>1. sub' \in Subscription /\ sub'.period = sub.period
    <3>1. [sub EXCEPT !.price = High] \in Subscription /\ [sub EXCEPT !.price = High].period = sub.period
      BY <1>1 DEF Subscription, Prices
    <3>2. [sub EXCEPT !.pending = j] \in Subscription /\ [sub EXCEPT !.pending = j].period = sub.period
      BY <1>1 DEF Subscription
    <3> QED BY <1>3, <3>1, <3>2
  <2>2. invoices' \in Seq(Invoice)
    <3> PICK new : new = [price |-> High, period |-> sub.period,
                          status |-> IF paid THEN "paid" ELSE "open", tried |-> TRUE, by |-> j]
      OBVIOUS
    <3>1. new \in Invoice
      BY <1>1 DEF Invoice, Subscription, Prices
    <3>2. invoices' = Append(invoices, new)
      BY <1>3
    <3> QED BY <1>1, <3>1, <3>2, AppendProperties
  <2> QED BY <1>1, <1>3, <2>1, <2>2
<1> QED BY <1>2, <1>3 DEF Charged

LEMMA ChargeUpgradeKeeps == ASSUME PlanInv, ChargeUpgrade PROVE PlanInv'
<1> PICK j : j = tx.id
  OBVIOUS
<1>1. /\ j \in DOMAIN db.upgrades /\ j \in Ids
      /\ \A k \in DOMAIN db.changes : ~Undoable(db, k) /\ ~Undoable(tx.draft, k)
  BY IdsOf DEF ChargeUpgrade, PlanInv, TxOK, Sound, Newest
<1>2. UNCHANGED <<sched, near>>
  BY DEF ChargeUpgrade
<1>3. faults' = faults \/ Fault => faults' \in 0 .. MaxFaults
  BY FaultsBounded
<1>4. CASE Charged(j) /\ Hold("charged", j, tx.draft) /\ UNCHANGED <<calls, faults>>
  <2>1. db' = db /\ tx'.pc = "charged" /\ tx'.draft = tx.draft /\ tx'.id = j
    BY <1>4 DEF Hold
  <2>2. calls' \subseteq CallSet /\ \A c \in calls' : Addressed(c, db)
    BY <1>4, CallsTyped DEF PlanInv
  <2>3. sub' \in Subscription /\ sub'.period = sub.period /\ invoices' \in Seq(Invoice) /\ done' \subseteq Ids
    BY <1>1, <1>4, ChargeTyped
  <2> QED BY <1>1, <1>2, <1>3, <1>4, <2>1, <2>2, <2>3, ChargeInv
<1>5. CASE Raise("upgrade failed", j) /\ UNCHANGED <<sub, invoices, done, faults>>
  BY <1>1, <1>2, <1>5, RaiseSame
<1>6. CASE Fault /\ Charged(j) /\ Raise("upgrade failed", j)
  <2>1. db' = db /\ tx'.pc = "idle" /\ tx'.draft = db
    BY <1>6 DEF Raise, Commit
  <2>2. calls' \subseteq CallSet /\ \A c \in calls' : Addressed(c, db)
    <3> PICK new : new = [what |-> "upgrade failed", id |-> j]
      OBVIOUS
    <3>1. calls' = calls \cup {new}
      BY <1>6 DEF Raise
    <3>2. new \in CallSet /\ Addressed(new, db)
      BY <1>1 DEF CallSet, Addressed
    <3> QED BY <3>1, <3>2, CallsTyped DEF PlanInv
  <2>3. sub' \in Subscription /\ sub'.period = sub.period /\ invoices' \in Seq(Invoice) /\ done' \subseteq Ids
    BY <1>1, <1>6, ChargeTyped
  <2> QED BY <1>1, <1>2, <1>3, <1>6, <2>1, <2>2, <2>3, ChargeInv
<1> QED BY <1>4, <1>5, <1>6 DEF ChargeUpgrade

\* A row added.
LEMMA Appended ==
    ASSUME NEW S, NEW s \in Seq(S), NEW x \in S
    PROVE  /\ Append(s, x) \in Seq(S) /\ Len(Append(s, x)) = Len(s) + 1 /\ Len(s) \in Nat
           /\ DOMAIN s = 1 .. Len(s) /\ DOMAIN Append(s, x) = 1 .. Len(s) + 1
           /\ \A k \in DOMAIN s : Append(s, x)[k] = s[k]
           /\ Append(s, x)[Len(s) + 1] = x
BY AppendProperties, LenProperties

LEMMA RoomLeft ==
    ASSUME NEW a \in Nat, NEW b \in Nat, a + b < MaxIntents
    PROVE  a + 1 + b <= MaxIntents /\ a + (b + 1) <= MaxIntents /\ a + 1 \in 1 .. MaxIntents /\ a + 1 \notin 1 .. a /\ a + 1 \in Nat
BY PlanAssumption

\* The intent that a submission adds is the newest, and nothing of it is at Stripe.
LEMMA SubmitInv ==
    ASSUME PlanInv, NEW row \in Change, row.state = "preparing", ~row.applied,
           Quiet, Room, ~Blocked(Observed(db)), Simple, Attached = {},
           Commit(WithChanges(Observed(db), Append(Observed(db).changes, row))),
           UNCHANGED <<sub, invoices, sched, near, done, calls, faults>>
    PROVE  PlanInv'
<1> PICK d : d = Observed(db)
  OBVIOUS
<1> PICK old : old = d.changes
  OBVIOUS
<1> PICK rows : rows = Append(old, row)
  OBVIOUS
<1> PICK n : n = Len(old) + 1
  OBVIOUS
<1> PICK e : e = WithChanges(d, rows)
  OBVIOUS
<1>1. ~Blocked(d) /\ Commit(e)
  OBVIOUS
<1>2. /\ d \in Saved /\ Sound(d) /\ DOMAIN d.changes = DOMAIN db.changes /\ DOMAIN d.upgrades = DOMAIN db.upgrades
      /\ \A k \in DOMAIN db.changes : d.changes[k].known = db.changes[k].known
  BY ObservedSound
<1>3. old \in Seq(Change)
  BY <1>2, SavedFields
<1>4. /\ rows \in Seq(Change) /\ Len(rows) = n /\ Len(old) \in Nat /\ DOMAIN old = 1 .. Len(old)
      /\ DOMAIN rows = 1 .. n /\ \A k \in DOMAIN old : rows[k] = old[k]
      /\ rows[n] = row
  BY <1>3, Appended
<1>5. e \in Saved /\ e.changes = rows /\ e.upgrades = d.upgrades
  BY <1>2, <1>4 DEF WithChanges, Saved
<1>6. Len(old) = Len(db.changes) /\ Len(d.upgrades) = Len(db.upgrades)
  <2>1. Len(old) = Len(db.changes)
    BY <1>2, PlanTx, SameLength
  <2>2. Len(d.upgrades) = Len(db.upgrades)
    <3>1. DOMAIN d.upgrades = 1 .. Len(d.upgrades) /\ Len(d.upgrades) \in Nat
      BY <1>2, SavedFields, LenProperties
    <3>2. 1 .. Len(d.upgrades) = 1 .. Len(db.upgrades)
      BY <1>2, <3>1, IdsOf
    <3> QED BY <3>1, <3>2, IdsOf, SameBound
  <2> QED BY <2>1, <2>2
<1>7. Len(e.changes) + Len(e.upgrades) <= MaxIntents /\ n \in Ids /\ n \notin DOMAIN db.changes /\ n \in Nat
  <2>1. Len(db.changes) \in Nat /\ Len(db.upgrades) \in Nat /\ DOMAIN db.changes = 1 .. Len(db.changes)
    BY IdsOf
  <2> PICK a : a = Len(db.changes)
    OBVIOUS
  <2> PICK b : b = Len(db.upgrades)
    OBVIOUS
  <2>2. a \in Nat /\ b \in Nat /\ DOMAIN db.changes = 1 .. a /\ n = a + 1
    BY <1>6, <2>1
  <2>3. a + b < MaxIntents
    BY DEF Room
  <2>4. Len(e.changes) = a + 1 /\ Len(e.upgrades) = b
    BY <1>4, <1>5, <1>6, <2>2
  <2>5. a + 1 + b <= MaxIntents /\ a + 1 \in 1 .. MaxIntents /\ a + 1 \notin 1 .. a /\ a + 1 \in Nat
    BY <2>2, <2>3, RoomLeft
  <2> QED BY <2>2, <2>4, <2>5 DEF Ids
<1>8. ~HasTarget(n)
  <2>1. sched[n].phases = 1
    BY <1>7 DEF PlanInv, SchedulesOK
  <2> QED BY <2>1 DEF HasTarget
<1>9. ASSUME NEW k \in DOMAIN rows
       PROVE  k = n \/ (k # n /\ k \in DOMAIN old /\ rows[k] = old[k])
  <2>1. \A a \in Nat : \A b \in 1 .. a + 1 : b = a + 1 \/ (b # a + 1 /\ b \in 1 .. a)
    OBVIOUS
  <2> QED BY <1>4, <1>9, <2>1
<1>10. \A k \in DOMAIN old : ~Undoable(d, k)
  BY <1>1 DEF Blocked, Undoable, ChangeTerminal
<1>11. Sound(e)
  <2>1. ASSUME NEW k \in DOMAIN rows, k # n
        PROVE  /\ rows[k].state = "undone" => Spent(e, k)
               /\ ~Undoable(e, k) /\ (HasTarget(k) => rows[k].known)
    <3>1. k \in DOMAIN old /\ rows[k] = old[k]
      BY <1>9, <2>1
    <3> QED BY <1>2, <1>5, <1>10, <3>1 DEF Sound, Spent, Undoable
  <2>2. Newest(e, n) /\ rows[n].state # "undone"
    <3>1. \A j \in DOMAIN e.upgrades : e.upgrades[j].state # "submitting"
      BY <1>1, <1>5 DEF Blocked, Open
    <3> QED BY <1>1, <1>4, <1>5, <1>8, <3>1 DEF Newest, Quiet, Simple
  <2> QED BY <1>5, <1>8, <2>1, <2>2 DEF Sound
<1>12. DOMAIN db.changes \subseteq DOMAIN e.changes
  <2>1. \A a \in Nat : 1 .. a \subseteq 1 .. a + 1
    OBVIOUS
  <2> QED BY <1>2, <1>4, <1>5, <2>1
<1>13. calls' \subseteq CallSet /\ \A c \in calls' : Addressed(c, e)
  <2>1. ASSUME NEW c \in calls PROVE Addressed(c, e)
    <3>1. Addressed(c, db)
      BY <2>1 DEF PlanInv
    <3>2. c.id \in DOMAIN db.changes => c.id \in DOMAIN e.changes /\ e.changes[c.id].known = db.changes[c.id].known
      BY <1>2, <1>4, <1>5, <1>12
    <3>3. DOMAIN e.upgrades = DOMAIN db.upgrades
      BY <1>2, <1>5
    <3> QED BY <3>1, <3>2, <3>3 DEF Addressed
  <2> QED BY <1>1, <2>1, CallsTyped
<1>14. done' \subseteq Ids /\ faults' \in 0 .. MaxFaults
  BY <1>1, CallsTyped, FaultsBounded
<1> QED BY <1>1, <1>5, <1>7, <1>11, <1>12, <1>13, <1>14, CommitInv

LEMMA SubmitKeeps == ASSUME PlanInv, Submit PROVE PlanInv'
<1> PICK d : d = Observed(db)
  OBVIOUS
<1> PICK row : row = [state |-> "preparing", source |-> d.plan, target |-> Choice(d.plan),
                      at |-> d.period, known |-> FALSE, applied |-> FALSE, attempts |-> 0, old |-> FALSE]
  OBVIOUS
<1>1. /\ Quiet /\ Room /\ ~Blocked(d) /\ Simple /\ Attached = {}
      /\ Commit(WithChanges(d, Append(d.changes, row)))
      /\ UNCHANGED <<sub, invoices, sched, near, done, calls, faults>>
  BY DEF Submit, Changeable, Stripe, WithChanges
<1>2. d \in Saved
  BY ObservedSound
<1>3. row \in Change /\ row.state = "preparing" /\ ~row.applied
  BY <1>2, SavedFields DEF Change, Choice, Prices, Work
<1> QED BY <1>1, <1>3, SubmitInv

\* A quote that a preview adds, the older ones expired.
LEMMA PreviewInv ==
    ASSUME PlanInv, ~Blocked(db), Room, NEW new \in Upgrade,
           NEW rows \in [DOMAIN Observed(db).upgrades -> Upgrade],
           Commit(WithUpgrades(Observed(db), Append(rows, new))),
           UNCHANGED <<sub, invoices, sched, near, done, calls, faults>>
    PROVE  PlanInv'
<1> PICK d : d = Observed(db)
  OBVIOUS
<1> PICK all : all = Append(rows, new)
  OBVIOUS
<1> PICK e : e = WithUpgrades(d, all)
  OBVIOUS
<1> PICK a : a = Len(db.changes)
  OBVIOUS
<1> PICK b : b = Len(db.upgrades)
  OBVIOUS
<1>1. /\ d \in Saved /\ Sound(d) /\ DOMAIN d.changes = DOMAIN db.changes /\ DOMAIN d.upgrades = DOMAIN db.upgrades
      /\ \A k \in DOMAIN db.changes : d.changes[k].known = db.changes[k].known
  BY ObservedSound
<1>2. a \in Nat /\ b \in Nat /\ DOMAIN db.upgrades = 1 .. b /\ a + b < MaxIntents
  BY IdsOf DEF Room
<1>3. rows \in Seq(Upgrade) /\ Len(rows) = Len(d.upgrades) /\ DOMAIN rows = DOMAIN d.upgrades
  BY <1>1, SavedFields, SeqAgain
<1>4. /\ all \in Seq(Upgrade) /\ Len(all) = Len(rows) + 1 /\ Len(rows) \in Nat
      /\ DOMAIN rows = 1 .. Len(rows) /\ DOMAIN all = 1 .. Len(rows) + 1
  BY <1>3, Appended
<1>5. Len(rows) = b
  <2>1. 1 .. Len(rows) = 1 .. b
    BY <1>1, <1>2, <1>3, <1>4
  <2> QED BY <1>2, <1>4, <2>1, SameBound
<1>6. e \in Saved /\ e.upgrades = all /\ e.changes = d.changes
  BY <1>1, <1>4 DEF WithUpgrades, Saved
<1>7. Len(e.changes) = a
  BY <1>1, <1>6, PlanTx, SameLength
<1>8. Len(e.changes) + Len(e.upgrades) <= MaxIntents
  <2>1. a + (b + 1) <= MaxIntents
    BY <1>2, RoomLeft
  <2> QED BY <1>4, <1>5, <1>6, <1>7, <2>1
<1>9. Sound(e)
  <2>1. \A k \in DOMAIN d.changes : ~Undoable(d, k)
    BY <1>1, UnblockedKept
  <2> QED BY <1>1, <1>6, <2>1, SoundAsked
<1>10. calls' \subseteq CallSet /\ \A c \in calls' : Addressed(c, e)
  <2>1. DOMAIN db.upgrades \subseteq DOMAIN e.upgrades
    <3>1. \A m \in Nat : 1 .. m \subseteq 1 .. m + 1
      OBVIOUS
    <3> QED BY <1>2, <1>4, <1>5, <1>6, <3>1
  <2>2. ASSUME NEW c \in calls PROVE Addressed(c, e)
    <3>1. Addressed(c, db)
      BY <2>2 DEF PlanInv
    <3>2. c.id \in DOMAIN db.changes => c.id \in DOMAIN e.changes /\ e.changes[c.id].known = db.changes[c.id].known
      BY <1>1, <1>6
    <3> QED BY <2>1, <3>1, <3>2 DEF Addressed
  <2> QED BY <2>2, CallsTyped
<1>11. done' \subseteq Ids /\ faults' \in 0 .. MaxFaults
  BY CallsTyped, FaultsBounded
<1>12. DOMAIN db.changes \subseteq DOMAIN e.changes /\ Commit(e)
  BY <1>1, <1>6
<1> QED BY <1>6, <1>8, <1>9, <1>10, <1>11, <1>12, CommitInv

LEMMA PreviewKeeps == ASSUME PlanInv, Preview PROVE PlanInv'
<1> PICK d : d = Observed(db)
  OBVIOUS
<1> PICK old : old = d.upgrades
  OBVIOUS
<1> PICK rows : rows = [j \in DOMAIN old |-> IF old[j].state = "preview" THEN [old[j] EXCEPT !.state = "expired"] ELSE old[j]]
  OBVIOUS
<1> PICK new : new = [state |-> "preview", submitted |-> FALSE, base |-> Latest(d), invoice |-> NoId,
                      period |-> d.period, applied |-> FALSE, attempts |-> 0, old |-> FALSE]
  OBVIOUS
<1>1. /\ ~Blocked(db) /\ Room /\ Commit(WithUpgrades(d, Append(rows, new)))
      /\ UNCHANGED <<sub, invoices, sched, near, done, calls, faults>>
  BY DEF Preview, Stripe, WithUpgrades
<1>2. d \in Saved
  BY ObservedSound
<1>3. new \in Upgrade
  <2>1. Latest(d) \in Nat /\ d.period \in Periods
    BY <1>2, SavedFields, LenProperties DEF Latest
  <2> QED BY <2>1 DEF Upgrade, Open, NoId
<1>4. rows \in [DOMAIN old -> Upgrade]
  <2>1. ASSUME NEW k \in DOMAIN old PROVE rows[k] \in Upgrade
    <3>1. old[k] \in Upgrade
      BY <1>2, SavedFields
    <3>2. [old[k] EXCEPT !.state = "expired"] \in Upgrade
      BY <3>1 DEF Upgrade
    <3>3. rows[k] = IF old[k].state = "preview" THEN [old[k] EXCEPT !.state = "expired"] ELSE old[k]
      OBVIOUS
    <3> QED BY <3>1, <3>2, <3>3
  <2> QED BY <2>1
<1> QED BY <1>1, <1>3, <1>4, PreviewInv

-----------------------------------------------------------------------------
LEMMA PlanInitially == PlanInit => PlanInv
<1> SUFFICES ASSUME PlanInit PROVE PlanInv
  OBVIOUS
<1>1. PICK p \in Prices :
        /\ sub = [price |-> p, period |-> 1, status |-> "active", pending |-> NoId]
        /\ invoices = <<[price |-> p, period |-> 1, status |-> "paid", tried |-> TRUE, by |-> NoId]>>
        /\ sched = [i \in Ids |-> [status |-> "none", phases |-> 1, early |-> FALSE]]
        /\ near = FALSE /\ done = {}
        /\ db = [plan |-> p, matches |-> TRUE, period |-> 1, status |-> "active",
                 papers |-> <<[status |-> "paid", tried |-> TRUE, issue |-> FALSE]>>,
                 changes |-> <<>>, upgrades |-> <<>>]
        /\ tx = NoTransaction /\ calls = {} /\ faults = 0
  BY DEF PlanInit
<1>2. 1 \in Periods /\ 0 \in 0 .. MaxFaults /\ 0 <= MaxIntents
  BY PlanAssumption DEF Periods
<1>3. sub \in Subscription
  BY <1>1, <1>2 DEF Subscription
<1>4. invoices \in Seq(Invoice)
  <2>1. [price |-> p, period |-> 1, status |-> "paid", tried |-> TRUE, by |-> NoId] \in Invoice
    BY <1>2 DEF Invoice
  <2> QED BY <1>1, <2>1
<1>5. sched \in [Ids -> Schedule] /\ \A i \in Ids : sched[i].status = "none" /\ sched[i].phases = 1
  <2>1. [status |-> "none", phases |-> 1, early |-> FALSE] \in Schedule
    BY DEF Schedule
  <2> QED BY <1>1, <2>1
<1>6. db \in Saved /\ db.changes = <<>> /\ db.upgrades = <<>>
  <2>1. <<[status |-> "paid", tried |-> TRUE, issue |-> FALSE]>> \in Seq(Paper)
    BY DEF Paper
  <2>2. <<>> \in Seq(Change) /\ <<>> \in Seq(Upgrade)
    OBVIOUS
  <2> QED BY <1>1, <1>2, <2>1, <2>2 DEF Saved
<1>7. tx.pc = "idle" /\ tx.draft = db
  BY <1>1 DEF NoTransaction
<1>8. DOMAIN db.changes = {} /\ Len(db.changes) = 0 /\ Len(db.upgrades) = 0
  BY <1>6
<1>9. PlanTypeOK
  BY <1>1, <1>2, <1>3, <1>4, <1>5, <1>6, <1>7 DEF PlanTypeOK
<1>10. Sound(db) /\ Sound(tx.draft)
  BY <1>7, <1>8 DEF Sound
<1>11. SchedulesOK
  BY <1>5 DEF SchedulesOK, Attached
<1>12. TxOK
  BY <1>7 DEF TxOK
<1>13. \A c \in calls : Addressed(c, db)
  BY <1>1
<1>14. (near => sub.period < MaxPeriod) /\ Len(db.changes) + Len(db.upgrades) <= MaxIntents
  BY <1>1, <1>2, <1>8
<1> QED BY <1>9, <1>10, <1>11, <1>12, <1>13, <1>14 DEF PlanInv

LEMMA PlanStutters == ASSUME PlanInv, UNCHANGED planVars PROVE PlanInv'
<1>1. UNCHANGED <<sub, invoices, sched, near, done, db, tx, calls, faults>>
  BY DEF planVars
<1>2. PlanTypeOK'
  BY <1>1 DEF PlanInv, PlanTypeOK
<1>3. Sound(db)' /\ Sound(tx.draft)'
  BY <1>1 DEF PlanInv, Sound, Spent, Undoable, Newest, Placed, HasTarget, Attached
<1>4. SchedulesOK' /\ TxOK'
  BY <1>1 DEF PlanInv, SchedulesOK, TxOK, Attached
<1> QED BY <1>1, <1>2, <1>3, <1>4 DEF PlanInv, Addressed

LEMMA PlanSteps == PlanInv /\ [PlanNext]_planVars => PlanInv'
<1> SUFFICES ASSUME PlanInv, [PlanNext]_planVars PROVE PlanInv'
  OBVIOUS
<1>1. CASE Holder
  <2>1. CASE Create
    BY <2>1, CreateKeeps
  <2>2. CASE Configure
    BY <2>2, ConfigureKeeps
  <2>3. CASE Release
    BY <2>3, ReleaseKeeps
  <2>4. CASE Released
    BY <2>4, ReleasedKeeps
  <2>5. CASE ChargeUpgrade
    BY <2>5, ChargeUpgradeKeeps
  <2>6. CASE ChargeSeen
    BY <2>6, ChargeSeenKeeps
  <2> QED BY <1>1, <2>1, <2>2, <2>3, <2>4, <2>5, <2>6 DEF Holder
<1>2. CASE Submit \/ Preview \/ Observe \/ Lose
  BY <1>2, SubmitKeeps, PreviewKeeps, ObserveKeeps, LoseKeeps
<1>3. ASSUME NEW i \in Ids, Advance(i)
      PROVE  PlanInv'
  <2>1. CASE StartCreate(i)
    BY <2>1, StartCreateKeeps
  <2>2. CASE VerifyChange(i)
    BY <2>2, VerifyChangeKeeps
  <2>3. CASE Relock(i)
    BY <2>3, RelockKeeps
  <2>4. CASE StartRelease(i)
    BY <2>4, StartReleaseKeeps
  <2>5. CASE Fail(i)
    BY <2>5, FailKeeps
  <2> QED BY <1>3, <2>1, <2>2, <2>3, <2>4, <2>5 DEF Advance
<1>4. ASSUME NEW i \in Ids, Undo(i) \/ ReviewChange(i) \/ AgeChange(i) \/ OperatorRelease(i)
      PROVE  PlanInv'
  BY <1>4, UndoKeeps, ReviewChangeKeeps, AgeChangeKeeps, OperatorReleaseKeeps
<1>5. ASSUME NEW j \in Ids, Pursue(j)
      PROVE  PlanInv'
  BY <1>5, RetryUpgradeKeeps, FailUpgradeKeeps DEF Pursue
<1>6. ASSUME NEW j \in Ids, ConfirmQuote(j) \/ ExpireQuote(j) \/ AgeUpgrade(j)
      PROVE  PlanInv'
  BY <1>6, ConfirmQuoteKeeps, ExpireQuoteKeeps, AgeUpgradeKeeps
<1>7. ASSUME NEW call \in calls, Drop(call) PROVE PlanInv'
  BY <1>7, DropKeeps
<1>8. CASE Near \/ Renew \/ PayUpgrade \/ DiscardUpgrade \/ Cancel
  BY <1>8, NearKeeps, RenewKeeps, PayUpgradeKeeps, DiscardUpgradeKeeps, CancelKeeps
<1>9. ASSUME NEW paid \in BOOLEAN, Collect(paid) PROVE PlanInv'
  BY <1>9, CollectKeeps
<1>10. CASE UNCHANGED planVars
  BY <1>10, PlanStutters
<1> QED BY <1>1, <1>2, <1>3, <1>4, <1>5, <1>6, <1>7, <1>8, <1>9, <1>10 DEF PlanNext

\* What the database, the transactions and Stripe's objects hold is of its type:
\* an observation, a failure or a renewal never writes a row that is not one.
THEOREM PlansTyped == PlanSpec => []PlanTypeOK
<1>1. PlanInv => PlanTypeOK
  BY DEF PlanInv
<1> QED BY <1>1, PlanInitially, PlanSteps, PTL DEF PlanSpec

\* A change that is called undone never takes effect, whatever renews, fails, is
\* lost, retried or released by an operator before and after: Finish calls it so
\* only of a schedule given up before its boundary.
THEOREM UndoneStaysUndone == PlanSpec => []UndoneIsTrue
<1>1. PlanInv => UndoneIsTrue
  BY DEF PlanInv, Sound, Spent, UndoneIsTrue
<1> QED BY <1>1, PlanInitially, PlanSteps, PTL DEF PlanSpec

-----------------------------------------------------------------------------
(* PlanChanges.  The higher plan is paid for.  Who holds it is judged from the  *)
(* saved invoices: the latest one, the upgrades below it, and in grace the one  *)
(* of the period before.  PaidInv says that what is saved of them is true.      *)

\* Sets of numbers have a least member.
Below == {p \in Nat \X Nat : p[1] < p[2]}

LEMMA LeastOf ==
    ASSUME NEW S \in SUBSET Nat, S # {}
    PROVE  \E x \in S : \A y \in S : x <= y
<1>1. IsWellFoundedOn(Below, Nat)
  <2>1. OpToRel(<, Nat) = Below
    BY DEF OpToRel, Below
  <2> QED BY <2>1, NatLessThanWellFounded
<1>2. PICK x \in S : \A y \in S : ~ (<<y, x>> \in Below)
  BY <1>1, WFMin
<1>3. ASSUME NEW y \in S PROVE x <= y
  <2>1. x \in Nat /\ y \in Nat /\ <<y, x>> \notin Below
    BY <1>2
  <2>2. y < x => <<y, x>> \in Below
    BY <2>1 DEF Below
  <2> QED BY <2>1, <2>2
<1> QED BY <1>3

\* An upgrade's invoice is younger than the invoice the upgrade was bought on.
Younger(d) == \A k \in 1 .. Latest(d), j \in DOMAIN d.upgrades :
                  d.upgrades[j].invoice = k => d.upgrades[j].base \in 0 .. k - 1

LEMMA SettledReads ==
    ASSUME NEW d, Younger(d), NEW k \in 0 .. Latest(d), NEW f, NEW g, \A h \in 0 .. k - 1 : f[h] = g[h]
    PROVE  SettledBy(d, f, k) = SettledBy(d, g, k)
<1>1. \A j \in PaidBy(d, k) : k > 0 => f[d.upgrades[j].base] = g[d.upgrades[j].base]
  BY DEF Younger, PaidBy
<1>2. SettledBy(d, f, k) <=> SettledBy(d, g, k)
  BY <1>1 DEF SettledBy
<1> QED BY <1>2 DEF SettledBy

LEMMA SettledUnfolds ==
    ASSUME NEW d, Latest(d) \in Nat, Younger(d)
    PROVE  /\ DOMAIN Settled(d) = 0 .. Latest(d)
           /\ \A k \in 0 .. Latest(d) : Settled(d)[k] = SettledBy(d, Settled(d), k)
<1> DEFINE Solves(f, n) == f = [k \in 0 .. n |-> SettledBy(d, f, k)]
           Unsolved == {n \in 0 .. Latest(d) : ~ \E f : Solves(f, n)}
<1> HIDE DEF Solves
<1>1. ASSUME Unsolved # {} PROVE FALSE
  <2>1. Unsolved \in SUBSET Nat
    OBVIOUS
  <2>2. \E n \in Unsolved : \A m \in Unsolved : n <= m
    <3> HIDE DEF Unsolved
    <3> QED BY <1>1, <2>1, LeastOf
  <2>3. PICK n \in Unsolved : \A m \in Unsolved : n <= m
    BY <2>2
  <2>4. n \in Nat /\ n <= Latest(d)
    OBVIOUS
  <2>5. PICK g : n > 0 => Solves(g, n - 1)
    <3>1. ASSUME n > 0 PROVE \E g : Solves(g, n - 1)
      <4>1. n - 1 \in 0 .. Latest(d) /\ ~ (n <= n - 1)
        BY <2>4, <3>1
      <4>2. n - 1 \notin Unsolved
        BY <2>3, <4>1
      <4> QED BY <4>1, <4>2
    <3> QED BY <3>1
  <2> PICK f : f = [k \in 0 .. n |-> IF k < n THEN g[k] ELSE SettledBy(d, g, n)]
    OBVIOUS
  <2>6. ASSUME NEW k \in 0 .. n PROVE f[k] = SettledBy(d, f, k)
    <3>1. \A h \in 0 .. k - 1 : f[h] = g[h]
      BY <2>4, <2>6
    <3>2. SettledBy(d, f, k) = SettledBy(d, g, k)
      BY <2>4, <3>1, SettledReads
    <3>3. CASE k < n
      <4>1. g[k] = SettledBy(d, g, k)
        BY <2>4, <2>5, <3>3 DEF Solves
      <4> QED BY <3>2, <3>3, <4>1
    <3>4. CASE k = n
      BY <3>2, <3>4
    <3> QED BY <2>4, <3>3, <3>4
  <2>7. Solves(f, n)
    BY <2>6 DEF Solves
  <2> QED BY <2>3, <2>7
<1>2. \E f : f = [k \in 0 .. Latest(d) |-> SettledBy(d, f, k)]
  BY <1>1 DEF Solves
<1>3. Settled(d) = CHOOSE f : f = [k \in 0 .. Latest(d) |-> SettledBy(d, f, k)]
  BY DEF Settled
<1>4. Settled(d) = [k \in 0 .. Latest(d) |-> SettledBy(d, Settled(d), k)]
  BY <1>2, <1>3
<1> QED BY <1>4

-----------------------------------------------------------------------------
\* A renewal's price is the one before it, but for an upgrade in the period before
\* and a change at its boundary.
LEMMA PriceTurns ==
    ASSUME NEW d \in Saved, NEW q \in Nat, NEW price,
           \A j \in DOMAIN d.upgrades : d.upgrades[j].applied => d.upgrades[j].period + 1 # q,
           \A i \in DOMAIN d.changes :
               d.changes[i].applied /\ d.changes[i].at + 1 = q => d.changes[i].target # price,
           ExpectedPrice(d, q) = price
    PROVE  ExpectedPrice(d, q - 1) = price
<1> PICK B : B = Bindings(d)
  OBVIOUS
<1> PICK bound : bound = {e \in B : e[1] <= 2 * q}
  OBVIOUS
<1>1. ASSUME NEW e \in B, 2 * (q - 1) < e[1], e[1] <= 2 * q
      PROVE  e[1] = 2 * q /\ e[3] # price
  <2>1. CASE \E i \in DOMAIN d.changes : /\ d.changes[i].applied
                                         /\ e = <<2 * (d.changes[i].at + 1), d.changes[i].source, d.changes[i].target>>
    <3>1. PICK i \in DOMAIN d.changes : /\ d.changes[i].applied
                                        /\ e = <<2 * (d.changes[i].at + 1), d.changes[i].source, d.changes[i].target>>
      BY <2>1
    <3>2. d.changes[i].at \in Nat
      BY SavedFields DEF Change, Periods
    <3>3. e[1] = 2 * (d.changes[i].at + 1) /\ e[3] = d.changes[i].target
      BY <3>1
    <3>4. d.changes[i].at + 1 = q
      BY <1>1, <3>2, <3>3
    <3> QED BY <3>1, <3>3, <3>4
  <2>2. CASE \E j \in DOMAIN d.upgrades : d.upgrades[j].applied /\ e = <<2 * d.upgrades[j].period + 1, Low, High>>
    <3>1. PICK j \in DOMAIN d.upgrades : d.upgrades[j].applied /\ e = <<2 * d.upgrades[j].period + 1, Low, High>>
      BY <2>2
    <3>2. d.upgrades[j].period \in Nat
      BY SavedFields DEF Upgrade, Periods
    <3>3. e[1] = 2 * d.upgrades[j].period + 1
      BY <3>1
    <3>4. d.upgrades[j].period + 1 = q
      BY <1>1, <3>2, <3>3
    <3> QED BY <3>1, <3>4
  <2> QED BY <2>1, <2>2 DEF Bindings
<1>2. \A e \in B : e[1] \in Nat
  <2>1. \A i \in DOMAIN d.changes : 2 * (d.changes[i].at + 1) \in Nat
    <3>1. \A i \in DOMAIN d.changes : d.changes[i].at \in Nat
      BY SavedFields DEF Change, Periods
    <3> QED BY <3>1
  <2>2. \A j \in DOMAIN d.upgrades : 2 * d.upgrades[j].period + 1 \in Nat
    <3>1. \A j \in DOMAIN d.upgrades : d.upgrades[j].period \in Nat
      BY SavedFields DEF Upgrade, Periods
    <3> QED BY <3>1
  <2> QED BY <2>1, <2>2 DEF Bindings
<1>3. CASE \E e \in B : 2 * (q - 1) < e[1] /\ e[1] <= 2 * q
  <2>1. PICK e \in B : 2 * (q - 1) < e[1] /\ e[1] <= 2 * q
    BY <1>3
  <2>2. e[1] = 2 * q /\ e \in bound
    BY <1>1, <2>1
  <2>3. \A f \in bound : f[1] <= e[1]
    BY <2>2
  <2> PICK m : m = CHOOSE e1 \in bound : \A f \in bound : f[1] <= e1[1]
    OBVIOUS
  <2>4. m \in bound /\ \A f \in bound : f[1] <= m[1]
    BY <2>2, <2>3
  <2>5. m \in B /\ m[1] <= 2 * q /\ 2 * q <= m[1]
    BY <2>2, <2>4
  <2>6. m[3] # price
    BY <1>1, <1>2, <2>5
  <2>7. ExpectedPrice(d, q) = m[3]
    BY <2>1, <2>2 DEF ExpectedPrice
  <2> QED BY <2>6, <2>7
<1>4. CASE ~ \E e \in B : 2 * (q - 1) < e[1] /\ e[1] <= 2 * q
  <2>1. \A e \in B : e[1] <= 2 * q <=> e[1] <= 2 * (q - 1)
    BY <1>2, <1>4
  <2>2. {e \in B : e[1] <= 2 * q} = {e \in B : e[1] <= 2 * (q - 1)}
    BY <2>1
  <2> DEFINE PriceAfter(past) == IF B = {} THEN d.plan
                            ELSE IF past = {} THEN (CHOOSE e \in B : \A f \in B : e[1] <= f[1])[2]
                            ELSE (CHOOSE e \in past : \A f \in past : f[1] <= e[1])[3]
  <2>3. /\ ExpectedPrice(d, q) = PriceAfter({e \in B : e[1] <= 2 * q})
        /\ ExpectedPrice(d, q - 1) = PriceAfter({e \in B : e[1] <= 2 * (q - 1)})
    BY DEF ExpectedPrice
  <2> HIDE DEF PriceAfter
  <2> QED BY <2>2, <2>3
<1> QED BY <1>3, <1>4

-----------------------------------------------------------------------------
\* What is true of the rows of a saved or drafted state.
RowsSound(d) ==
    /\ \A i \in DOMAIN d.changes : d.changes[i].source # d.changes[i].target
    /\ \A j \in DOMAIN d.upgrades :
          /\ d.upgrades[j].base \in DOMAIN invoices /\ invoices[d.upgrades[j].base].period = d.upgrades[j].period
          /\ d.upgrades[j].invoice # NoId =>
                d.upgrades[j].invoice \in DOMAIN invoices /\ d.upgrades[j].base < d.upgrades[j].invoice

\* What the saved invoices say is true: they are those that were Stripe's, what is
\* paid is paid, one without an issue is as the bindings have it, and the latest is
\* at the price in force if the subscription is.
PapersSound(d) ==
    /\ DOMAIN d.papers \subseteq DOMAIN invoices
    /\ \A j \in DOMAIN d.upgrades : d.upgrades[j].invoice # NoId => d.upgrades[j].invoice \in DOMAIN d.papers
    /\ \A k \in DOMAIN d.papers : /\ d.papers[k].status = "paid" => invoices[k].status = "paid"
                                  /\ InvoiceIssue(d, k) => d.papers[k].issue
    /\ d.matches /\ Latest(d) > 0 /\ invoices[Latest(d)].by = NoId => invoices[Latest(d)].price = d.plan

LEMMA PapersAre ==
    ASSUME NEW d \in Saved
    PROVE  Latest(d) \in Nat /\ DOMAIN d.papers = 1 .. Latest(d)
BY SavedFields, LenProperties DEF Latest

LEMMA SoundIsYounger ==
    ASSUME NEW d \in Saved, RowsSound(d)
    PROVE  Younger(d)
<1> SUFFICES ASSUME NEW k \in 1 .. Latest(d), NEW j \in DOMAIN d.upgrades, d.upgrades[j].invoice = k
             PROVE  d.upgrades[j].base \in 0 .. k - 1
  BY DEF Younger
<1>1. d.upgrades[j].base \in Nat /\ d.upgrades[j].base < k
  <2>1. d.upgrades[j] \in Upgrade /\ k # NoId
    BY SavedFields DEF NoId
  <2> QED BY <2>1 DEF RowsSound, Upgrade
<1>2. k \in Nat
  BY PapersAre
<1> QED BY <1>1, <1>2

\* An upgrade's invoice, paid and without an issue.
LEMMA UpgradePaidFor ==
    ASSUME NEW d \in Saved, PapersSound(d), NEW k \in DOMAIN d.papers, NEW j \in PaidBy(d, k),
           d.papers[k].status = "paid", ~d.papers[k].issue
    PROVE  /\ k \in DOMAIN invoices /\ invoices[k].status = "paid"
           /\ invoices[k].price = High /\ invoices[k].period = d.upgrades[j].period
<1>1. k \in DOMAIN invoices /\ invoices[k].status = "paid" /\ ~InvoiceIssue(d, k)
  BY DEF PapersSound
<1>2. Quoted(d, k, j)
  BY <1>1 DEF InvoiceIssue
<1> QED BY <1>1, <1>2 DEF Quoted

\* A renewal in grace: the period before was settled at the higher price.
LEMMA GraceIsPaid ==
    ASSUME NEW d \in Saved, invoices \in Seq(Invoice), RowsSound(d), PapersSound(d),
           NEW k \in DOMAIN d.papers, Grace(d, k, High),
           PaidBy(d, k) = {}, ~d.papers[k].issue, invoices[k].period = d.period, invoices[k].price = High
    PROVE  \E p \in DOMAIN invoices : /\ invoices[p].status = "paid" /\ invoices[p].price = High
                                      /\ invoices[p].period + 1 = d.period
<1>1. /\ Latest(d) \in Nat /\ DOMAIN d.papers = 1 .. Latest(d)
      /\ \A p \in 0 .. Latest(d) : Settled(d)[p] = SettledBy(d, Settled(d), p)
  BY PapersAre, SoundIsYounger, SettledUnfolds
<1>2. \A j \in DOMAIN d.upgrades : /\ d.upgrades[j].invoice \in 0 .. Latest(d) /\ d.upgrades[j].period \in Nat
                                   /\ d.upgrades[j].base \in Nat
  <2> SUFFICES ASSUME NEW j \in DOMAIN d.upgrades
               PROVE  /\ d.upgrades[j].invoice \in 0 .. Latest(d) /\ d.upgrades[j].period \in Nat
                      /\ d.upgrades[j].base \in Nat
    OBVIOUS
  <2>1. d.upgrades[j] \in Upgrade
    BY SavedFields
  <2> QED BY <1>1, <2>1 DEF PapersSound, Upgrade, Periods, NoId
<1> PICK before : before = {j \in DOMAIN d.upgrades : d.upgrades[j].applied /\ d.upgrades[j].period + 1 = d.period}
  OBVIOUS
<1>3. CASE before # {}
  <2>1. PICK j \in before : Settled(d)[d.upgrades[j].invoice]
    BY <1>3 DEF Grace
  <2> PICK p : p = d.upgrades[j].invoice
    OBVIOUS
  <2>2. p \in 0 .. Latest(d) /\ SettledBy(d, Settled(d), p)
    BY <1>1, <1>2, <2>1
  <2>3. p \in DOMAIN d.papers /\ j \in PaidBy(d, p) /\ d.papers[p].status = "paid" /\ ~d.papers[p].issue
    BY <1>1, <2>2 DEF SettledBy, PaidBy
  <2> QED BY <2>3, UpgradePaidFor
<1>4. CASE before = {}
  <2> PICK ends : ends = {p \in 1 .. Latest(d) : invoices[p].period + 1 = d.period /\ SettledBy(d, Settled(d), p)}
    OBVIOUS
  <2>1. ends # {} /\ ends \in SUBSET Nat
    BY <1>1, <1>4 DEF Grace
  <2>2. PICK p \in ends : \A q \in ends : p <= q
    BY <2>1, LeastOf
  <2>3. p \in DOMAIN d.papers /\ invoices[p].period + 1 = d.period /\ SettledBy(d, Settled(d), p) /\ p \in Nat
    BY <1>1
  <2>4. ASSUME NEW j \in PaidBy(d, p) PROVE FALSE
    <3>1. j \in DOMAIN d.upgrades /\ d.upgrades[j].invoice = p /\ p # NoId
      BY <1>1, <2>3 DEF PaidBy, NoId
    <3>2. ~InvoiceIssue(d, p)
      BY <2>3 DEF PapersSound, SettledBy
    <3>3. invoices[p].period = d.upgrades[j].period
      BY <2>4, <3>2 DEF InvoiceIssue, Quoted
    <3>4. j \notin before
      BY <1>4
    <3>5. Settled(d)[d.upgrades[j].base]
      BY <2>3, <2>4 DEF SettledBy
    <3> PICK b : b = d.upgrades[j].base
      OBVIOUS
    <3>6. b \in DOMAIN invoices /\ invoices[b].period = invoices[p].period /\ b < p /\ b \in Nat
      BY <1>2, <3>1, <3>3 DEF RowsSound
    <3>7. b \in 0 .. Latest(d)
      BY <1>1, <2>3, <3>6
    <3>8. SettledBy(d, Settled(d), b)
      BY <1>1, <3>5, <3>7
    <3>9. b > 0
      BY <3>8 DEF SettledBy
    <3>10. b \in ends
      BY <2>3, <3>6, <3>7, <3>8, <3>9
    <3> QED BY <2>2, <2>3, <3>6, <3>10
  <2>5. d.papers[p].status = "paid" /\ ~d.papers[p].issue /\ PaidBy(d, p) = {}
    BY <2>3, <2>4 DEF SettledBy
  <2>6. p \in DOMAIN invoices /\ invoices[p].status = "paid" /\ invoices[p].price = ExpectedPrice(d, invoices[p].period)
    BY <2>3, <2>5 DEF PapersSound, InvoiceIssue
  <2>7. ExpectedPrice(d, d.period) = High
    <3>1. ~InvoiceIssue(d, k)
      BY DEF PapersSound
    <3> QED BY <3>1 DEF InvoiceIssue
  <2>8. ASSUME NEW i \in DOMAIN d.changes, d.changes[i].applied /\ d.changes[i].at + 1 = d.period
        PROVE  d.changes[i].target # High
    <3>1. d.changes[i].source # d.changes[i].target /\ d.changes[i] \in Change
      BY <2>8, SavedFields DEF RowsSound
    <3>2. d.changes[i].target = High => d.changes[i].source = Low
      BY <3>1 DEF Change, Prices
    <3> QED BY <2>8, <3>2 DEF Grace
  <2>9. d.period \in Nat /\ d.period - 1 = invoices[p].period
    <3>1. invoices[p] \in Invoice
      BY <2>6, SeqMember
    <3> QED BY <2>3, <3>1 DEF Saved, Invoice, Periods
  <2>10. ExpectedPrice(d, d.period - 1) = High
    <3>1. \A j \in DOMAIN d.upgrades : d.upgrades[j].applied => d.upgrades[j].period + 1 # d.period
      BY <1>4
    <3> QED BY <2>7, <2>8, <2>9, <3>1, PriceTurns
  <2> QED BY <2>3, <2>6, <2>9, <2>10
<1> QED BY <1>3, <1>4

\* A saved state that is sound allows the higher plan only to who has paid for it.
LEMMA AccessIsPaid ==
    ASSUME db \in Saved, invoices \in Seq(Invoice), RowsSound(db), PapersSound(db)
    PROVE  HigherPlanIsPaid
<1> SUFFICES ASSUME Access(db) = High
             PROVE  \E k \in DOMAIN invoices : /\ invoices[k].status = "paid" /\ invoices[k].price = High
                                               /\ invoices[k].period \in {sub.period, sub.period - 1}
  BY DEF HigherPlanIsPaid
<1> PICK k : k = Latest(db)
  OBVIOUS
<1>1. /\ db.plan = High /\ db.matches /\ db.period = sub.period
      /\ Assessment(db, k) = "covered" \/ Assessment(db, k) = "grace"
  BY DEF Access, Covered, High
<1>2. /\ k \in DOMAIN db.papers
      /\ \/ \E j \in PaidBy(db, k) : /\ db.papers[k].status = "paid" /\ ~db.papers[k].issue
                                     /\ db.period = db.upgrades[j].period
         \/ /\ PaidBy(db, k) = {} /\ ~db.papers[k].issue /\ invoices[k].period = db.period
            /\ db.papers[k].status = "paid" \/ Grace(db, k, High)
  <2>1. k # 0 => k \in DOMAIN db.papers
    BY PapersAre
  <2> QED BY <1>1, <2>1 DEF Assessment, AssessedBy, SourceStands, Low, High
<1>3. CASE \E j \in PaidBy(db, k) : /\ db.papers[k].status = "paid" /\ ~db.papers[k].issue
                                    /\ db.period = db.upgrades[j].period
  BY <1>1, <1>2, <1>3, UpgradePaidFor
<1>4. CASE PaidBy(db, k) = {} /\ ~db.papers[k].issue /\ invoices[k].period = db.period
  <2>1. k \in DOMAIN invoices /\ ~InvoiceIssue(db, k) /\ invoices[k].price = High
    <3>1. k \in DOMAIN invoices /\ ~InvoiceIssue(db, k)
      BY <1>2, <1>4 DEF PapersSound
    <3>2. invoices[k].by = NoId
      BY <1>4, <3>1 DEF InvoiceIssue
    <3>3. k > 0
      BY <1>2, PapersAre
    <3> QED BY <1>1, <3>1, <3>2, <3>3 DEF PapersSound
  <2>2. CASE db.papers[k].status = "paid"
    BY <1>1, <1>2, <1>4, <2>1, <2>2 DEF PapersSound
  <2>3. CASE Grace(db, k, High)
    <3>1. PICK p \in DOMAIN invoices : /\ invoices[p].status = "paid" /\ invoices[p].price = High
                                       /\ invoices[p].period + 1 = db.period
      BY <1>2, <1>4, <2>1, <2>3, GraceIsPaid
    <3>2. sub.period - 1 = invoices[p].period
      <4>1. invoices[p] \in Invoice
        BY <3>1, SeqMember
      <4> QED BY <1>1, <3>1, <4>1 DEF Invoice, Periods
    <3> QED BY <3>1, <3>2
  <2> QED BY <1>2, <1>4, <2>2, <2>3
<1> QED BY <1>2, <1>3, <1>4

-----------------------------------------------------------------------------
\* Rows written anew that bind nothing new, and rows added.
SameBinding(c, e) == e.source = c.source /\ e.target = c.target /\ e.at = c.at /\ e.applied = c.applied
SamePurchase(u, v) == v.base = u.base /\ v.invoice = u.invoice /\ v.period = u.period /\ v.applied = u.applied
NewChange(c) == c.source # c.target /\ ~c.applied
NewUpgrade(u) == /\ ~u.applied /\ u.invoice = NoId
                 /\ u.base \in DOMAIN invoices /\ invoices[u.base].period = u.period

Edited(d, e) ==
    /\ e.plan = d.plan /\ e.matches = d.matches /\ e.papers = d.papers
    /\ DOMAIN d.changes \subseteq DOMAIN e.changes /\ DOMAIN d.upgrades \subseteq DOMAIN e.upgrades
    /\ \A i \in DOMAIN e.changes : IF i \in DOMAIN d.changes THEN SameBinding(d.changes[i], e.changes[i])
                                   ELSE NewChange(e.changes[i])
    /\ \A j \in DOMAIN e.upgrades : IF j \in DOMAIN d.upgrades THEN SamePurchase(d.upgrades[j], e.upgrades[j])
                                    ELSE NewUpgrade(e.upgrades[j])

LEMMA EditedBindings ==
    ASSUME NEW d, NEW e, Edited(d, e)
    PROVE  Bindings(e) = Bindings(d)
<1> DEFINE C(x, i) == <<2 * (x.changes[i].at + 1), x.changes[i].source, x.changes[i].target>>
           U(x, j) == <<2 * x.upgrades[j].period + 1, Low, High>>
           Changed(x) == {h \in DOMAIN x.changes : x.changes[h].applied}
           Upgraded(x) == {h \in DOMAIN x.upgrades : x.upgrades[h].applied}
<1>1. Changed(e) = Changed(d) /\ \A i \in Changed(d) : C(e, i) = C(d, i)
  BY DEF Edited, SameBinding, NewChange
<1>2. Upgraded(e) = Upgraded(d) /\ \A j \in Upgraded(d) : U(e, j) = U(d, j)
  BY DEF Edited, SamePurchase, NewUpgrade
<1>3. \A x : Bindings(x) = {C(x, i) : i \in Changed(x)} \cup {U(x, j) : j \in Upgraded(x)}
  BY DEF Bindings
<1>4. {C(e, i) : i \in Changed(e)} = {C(d, i) : i \in Changed(d)}
  <2> HIDE DEF C, Changed
  <2> QED BY <1>1
<1>5. {U(e, i) : i \in Upgraded(e)} = {U(d, i) : i \in Upgraded(d)}
  <2> HIDE DEF U, Upgraded
  <2> QED BY <1>2
<1> HIDE DEF C, U, Changed, Upgraded
<1> QED BY <1>3, <1>4, <1>5

LEMMA EditedIssues ==
    ASSUME NEW d, NEW e, Edited(d, e), NEW k, k # NoId
    PROVE  InvoiceIssue(e, k) <=> InvoiceIssue(d, k)
<1>1. PaidBy(e, k) = PaidBy(d, k)
  BY DEF PaidBy, Edited, SamePurchase, NewUpgrade
<1>2. \A j \in PaidBy(d, k) : Quoted(e, k, j) <=> Quoted(d, k, j)
  BY DEF PaidBy, Quoted, Edited, SamePurchase
<1>3. ExpectedPrice(e, invoices[k].period) = ExpectedPrice(d, invoices[k].period)
  <2>1. Bindings(e) = Bindings(d) /\ e.plan = d.plan
    BY EditedBindings DEF Edited
  <2> QED BY <2>1 DEF ExpectedPrice
<1> QED BY <1>1, <1>2, <1>3 DEF InvoiceIssue

LEMMA EditedSound ==
    ASSUME NEW d, NEW e, Edited(d, e), RowsSound(d)
    PROVE  /\ RowsSound(e)
           /\ d \in Saved /\ PapersSound(d) => PapersSound(e)
<1>1. RowsSound(e)
  BY DEF RowsSound, Edited, SameBinding, SamePurchase, NewChange, NewUpgrade
<1>2. ASSUME d \in Saved, PapersSound(d) PROVE PapersSound(e)
  <2>1. e.papers = d.papers /\ Latest(e) = Latest(d) /\ e.plan = d.plan /\ e.matches = d.matches
    BY DEF Edited, Latest
  <2>2. \A k \in DOMAIN d.papers : k # NoId
    BY <1>2, PapersAre DEF NoId
  <2>3. \A k \in DOMAIN d.papers : InvoiceIssue(e, k) => d.papers[k].issue
    BY <1>2, <2>2, EditedIssues DEF PapersSound
  <2>4. \A j \in DOMAIN e.upgrades : e.upgrades[j].invoice # NoId => e.upgrades[j].invoice \in DOMAIN d.papers
    BY <1>2 DEF PapersSound, Edited, SamePurchase, NewUpgrade
  <2> QED BY <1>2, <2>1, <2>3, <2>4 DEF PapersSound
<1> QED BY <1>1, <1>2

\* Rows that differ in nothing that binds.
LEMMA ChangesEdited ==
    ASSUME NEW d \in Saved, NEW rows, DOMAIN rows = DOMAIN d.changes,
           \A k \in DOMAIN d.changes : SameBinding(d.changes[k], rows[k])
    PROVE  Edited(d, WithChanges(d, rows))
<1> PICK e : e = WithChanges(d, rows)
  OBVIOUS
<1>1. /\ e.changes = rows /\ e.upgrades = d.upgrades /\ e.plan = d.plan /\ e.matches = d.matches
      /\ e.papers = d.papers
  BY DEF WithChanges, Saved
<1>2. \A j \in DOMAIN d.upgrades : SamePurchase(d.upgrades[j], d.upgrades[j])
  BY DEF SamePurchase
<1> QED BY <1>1, <1>2 DEF Edited

LEMMA UpgradesEdited ==
    ASSUME NEW d \in Saved, NEW rows, DOMAIN rows = DOMAIN d.upgrades,
           \A k \in DOMAIN d.upgrades : SamePurchase(d.upgrades[k], rows[k])
    PROVE  Edited(d, WithUpgrades(d, rows))
<1> PICK e : e = WithUpgrades(d, rows)
  OBVIOUS
<1>1. /\ e.upgrades = rows /\ e.changes = d.changes /\ e.plan = d.plan /\ e.matches = d.matches
      /\ e.papers = d.papers
  BY DEF WithUpgrades, Saved
<1>2. \A i \in DOMAIN d.changes : SameBinding(d.changes[i], d.changes[i])
  BY DEF SameBinding
<1> QED BY <1>1, <1>2 DEF Edited

LEMMA BecameEdits ==
    ASSUME NEW d \in Saved, NEW i, NEW state
    PROVE  Edited(d, Became(d, i, state))
<1> PICK old : old = d.changes
  OBVIOUS
<1> PICK rows : rows = [old EXCEPT ![i].state = state]
  OBVIOUS
<1>1. Became(d, i, state) = WithChanges(d, rows)
  BY DEF Became, WithChanges
<1>2. DOMAIN rows = DOMAIN old /\ \A k \in DOMAIN old : rows[k] = IF k = i THEN [old[k] EXCEPT !.state = state] ELSE old[k]
  OBVIOUS
<1>3. \A k \in DOMAIN old : SameBinding(old[k], rows[k])
  BY <1>2, SavedFields DEF SameBinding, Change
<1> QED BY <1>1, <1>2, <1>3, ChangesEdited

LEMMA TurnedEdits ==
    ASSUME NEW d \in Saved, NEW j, NEW state
    PROVE  Edited(d, Turned(d, j, state))
<1> PICK old : old = d.upgrades
  OBVIOUS
<1> PICK rows : rows = [old EXCEPT ![j].state = state]
  OBVIOUS
<1>1. Turned(d, j, state) = WithUpgrades(d, rows)
  BY DEF Turned, WithUpgrades
<1>2. DOMAIN rows = DOMAIN old /\ \A k \in DOMAIN old : rows[k] = IF k = j THEN [old[k] EXCEPT !.state = state] ELSE old[k]
  OBVIOUS
<1>3. \A k \in DOMAIN old : SamePurchase(old[k], rows[k])
  BY <1>2, SavedFields DEF SamePurchase, Upgrade
<1> QED BY <1>1, <1>2, <1>3, UpgradesEdited

-----------------------------------------------------------------------------
\* What an observation leaves of the upgrades: an upgrade without an invoice may be
\* given the latest one.
Attaches(u, v) ==
    /\ v.base = u.base /\ v.period = u.period
    /\ v.invoice = u.invoice \/ (v.invoice = Len(invoices) /\ Len(invoices) # u.base)

LEMMA JudgedPurchases ==
    ASSUME NEW d \in Saved, NEW j, NEW h \in DOMAIN d.upgrades
    PROVE  /\ Judged(d, j).upgrades[h].base = d.upgrades[h].base
           /\ Judged(d, j).upgrades[h].period = d.upgrades[h].period
           /\ Judged(d, j).upgrades[h].invoice = d.upgrades[h].invoice
<1> PICK old : old = d.upgrades
  OBVIOUS
<1> PICK e : e = Judged(d, j)
  OBVIOUS
<1>1. old[h] \in Upgrade
  BY SavedFields
<1>3. ASSUME NEW state, e = Turned(d, j, state)
      PROVE  /\ e.upgrades[h].base = old[h].base /\ e.upgrades[h].period = old[h].period
             /\ e.upgrades[h].invoice = old[h].invoice
  <2>1. SamePurchase(old[h], e.upgrades[h])
    BY <1>3, TurnedEdits DEF Edited
  <2> QED BY <2>1 DEF SamePurchase
<1>4. CASE e = [d EXCEPT !.plan = High, !.upgrades[j].state = "applied", !.upgrades[j].applied = TRUE]
  <2> PICK rows : rows = [old EXCEPT ![j].state = "applied", ![j].applied = TRUE]
    OBVIOUS
  <2>1. e = [d EXCEPT !.plan = High, !.upgrades = rows]
    BY <1>4
  <2>2. e.upgrades = rows
    BY <2>1 DEF Saved
  <2>3. rows[h] = IF h = j THEN [old[h] EXCEPT !.state = "applied", !.applied = TRUE] ELSE old[h]
    OBVIOUS
  <2> QED BY <1>1, <2>2, <2>3 DEF Upgrade
<1>5. \/ \E state : e = Turned(d, j, state)
      \/ e = [d EXCEPT !.plan = High, !.upgrades[j].state = "applied", !.upgrades[j].applied = TRUE]
  BY DEF Judged, Turned
<1> QED BY <1>3, <1>4, <1>5

LEMMA JudgedLeaves ==
    ASSUME NEW f \in Saved, NEW rows, f.upgrades = rows, NEW j, NEW h \in DOMAIN rows,
           NEW e, e = Judged(f, j)
    PROVE  /\ e.upgrades[h].base = rows[h].base /\ e.upgrades[h].period = rows[h].period
           /\ e.upgrades[h].invoice = rows[h].invoice
BY JudgedPurchases

LEMMA ObserveUpgradePurchases ==
    ASSUME NEW d \in Saved, invoices \in Seq(Invoice), NEW h \in DOMAIN d.upgrades
    PROVE  Attaches(d.upgrades[h], ObserveUpgrade(d).upgrades[h])
<1> PICK old : old = d.upgrades
  OBVIOUS
<1> PICK j : j = Last({g \in DOMAIN d.upgrades : d.upgrades[g].submitted})
  OBVIOUS
<1> PICK e : e = ObserveUpgrade(d)
  OBVIOUS
<1> PICK k : k = Len(invoices)
  OBVIOUS
<1>7. PICK rows : rows = [old EXCEPT ![j].invoice = k]
  OBVIOUS
<1>8. PICK found : found = WithUpgrades(d, rows)
  OBVIOUS
<1>1. \/ e = d \/ e = Judged(Evidence(d), j) \/ (e = Judged(Evidence(found), j) /\ k # old[j].base)
      \/ e = Turned(d, j, "needs_review")
  BY <1>7, <1>8 DEF ObserveUpgrade, Turned, WithUpgrades
<1>2. old[h] \in Upgrade
  BY SavedFields
<1>3. CASE e = d
  BY <1>3 DEF Attaches
<1>4. CASE e = Turned(d, j, "needs_review")
  <2>1. SamePurchase(old[h], e.upgrades[h])
    BY <1>4, TurnedEdits DEF Edited
  <2> QED BY <2>1 DEF SamePurchase, Attaches
<1>5. CASE e = Judged(Evidence(d), j)
  <2>1. Evidence(d) \in Saved /\ Evidence(d).upgrades = old
    BY EvidenceKeeps
  <2> QED BY <1>5, <2>1, JudgedPurchases DEF Attaches
<1>6. CASE e = Judged(Evidence(found), j) /\ k # old[j].base
  <2>1. found \in Saved /\ found.upgrades = rows
    <3>1. \A g \in DOMAIN old : rows[g] = IF g = j THEN [old[g] EXCEPT !.invoice = k] ELSE old[g]
      BY <1>7
    <3>2. DOMAIN rows = DOMAIN old /\ k \in Nat
      BY <1>7, LenProperties
    <3>3. ASSUME NEW g \in DOMAIN old PROVE rows[g] \in Upgrade
      <4>1. old[g] \in Upgrade
        BY <3>3, SavedFields
      <4> QED BY <3>1, <3>2, <3>3, <4>1 DEF Upgrade
    <3>4. rows \in [DOMAIN old -> Upgrade]
      <4>1. rows = [g \in DOMAIN old |-> rows[g]]
        BY <1>7, <3>2
      <4> QED BY <3>3, <4>1
    <3>5. old \in Seq(Upgrade)
      BY SavedFields
    <3>6. rows \in Seq(Upgrade)
      BY <3>4, <3>5, SeqAgain
    <3> QED BY <1>8, <3>6 DEF WithUpgrades, Saved
  <2>2. Evidence(found) \in Saved /\ Evidence(found).upgrades = rows
    BY <2>1, EvidenceKeeps
  <2>3. h \in DOMAIN rows
    BY <1>7
  <2>4. /\ e.upgrades[h].base = rows[h].base /\ e.upgrades[h].period = rows[h].period
        /\ e.upgrades[h].invoice = rows[h].invoice
    BY <1>6, <2>2, <2>3, JudgedLeaves
  <2>5. /\ rows[h].base = old[h].base /\ rows[h].period = old[h].period
        /\ rows[h].invoice = IF h = j THEN k ELSE old[h].invoice
    <3>1. rows[h] = IF h = j THEN [old[h] EXCEPT !.invoice = k] ELSE old[h]
      BY <1>7
    <3> QED BY <1>2, <3>1 DEF Upgrade
  <2> QED BY <1>6, <2>4, <2>5 DEF Attaches
<1> QED BY <1>1, <1>3, <1>4, <1>5, <1>6

\* Stripe's latest invoice is of the present period; a renewal's is at the present
\* price, and an update that waits for its payment has the latest.
StripeSound ==
    /\ Len(invoices) > 0 /\ invoices[Len(invoices)].period = sub.period
    /\ invoices[Len(invoices)].by = NoId => invoices[Len(invoices)].price = sub.price
    /\ sub.pending # NoId => invoices[Len(invoices)].by = sub.pending

LEMMA InvoicesAre ==
    ASSUME invoices \in Seq(Invoice)
    PROVE  /\ Len(invoices) \in Nat /\ DOMAIN invoices = 1 .. Len(invoices)
           /\ \A k \in DOMAIN invoices : invoices[k] \in Invoice
BY LenProperties, SeqMember

\* What is saved of an observation is sound.
LEMMA ReconciledSound ==
    ASSUME NEW d \in Saved, invoices \in Seq(Invoice), sub \in Subscription, StripeSound, RowsSound(d)
    PROVE  /\ Reconciled(d) \in Saved /\ RowsSound(Reconciled(d)) /\ PapersSound(Reconciled(d))
           /\ Latest(Reconciled(d)) = Len(invoices) /\ Reconciled(d).period = sub.period
<1>12. PICK papers : papers = ObservedPapers(d)
  OBVIOUS
<1>13. PICK e : e = Reconciled(d)
  OBVIOUS
<1>1. papers \in Seq(Paper)
  BY <1>12, PapersTyped
<1>2. e = [d EXCEPT !.matches = (sub.price = d.plan), !.period = sub.period, !.status = sub.status, !.papers = papers]
  BY <1>12, <1>13 DEF Reconciled
<1>3. /\ e \in Saved /\ e.changes = d.changes /\ e.upgrades = d.upgrades /\ e.plan = d.plan /\ e.papers = papers
      /\ e.period = sub.period /\ (e.matches <=> sub.price = d.plan)
  BY <1>1, <1>2 DEF Saved, Subscription
<1>4. DOMAIN papers = DOMAIN invoices
  BY <1>12 DEF ObservedPapers
<1>5. Latest(e) = Len(invoices)
  <2>1. DOMAIN papers = 1 .. Len(papers) /\ Len(papers) \in Nat
    BY <1>1, LenProperties
  <2>2. Len(papers) = Len(invoices)
    BY <1>4, <2>1, InvoicesAre, SameBound
  <2> QED BY <1>3, <2>2 DEF Latest
<1>6. RowsSound(e)
  BY <1>3 DEF RowsSound
<1>7. \A k : InvoiceIssue(e, k) <=> InvoiceIssue(d, k)
  <2>1. \A k, j : PaidBy(e, k) = PaidBy(d, k) /\ (Quoted(e, k, j) <=> Quoted(d, k, j))
    BY <1>3 DEF PaidBy, Quoted
  <2>2. Bindings(e) = Bindings(d) /\ e.plan = d.plan
    BY <1>3 DEF Bindings
  <2>3. \A q : ExpectedPrice(e, q) = ExpectedPrice(d, q)
    BY <2>2 DEF ExpectedPrice
  <2>4. ASSUME NEW k PROVE InvoiceIssue(e, k) <=> InvoiceIssue(d, k)
    <3>1. PaidBy(e, k) = PaidBy(d, k) /\ ExpectedPrice(e, invoices[k].period) = ExpectedPrice(d, invoices[k].period)
      BY <2>1, <2>3
    <3>2. \A j : Quoted(e, k, j) <=> Quoted(d, k, j)
      BY <2>1
    <3> QED BY <3>1, <3>2 DEF InvoiceIssue
  <2> QED BY <2>4
<1>8. \A k \in DOMAIN papers : /\ papers[k].status = invoices[k].status
                               /\ InvoiceIssue(d, k) => papers[k].issue
  BY <1>4, <1>12 DEF ObservedPapers
<1>9. e.matches /\ invoices[Len(invoices)].by = NoId => invoices[Len(invoices)].price = e.plan
  BY <1>3 DEF StripeSound
<1>10. \A j \in DOMAIN e.upgrades : e.upgrades[j].invoice # NoId => e.upgrades[j].invoice \in DOMAIN papers
  BY <1>3, <1>4 DEF RowsSound
<1>11. PapersSound(e)
  <2>1. DOMAIN e.papers = DOMAIN invoices
    BY <1>3, <1>4
  <2>2. ASSUME NEW k \in DOMAIN e.papers
        PROVE  /\ e.papers[k].status = "paid" => invoices[k].status = "paid"
               /\ InvoiceIssue(e, k) => e.papers[k].issue
    <3>1. e.papers = papers
      BY <1>3
    <3>2. k \in DOMAIN papers
      BY <3>1
    <3> QED BY <1>7, <1>8, <3>1, <3>2
  <2>3. e.matches /\ Latest(e) > 0 /\ invoices[Latest(e)].by = NoId => invoices[Latest(e)].price = e.plan
    BY <1>5, <1>9
  <2>4. \A j \in DOMAIN e.upgrades : e.upgrades[j].invoice # NoId => e.upgrades[j].invoice \in DOMAIN e.papers
    BY <1>3, <1>10
  <2>5. DOMAIN e.papers \subseteq DOMAIN invoices
    BY <2>1
  <2> QED BY Zenon, <2>2, <2>3, <2>4, <2>5 DEF PapersSound
<1> QED BY <1>3, <1>5, <1>6, <1>11, <1>13

LEMMA PaidEdits ==
    ASSUME NEW d \in Saved
    PROVE  Edited(d, Paid(d)) /\ Paid(d).period = d.period
<1> PICK e : e = Paid(d)
  OBVIOUS
<1> PICK old : old = d.changes
  OBVIOUS
<1> PICK rows : rows = [i \in DOMAIN old |->
             IF old[i].state = "awaiting_payment" THEN [old[i] EXCEPT !.state = "finalizing"] ELSE old[i]]
  OBVIOUS
<1>1. e = d \/ e = WithChanges(d, rows)
  BY DEF Paid, WithChanges
<1>2. CASE e = d
  BY <1>2 DEF Edited, SameBinding, SamePurchase
<1>3. CASE e = WithChanges(d, rows)
  <2>1. ASSUME NEW k \in DOMAIN old PROVE SameBinding(old[k], rows[k])
    <3>1. old[k] \in Change
      BY <2>1, SavedFields
    <3>2. rows[k] = IF old[k].state = "awaiting_payment" THEN [old[k] EXCEPT !.state = "finalizing"] ELSE old[k]
      OBVIOUS
    <3> QED BY <3>1, <3>2 DEF SameBinding, Change
  <2>2. Edited(d, e)
    BY <1>3, <2>1, ChangesEdited
  <2> QED BY <1>3, <2>2 DEF WithChanges, Saved
<1> QED BY <1>1, <1>2, <1>3

LEMMA ObservationSound ==
    ASSUME NEW d \in Saved, invoices \in Seq(Invoice), sub \in Subscription, StripeSound, RowsSound(d)
    PROVE  /\ RowsSound(Observed(d)) /\ PapersSound(Observed(d)) /\ Observed(d) \in Saved
           /\ Latest(Observed(d)) = Len(invoices) /\ Observed(d).period = sub.period
<1> PICK c : c = ObserveChange(d)
  OBVIOUS
<1> PICK u : u = ObserveUpgrade(c)
  OBVIOUS
<1> PICK r : r = Reconciled(u)
  OBVIOUS
<1> PICK e : e = Paid(r)
  OBVIOUS
<1>1. KeptBy(d, c) /\ c \in Saved /\ c.upgrades = d.upgrades
  BY ObserveChangeKeeps DEF KeptBy
<1>2. RowsSound(c)
  BY <1>1 DEF RowsSound, KeptBy, KeptChange
<1>3. KeptBy(c, u) /\ u \in Saved /\ u.changes = c.changes /\ DOMAIN u.upgrades = DOMAIN c.upgrades
  BY <1>1, ObserveUpgradeKeeps DEF KeptBy
<1>4. \A h \in DOMAIN c.upgrades : Attaches(c.upgrades[h], u.upgrades[h])
  BY <1>1, ObserveUpgradePurchases
<1>5. RowsSound(u)
  <2>1. ASSUME NEW j \in DOMAIN u.upgrades
        PROVE  /\ u.upgrades[j].base \in DOMAIN invoices
               /\ invoices[u.upgrades[j].base].period = u.upgrades[j].period
               /\ u.upgrades[j].invoice # NoId =>
                     u.upgrades[j].invoice \in DOMAIN invoices /\ u.upgrades[j].base < u.upgrades[j].invoice
    <3>1. Attaches(c.upgrades[j], u.upgrades[j])
      BY <1>3, <1>4, <2>1
    <3>2. /\ c.upgrades[j].base \in DOMAIN invoices
          /\ invoices[c.upgrades[j].base].period = c.upgrades[j].period
          /\ c.upgrades[j].invoice # NoId =>
                c.upgrades[j].invoice \in DOMAIN invoices /\ c.upgrades[j].base < c.upgrades[j].invoice
      BY <1>2, <1>3, <2>1 DEF RowsSound
    <3>3. DOMAIN invoices = 1 .. Len(invoices) /\ Len(invoices) \in Nat
      BY InvoicesAre
    <3> QED BY <3>1, <3>2, <3>3 DEF Attaches
  <2> QED BY <1>2, <1>3, <2>1 DEF RowsSound
<1>6. /\ r \in Saved /\ RowsSound(r) /\ PapersSound(r)
      /\ Latest(r) = Len(invoices) /\ r.period = sub.period
  BY <1>3, <1>5, ReconciledSound
<1>7. Edited(r, e) /\ e.period = r.period /\ e \in Saved
  BY <1>6, PaidEdits, PaidKeeps DEF KeptBy
<1>8. RowsSound(e) /\ PapersSound(e) /\ Latest(e) = Latest(r)
  BY <1>6, <1>7, EditedSound DEF Edited, Latest
<1>9. e = Observed(d)
  BY ObservedIs
<1> QED BY <1>6, <1>7, <1>8, <1>9

-----------------------------------------------------------------------------
\* Invoices are added, and what is paid stays paid.
InvoicesGrow ==
    /\ DOMAIN invoices \subseteq DOMAIN invoices'
    /\ \A k \in DOMAIN invoices : /\ invoices'[k].by = invoices[k].by /\ invoices'[k].price = invoices[k].price
                                  /\ invoices'[k].period = invoices[k].period
                                  /\ invoices[k].status = "paid" => invoices'[k].status = "paid"

PaidInv == StripeSound /\ RowsSound(db) /\ RowsSound(tx.draft) /\ PapersSound(db)

LEMMA SoundWhileGrowing ==
    ASSUME NEW d \in Saved, InvoicesGrow, RowsSound(d)
    PROVE  RowsSound(d)' /\ (PapersSound(d) => PapersSound(d)')
<1>1. RowsSound(d)'
  BY DEF RowsSound, InvoicesGrow
<1>2. ASSUME PapersSound(d) PROVE PapersSound(d)'
  <2>1. \A k \in DOMAIN d.papers : InvoiceIssue(d, k)' <=> InvoiceIssue(d, k)
    <3> SUFFICES ASSUME NEW k \in DOMAIN d.papers PROVE InvoiceIssue(d, k)' <=> InvoiceIssue(d, k)
      OBVIOUS
    <3>1. k \in DOMAIN invoices
      BY <1>2 DEF PapersSound
    <3>2. /\ invoices'[k].by = invoices[k].by /\ invoices'[k].price = invoices[k].price
          /\ invoices'[k].period = invoices[k].period
      BY <3>1 DEF InvoicesGrow
    <3>3. \A j : Quoted(d, k, j)' <=> Quoted(d, k, j)
      BY <3>2 DEF Quoted
    <3>4. ExpectedPrice(d, invoices[k].period)' = ExpectedPrice(d, invoices[k].period)
      BY <3>2 DEF ExpectedPrice, Bindings
    <3>5. PaidBy(d, k)' = PaidBy(d, k)
      BY DEF PaidBy
    <3> QED BY <3>2, <3>3, <3>4, <3>5 DEF InvoiceIssue
  <2>2. Latest(d) > 0 => Latest(d) \in DOMAIN invoices
    <3>1. Latest(d) > 0 => Latest(d) \in DOMAIN d.papers
      BY PapersAre
    <3> QED BY <1>2, <3>1 DEF PapersSound
  <2>3. (d.matches /\ Latest(d) > 0 /\ invoices[Latest(d)].by = NoId => invoices[Latest(d)].price = d.plan)'
    BY <1>2, <2>2 DEF PapersSound, InvoicesGrow, Latest
  <2> QED BY <1>2, <2>1, <2>3 DEF PapersSound, InvoicesGrow
<1> QED BY <1>1, <1>2

\* Saved rows stay sound while invoices are added.
LEMMA PaidNext ==
    ASSUME NEW d \in Saved, NEW e \in Saved, InvoicesGrow, StripeSound', db' = d, tx'.draft = e,
           RowsSound(d), RowsSound(e), PapersSound(d)
    PROVE  PaidInv'
<1>1. RowsSound(d)' /\ RowsSound(e)' /\ PapersSound(d)'
  BY SoundWhileGrowing
<1>2. RowsSound(db)' /\ RowsSound(tx.draft)'
  BY <1>1
<1>3. PapersSound(db)'
  BY <1>1
<1> QED BY <1>2, <1>3 DEF PaidInv

LEMMA StripeStill ==
    ASSUME UNCHANGED <<sub, invoices>>, StripeSound
    PROVE  StripeSound' /\ InvoicesGrow
BY DEF StripeSound, InvoicesGrow

LEMMA EditedItself == ASSUME NEW d PROVE Edited(d, d)
BY DEF Edited, SameBinding, SamePurchase

\* What is saved, or held in a transaction, of an observation or of edited rows.
LEMMA ObservedPaid ==
    ASSUME PlanInv, PaidInv, NEW d, d = db \/ d = Observed(db) \/ d = Observed(tx.draft)
    PROVE  d \in Saved /\ RowsSound(d) /\ PapersSound(d)
<1>1. invoices \in Seq(Invoice) /\ sub \in Subscription /\ db \in Saved /\ tx.draft \in Saved
  BY PlanTx, StripeTyped
<1>2. CASE d = db
  BY <1>1, <1>2 DEF PaidInv
<1> PICK e : e = db
  OBVIOUS
<1> PICK f : f = tx.draft
  OBVIOUS
<1>3. CASE d = Observed(e)
  BY <1>1, <1>3, ObservationSound DEF PaidInv
<1>4. CASE d = Observed(f)
  BY <1>1, <1>4, ObservationSound DEF PaidInv
<1> QED BY <1>2, <1>3, <1>4

LEMMA CommitPaid ==
    ASSUME PlanInv, PaidInv, PlanTypeOK', UNCHANGED <<sub, invoices>>,
           NEW d, d = db \/ d = Observed(db) \/ d = Observed(tx.draft), NEW e, Edited(d, e), Commit(e)
    PROVE  PaidInv'
<1>1. RowsSound(e) /\ PapersSound(e)
  BY ObservedPaid, EditedSound
<1>2. db' = e /\ tx'.draft = e
  BY DEF Commit
<1>3. e \in Saved
  BY <1>2 DEF PlanTypeOK
<1> QED BY <1>1, <1>2, <1>3, StripeStill, PaidNext DEF PaidInv

LEMMA SavePaid ==
    ASSUME PlanInv, PaidInv, PlanTypeOK', UNCHANGED <<sub, invoices>>,
           NEW d, d = db \/ d = Observed(db) \/ d = Observed(tx.draft), Commit(d)
    PROVE  PaidInv'
BY EditedItself, CommitPaid

LEMMA RaisePaid ==
    ASSUME PlanInv, PaidInv, PlanTypeOK', UNCHANGED <<sub, invoices>>, NEW what, NEW i, Raise(what, i)
    PROVE  PaidInv'
BY SavePaid DEF Raise

LEMMA BecamePaid ==
    ASSUME PlanInv, PaidInv, PlanTypeOK', UNCHANGED <<sub, invoices>>,
           NEW d, d = db \/ d = Observed(db), NEW i, NEW state, Commit(Became(d, i, state))
    PROVE  PaidInv'
<1>1. d \in Saved
  BY ObservedPaid
<1> PICK e : e = Became(d, i, state)
  OBVIOUS
<1>2. Edited(d, e)
  BY <1>1, BecameEdits
<1> QED BY <1>2, CommitPaid

LEMMA TurnedPaid ==
    ASSUME PlanInv, PaidInv, PlanTypeOK', UNCHANGED <<sub, invoices>>,
           NEW d, d = db \/ d = Observed(db), NEW j, NEW state, Commit(Turned(d, j, state))
    PROVE  PaidInv'
<1>1. d \in Saved
  BY ObservedPaid
<1> PICK e : e = Turned(d, j, state)
  OBVIOUS
<1>2. Edited(d, e)
  BY <1>1, TurnedEdits
<1> QED BY <1>2, CommitPaid

LEMMA HoldPaid ==
    ASSUME PlanInv, PaidInv, UNCHANGED <<sub, invoices>>,
           NEW d, d = db \/ d = Observed(db), NEW pc, NEW i, Hold(pc, i, d)
    PROVE  PaidInv'
<1>1. d \in Saved /\ RowsSound(d)
  BY ObservedPaid
<1> PICK e : e = db
  OBVIOUS
<1>2. e \in Saved /\ RowsSound(e) /\ PapersSound(e)
  BY ObservedPaid
<1>3. db' = e /\ tx'.draft = d
  BY DEF Hold
<1> QED BY <1>1, <1>2, <1>3, StripeStill, PaidNext DEF PaidInv

\* Stripe goes on, or nothing of this is touched.
LEMMA StripePaid ==
    ASSUME PlanInv, PaidInv, InvoicesGrow, StripeSound', db' = db, tx'.draft = tx.draft \/ tx'.draft = db
    PROVE  PaidInv'
<1> PICK d : d = db
  OBVIOUS
<1> PICK e : e = tx'.draft
  OBVIOUS
<1>1. d \in Saved /\ RowsSound(d) /\ PapersSound(d) /\ e \in Saved /\ RowsSound(e)
  <2>1. db \in Saved /\ tx.draft \in Saved /\ RowsSound(db) /\ RowsSound(tx.draft) /\ PapersSound(db)
    BY PlanTx DEF PaidInv
  <2> QED BY <2>1
<1> QED BY <1>1, PaidNext

LEMMA UntouchedPaid ==
    ASSUME PlanInv, PaidInv, UNCHANGED <<sub, invoices, db, tx>>
    PROVE  PaidInv'
BY StripeStill, StripePaid DEF PaidInv

-----------------------------------------------------------------------------
\* The handlers of changes and of upgrades.
LEMMA FinishPaid ==
    ASSUME PlanInv, PaidInv, PlanTypeOK', UNCHANGED <<sub, invoices>>, NEW i, Finish(i)
    PROVE  PaidInv'
<1> PICK d : d = Observed(db)
  OBVIOUS
<1>1. Commit(d) \/ \E state \in {"undone", "needs_review", "applied"} : Commit(Became(d, i, state))
  BY DEF Finish
<1> QED BY <1>1, SavePaid, BecamePaid

\* A change written anew in what does not bind.
LEMMA ChangePaid ==
    ASSUME PlanInv, PaidInv, PlanTypeOK', UNCHANGED <<sub, invoices>>, NEW rows,
           DOMAIN rows = DOMAIN db.changes, \A k \in DOMAIN db.changes : SameBinding(db.changes[k], rows[k]),
           Commit(WithChanges(db, rows))
    PROVE  PaidInv'
<1> PICK d : d = db
  OBVIOUS
<1> PICK e : e = WithChanges(d, rows)
  OBVIOUS
<1>1. Edited(d, e)
  BY ObservedPaid, ChangesEdited
<1> QED BY <1>1, CommitPaid

LEMMA UpgradePaid ==
    ASSUME PlanInv, PaidInv, PlanTypeOK', UNCHANGED <<sub, invoices>>, NEW rows,
           DOMAIN rows = DOMAIN db.upgrades, \A k \in DOMAIN db.upgrades : SamePurchase(db.upgrades[k], rows[k]),
           Commit(WithUpgrades(db, rows))
    PROVE  PaidInv'
<1> PICK d : d = db
  OBVIOUS
<1> PICK e : e = WithUpgrades(d, rows)
  OBVIOUS
<1>1. Edited(d, e)
  BY ObservedPaid, UpgradesEdited
<1> QED BY <1>1, CommitPaid

LEMMA OneChange ==
    ASSUME NEW old, NEW i, NEW row, i \in DOMAIN old => SameBinding(old[i], row)
    PROVE  LET rows == [old EXCEPT ![i] = row]
           IN  DOMAIN rows = DOMAIN old /\ \A k \in DOMAIN old : SameBinding(old[k], rows[k])
BY DEF SameBinding

LEMMA OneUpgrade ==
    ASSUME NEW old, NEW i, NEW row, i \in DOMAIN old => SamePurchase(old[i], row)
    PROVE  LET rows == [old EXCEPT ![i] = row]
           IN  DOMAIN rows = DOMAIN old /\ \A k \in DOMAIN old : SamePurchase(old[k], rows[k])
BY DEF SamePurchase

LEMMA ObservePaid == ASSUME PlanInv, PaidInv, PlanTypeOK', Observe PROVE PaidInv'
BY SavePaid DEF Observe, Stripe

LEMMA ChargeSeenPaid == ASSUME PlanInv, PaidInv, PlanTypeOK', ChargeSeen PROVE PaidInv'
BY SavePaid DEF ChargeSeen, Stripe

LEMMA UndoPaid == ASSUME PlanInv, PaidInv, PlanTypeOK', NEW i, Undo(i) PROVE PaidInv'
BY BecamePaid DEF Undo, Stripe

LEMMA ReviewChangePaid == ASSUME PlanInv, PaidInv, PlanTypeOK', NEW i, ReviewChange(i) PROVE PaidInv'
<1>1. UNCHANGED <<sub, invoices>> /\ (Commit(Observed(db)) \/ Commit(Became(db, i, "stopped")))
  BY DEF ReviewChange, Stripe
<1> QED BY <1>1, SavePaid, BecamePaid

LEMMA VerifyChangePaid == ASSUME PlanInv, PaidInv, PlanTypeOK', NEW i, VerifyChange(i) PROVE PaidInv'
<1>1. UNCHANGED <<sub, invoices>>
  BY DEF VerifyChange, Stripe
<1>2. \/ \E state \in {"stopped", "scheduled", "needs_review"} : Commit(Became(db, i, state))
      \/ Raise("change failed", i) \/ UNCHANGED <<db, tx>>
  BY DEF VerifyChange
<1> QED BY <1>1, <1>2, BecamePaid, RaisePaid, UntouchedPaid

LEMMA StartCreatePaid == ASSUME PlanInv, PaidInv, PlanTypeOK', NEW i, StartCreate(i) PROVE PaidInv'
<1>1. UNCHANGED <<sub, invoices>>
  BY DEF StartCreate, Stripe
<1>2. Commit(Became(db, i, "needs_review")) \/ Raise("change failed", i) \/ Hold("create", i, db)
  BY DEF StartCreate
<1> QED BY <1>1, <1>2, BecamePaid, RaisePaid, HoldPaid

LEMMA RelockPaid == ASSUME PlanInv, PaidInv, PlanTypeOK', NEW i, Relock(i) PROVE PaidInv'
<1>1. UNCHANGED <<sub, invoices>> /\ (Hold("configure", i, db) \/ UNCHANGED <<db, tx>>)
  BY DEF Relock, Stripe
<1> QED BY <1>1, HoldPaid, UntouchedPaid

LEMMA LosePaid == ASSUME PlanInv, PaidInv, PlanTypeOK', Lose PROVE PaidInv'
<1>1. UNCHANGED <<sub, invoices>>
  BY DEF Lose, Stripe
<1>2. Commit(db) \/ Raise(IF tx.pc \in {"charge", "charged"} THEN "upgrade failed" ELSE "change failed", tx.id)
  BY DEF Lose
<1> QED BY <1>1, <1>2, SavePaid DEF Raise

LEMMA CreatePaid == ASSUME PlanInv, PaidInv, PlanTypeOK', Create PROVE PaidInv'
<1> PICK i : i = tx.id
  OBVIOUS
<1> PICK old : old = db.changes
  OBVIOUS
<1> PICK row : row = [old[i] EXCEPT !.known = TRUE]
  OBVIOUS
<1>1. UNCHANGED <<sub, invoices>>
  BY DEF Create
<1>2. Raise("change failed", i) \/ Commit([db EXCEPT !.changes[i].known = TRUE])
  BY DEF Create
<1>3. CASE Commit([db EXCEPT !.changes[i].known = TRUE])
  <2>1. i \in DOMAIN old => SameBinding(old[i], row)
    BY PlanTx DEF SameBinding, Change
  <2>2. PICK rows : rows = [old EXCEPT ![i] = row]
    OBVIOUS
  <2>3. Commit(WithChanges(db, rows))
    BY <1>3, <2>2 DEF WithChanges
  <2>4. DOMAIN rows = DOMAIN old /\ \A k \in DOMAIN old : SameBinding(old[k], rows[k])
    BY <2>1, <2>2, OneChange
  <2>5. DOMAIN rows = DOMAIN db.changes /\ \A k \in DOMAIN db.changes : SameBinding(db.changes[k], rows[k])
    BY <2>4
  <2> QED BY <1>1, <2>3, <2>5, ChangePaid
<1> QED BY <1>1, <1>2, <1>3, RaisePaid

LEMMA ConfigurePaid == ASSUME PlanInv, PaidInv, PlanTypeOK', Configure PROVE PaidInv'
<1> PICK i : i = tx.id
  OBVIOUS
<1>1. UNCHANGED <<sub, invoices>> /\ (Raise("change failed", i) \/ Commit(Became(db, i, "scheduled")))
  BY DEF Configure
<1> QED BY <1>1, RaisePaid, BecamePaid

LEMMA ReleasePaid == ASSUME PlanInv, PaidInv, PlanTypeOK', Release PROVE PaidInv'
<1> PICK i : i = tx.id
  OBVIOUS
<1>1. UNCHANGED <<sub, invoices>> /\ (Raise("change failed", i) \/ Hold("released", i, db))
  BY DEF Release
<1> QED BY <1>1, RaisePaid, HoldPaid

LEMMA ReleasedPaid == ASSUME PlanInv, PaidInv, PlanTypeOK', Released PROVE PaidInv'
BY FinishPaid DEF Released, Stripe

LEMMA StartReleasePaid == ASSUME PlanInv, PaidInv, PlanTypeOK', NEW i, StartRelease(i) PROVE PaidInv'
<1> PICK d : d = Observed(db)
  OBVIOUS
<1>1. UNCHANGED <<sub, invoices>>
  BY DEF StartRelease, Stripe
<1>2. Finish(i) \/ Commit(Became(d, i, "scheduled")) \/ Commit(d) \/ Hold("release", i, db)
  BY DEF StartRelease
<1> QED BY <1>1, <1>2, FinishPaid, BecamePaid, SavePaid, HoldPaid

LEMMA FailPaid == ASSUME PlanInv, PaidInv, PlanTypeOK', NEW i, Fail(i) PROVE PaidInv'
<1> PICK old : old = db.changes
  OBVIOUS
<1> PICK n : n = old[i].attempts + 1
  OBVIOUS
<1> PICK state : state = IF n >= MaxFailures THEN "needs_review" ELSE old[i].state
  OBVIOUS
<1> PICK row : row = [old[i] EXCEPT !.attempts = n, !.state = state]
  OBVIOUS
<1>1. UNCHANGED <<sub, invoices>> /\ i \in DOMAIN old /\ old[i] \in Change
  <2> PICK call : call = [what |-> "change failed", id |-> i]
    OBVIOUS
  <2>1. call \in calls
    BY DEF Fail
  <2> QED BY <2>1, PlanTx DEF Fail, Stripe, PlanInv, Addressed
<1>2. SameBinding(old[i], row)
  BY <1>1 DEF SameBinding, Change
<1>3. Commit(WithChanges(db, [old EXCEPT ![i] = row]))
  BY <1>1, ZenonT(60) DEF Fail, WithChanges, Change
<1> QED BY <1>1, <1>2, <1>3, OneChange, ChangePaid

LEMMA FailUpgradePaid == ASSUME PlanInv, PaidInv, PlanTypeOK', NEW j, FailUpgrade(j) PROVE PaidInv'
<1> PICK old : old = db.upgrades
  OBVIOUS
<1> PICK n : n = old[j].attempts + 1
  OBVIOUS
<1> PICK state : state = IF n >= MaxFailures THEN "needs_review" ELSE old[j].state
  OBVIOUS
<1> PICK row : row = [old[j] EXCEPT !.attempts = n, !.state = state]
  OBVIOUS
<1>1. UNCHANGED <<sub, invoices>> /\ j \in DOMAIN old /\ old[j] \in Upgrade
  <2> PICK call : call = [what |-> "upgrade failed", id |-> j]
    OBVIOUS
  <2>1. call \in calls
    BY DEF FailUpgrade
  <2> QED BY <2>1, PlanTx, SavedFields DEF FailUpgrade, Stripe, PlanInv, Addressed
<1>2. SamePurchase(old[j], row)
  BY <1>1 DEF SamePurchase, Upgrade
<1>3. Commit(WithUpgrades(db, [old EXCEPT ![j] = row]))
  BY <1>1, ZenonT(60) DEF FailUpgrade, WithUpgrades, Upgrade
<1> QED BY <1>1, <1>2, <1>3, OneUpgrade, UpgradePaid

LEMMA AgeChangePaid == ASSUME PlanInv, PaidInv, PlanTypeOK', NEW i, AgeChange(i) PROVE PaidInv'
<1> PICK old : old = db.changes
  OBVIOUS
<1> PICK row : row = [old[i] EXCEPT !.old = TRUE]
  OBVIOUS
<1>1. i \in DOMAIN old => SameBinding(old[i], row)
  BY PlanTx DEF SameBinding, Change
<1>2. Commit(WithChanges(db, [old EXCEPT ![i] = row])) /\ UNCHANGED <<sub, invoices>>
  BY DEF AgeChange, WithChanges, Stripe
<1> QED BY <1>1, <1>2, OneChange, ChangePaid

LEMMA AgeUpgradePaid == ASSUME PlanInv, PaidInv, PlanTypeOK', NEW j, AgeUpgrade(j) PROVE PaidInv'
<1> PICK old : old = db.upgrades
  OBVIOUS
<1> PICK row : row = [old[j] EXCEPT !.old = TRUE]
  OBVIOUS
<1>1. j \in DOMAIN old => SamePurchase(old[j], row)
  BY PlanTx, SavedFields DEF SamePurchase, Upgrade
<1>2. Commit(WithUpgrades(db, [old EXCEPT ![j] = row])) /\ UNCHANGED <<sub, invoices>>
  BY DEF AgeUpgrade, WithUpgrades
<1> QED BY <1>1, <1>2, OneUpgrade, UpgradePaid

LEMMA ExpireQuotePaid == ASSUME PlanInv, PaidInv, PlanTypeOK', NEW j, ExpireQuote(j) PROVE PaidInv'
BY TurnedPaid DEF ExpireQuote, Stripe

LEMMA RetryUpgradePaid == ASSUME PlanInv, PaidInv, PlanTypeOK', NEW j, RetryUpgrade(j) PROVE PaidInv'
<1> PICK d : d = Observed(db)
  OBVIOUS
<1>1. UNCHANGED <<sub, invoices>>
  BY DEF RetryUpgrade, Stripe
<1>2. Commit(d) \/ Commit(Turned(d, j, "needs_review")) \/ Hold("charge", j, d)
  BY DEF RetryUpgrade
<1> QED BY <1>1, <1>2, SavePaid, TurnedPaid, HoldPaid

LEMMA EditedTwice ==
    ASSUME NEW d, NEW e, NEW f, Edited(d, e), Edited(e, f)
    PROVE  Edited(d, f)
BY DEF Edited, SameBinding, SamePurchase, NewChange, NewUpgrade

LEMMA ConfirmQuotePaid == ASSUME PlanInv, PaidInv, PlanTypeOK', NEW j \in Ids, ConfirmQuote(j) PROVE PaidInv'
<1> PICK d : d = Observed(db)
  OBVIOUS
<1> PICK f : f = Turned(d, j, "submitting")
  OBVIOUS
<1> PICK old : old = f.upgrades
  OBVIOUS
<1> PICK row : row = [old[j] EXCEPT !.submitted = TRUE]
  OBVIOUS
<1> PICK rows : rows = [old EXCEPT ![j] = row]
  OBVIOUS
<1>1. d \in Saved /\ DOMAIN d.upgrades = DOMAIN db.upgrades
  BY ObservedSound
<1>2. f \in Saved /\ Edited(d, f)
  <2>1. "submitting" \in UpgradeStates
    BY DEF UpgradeStates, Open
  <2> QED BY <1>1, <2>1, TurnedKeeps, TurnedEdits
<1>3. j \in DOMAIN old => SamePurchase(old[j], row)
  BY <1>2, SavedFields DEF SamePurchase, Upgrade
<1>4. Edited(f, WithUpgrades(f, rows))
  <2>1. DOMAIN rows = DOMAIN old /\ \A k \in DOMAIN old : SamePurchase(old[k], rows[k])
    BY <1>3, OneUpgrade
  <2>2. DOMAIN rows = DOMAIN f.upgrades /\ \A k \in DOMAIN f.upgrades : SamePurchase(f.upgrades[k], rows[k])
    BY <2>1
  <2> QED BY <1>2, <2>2, UpgradesEdited
<1>5. Commit(WithUpgrades(f, rows)) /\ UNCHANGED <<sub, invoices>>
  BY DEF ConfirmQuote, WithUpgrades, Stripe
<1>6. Edited(d, WithUpgrades(f, rows))
  BY <1>2, <1>4, EditedTwice
<1> QED BY <1>5, <1>6, CommitPaid

\* A change that is asked turns the plan, and binds nothing yet.
LEMMA SubmitPaid == ASSUME PlanInv, PaidInv, PlanTypeOK', Submit PROVE PaidInv'
<1> PICK d : d = Observed(db)
  OBVIOUS
<1> PICK old : old = d.changes
  OBVIOUS
<1>7. PICK row : row = [state |-> "preparing", source |-> d.plan, target |-> Choice(d.plan),
                        at |-> d.period, known |-> FALSE, applied |-> FALSE, attempts |-> 0, old |-> FALSE]
  OBVIOUS
<1> PICK rows : rows = Append(old, row)
  OBVIOUS
<1> PICK e : e = WithChanges(d, rows)
  OBVIOUS
<1>1. Commit(e) /\ UNCHANGED <<sub, invoices>>
  BY <1>7 DEF Submit, Stripe, WithChanges
<1>2. d \in Saved /\ d.plan \in Prices
  BY ObservedSound, SavedFields DEF Saved
<1>3. row \in Change /\ NewChange(row)
  BY <1>2, <1>7, SavedFields DEF Change, NewChange, Choice, Prices, Work, Low, High
<1>4. /\ DOMAIN old = 1 .. Len(old) /\ DOMAIN rows = 1 .. Len(old) + 1 /\ Len(old) \in Nat
      /\ \A k \in DOMAIN old : rows[k] = old[k]
      /\ rows[Len(old) + 1] = row
  BY <1>2, <1>3, SavedFields, Appended
<1>5. \A k \in DOMAIN rows : IF k \in DOMAIN old THEN SameBinding(old[k], rows[k]) ELSE NewChange(rows[k])
  <2>1. \A k \in DOMAIN rows : k \in DOMAIN old \/ k = Len(old) + 1
    BY <1>4
  <2> QED BY <1>3, <1>4, <2>1 DEF SameBinding
<1>6. Edited(d, e)
  <2>1. /\ e.changes = rows /\ e.upgrades = d.upgrades /\ e.plan = d.plan /\ e.matches = d.matches
        /\ e.papers = d.papers
    BY <1>2 DEF WithChanges, Saved
  <2>2. DOMAIN old \subseteq DOMAIN rows
    BY <1>4
  <2> QED BY <1>5, <2>1, <2>2 DEF Edited, SamePurchase
<1> QED BY <1>1, <1>6, CommitPaid

\* A quote is for the latest invoice, in its period.
LEMMA PreviewPaid == ASSUME PlanInv, PaidInv, PlanTypeOK', Preview PROVE PaidInv'
<1> PICK d : d = Observed(db)
  OBVIOUS
<1> PICK old : old = d.upgrades
  OBVIOUS
<1>8. PICK rows : rows = [j \in DOMAIN old |-> IF old[j].state = "preview" THEN [old[j] EXCEPT !.state = "expired"] ELSE old[j]]
  OBVIOUS
<1>9. PICK new : new = [state |-> "preview", submitted |-> FALSE, base |-> Latest(d), invoice |-> NoId,
                        period |-> d.period, applied |-> FALSE, attempts |-> 0, old |-> FALSE]
  OBVIOUS
<1> PICK all : all = Append(rows, new)
  OBVIOUS
<1> PICK e : e = WithUpgrades(d, all)
  OBVIOUS
<1>1. Commit(e) /\ UNCHANGED <<sub, invoices>>
  BY <1>8, <1>9 DEF Preview, Stripe, WithUpgrades
<1>2. d \in Saved /\ Latest(d) = Len(invoices) /\ d.period = sub.period
  <2>1. db \in Saved /\ invoices \in Seq(Invoice) /\ sub \in Subscription /\ StripeSound /\ RowsSound(db)
    BY PlanTx, StripeTyped DEF PaidInv
  <2> PICK a : a = db
    OBVIOUS
  <2>2. d = Observed(a)
    OBVIOUS
  <2> QED BY <2>1, <2>2, ObservationSound
<1>3. new \in Upgrade /\ NewUpgrade(new)
  <2>1. Len(invoices) \in DOMAIN invoices /\ Len(invoices) \in Nat /\ invoices[Len(invoices)].period = sub.period
    BY StripeTyped, InvoicesAre DEF PaidInv, StripeSound
  <2>2. d.period \in Periods
    BY <1>2, SavedFields DEF Saved
  <2>3. new \in Upgrade
    BY <1>2, <1>9, <2>1, <2>2 DEF Upgrade, Open, NoId
  <2>4. /\ ~new.applied /\ new.invoice = NoId /\ new.base = Len(invoices) /\ new.period = sub.period
    BY <1>2, <1>9
  <2> QED BY <2>1, <2>3, <2>4 DEF NewUpgrade
<1>4. \A k \in DOMAIN old : rows[k] \in Upgrade /\ SamePurchase(old[k], rows[k])
  <2>1. ASSUME NEW k \in DOMAIN old PROVE rows[k] \in Upgrade /\ SamePurchase(old[k], rows[k])
    <3>1. old[k] \in Upgrade
      BY <1>2, SavedFields
    <3>2. rows[k] = [old[k] EXCEPT !.state = "expired"] \/ rows[k] = old[k]
      BY <1>8
    <3> QED BY <3>1, <3>2 DEF Upgrade, SamePurchase
  <2> QED BY <2>1
<1>5. rows \in Seq(Upgrade) /\ DOMAIN rows = DOMAIN old
  <2>1. rows \in [DOMAIN old -> Upgrade]
    BY <1>4, <1>8
  <2>2. old \in Seq(Upgrade)
    BY <1>2, SavedFields
  <2> QED BY <2>1, <2>2, SeqAgain
<1>6. \A k \in DOMAIN all : IF k \in DOMAIN old THEN SamePurchase(old[k], all[k]) ELSE NewUpgrade(all[k])
  <2>1. /\ DOMAIN rows = 1 .. Len(rows) /\ DOMAIN all = 1 .. Len(rows) + 1 /\ Len(rows) \in Nat
        /\ \A k \in DOMAIN rows : all[k] = rows[k]
        /\ all[Len(rows) + 1] = new
    BY <1>3, <1>5, Appended
  <2>2. \A k \in DOMAIN all : k \in DOMAIN rows \/ k = Len(rows) + 1
    BY <2>1
  <2> QED BY <1>3, <1>4, <1>5, <2>1, <2>2
<1>7. Edited(d, e)
  <2>1. all \in Seq(Upgrade) /\ DOMAIN rows \subseteq DOMAIN all
    BY <1>3, <1>5, Appended
  <2>2. /\ e.upgrades = all /\ e.changes = d.changes /\ e.plan = d.plan /\ e.matches = d.matches
        /\ e.papers = d.papers
    BY <1>2 DEF WithUpgrades, Saved
  <2> QED BY <1>5, <1>6, <2>1, <2>2 DEF Edited, SameBinding
<1> QED BY <1>1, <1>7, CommitPaid

-----------------------------------------------------------------------------
\* Stripe.
LEMMA GrownInPlace ==
    ASSUME StripeSound, invoices \in Seq(Invoice), invoices' \in Seq(Invoice), DOMAIN invoices' = DOMAIN invoices,
           \A k \in DOMAIN invoices : /\ invoices'[k].by = invoices[k].by /\ invoices'[k].price = invoices[k].price
                                      /\ invoices'[k].period = invoices[k].period
                                      /\ invoices[k].status = "paid" => invoices'[k].status = "paid",
           sub'.period = sub.period, sub'.price = sub.price \/ sub.pending # NoId,
           sub'.pending = sub.pending \/ sub'.pending = NoId
    PROVE  StripeSound' /\ InvoicesGrow
<1> PICK n : n = Len(invoices)
  OBVIOUS
<1>1. Len(invoices') = n
  <2>1. DOMAIN invoices' = 1 .. Len(invoices') /\ Len(invoices') \in Nat
    BY LenProperties
  <2> QED BY <2>1, InvoicesAre, SameBound
<1>2. n \in DOMAIN invoices
  BY InvoicesAre DEF StripeSound
<1> QED BY <1>1, <1>2 DEF StripeSound, InvoicesGrow

LEMMA VoidedInPlace ==
    ASSUME invoices \in Seq(Invoice), NEW set, NEW rows, rows = Voided(set)
    PROVE  /\ DOMAIN rows = DOMAIN invoices
           /\ \A k \in DOMAIN invoices : /\ rows[k].by = invoices[k].by /\ rows[k].price = invoices[k].price
                                         /\ rows[k].period = invoices[k].period
                                         /\ invoices[k].status = "paid" => rows[k].status = "paid"
<1>1. rows = [k \in DOMAIN invoices |->
                 IF invoices[k].by \in set \ {NoId} /\ invoices[k].status = "open"
                 THEN [invoices[k] EXCEPT !.status = "void"] ELSE invoices[k]]
  BY DEF Voided
<1>2. ASSUME NEW k \in DOMAIN invoices
      PROVE  /\ rows[k].by = invoices[k].by /\ rows[k].price = invoices[k].price
             /\ rows[k].period = invoices[k].period
             /\ invoices[k].status = "paid" => rows[k].status = "paid"
  <2>1. invoices[k] \in Invoice
    BY SeqMember
  <2>2. \/ rows[k] = invoices[k]
        \/ invoices[k].status = "open" /\ rows[k] = [invoices[k] EXCEPT !.status = "void"]
    BY <1>1
  <2> QED BY <2>1, <2>2 DEF Invoice
<1> QED BY <1>1, <1>2

\* An invoice is added to those there were.
LEMMA GrownByOne ==
    ASSUME NEW rows \in Seq(Invoice), NEW new \in Invoice, invoices' = Append(rows, new),
           invoices \in Seq(Invoice), DOMAIN rows = DOMAIN invoices,
           \A k \in DOMAIN invoices : /\ rows[k].by = invoices[k].by /\ rows[k].price = invoices[k].price
                                      /\ rows[k].period = invoices[k].period
                                      /\ invoices[k].status = "paid" => rows[k].status = "paid",
           new.period = sub'.period, new.by = NoId => new.price = sub'.price,
           sub'.pending # NoId => new.by = sub'.pending
    PROVE  StripeSound' /\ InvoicesGrow
<1>1. /\ DOMAIN rows \subseteq DOMAIN invoices' /\ Len(rows) \in Nat
      /\ Len(invoices') = Len(rows) + 1 /\ invoices'[Len(rows) + 1] = new
      /\ \A k \in DOMAIN rows : invoices'[k] = rows[k]
  BY Appended
<1>2. StripeSound'
  BY <1>1 DEF StripeSound
<1>3. InvoicesGrow
  BY <1>1 DEF InvoicesGrow
<1> QED BY <1>2, <1>3

LEMMA NearPaid == ASSUME PlanInv, PaidInv, Near PROVE PaidInv'
BY UntouchedPaid DEF Near, Local

LEMMA OperatorReleasePaid == ASSUME PlanInv, PaidInv, NEW i, OperatorRelease(i) PROVE PaidInv'
BY UntouchedPaid DEF OperatorRelease, Local

LEMMA DropPaid == ASSUME PlanInv, PaidInv, NEW call, Drop(call) PROVE PaidInv'
BY UntouchedPaid DEF Drop, Stripe

LEMMA RenewPaid == ASSUME PlanInv, PaidInv, PlanTypeOK', Renew PROVE PaidInv'
<1> PICK turning : turning = {i \in Attached : sched[i].phases = 2 /\ db.changes[i].at = sub.period}
  OBVIOUS
<1> PICK price : price = IF turning # {} THEN db.changes[Last(turning)].target ELSE sub.price
  OBVIOUS
<1>7. PICK rows : rows = Voided({sub.pending})
  OBVIOUS
<1>8. PICK new : new = [price |-> price, period |-> sub.period + 1, status |-> "open", tried |-> FALSE, by |-> NoId]
  OBVIOUS
<1>1. /\ sub' = [sub EXCEPT !.price = price, !.period = @ + 1, !.pending = NoId]
      /\ invoices' = Append(rows, new) /\ UNCHANGED <<db, tx>>
  BY <1>7, <1>8 DEF Renew, Local
<1>2. invoices \in Seq(Invoice) /\ sub \in Subscription /\ sub' \in Subscription
  BY StripeTyped DEF PlanTypeOK
<1>3. sub'.price = price /\ sub'.period = sub.period + 1 /\ sub'.pending = NoId
  BY <1>1, <1>2 DEF Subscription
<1>4. new \in Invoice
  <2>1. price \in Prices /\ sub.period + 1 \in Periods
    BY <1>2, <1>3 DEF Subscription
  <2> QED BY <1>8, <2>1 DEF Invoice
<1>5. rows \in Seq(Invoice)
  BY <1>2, <1>7, VoidedTyped
<1>6. StripeSound' /\ InvoicesGrow
  <2>1. new.period = sub'.period /\ new.price = sub'.price
    BY <1>3, <1>8
  <2>2. /\ DOMAIN rows = DOMAIN invoices
        /\ \A k \in DOMAIN invoices : /\ rows[k].by = invoices[k].by /\ rows[k].price = invoices[k].price
                                      /\ rows[k].period = invoices[k].period
                                      /\ invoices[k].status = "paid" => rows[k].status = "paid"
    BY <1>2, <1>7, VoidedInPlace
  <2> QED BY <1>1, <1>2, <1>3, <1>4, <1>5, <2>1, <2>2, GrownByOne
<1> QED BY <1>1, <1>6, StripePaid

LEMMA CollectPaid == ASSUME PlanInv, PaidInv, PlanTypeOK', NEW paid \in BOOLEAN, Collect(paid) PROVE PaidInv'
<1> PICK r : r = Renewal
  OBVIOUS
<1> PICK rows : rows = invoices'
  OBVIOUS
<1>1. /\ rows = [invoices EXCEPT ![r].tried = TRUE, ![r].status = IF paid THEN "paid" ELSE @]
      /\ sub' = [sub EXCEPT !.status = IF paid THEN "active" ELSE "past_due"] /\ UNCHANGED <<db, tx>>
  BY DEF Collect, Local
<1>2. invoices \in Seq(Invoice) /\ sub \in Subscription /\ invoices' \in Seq(Invoice)
  BY StripeTyped DEF PlanTypeOK
<1>3. ASSUME NEW k \in DOMAIN invoices
      PROVE  /\ rows[k].by = invoices[k].by /\ rows[k].price = invoices[k].price
             /\ rows[k].period = invoices[k].period
             /\ invoices[k].status = "paid" => rows[k].status = "paid"
  <2>1. invoices[k] \in Invoice
    BY <1>2, SeqMember
  <2>2. rows[k] = IF k = r THEN [invoices[k] EXCEPT !.tried = TRUE, !.status = IF paid THEN "paid" ELSE @] ELSE invoices[k]
    BY <1>1
  <2>3. CASE paid
    BY <2>1, <2>2, <2>3 DEF Invoice
  <2>4. CASE ~paid
    BY <2>1, <2>2, <2>4 DEF Invoice
  <2> QED BY <2>3, <2>4
<1>4. sub'.period = sub.period /\ sub'.price = sub.price /\ sub'.pending = sub.pending
  BY <1>1, <1>2 DEF Subscription
<1>5. DOMAIN invoices' = DOMAIN invoices
  BY <1>1
<1> QED BY <1>1, <1>2, <1>3, <1>4, <1>5, GrownInPlace, StripePaid DEF PaidInv

LEMMA PayUpgradePaid == ASSUME PlanInv, PaidInv, PlanTypeOK', PayUpgrade PROVE PaidInv'
<1> PICK rows : rows = invoices'
  OBVIOUS
<1>1. /\ rows = [k \in DOMAIN invoices |-> IF invoices[k].by = sub.pending
                       THEN [invoices[k] EXCEPT !.status = "paid"] ELSE invoices[k]]
      /\ sub' = [sub EXCEPT !.price = High, !.pending = NoId] /\ sub.pending # NoId /\ UNCHANGED <<db, tx>>
  BY DEF PayUpgrade, Local
<1>2. invoices \in Seq(Invoice) /\ sub \in Subscription /\ invoices' \in Seq(Invoice)
  BY StripeTyped DEF PlanTypeOK
<1>3. ASSUME NEW k \in DOMAIN invoices
      PROVE  /\ rows[k].by = invoices[k].by /\ rows[k].price = invoices[k].price
             /\ rows[k].period = invoices[k].period
             /\ invoices[k].status = "paid" => rows[k].status = "paid"
  <2>1. invoices[k] \in Invoice
    BY <1>2, SeqMember
  <2>2. rows[k] = invoices[k] \/ rows[k] = [invoices[k] EXCEPT !.status = "paid"]
    BY <1>1
  <2> QED BY <2>1, <2>2 DEF Invoice
<1>4. sub'.period = sub.period /\ sub'.pending = NoId
  BY <1>1, <1>2 DEF Subscription
<1>5. DOMAIN invoices' = DOMAIN invoices
  BY <1>1
<1> QED BY <1>1, <1>2, <1>3, <1>4, <1>5, GrownInPlace, StripePaid DEF PaidInv

LEMMA DiscardUpgradePaid == ASSUME PlanInv, PaidInv, PlanTypeOK', DiscardUpgrade PROVE PaidInv'
<1> PICK rows : rows = Voided({sub.pending})
  OBVIOUS
<1>1. invoices' = rows /\ sub' = [sub EXCEPT !.pending = NoId] /\ UNCHANGED <<db, tx>>
  BY DEF DiscardUpgrade, Local
<1>2. invoices \in Seq(Invoice) /\ sub \in Subscription /\ invoices' \in Seq(Invoice)
  BY StripeTyped DEF PlanTypeOK
<1>3. sub'.period = sub.period /\ sub'.price = sub.price /\ sub'.pending = NoId
  BY <1>1, <1>2 DEF Subscription
<1> QED BY <1>1, <1>2, <1>3, VoidedInPlace, GrownInPlace, StripePaid DEF PaidInv

LEMMA CancelPaid == ASSUME PlanInv, PaidInv, PlanTypeOK', Cancel PROVE PaidInv'
<1> PICK rows : rows = Voided({sub.pending})
  OBVIOUS
<1>1. invoices' = rows /\ sub' = [sub EXCEPT !.status = "canceled", !.pending = NoId] /\ UNCHANGED <<db, tx>>
  BY DEF Cancel, Local
<1>2. invoices \in Seq(Invoice) /\ sub \in Subscription /\ invoices' \in Seq(Invoice)
  BY StripeTyped DEF PlanTypeOK
<1>3. sub'.period = sub.period /\ sub'.price = sub.price /\ sub'.pending = NoId
  BY <1>1, <1>2 DEF Subscription
<1> QED BY <1>1, <1>2, <1>3, VoidedInPlace, GrownInPlace, StripePaid DEF PaidInv

\* The invoice of a charge is the upgrade's.
LEMMA ChargedPaid ==
    ASSUME PlanInv, StripeSound, NEW j \in Ids, Chargeable(j), Charged(j)
    PROVE  StripeSound' /\ InvoicesGrow
<1>1. invoices \in Seq(Invoice) /\ sub \in Subscription /\ j # NoId
  BY StripeTyped DEF Ids, NoId
<1>2. CASE UNCHANGED <<sub, invoices>>
  BY <1>2, StripeStill
<1>3. ASSUME NEW paid \in BOOLEAN, sub.pending = NoId,
             sub' = IF paid THEN [sub EXCEPT !.price = High] ELSE [sub EXCEPT !.pending = j],
             invoices' = Append(invoices, [price |-> High, period |-> sub.period,
                   status |-> IF paid THEN "paid" ELSE "open", tried |-> TRUE, by |-> j])
      PROVE  StripeSound' /\ InvoicesGrow
  <2>1. PICK new : new = [price |-> High, period |-> sub.period,
                          status |-> IF paid THEN "paid" ELSE "open", tried |-> TRUE, by |-> j]
    OBVIOUS
  <2>2. new \in Invoice /\ new.period = sub.period /\ new.by = j
    BY <1>1, <2>1 DEF Invoice, Subscription, Prices
  <2>3. invoices' = Append(invoices, new)
    BY <1>3, <2>1
  <2>4. sub'.period = sub.period /\ sub'.pending \in {NoId, j}
    <3>1. [sub EXCEPT !.price = High].period = sub.period /\ [sub EXCEPT !.price = High].pending = sub.pending
      BY <1>1 DEF Subscription
    <3>2. [sub EXCEPT !.pending = j].period = sub.period /\ [sub EXCEPT !.pending = j].pending = j
      BY <1>1 DEF Subscription
    <3> QED BY <1>3, <3>1, <3>2
  <2> PICK rows : rows = invoices
    OBVIOUS
  <2>5. rows \in Seq(Invoice) /\ invoices' = Append(rows, new)
    BY <1>1, <2>3
  <2> QED BY <1>1, <2>2, <2>4, <2>5, GrownByOne
<1> QED BY <1>2, <1>3 DEF Charged, Chargeable

LEMMA ChargeUpgradePaid == ASSUME PlanInv, PaidInv, PlanTypeOK', ChargeUpgrade PROVE PaidInv'
<1> PICK j : j = tx.id
  OBVIOUS
<1>1. j \in Ids
  BY IdsOf DEF ChargeUpgrade, PlanInv, TxOK
<1>2. CASE Chargeable(j) /\ Charged(j) /\ Hold("charged", j, tx.draft)
  <2>1. db' = db /\ tx'.draft = tx.draft
    BY <1>2 DEF Hold
  <2> QED BY <1>1, <1>2, <2>1, ChargedPaid, StripePaid DEF PaidInv
<1>3. CASE Raise("upgrade failed", j) /\ UNCHANGED <<sub, invoices>>
  BY <1>3, RaisePaid
<1>4. CASE Chargeable(j) /\ Charged(j) /\ Raise("upgrade failed", j)
  <2>1. db' = db /\ tx'.draft = db
    BY <1>4 DEF Raise, Commit
  <2> QED BY <1>1, <1>4, <2>1, ChargedPaid, StripePaid DEF PaidInv
<1> QED BY <1>2, <1>3, <1>4 DEF ChargeUpgrade

-----------------------------------------------------------------------------
LEMMA PaidInitially == PlanInit => PaidInv
<1> SUFFICES ASSUME PlanInit PROVE PaidInv
  OBVIOUS
<1>1. PICK p \in Prices :
        /\ sub = [price |-> p, period |-> 1, status |-> "active", pending |-> NoId]
        /\ invoices = <<[price |-> p, period |-> 1, status |-> "paid", tried |-> TRUE, by |-> NoId]>>
        /\ db = [plan |-> p, matches |-> TRUE, period |-> 1, status |-> "active",
                 papers |-> <<[status |-> "paid", tried |-> TRUE, issue |-> FALSE]>>,
                 changes |-> <<>>, upgrades |-> <<>>]
        /\ tx = NoTransaction
  BY DEF PlanInit
<1>2. /\ Len(invoices) = 1 /\ DOMAIN invoices = {1} /\ invoices[1].price = p /\ invoices[1].period = 1
      /\ invoices[1].status = "paid" /\ invoices[1].by = NoId
      /\ sub.price = p /\ sub.period = 1 /\ sub.pending = NoId
  BY <1>1
<1>3. /\ db.plan = p /\ db.changes = <<>> /\ db.upgrades = <<>> /\ Latest(db) = 1 /\ DOMAIN db.papers = {1}
      /\ DOMAIN db.changes = {} /\ DOMAIN db.upgrades = {}
  BY <1>1 DEF Latest
<1>4. tx.draft = db
  BY <1>1 DEF NoTransaction
<1>5. StripeSound
  BY <1>2 DEF StripeSound
<1>6. RowsSound(db) /\ RowsSound(tx.draft)
  BY <1>3, <1>4 DEF RowsSound
<1>7. PapersSound(db)
  <2>1. PaidBy(db, 1) = {} /\ Bindings(db) = {}
    BY <1>3 DEF PaidBy, Bindings
  <2>2. ExpectedPrice(db, 1) = p
    BY <1>3, <2>1 DEF ExpectedPrice
  <2>3. ~InvoiceIssue(db, 1)
    BY <1>2, <2>1, <2>2 DEF InvoiceIssue
  <2> QED BY <1>2, <1>3, <2>3 DEF PapersSound
<1> QED BY <1>5, <1>6, <1>7 DEF PaidInv

LEMMA PaidSteps == PlanInv /\ PaidInv /\ [PlanNext]_planVars => PaidInv'
<1> SUFFICES ASSUME PlanInv, PaidInv, [PlanNext]_planVars PROVE PaidInv'
  OBVIOUS
<1>0. PlanTypeOK'
  BY PlanSteps DEF PlanInv
<1>1. CASE Holder
  BY <1>0, <1>1, CreatePaid, ConfigurePaid, ReleasePaid, ReleasedPaid, ChargeUpgradePaid, ChargeSeenPaid DEF Holder
<1>2. CASE Submit \/ Preview \/ Observe \/ Lose
  BY <1>0, <1>2, SubmitPaid, PreviewPaid, ObservePaid, LosePaid
<1>3. ASSUME NEW i \in Ids, Advance(i)
      PROVE  PaidInv'
  BY <1>0, <1>3, StartCreatePaid, VerifyChangePaid, RelockPaid, StartReleasePaid, FailPaid DEF Advance
<1>4. ASSUME NEW i \in Ids, Undo(i) \/ ReviewChange(i) \/ AgeChange(i) \/ OperatorRelease(i)
      PROVE  PaidInv'
  BY <1>0, <1>4, UndoPaid, ReviewChangePaid, AgeChangePaid, OperatorReleasePaid
<1>5. ASSUME NEW j \in Ids, Pursue(j)
      PROVE  PaidInv'
  BY <1>0, <1>5, RetryUpgradePaid, FailUpgradePaid DEF Pursue
<1>6. ASSUME NEW j \in Ids, ConfirmQuote(j) \/ ExpireQuote(j) \/ AgeUpgrade(j)
      PROVE  PaidInv'
  BY <1>0, <1>6, ConfirmQuotePaid, ExpireQuotePaid, AgeUpgradePaid
<1>7. ASSUME NEW call \in calls, Drop(call) PROVE PaidInv'
  BY <1>7, DropPaid
<1>8. CASE Near \/ Renew \/ PayUpgrade \/ DiscardUpgrade \/ Cancel
  BY <1>0, <1>8, NearPaid, RenewPaid, PayUpgradePaid, DiscardUpgradePaid, CancelPaid
<1>9. ASSUME NEW paid \in BOOLEAN, Collect(paid) PROVE PaidInv'
  BY <1>0, <1>9, CollectPaid
<1>10. CASE UNCHANGED planVars
  BY <1>10, UntouchedPaid DEF planVars
<1> QED BY <1>1, <1>2, <1>3, <1>4, <1>5, <1>6, <1>7, <1>8, <1>9, <1>10 DEF PlanNext

\* The higher plan is in force only while its owner has paid for it, however an
\* upgrade, a change at renewal, a late or failed payment, a lost answer and an
\* observation follow each other: an invoice of this period or of the one before is
\* paid at that price.
THEOREM HigherIsPaid == PlanSpec => []HigherPlanIsPaid
<1>1. PlanInv /\ PaidInv => HigherPlanIsPaid
  BY PlanTx, StripeTyped, AccessIsPaid DEF PaidInv
<1>2. PlanInit => PlanInv /\ PaidInv
  BY PlanInitially, PaidInitially
<1>3. (PlanInv /\ PaidInv) /\ [PlanNext]_planVars => (PlanInv /\ PaidInv)'
  BY PlanSteps, PaidSteps
<1> QED BY <1>1, <1>2, <1>3, PTL DEF PlanSpec

-----------------------------------------------------------------------------
(* PlanChanges.  Whoever has paid at the lower price keeps that plan, whatever  *)
(* becomes of upgrades: every invoice after the renewal is recognised as that   *)
(* of an upgrade, bought on the invoice before it, so the judgement of the      *)
(* latest invoice descends to the renewal.                                      *)

\* Stripe's last renewal is of the present period, and only an upgrade raises the
\* price within it.
RenewalSound ==
    /\ \A k \in DOMAIN invoices : invoices[k].period <= sub.period
    /\ \E r \in DOMAIN invoices :
          /\ invoices[r].by = NoId /\ invoices[r].period = sub.period
          /\ invoices[r].price = High => sub.price = High
          /\ \A k \in DOMAIN invoices : k > r => invoices[k].by # NoId /\ invoices[k].period = sub.period

\* What a row says of its purchase: only the newest that was submitted can be
\* without its invoice, and it is unresolved.
Purchase(d, j) ==
    LET u == d.upgrades[j] IN
    /\ u.invoice # NoId => u.invoice \in DOMAIN invoices /\ invoices[u.invoice].by = j /\ u.submitted
    /\ u.state = "preview" => ~u.submitted /\ j = Len(d.upgrades)
    /\ u.state \in Open => u.submitted
    /\ u.submitted /\ u.invoice = NoId =>
          u.state \in Open /\ \A h \in DOMAIN d.upgrades : d.upgrades[h].submitted => h <= j
    /\ u.applied /\ u.period = sub.period => sub.price = High

\* An upgrade's invoice is as it was quoted; its row has it, or will find it as
\* long as it is the latest.
Recognised(d, k) ==
    LET j == invoices[k].by
        u == d.upgrades[j] IN
    /\ j \in DOMAIN d.upgrades /\ u.submitted /\ invoices[k].price = High
    /\ invoices[k].period = u.period /\ u.base = k - 1
    /\ j \in done \/ u.old
    /\ \/ u.invoice = k
       \/ u.invoice = NoId /\ \A h \in DOMAIN invoices : h > k => invoices[h].by = NoId

UpgradesSound(d) ==
    /\ \A j \in DOMAIN d.upgrades : Purchase(d, j)
    /\ \A k \in DOMAIN invoices : invoices[k].by # NoId => Recognised(d, k)

\* About to be charged: nothing has been, and the next invoice follows its base.
Unpaid(u) == u.submitted /\ u.invoice = NoId /\ ~u.old

ChargeSound ==
    /\ \A j \in DOMAIN db.upgrades : db.upgrades[j].submitted => tx.draft.upgrades[j].submitted
    /\ tx.pc \in {"charge", "charged"} => db.upgrades[tx.id].submitted
    /\ tx.pc = "charge" =>
          LET u == tx.draft.upgrades[tx.id]
              w == db.upgrades[tx.id] IN
          /\ Unpaid(u) /\ Unpaid(w) /\ w.base = u.base /\ w.period = u.period
          /\ tx.id \notin done /\ sub.period = u.period => Len(invoices) = u.base
    /\ \A c \in calls : c.what = "upgrade failed" => db.upgrades[c.id].submitted

KeptInv == RenewalSound /\ UpgradesSound(db) /\ UpgradesSound(tx.draft) /\ ChargeSound

\* What becomes of a row: its quote stays, it may be given the latest invoice.
Proceeds(u, v, j) ==
    /\ v.base = u.base /\ v.period = u.period /\ v.submitted = u.submitted /\ (u.old => v.old)
    /\ \/ v.invoice = u.invoice
       \/ /\ u.submitted /\ u.invoice = NoId /\ v.invoice = Len(invoices)
          /\ v.invoice \in DOMAIN invoices /\ invoices[v.invoice].by = j
    /\ v.applied => u.applied \/ sub.price = High
    /\ \/ v.state = u.state
       \/ /\ v.state # "preview"
          /\ IF u.submitted THEN v.state \in Open \/ v.invoice # NoId ELSE v.state \notin Open

Follows(d, e) ==
    /\ DOMAIN e.upgrades = DOMAIN d.upgrades
    /\ \A j \in DOMAIN d.upgrades : Proceeds(d.upgrades[j], e.upgrades[j], j)

LEMMA SameUpgrades ==
    ASSUME NEW d, NEW e, e.upgrades = d.upgrades
    PROVE  /\ Follows(d, e)
           /\ UpgradesSound(d) => UpgradesSound(e)
BY DEF Follows, Proceeds, UpgradesSound, Purchase, Recognised

LEMMA LastOf ==
    ASSUME NEW n \in Nat, NEW S \in SUBSET (1 .. n), S # {}
    PROVE  Last(S) \in S /\ \A h \in S : h <= Last(S)
<1> PICK T : T = {m \in Nat : \E x \in S : m = n - x}
  OBVIOUS
<1>1. T # {} /\ T \in SUBSET Nat
  <2>1. PICK x \in S : TRUE
    OBVIOUS
  <2>2. n - x \in T
    BY <2>1
  <2> QED BY <2>2
<1>2. PICK m \in T : \A y \in T : m <= y
  BY <1>1, LeastOf
<1>3. PICK x \in S : m = n - x
  BY <1>2
<1>4. ASSUME NEW h \in S PROVE h <= x
  <2>1. n - h \in T /\ x \in 1 .. n /\ h \in 1 .. n
    BY <1>3
  <2>2. m <= n - h
    BY <1>2, <2>1
  <2> QED BY <1>3, <2>1, <2>2
<1>5. \E i \in S : \A h \in S : h <= i
  BY <1>4
<1> QED BY <1>5 DEF Last

LEMMA SameUpgradeRows ==
    ASSUME NEW d \in Saved, NEW e \in Saved, DOMAIN e.upgrades = DOMAIN d.upgrades
    PROVE  /\ Len(e.upgrades) = Len(d.upgrades) /\ Len(d.upgrades) \in Nat
           /\ DOMAIN d.upgrades = 1 .. Len(d.upgrades)
<1>1. /\ DOMAIN d.upgrades = 1 .. Len(d.upgrades) /\ Len(d.upgrades) \in Nat
      /\ DOMAIN e.upgrades = 1 .. Len(e.upgrades) /\ Len(e.upgrades) \in Nat
  BY SavedFields, LenProperties
<1> QED BY <1>1, SameBound

LEMMA FollowsSound ==
    ASSUME NEW d \in Saved, NEW e \in Saved, invoices \in Seq(Invoice), UpgradesSound(d), Follows(d, e)
    PROVE  UpgradesSound(e)
<1>1. Len(e.upgrades) = Len(d.upgrades) /\ DOMAIN e.upgrades = DOMAIN d.upgrades
  BY SameUpgradeRows DEF Follows
<1>2. ASSUME NEW j \in DOMAIN e.upgrades PROVE Purchase(e, j)
  <2> PICK u : u = d.upgrades[j]
    OBVIOUS
  <2> PICK v : v = e.upgrades[j]
    OBVIOUS
  <2>1. Proceeds(u, v, j) /\ Purchase(d, j)
    BY <1>1, <1>2 DEF Follows, UpgradesSound
  <2>2. v.invoice # NoId => v.invoice \in DOMAIN invoices /\ invoices[v.invoice].by = j /\ v.submitted
    BY <2>1 DEF Purchase, Proceeds
  <2>3. v.state = "preview" => ~v.submitted /\ j = Len(e.upgrades)
    BY <1>1, <2>1 DEF Purchase, Proceeds
  <2>4. v.state \in Open => v.submitted
    BY <2>1 DEF Purchase, Proceeds
  <2>5. v.submitted /\ v.invoice = NoId => v.state \in Open /\ u.submitted /\ u.invoice = NoId
    <3>1. ASSUME v.submitted, v.invoice = NoId PROVE v.state \in Open /\ u.submitted /\ u.invoice = NoId
      <4>1. u.submitted /\ u.invoice = NoId
        <5>1. \A k \in DOMAIN invoices : k # NoId
          BY InvoicesAre DEF NoId
        <5> QED BY <2>1, <3>1, <5>1 DEF Proceeds
      <4> QED BY <2>1, <3>1, <4>1 DEF Purchase, Proceeds
    <3> QED BY <3>1
  <2>6. ASSUME v.submitted, v.invoice = NoId, NEW h \in DOMAIN e.upgrades, e.upgrades[h].submitted
        PROVE  h <= j
    <3>1. d.upgrades[h].submitted
      BY <1>1, <2>6 DEF Follows, Proceeds
    <3> QED BY <1>1, <2>1, <2>5, <2>6, <3>1 DEF Purchase
  <2>7. v.applied /\ v.period = sub.period => sub.price = High
    BY <2>1 DEF Purchase, Proceeds
  <2> QED BY <2>2, <2>3, <2>4, <2>5, <2>6, <2>7 DEF Purchase
<1>3. ASSUME NEW k \in DOMAIN invoices, invoices[k].by # NoId PROVE Recognised(e, k)
  <2> PICK j : j = invoices[k].by
    OBVIOUS
  <2> PICK u : u = d.upgrades[j]
    OBVIOUS
  <2> PICK v : v = e.upgrades[j]
    OBVIOUS
  <2>1. Recognised(d, k) /\ j \in DOMAIN d.upgrades /\ j # NoId
    BY <1>3 DEF UpgradesSound, Recognised
  <2>2. Proceeds(u, v, j)
    BY <2>1 DEF Follows
  <2>3. CASE v.invoice = u.invoice
    BY <1>1, <2>1, <2>2, <2>3 DEF Recognised, Proceeds
  <2>4. CASE u.invoice = NoId /\ v.invoice = Len(invoices) /\ invoices[v.invoice].by = j /\ v.invoice \in DOMAIN invoices
    <3>1. \A h \in DOMAIN invoices : h > k => invoices[h].by = NoId
      <4>1. k # NoId
        BY InvoicesAre DEF NoId
      <4> QED BY <2>1, <2>4, <4>1 DEF Recognised
    <3>2. v.invoice = k
      <4>1. ~ (v.invoice > k)
        BY <2>1, <2>4, <3>1
      <4> QED BY <2>4, <4>1, InvoicesAre
    <3> QED BY <1>1, <2>1, <2>2, <3>2 DEF Recognised, Proceeds
  <2> QED BY <2>2, <2>3, <2>4 DEF Proceeds
<1> QED BY <1>2, <1>3 DEF UpgradesSound

-----------------------------------------------------------------------------
\* What an observation makes of the rows.
Judgement(u, v) ==
    /\ v.base = u.base /\ v.period = u.period /\ v.submitted = u.submitted /\ v.old = u.old
    /\ v.invoice = u.invoice /\ (v.applied => u.applied \/ sub.price = High)

LEMMA TurnedJudges ==
    ASSUME NEW d \in Saved, NEW j, NEW state \in UpgradeStates, NEW h \in DOMAIN d.upgrades
    PROVE  /\ Judgement(d.upgrades[h], Turned(d, j, state).upgrades[h])
           /\ Turned(d, j, state).upgrades[h].state = IF h = j THEN state ELSE d.upgrades[h].state
<1>1. Turned(d, j, state).upgrades[h] = IF h = j THEN [d.upgrades[h] EXCEPT !.state = state] ELSE d.upgrades[h]
  BY TurnedKeeps
<1>2. d.upgrades[h] \in Upgrade
  BY SavedFields
<1> QED BY <1>1, <1>2 DEF Judgement, Upgrade

LEMMA JudgedRows ==
    ASSUME NEW d \in Saved, NEW j, NEW h \in DOMAIN d.upgrades
    PROVE  /\ Judgement(d.upgrades[h], Judged(d, j).upgrades[h])
           /\ h # j => Judged(d, j).upgrades[h].state = d.upgrades[h].state
           /\ h = j => Judged(d, j).upgrades[h].state \in {"needs_review", "expired", "pending_payment", "applied"}
<1> PICK old : old = d.upgrades
  OBVIOUS
<1> PICK e : e = Judged(d, j)
  OBVIOUS
<1>1. old[h] \in Upgrade
  BY SavedFields
<1>2. ASSUME NEW state \in {"needs_review", "expired", "pending_payment"}, e = Turned(d, j, state)
      PROVE  /\ Judgement(old[h], e.upgrades[h])
             /\ e.upgrades[h].state = IF h = j THEN state ELSE old[h].state
  <2>1. state \in UpgradeStates
    BY DEF UpgradeStates, Open
  <2> QED BY <1>2, <2>1, TurnedJudges
<1>3. CASE e = [d EXCEPT !.plan = High, !.upgrades[j].state = "applied", !.upgrades[j].applied = TRUE] /\ sub.price = High
  <2> PICK rows : rows = [old EXCEPT ![j].state = "applied", ![j].applied = TRUE]
    OBVIOUS
  <2>1. e = [d EXCEPT !.plan = High, !.upgrades = rows]
    BY <1>3
  <2>2. e.upgrades = rows
    BY <2>1 DEF Saved
  <2>3. rows[h] = IF h = j THEN [old[h] EXCEPT !.state = "applied", !.applied = TRUE] ELSE old[h]
    OBVIOUS
  <2> QED BY <1>1, <1>3, <2>2, <2>3 DEF Judgement, Upgrade
<1>4. \/ \E state \in {"needs_review", "expired", "pending_payment"} : e = Turned(d, j, state)
      \/ /\ e = [d EXCEPT !.plan = High, !.upgrades[j].state = "applied", !.upgrades[j].applied = TRUE]
         /\ sub.price = High
  BY DEF Judged, Turned
<1> QED BY <1>2, <1>3, <1>4

\* The row that an observation looks at, and with an invoice found for it.
WithInvoice(d, j) == [d EXCEPT !.upgrades[j].invoice = Len(invoices)]

LEMMA InvoiceFound ==
    ASSUME NEW d \in Saved, invoices \in Seq(Invoice), NEW j
    PROVE  /\ WithInvoice(d, j) \in Saved /\ DOMAIN WithInvoice(d, j).upgrades = DOMAIN d.upgrades
           /\ WithInvoice(d, j).changes = d.changes /\ WithInvoice(d, j).plan = d.plan
           /\ \A g \in DOMAIN d.upgrades :
                 WithInvoice(d, j).upgrades[g] = IF g = j THEN [d.upgrades[g] EXCEPT !.invoice = Len(invoices)] ELSE d.upgrades[g]
<1> PICK old : old = d.upgrades
  OBVIOUS
<1> PICK k : k = Len(invoices)
  OBVIOUS
<1> PICK rows : rows = [old EXCEPT ![j].invoice = k]
  OBVIOUS
<1>1. WithInvoice(d, j) = [d EXCEPT !.upgrades = rows]
  BY DEF WithInvoice
<1>2. DOMAIN rows = DOMAIN old /\ \A g \in DOMAIN old : rows[g] = IF g = j THEN [old[g] EXCEPT !.invoice = k] ELSE old[g]
  OBVIOUS
<1>3. k \in Nat
  BY LenProperties
<1>4. ASSUME NEW g \in DOMAIN old PROVE rows[g] \in Upgrade
  <2>1. old[g] \in Upgrade
    BY <1>4, SavedFields
  <2> QED BY <1>2, <1>3, <1>4, <2>1 DEF Upgrade
<1>5. rows \in Seq(Upgrade)
  <2>1. rows \in [DOMAIN old -> Upgrade]
    <3>1. rows = [g \in DOMAIN old |-> rows[g]]
      BY <1>2
    <3> QED BY <1>4, <3>1
  <2>2. old \in Seq(Upgrade)
    BY SavedFields
  <2> QED BY <2>1, <2>2, SeqAgain
<1>6. /\ [d EXCEPT !.upgrades = rows] \in Saved /\ [d EXCEPT !.upgrades = rows].upgrades = rows
      /\ [d EXCEPT !.upgrades = rows].changes = d.changes /\ [d EXCEPT !.upgrades = rows].plan = d.plan
  BY <1>5 DEF Saved
<1> QED BY <1>1, <1>2, <1>6

LEMMA ObserveUpgradeIs ==
    ASSUME NEW d \in Saved, NEW j, j = Last({g \in DOMAIN d.upgrades : d.upgrades[g].submitted}), NEW u, u = d.upgrades[j]
    PROVE  LET e == ObserveUpgrade(d) IN
           IF {g \in DOMAIN d.upgrades : d.upgrades[g].submitted} = {} \/ u.state \in {"applied", "expired"} THEN e = d
           ELSE IF u.invoice # NoId THEN e = Judged(Evidence(d), j)
           ELSE IF Len(invoices) = u.base THEN e = d
           ELSE IF Quoted(d, Len(invoices), j) THEN e = Judged(Evidence(WithInvoice(d, j)), j)
           ELSE e = Turned(d, j, "needs_review")
BY DEF ObserveUpgrade, WithInvoice, Turned

LEMMA ObserveUpgradeFollows ==
    ASSUME NEW d \in Saved, invoices \in Seq(Invoice), Len(invoices) > 0, UpgradesSound(d)
    PROVE  Follows(d, ObserveUpgrade(d))
<1> PICK submitted : submitted = {g \in DOMAIN d.upgrades : d.upgrades[g].submitted}
  OBVIOUS
<1> PICK j : j = Last(submitted)
  OBVIOUS
<1> PICK u : u = d.upgrades[j]
  OBVIOUS
<1> PICK e : e = ObserveUpgrade(d)
  OBVIOUS
<1>1. CASE e = d
  BY <1>1, SameUpgrades
<1>2. CASE e # d
  <2>1. submitted # {} /\ u.state \notin {"applied", "expired"}
    BY <1>2, ObserveUpgradeIs
  <2>2. j \in DOMAIN d.upgrades /\ u.submitted
    <3>1. DOMAIN d.upgrades = 1 .. Len(d.upgrades) /\ Len(d.upgrades) \in Nat
      BY SavedFields, LenProperties
    <3>2. j \in submitted
      BY <2>1, <3>1, LastOf
    <3> QED BY <3>2
  <2>3. u \in Upgrade /\ u.state \in Open
    <3>1. u \in Upgrade /\ Purchase(d, j)
      BY <2>2, SavedFields DEF UpgradesSound
    <3> QED BY <2>1, <2>2, <3>1 DEF Purchase, Upgrade
  <2>4. DOMAIN e.upgrades = DOMAIN d.upgrades
    BY ObserveUpgradeKeeps DEF KeptBy
  <2>5. ASSUME NEW f \in Saved, DOMAIN f.upgrades = DOMAIN d.upgrades, e = Judged(Evidence(f), j),
               NEW h \in DOMAIN d.upgrades
        PROVE  /\ Judgement(f.upgrades[h], e.upgrades[h])
               /\ h # j => e.upgrades[h].state = f.upgrades[h].state
               /\ h = j => e.upgrades[h].state \in {"needs_review", "expired", "pending_payment", "applied"}
    <3> PICK g : g = Evidence(f)
      OBVIOUS
    <3>1. g \in Saved /\ g.upgrades = f.upgrades
      BY <2>5, EvidenceKeeps
    <3> QED BY <2>5, <3>1, JudgedRows
  <2>6. CASE u.invoice # NoId
    <3>1. e = Judged(Evidence(d), j)
      BY <2>1, <2>6, ObserveUpgradeIs
    <3>2. ASSUME NEW h \in DOMAIN d.upgrades PROVE Proceeds(d.upgrades[h], e.upgrades[h], h)
      <4>1. /\ Judgement(d.upgrades[h], e.upgrades[h])
            /\ h # j => e.upgrades[h].state = d.upgrades[h].state
            /\ h = j => e.upgrades[h].state \in {"needs_review", "expired", "pending_payment", "applied"}
        BY <2>5, <3>1, <3>2
      <4> QED BY <2>2, <2>6, <4>1 DEF Judgement, Proceeds
    <3> QED BY <2>4, <3>2 DEF Follows
  <2>7. CASE u.invoice = NoId /\ e = Turned(d, j, "needs_review")
    <3>1. ASSUME NEW h \in DOMAIN d.upgrades PROVE Proceeds(d.upgrades[h], e.upgrades[h], h)
      <4>1. "needs_review" \in UpgradeStates
        BY DEF UpgradeStates, Open
      <4>2. /\ Judgement(d.upgrades[h], e.upgrades[h])
            /\ e.upgrades[h].state = IF h = j THEN "needs_review" ELSE d.upgrades[h].state
        BY <2>7, <3>1, <4>1, TurnedJudges
      <4> QED BY <2>2, <4>2 DEF Judgement, Proceeds, Open
    <3> QED BY <2>4, <3>1 DEF Follows
  <2>8. CASE u.invoice = NoId /\ e # Turned(d, j, "needs_review")
    <3> PICK f : f = WithInvoice(d, j)
      OBVIOUS
    <3>1. e = Judged(Evidence(f), j) /\ Quoted(d, Len(invoices), j)
      BY <1>2, <2>1, <2>8, ObserveUpgradeIs
    <3>2. f \in Saved /\ DOMAIN f.upgrades = DOMAIN d.upgrades
      BY InvoiceFound
    <3>3. Len(invoices) \in DOMAIN invoices /\ invoices[Len(invoices)].by = j /\ Len(invoices) # NoId
      BY <3>1, InvoicesAre DEF Quoted, NoId
    <3>4. ASSUME NEW h \in DOMAIN d.upgrades PROVE Proceeds(d.upgrades[h], e.upgrades[h], h)
      <4> PICK w : w = f.upgrades[h]
        OBVIOUS
      <4>1. /\ Judgement(w, e.upgrades[h])
            /\ h # j => e.upgrades[h].state = w.state
            /\ h = j => e.upgrades[h].state \in {"needs_review", "expired", "pending_payment", "applied"}
        BY <2>5, <3>1, <3>2, <3>4
      <4>2. w = IF h = j THEN [d.upgrades[h] EXCEPT !.invoice = Len(invoices)] ELSE d.upgrades[h]
        BY <3>4, InvoiceFound
      <4>3. CASE h # j
        <5>1. w = d.upgrades[h]
          BY <4>2, <4>3
        <5> QED BY <4>1, <4>3, <5>1 DEF Judgement, Proceeds
      <4>4. CASE h = j
        <5>1. /\ w.base = u.base /\ w.period = u.period /\ w.submitted = u.submitted /\ w.old = u.old
              /\ w.applied = u.applied /\ w.invoice = Len(invoices)
          <6>1. w = [u EXCEPT !.invoice = Len(invoices)]
            BY <4>2, <4>4
          <6> QED BY <2>3, <6>1 DEF Upgrade
        <5> PICK v : v = e.upgrades[h]
          OBVIOUS
        <5>2. /\ v.base = u.base /\ v.period = u.period /\ v.submitted = u.submitted /\ v.old = u.old
              /\ v.invoice = Len(invoices) /\ (v.applied => u.applied \/ sub.price = High)
              /\ v.state # "preview"
          BY <4>1, <4>4, <5>1 DEF Judgement
        <5>3. v.invoice \in DOMAIN invoices /\ invoices[v.invoice].by = h /\ v.invoice # NoId
          BY <3>3, <4>4, <5>2
        <5>4. Proceeds(u, v, h)
          BY <2>2, <2>8, <5>2, <5>3 DEF Proceeds
        <5> QED BY <4>4, <5>4
      <4> QED BY <4>3, <4>4
    <3> QED BY <2>4, <3>4 DEF Follows
  <2> QED BY <2>6, <2>7, <2>8
<1> QED BY <1>1, <1>2

LEMMA ObservedUpgrades ==
    ASSUME NEW d \in Saved, invoices \in Seq(Invoice), sub \in Subscription
    PROVE  Observed(d).upgrades = ObserveUpgrade(ObserveChange(d)).upgrades
<1> PICK c : c = ObserveChange(d)
  OBVIOUS
<1> PICK u : u = ObserveUpgrade(c)
  OBVIOUS
<1> PICK r : r = Reconciled(u)
  OBVIOUS
<1> PICK e : e = Paid(r)
  OBVIOUS
<1>1. u \in Saved
  BY ObserveChangeKeeps, ObserveUpgradeKeeps DEF KeptBy
<1>2. r.upgrades = u.upgrades /\ r \in Saved
  <2>1. ObservedPapers(u) \in Seq(Paper)
    BY <1>1, PapersTyped
  <2> QED BY <1>1, <2>1 DEF Reconciled, Saved, Subscription
<1>3. e.upgrades = r.upgrades
  BY <1>2 DEF Paid, Saved
<1> QED BY <1>2, <1>3, ObservedIs

LEMMA ObservedFollows ==
    ASSUME NEW d \in Saved, invoices \in Seq(Invoice), Len(invoices) > 0, sub \in Subscription, UpgradesSound(d)
    PROVE  Follows(d, Observed(d)) /\ UpgradesSound(Observed(d)) /\ Observed(d) \in Saved
<1> PICK c : c = ObserveChange(d)
  OBVIOUS
<1>1. c \in Saved /\ c.upgrades = d.upgrades
  BY ObserveChangeKeeps DEF KeptBy
<1>2. UpgradesSound(c)
  BY <1>1, SameUpgrades
<1>3. Follows(c, ObserveUpgrade(c))
  BY <1>1, <1>2, ObserveUpgradeFollows
<1>4. Observed(d).upgrades = ObserveUpgrade(c).upgrades
  BY ObservedUpgrades
<1>5. Follows(d, Observed(d))
  BY <1>1, <1>3, <1>4 DEF Follows
<1>6. Observed(d) \in Saved
  BY ObservedKeeps DEF KeptBy
<1> QED BY <1>5, <1>6, FollowsSound

-----------------------------------------------------------------------------
\* A transaction ends with e saved.
Failing(c) == c.what = "upgrade failed" => c.id \in DOMAIN db.upgrades /\ db.upgrades[c.id].submitted

LEMMA KeptFacts ==
    ASSUME PlanInv, KeptInv
    PROVE  /\ db \in Saved /\ tx.draft \in Saved /\ invoices \in Seq(Invoice) /\ sub \in Subscription
           /\ Len(invoices) > 0 /\ UpgradesSound(db) /\ UpgradesSound(tx.draft)
           /\ \A c \in calls : Failing(c)
           /\ DOMAIN tx.draft.upgrades = DOMAIN db.upgrades
<1>1. invoices \in Seq(Invoice) /\ sub \in Subscription /\ db \in Saved /\ tx.draft \in Saved
  BY PlanTx, StripeTyped
<1>2. Len(invoices) > 0
  <2>1. \E r \in DOMAIN invoices : TRUE
    BY DEF KeptInv, RenewalSound
  <2> QED BY <1>1, <2>1, InvoicesAre
<1>3. \A c \in calls : Failing(c)
  BY DEF KeptInv, ChargeSound, Failing, PlanInv, Addressed
<1> QED BY <1>1, <1>2, <1>3 DEF KeptInv, PlanInv, TxOK

LEMMA CommitUpgrades ==
    ASSUME PlanInv, KeptInv, UNCHANGED <<sub, invoices>>, NEW e, UpgradesSound(e)', Commit(e),
           \A j \in DOMAIN db.upgrades : db.upgrades[j].submitted => e.upgrades[j].submitted,
           \A c \in calls' : Failing(c)
    PROVE  KeptInv'
<1>1. db' = e /\ tx'.draft = e /\ tx'.pc = "idle"
  BY DEF Commit
<1>2. UpgradesSound(db)' /\ UpgradesSound(tx.draft)'
  <2>1. \A d : d = e => UpgradesSound(d)'
    OBVIOUS
  <2> QED BY <1>1, <2>1 DEF UpgradesSound, Purchase, Recognised
<1>3. RenewalSound'
  BY DEF KeptInv, RenewalSound
<1>4. ChargeSound'
  BY <1>1 DEF ChargeSound, Failing
<1> QED BY <1>2, <1>3, <1>4 DEF KeptInv

\* ... of what was saved, or has been observed.
LEMMA DraftsSubmitted ==
    ASSUME PlanInv, KeptInv, NEW d, d = db \/ d = Observed(db) \/ d = Observed(tx.draft)
    PROVE  /\ d \in Saved /\ UpgradesSound(d) /\ DOMAIN d.upgrades = DOMAIN db.upgrades
           /\ \A j \in DOMAIN db.upgrades : db.upgrades[j].submitted => d.upgrades[j].submitted
<1> PICK a : a = db
  OBVIOUS
<1> PICK b : b = tx.draft
  OBVIOUS
<1>1. /\ a \in Saved /\ b \in Saved /\ invoices \in Seq(Invoice) /\ sub \in Subscription
      /\ Len(invoices) > 0 /\ UpgradesSound(a) /\ UpgradesSound(b) /\ DOMAIN b.upgrades = DOMAIN a.upgrades
  BY KeptFacts
<1>2. \A j \in DOMAIN a.upgrades : a.upgrades[j].submitted => b.upgrades[j].submitted
  BY DEF KeptInv, ChargeSound
<1>3. Follows(a, Observed(a)) /\ UpgradesSound(Observed(a)) /\ Observed(a) \in Saved
  BY <1>1, ObservedFollows
<1>4. Follows(b, Observed(b)) /\ UpgradesSound(Observed(b)) /\ Observed(b) \in Saved
  BY <1>1, ObservedFollows
<1>5. CASE d = a
  BY <1>1, <1>5
<1>6. CASE d = Observed(a)
  BY <1>3, <1>6 DEF Follows, Proceeds
<1>7. CASE d = Observed(b)
  BY <1>1, <1>2, <1>4, <1>7 DEF Follows, Proceeds
<1> QED BY <1>5, <1>6, <1>7

LEMMA CommitFollows ==
    ASSUME PlanInv, KeptInv, UNCHANGED <<sub, invoices, done>>,
           NEW d, d = db \/ d = Observed(db) \/ d = Observed(tx.draft), NEW e \in Saved, Follows(d, e), Commit(e),
           \A c \in calls' : Failing(c)
    PROVE  KeptInv'
<1>1. /\ d \in Saved /\ UpgradesSound(d) /\ DOMAIN d.upgrades = DOMAIN db.upgrades
      /\ \A j \in DOMAIN db.upgrades : db.upgrades[j].submitted => d.upgrades[j].submitted
  BY DraftsSubmitted
<1>2. UpgradesSound(e)
  BY <1>1, KeptFacts, FollowsSound
<1>3. UpgradesSound(e)'
  BY <1>2 DEF UpgradesSound, Purchase, Recognised
<1>4. \A j \in DOMAIN db.upgrades : db.upgrades[j].submitted => e.upgrades[j].submitted
  BY <1>1 DEF Follows, Proceeds
<1> QED BY <1>3, <1>4, CommitUpgrades

LEMMA CommitSameUpgrades ==
    ASSUME PlanInv, KeptInv, PlanTypeOK', UNCHANGED <<sub, invoices, done>>,
           NEW d, d = db \/ d = Observed(db) \/ d = Observed(tx.draft), NEW e, e.upgrades = d.upgrades, Commit(e),
           \A c \in calls' : Failing(c)
    PROVE  KeptInv'
<1>1. e \in Saved
  BY DEF PlanTypeOK, Commit
<1> QED BY <1>1, SameUpgrades, CommitFollows

LEMMA CommitTheSame ==
    ASSUME PlanInv, KeptInv, PlanTypeOK', UNCHANGED <<sub, invoices, done>>, calls' \subseteq calls,
           NEW d, d = db \/ d = Observed(db) \/ d = Observed(tx.draft), Commit(d)
    PROVE  KeptInv'
<1>1. \A c \in calls' : Failing(c)
  BY KeptFacts
<1> QED BY <1>1, CommitSameUpgrades

\* An error is rolled back; that of a charge is of an upgrade that was submitted.
LEMMA RaiseKept ==
    ASSUME PlanInv, KeptInv, PlanTypeOK', UNCHANGED <<sub, invoices, done>>, NEW what, NEW i, Raise(what, i),
           what # "upgrade failed" \/ (tx.pc \in {"charge", "charged"} /\ i = tx.id)
    PROVE  KeptInv'
<1> PICK d : d = db
  OBVIOUS
<1> PICK new : new = [what |-> what, id |-> i]
  OBVIOUS
<1>1. Commit(d) /\ calls' = calls \cup {new}
  BY DEF Raise
<1>2. Failing(new)
  BY DEF Failing, KeptInv, ChargeSound, PlanInv, TxOK
<1>3. \A c \in calls' : Failing(c)
  BY <1>1, <1>2, KeptFacts
<1> QED BY <1>1, <1>3, CommitSameUpgrades

LEMMA BecameKept ==
    ASSUME PlanInv, KeptInv, PlanTypeOK', UNCHANGED <<sub, invoices, done>>, calls' \subseteq calls,
           NEW d, d = db \/ d = Observed(db), NEW i, NEW state, Commit(Became(d, i, state))
    PROVE  KeptInv'
<1> PICK e : e = Became(d, i, state)
  OBVIOUS
<1>1. d \in Saved
  BY DraftsSubmitted
<1>2. e.upgrades = d.upgrades
  BY <1>1 DEF Became, Saved
<1>3. \A c \in calls' : Failing(c)
  BY KeptFacts
<1> QED BY <1>2, <1>3, CommitSameUpgrades

\* A transaction other than a charge reads what is saved.
LEMMA HoldKept ==
    ASSUME PlanInv, KeptInv, UNCHANGED <<sub, invoices, done>>, calls' \subseteq calls,
           NEW pc, pc \notin {"charge", "charged"}, NEW i, Hold(pc, i, db)
    PROVE  KeptInv'
<1> PICK d : d = db
  OBVIOUS
<1>1. db' = d /\ tx'.draft = d /\ tx'.pc = pc
  BY DEF Hold
<1>2. UpgradesSound(d)'
  BY DEF KeptInv, UpgradesSound, Purchase, Recognised
<1>3. UpgradesSound(db)' /\ UpgradesSound(tx.draft)'
  <2>1. \A e : e = d => UpgradesSound(e)'
    BY <1>2
  <2> QED BY <1>1, <2>1 DEF UpgradesSound, Purchase, Recognised
<1>4. RenewalSound'
  BY DEF KeptInv, RenewalSound
<1>5. ChargeSound'
  BY <1>1 DEF KeptInv, ChargeSound
<1> QED BY <1>3, <1>4, <1>5 DEF KeptInv

\* Nothing of this is touched.
LEMMA UntouchedKept ==
    ASSUME PlanInv, KeptInv, UNCHANGED <<sub, invoices, db, tx, done>>, \A c \in calls' : Failing(c)
    PROVE  KeptInv'
<1>1. UpgradesSound(db)' /\ UpgradesSound(tx.draft)'
  BY DEF KeptInv, UpgradesSound, Purchase, Recognised
<1>2. RenewalSound'
  BY DEF KeptInv, RenewalSound
<1>3. ChargeSound'
  BY DEF KeptInv, ChargeSound, Failing
<1> QED BY <1>1, <1>2, <1>3 DEF KeptInv

LEMMA SameCalls == ASSUME PlanInv, KeptInv, calls' \subseteq calls PROVE \A c \in calls' : Failing(c)
BY KeptFacts

-----------------------------------------------------------------------------
\* The handlers of changes leave the upgrades as observed.
LEMMA FinishKept ==
    ASSUME PlanInv, KeptInv, PlanTypeOK', UNCHANGED <<sub, invoices, done>>, calls' \subseteq calls, NEW i, Finish(i)
    PROVE  KeptInv'
<1> PICK d : d = Observed(db)
  OBVIOUS
<1>1. Commit(d) \/ \E state \in {"undone", "needs_review", "applied"} : Commit(Became(d, i, state))
  BY DEF Finish
<1> QED BY <1>1, CommitTheSame, BecameKept

LEMMA ChangeKept ==
    ASSUME PlanInv, KeptInv, PlanTypeOK', UNCHANGED <<sub, invoices, done>>, NEW rows,
           Commit(WithChanges(db, rows)), \A c \in calls' : Failing(c)
    PROVE  KeptInv'
<1> PICK d : d = db
  OBVIOUS
<1> PICK e : e = WithChanges(d, rows)
  OBVIOUS
<1>1. d \in Saved
  BY DraftsSubmitted
<1>2. e.upgrades = d.upgrades
  BY <1>1 DEF WithChanges, Saved
<1> QED BY <1>2, CommitSameUpgrades

LEMMA ChangesKeepUpgrades ==
    ASSUME PlanInv, KeptInv, PlanTypeOK', NEW i,
           StartCreate(i) \/ VerifyChange(i) \/ Relock(i) \/ StartRelease(i) \/ Undo(i) \/ ReviewChange(i)
    PROVE  KeptInv'
<1> PICK d : d = Observed(db)
  OBVIOUS
<1>1. CASE StartCreate(i)
  <2>1. UNCHANGED <<sub, invoices, done>>
    BY <1>1 DEF StartCreate, Stripe
  <2>2. \/ Commit(Became(db, i, "needs_review")) /\ calls' \subseteq calls
        \/ Raise("change failed", i)
        \/ Hold("create", i, db) /\ calls' \subseteq calls
    BY <1>1 DEF StartCreate
  <2> QED BY <2>1, <2>2, BecameKept, RaiseKept, HoldKept
<1>2. CASE VerifyChange(i)
  <2>1. UNCHANGED <<sub, invoices, done>>
    BY <1>2 DEF VerifyChange, Stripe
  <2> PICK new : new = [what |-> "configure", id |-> i]
    OBVIOUS
  <2>4. \/ \E state \in {"stopped", "scheduled", "needs_review"} : Commit(Became(db, i, state)) /\ calls' = calls
        \/ Raise("change failed", i)
        \/ UNCHANGED <<db, tx>> /\ calls' = calls \cup {new}
    BY <1>2 DEF VerifyChange
  <2>2. \/ \E state \in {"stopped", "scheduled", "needs_review"} : Commit(Became(db, i, state)) /\ calls' \subseteq calls
        \/ Raise("change failed", i)
        \/ UNCHANGED <<db, tx>> /\ \A c \in calls' : c \in calls \/ c.what = "configure"
    <3>1. new.what = "configure"
      OBVIOUS
    <3>2. calls' = calls => calls' \subseteq calls
      OBVIOUS
    <3>3. calls' = calls \cup {new} => \A c \in calls' : c \in calls \/ c.what = "configure"
      BY <3>1
    <3>4. ASSUME NEW state \in {"stopped", "scheduled", "needs_review"}, Commit(Became(db, i, state)), calls' = calls
          PROVE  \E t \in {"stopped", "scheduled", "needs_review"} : Commit(Became(db, i, t)) /\ calls' \subseteq calls
      BY <3>2, <3>4
    <3> QED BY <2>4, <3>3, <3>4
  <2>3. (\A c \in calls' : c \in calls \/ c.what = "configure") => \A c \in calls' : Failing(c)
    BY KeptFacts DEF Failing
  <2> QED BY <2>1, <2>2, <2>3, BecameKept, RaiseKept, UntouchedKept
<1>3. CASE Relock(i)
  <2>1. UNCHANGED <<sub, invoices, done>> /\ calls' \subseteq calls
    BY <1>3 DEF Relock, Stripe
  <2>2. Hold("configure", i, db) \/ UNCHANGED <<db, tx>>
    BY <1>3 DEF Relock
  <2> QED BY <2>1, <2>2, HoldKept, UntouchedKept, SameCalls
<1>4. CASE StartRelease(i)
  <2>1. UNCHANGED <<sub, invoices, done, calls>>
    BY <1>4 DEF StartRelease, Stripe
  <2>2. Finish(i) \/ Commit(Became(d, i, "scheduled")) \/ Commit(d) \/ Hold("release", i, db)
    BY <1>4 DEF StartRelease
  <2> QED BY <2>1, <2>2, FinishKept, BecameKept, CommitTheSame, HoldKept
<1>5. CASE Undo(i)
  BY <1>5, BecameKept DEF Undo, Stripe
<1>6. CASE ReviewChange(i)
  <2>1. UNCHANGED <<sub, invoices, done, calls>> /\ (Commit(Observed(db)) \/ Commit(Became(db, i, "stopped")))
    BY <1>6 DEF ReviewChange, Stripe
  <2> QED BY <2>1, CommitTheSame, BecameKept
<1> QED BY <1>1, <1>2, <1>3, <1>4, <1>5, <1>6

LEMMA FailKept == ASSUME PlanInv, KeptInv, PlanTypeOK', NEW i, Fail(i) \/ AgeChange(i) PROVE KeptInv'
<1>1. UNCHANGED <<sub, invoices, done>> /\ calls' \subseteq calls
  BY DEF Fail, AgeChange, Stripe
<1> PICK old : old = db.changes
  OBVIOUS
<1>2. CASE Fail(i)
  <2> PICK n : n = old[i].attempts + 1
    OBVIOUS
  <2> PICK state : state = IF n >= MaxFailures THEN "needs_review" ELSE old[i].state
    OBVIOUS
  <2> PICK row : row = [old[i] EXCEPT !.attempts = n, !.state = state]
    OBVIOUS
  <2>1. i \in DOMAIN old /\ old[i] \in Change
    <3> PICK call : call = [what |-> "change failed", id |-> i]
      OBVIOUS
    <3>1. call \in calls
      BY <1>2 DEF Fail
    <3> QED BY <3>1, PlanTx DEF PlanInv, Addressed
  <2>2. Commit(WithChanges(db, [old EXCEPT ![i] = row]))
    BY <1>2, <2>1, ZenonT(60) DEF Fail, WithChanges, Change
  <2> QED BY <1>1, <2>2, ChangeKept, SameCalls
<1>3. CASE AgeChange(i)
  <2> PICK row : row = [old[i] EXCEPT !.old = TRUE]
    OBVIOUS
  <2>1. Commit(WithChanges(db, [old EXCEPT ![i] = row]))
    BY <1>3 DEF AgeChange, WithChanges, Stripe
  <2> QED BY <1>1, <2>1, ChangeKept, SameCalls
<1> QED BY <1>2, <1>3

LEMMA SubmitKept == ASSUME PlanInv, KeptInv, PlanTypeOK', Submit PROVE KeptInv'
<1> PICK d : d = Observed(db)
  OBVIOUS
<1> PICK row : row = [state |-> "preparing", source |-> d.plan, target |-> Choice(d.plan),
                      at |-> d.period, known |-> FALSE, applied |-> FALSE, attempts |-> 0, old |-> FALSE]
  OBVIOUS
<1> PICK rows : rows = Append(d.changes, row)
  OBVIOUS
<1> PICK e : e = WithChanges(d, rows)
  OBVIOUS
<1>1. Commit(e) /\ UNCHANGED <<sub, invoices, done, calls>>
  BY DEF Submit, Stripe, WithChanges
<1>2. e.upgrades = d.upgrades
  BY DraftsSubmitted DEF WithChanges, Saved
<1> QED BY <1>1, <1>2, CommitSameUpgrades, SameCalls

LEMMA CreateKept == ASSUME PlanInv, KeptInv, PlanTypeOK', Create PROVE KeptInv'
<1> PICK i : i = tx.id
  OBVIOUS
<1> PICK old : old = db.changes
  OBVIOUS
<1> PICK row : row = [old[i] EXCEPT !.known = TRUE]
  OBVIOUS
<1>1. UNCHANGED <<sub, invoices, done>>
  BY DEF Create
<1>2. \/ Raise("change failed", i)
      \/ Commit([db EXCEPT !.changes[i].known = TRUE]) /\ \A c \in calls' : c \in calls \/ c.what = "configure"
  BY DEF Create
<1>3. CASE Commit([db EXCEPT !.changes[i].known = TRUE]) /\ \A c \in calls' : c \in calls \/ c.what = "configure"
  <2>1. PICK rows : rows = [old EXCEPT ![i] = row]
    OBVIOUS
  <2>2. Commit(WithChanges(db, rows))
    BY <1>3, <2>1 DEF WithChanges
  <2>3. \A c \in calls' : Failing(c)
    BY <1>3, KeptFacts DEF Failing
  <2> QED BY <1>1, <2>2, <2>3, ChangeKept
<1> QED BY <1>1, <1>2, <1>3, RaiseKept

LEMMA HoldersKept == ASSUME PlanInv, KeptInv, PlanTypeOK', Configure \/ Release \/ Released PROVE KeptInv'
<1> PICK i : i = tx.id
  OBVIOUS
<1>1. CASE Configure
  <2>1. /\ UNCHANGED <<sub, invoices, done>>
        /\ Raise("change failed", i) \/ (Commit(Became(db, i, "scheduled")) /\ calls' \subseteq calls)
    BY <1>1 DEF Configure
  <2> QED BY <2>1, RaiseKept, BecameKept
<1>2. CASE Release
  <2>1. /\ UNCHANGED <<sub, invoices, done>>
        /\ Raise("change failed", i) \/ (Hold("released", i, db) /\ calls' \subseteq calls)
    BY <1>2 DEF Release
  <2> QED BY <2>1, RaiseKept, HoldKept
<1>3. CASE Released
  BY <1>3, FinishKept DEF Released, Stripe
<1> QED BY <1>1, <1>2, <1>3

LEMMA LoseKept == ASSUME PlanInv, KeptInv, PlanTypeOK', Lose PROVE KeptInv'
<1>1. UNCHANGED <<sub, invoices, done>>
  BY DEF Lose, Stripe
<1> PICK i : i = tx.id
  OBVIOUS
<1> PICK what : what = IF tx.pc \in {"charge", "charged"} THEN "upgrade failed" ELSE "change failed"
  OBVIOUS
<1>2. (Commit(db) /\ calls' \subseteq calls) \/ Raise(what, i)
  BY DEF Lose
<1>3. what # "upgrade failed" \/ (tx.pc \in {"charge", "charged"} /\ i = tx.id)
  OBVIOUS
<1> QED BY <1>1, <1>2, <1>3, CommitTheSame, RaiseKept

LEMMA ObservationsKept == ASSUME PlanInv, KeptInv, PlanTypeOK', Observe \/ ChargeSeen PROVE KeptInv'
<1>1. CASE Observe
  BY <1>1, CommitTheSame DEF Observe, Stripe
<1>2. CASE ChargeSeen
  BY <1>2, CommitTheSame DEF ChargeSeen, Stripe
<1> QED BY <1>1, <1>2
-----------------------------------------------------------------------------
\* An upgrade's own handlers.
LEMMA RowTyped ==
    ASSUME NEW d \in Saved, NEW j \in DOMAIN d.upgrades, NEW row \in Upgrade
    PROVE  LET e == WithUpgrades(d, [d.upgrades EXCEPT ![j] = row]) IN
           /\ e \in Saved /\ DOMAIN e.upgrades = DOMAIN d.upgrades
           /\ \A h \in DOMAIN d.upgrades : e.upgrades[h] = IF h = j THEN row ELSE d.upgrades[h]
<1> PICK old : old = d.upgrades
  OBVIOUS
<1> PICK rows : rows = [old EXCEPT ![j] = row]
  OBVIOUS
<1> PICK e : e = WithUpgrades(d, rows)
  OBVIOUS
<1>1. DOMAIN rows = DOMAIN old /\ \A h \in DOMAIN old : rows[h] = IF h = j THEN row ELSE old[h]
  OBVIOUS
<1>2. old \in Seq(Upgrade) /\ \A h \in DOMAIN old : old[h] \in Upgrade
  BY SavedFields
<1>3. rows \in [DOMAIN old -> Upgrade]
  <2>1. rows = [h \in DOMAIN old |-> rows[h]]
    BY <1>1
  <2> QED BY <1>1, <1>2, <2>1
<1>4. rows \in Seq(Upgrade)
  BY <1>2, <1>3, SeqAgain
<1>5. e \in Saved /\ e.upgrades = rows
  BY <1>4 DEF WithUpgrades, Saved
<1> QED BY <1>1, <1>5

LEMMA RowProceeds ==
    ASSUME NEW d \in Saved, NEW j \in DOMAIN d.upgrades, NEW row \in Upgrade, Proceeds(d.upgrades[j], row, j)
    PROVE  LET e == WithUpgrades(d, [d.upgrades EXCEPT ![j] = row]) IN e \in Saved /\ Follows(d, e)
<1> PICK e : e = WithUpgrades(d, [d.upgrades EXCEPT ![j] = row])
  OBVIOUS
<1>1. /\ e \in Saved /\ DOMAIN e.upgrades = DOMAIN d.upgrades
      /\ \A h \in DOMAIN d.upgrades : e.upgrades[h] = IF h = j THEN row ELSE d.upgrades[h]
  BY RowTyped
<1>2. ASSUME NEW h \in DOMAIN d.upgrades PROVE Proceeds(d.upgrades[h], e.upgrades[h], h)
  <2>1. CASE h = j
    BY <1>1, <2>1
  <2>2. CASE h # j
    BY <1>1, <2>2 DEF Proceeds
  <2> QED BY <2>1, <2>2
<1> QED BY <1>1, <1>2 DEF Follows

\* A row is turned: a submitted one stays unresolved, another one is not taken up.
LEMMA TurnedKept ==
    ASSUME PlanInv, KeptInv, UNCHANGED <<sub, invoices, done>>, calls' \subseteq calls,
           NEW d, d = db \/ d = Observed(db), NEW j \in DOMAIN db.upgrades, NEW state \in UpgradeStates \ {"preview"},
           IF db.upgrades[j].submitted THEN state \in Open ELSE state \notin Open, Commit(Turned(d, j, state))
    PROVE  KeptInv'
<1> PICK e : e = Turned(d, j, state)
  OBVIOUS
<1>1. d \in Saved /\ DOMAIN d.upgrades = DOMAIN db.upgrades
  BY DraftsSubmitted
<1>2. e \in Saved /\ DOMAIN e.upgrades = DOMAIN d.upgrades
  BY <1>1, TurnedKeeps
<1>3. d.upgrades[j].submitted = db.upgrades[j].submitted
  <2>1. Follows(db, Observed(db))
    <3> PICK a : a = db
      OBVIOUS
    <3>1. Follows(a, Observed(a))
      BY KeptFacts, ObservedFollows
    <3> QED BY <3>1
  <2> QED BY <2>1 DEF Follows, Proceeds
<1>4. ASSUME NEW h \in DOMAIN d.upgrades PROVE Proceeds(d.upgrades[h], e.upgrades[h], h)
  <2>1. /\ Judgement(d.upgrades[h], e.upgrades[h])
        /\ e.upgrades[h].state = IF h = j THEN state ELSE d.upgrades[h].state
    BY <1>1, <1>4, TurnedJudges
  <2> QED BY <1>3, <2>1 DEF Judgement, Proceeds
<1>5. Follows(d, e)
  BY <1>2, <1>4 DEF Follows
<1> QED BY <1>2, <1>5, SameCalls, CommitFollows

LEMMA FailUpgradeKept == ASSUME PlanInv, KeptInv, PlanTypeOK', NEW j, FailUpgrade(j) PROVE KeptInv'
<1> PICK old : old = db.upgrades
  OBVIOUS
<1> PICK n : n = old[j].attempts + 1
  OBVIOUS
<1> PICK state : state = IF n >= MaxFailures THEN "needs_review" ELSE old[j].state
  OBVIOUS
<1>1. PICK row : row = [old[j] EXCEPT !.attempts = n, !.state = state]
  OBVIOUS
<1>2. UNCHANGED <<sub, invoices, done>> /\ calls' \subseteq calls
  BY DEF FailUpgrade, Stripe
<1>3. j \in DOMAIN old /\ old[j] \in Upgrade /\ old[j].submitted
  <2> PICK call : call = [what |-> "upgrade failed", id |-> j]
    OBVIOUS
  <2>1. call \in calls
    BY DEF FailUpgrade
  <2> QED BY <2>1, KeptFacts, SavedFields DEF Failing
<1>4. Commit(WithUpgrades(db, [old EXCEPT ![j] = row]))
  BY <1>1, <1>3, ZenonT(60) DEF FailUpgrade, WithUpgrades, Upgrade
<1>5. Proceeds(old[j], row, j) /\ row \in Upgrade
  <2>1. state \in UpgradeStates /\ (state = old[j].state \/ state \in Open)
    BY <1>3 DEF Upgrade, UpgradeStates, Open
  <2>2. n \in Nat
    BY <1>3 DEF Upgrade
  <2>3. row \in Upgrade
    BY <1>1, <1>3, <2>1, <2>2 DEF Upgrade, UpgradeStates
  <2>4. /\ row.base = old[j].base /\ row.period = old[j].period /\ row.submitted = old[j].submitted
        /\ row.old = old[j].old /\ row.invoice = old[j].invoice /\ row.applied = old[j].applied /\ row.state = state
    BY <1>1, <1>3 DEF Upgrade
  <2>5. "preview" \notin Open
    BY DEF Open
  <2> QED BY <1>3, <2>1, <2>3, <2>4, <2>5 DEF Proceeds
<1> PICK e : e = WithUpgrades(db, [old EXCEPT ![j] = row])
  OBVIOUS
<1>6. e \in Saved /\ Follows(db, e)
  BY <1>3, <1>5, KeptFacts, RowProceeds
<1> QED BY <1>2, <1>4, <1>6, SameCalls, CommitFollows

LEMMA ExpireQuoteKept == ASSUME PlanInv, KeptInv, NEW j, ExpireQuote(j) PROVE KeptInv'
<1>1. UNCHANGED <<sub, invoices, done, calls>> /\ j \in DOMAIN db.upgrades /\ Commit(Turned(db, j, "expired"))
  BY DEF ExpireQuote, UpgradeIn, Stripe
<1>2. ~db.upgrades[j].submitted
  BY <1>1, KeptFacts DEF ExpireQuote, UpgradeIn, UpgradesSound, Purchase
<1>3. "expired" \in UpgradeStates \ {"preview"} /\ "expired" \notin Open
  BY DEF UpgradeStates, Open
<1> QED BY <1>1, <1>2, <1>3, TurnedKept

\* The keys that may be forgotten are those of rows that are too old to be charged.
LEMMA AgeUpgradeKept == ASSUME PlanInv, KeptInv, PlanTypeOK', NEW j, AgeUpgrade(j) PROVE KeptInv'
<1> PICK old : old = db.upgrades
  OBVIOUS
<1>0. PICK row : row = [old[j] EXCEPT !.old = TRUE]
  OBVIOUS
<1> PICK e : e = WithUpgrades(db, [old EXCEPT ![j] = row])
  OBVIOUS
<1>1. UNCHANGED <<sub, invoices, calls>> /\ done' = done \ {j} /\ j \in DOMAIN old /\ Commit(e)
  BY <1>0 DEF AgeUpgrade, UpgradeIn, WithUpgrades
<1>2. old[j] \in Upgrade
  BY <1>1, KeptFacts, SavedFields
<1>3. row \in Upgrade /\ row.old /\ Proceeds(old[j], row, j)
  BY <1>0, <1>2 DEF Upgrade, Proceeds
<1>4. /\ e \in Saved /\ Follows(db, e) /\ DOMAIN e.upgrades = DOMAIN old
      /\ \A h \in DOMAIN old : e.upgrades[h] = IF h = j THEN row ELSE old[h]
  <2> PICK a : a = db
    OBVIOUS
  <2>1. a \in Saved /\ j \in DOMAIN a.upgrades /\ Proceeds(a.upgrades[j], row, j) /\ old = a.upgrades
        /\ e = WithUpgrades(a, [a.upgrades EXCEPT ![j] = row])
    BY <1>1, <1>3, KeptFacts
  <2>2. e \in Saved /\ Follows(a, e)
    BY <1>3, <2>1, RowProceeds
  <2>3. /\ DOMAIN e.upgrades = DOMAIN a.upgrades
        /\ \A h \in DOMAIN a.upgrades : e.upgrades[h] = IF h = j THEN row ELSE a.upgrades[h]
    BY <1>3, <2>1, RowTyped
  <2> QED BY <2>1, <2>2, <2>3
<1>5. UpgradesSound(e)
  <2> PICK a : a = db
    OBVIOUS
  <2>1. Follows(a, e) /\ a \in Saved /\ UpgradesSound(a)
    BY <1>4, KeptFacts
  <2> QED BY <1>4, <2>1, KeptFacts, FollowsSound
<1>6. UpgradesSound(e)'
  <2>1. ASSUME NEW h \in DOMAIN e.upgrades PROVE Purchase(e, h)'
    BY <1>1, <1>5, <2>1 DEF UpgradesSound, Purchase
  <2>2. ASSUME NEW k \in DOMAIN invoices, invoices[k].by # NoId PROVE Recognised(e, k)'
    <3> PICK h : h = invoices[k].by
      OBVIOUS
    <3>1. Recognised(e, k) /\ h \in DOMAIN e.upgrades
      BY <1>5, <2>2 DEF UpgradesSound, Recognised
    <3>2. h \in done' \/ e.upgrades[h].old
      <4>1. h = j => e.upgrades[h].old
        BY <1>3, <1>4, <3>1
      <4>2. h \in done \/ e.upgrades[h].old
        BY <3>1 DEF Recognised
      <4> QED BY <1>1, <4>1, <4>2
    <3> QED BY <1>1, <3>1, <3>2 DEF Recognised
  <2> QED BY <1>1, <2>1, <2>2 DEF UpgradesSound
<1>7. \A h \in DOMAIN db.upgrades : db.upgrades[h].submitted => e.upgrades[h].submitted
  BY <1>4 DEF Follows, Proceeds
<1> QED BY <1>1, <1>6, <1>7, SameCalls, CommitUpgrades

\* A retry observes first: what it then charges has not been charged.
LEMMA RetryUpgradeKept == ASSUME PlanInv, KeptInv, PlanTypeOK', NEW j, RetryUpgrade(j) PROVE KeptInv'
<1> PICK a : a = db
  OBVIOUS
<1> PICK d : d = Observed(a)
  OBVIOUS
<1> PICK u : u = d.upgrades[j]
  OBVIOUS
<1> PICK w : w = a.upgrades[j]
  OBVIOUS
<1>1. UNCHANGED <<sub, invoices, done, calls>> /\ j \in DOMAIN a.upgrades
  BY DEF RetryUpgrade, UpgradeIn, Stripe
<1>2. w.submitted /\ db.upgrades[j].submitted
  BY <1>1, KeptFacts DEF RetryUpgrade, UpgradeIn, UpgradesSound, Purchase
<1>3. \/ Commit(d)
      \/ Commit(Turned(d, j, "needs_review"))
      \/ /\ Hold("charge", j, d)
         /\ u.invoice = NoId /\ ~u.old /\ Len(invoices) = u.base
  BY DEF RetryUpgrade
<1>4. CASE Commit(d)
  BY <1>1, <1>4, CommitTheSame
<1>5. CASE Commit(Turned(d, j, "needs_review"))
  <2>1. "needs_review" \in UpgradeStates \ {"preview"} /\ "needs_review" \in Open
    BY DEF UpgradeStates, Open
  <2> QED BY <1>1, <1>2, <1>5, <2>1, TurnedKept
<1>6. CASE Hold("charge", j, d) /\ u.invoice = NoId /\ ~u.old /\ Len(invoices) = u.base
  <2>1. /\ d \in Saved /\ UpgradesSound(d) /\ DOMAIN d.upgrades = DOMAIN a.upgrades
        /\ \A h \in DOMAIN a.upgrades : a.upgrades[h].submitted => d.upgrades[h].submitted
    BY DraftsSubmitted
  <2>2. Follows(a, d) /\ UpgradesSound(a)
    BY KeptFacts, ObservedFollows
  <2>3. Unpaid(u) /\ Unpaid(w) /\ w.base = u.base /\ w.period = u.period
    <3>1. Proceeds(w, u, j)
      BY <1>1, <2>2 DEF Follows
    <3>2. \A k \in DOMAIN invoices : k # NoId
      BY KeptFacts, InvoicesAre DEF NoId
    <3> QED BY <1>2, <1>6, <3>1, <3>2 DEF Proceeds, Unpaid
  <2>4. tx'.pc = "charge" /\ tx'.id = j /\ tx'.draft = d /\ db' = a
    BY <1>6 DEF Hold
  <2>5. UpgradesSound(d)' /\ UpgradesSound(a)'
    BY <1>1, <2>1, <2>2 DEF UpgradesSound, Purchase, Recognised
  <2>6. UpgradesSound(db)' /\ UpgradesSound(tx.draft)'
    <3>1. \A e : e = d \/ e = a => UpgradesSound(e)'
      BY <2>5
    <3> QED BY <2>4, <3>1 DEF UpgradesSound, Purchase, Recognised
  <2>7. RenewalSound'
    BY <1>1 DEF KeptInv, RenewalSound
  <2>8. \A c \in calls' : c.what = "upgrade failed" => a.upgrades[c.id].submitted
    BY <1>1 DEF KeptInv, ChargeSound
  <2>9. ChargeSound'
    BY <1>1, <1>2, <1>6, <2>1, <2>3, <2>4, <2>8 DEF ChargeSound
  <2> QED BY <2>6, <2>7, <2>9 DEF KeptInv
<1> QED BY <1>3, <1>4, <1>5, <1>6
\* A confirmed quote is the newest that is submitted, and alone without an invoice.
LEMMA ConfirmQuoteKept == ASSUME PlanInv, KeptInv, PlanTypeOK', NEW j, ConfirmQuote(j) PROVE KeptInv'
<1> PICK a : a = db
  OBVIOUS
<1> PICK d : d = Observed(a)
  OBVIOUS
<1>16. PICK f : f = Turned(d, j, "submitting")
  OBVIOUS
<1>17. PICK old : old = f.upgrades
  OBVIOUS
<1>18. PICK row : row = [old[j] EXCEPT !.submitted = TRUE]
  OBVIOUS
<1>19. PICK e : e = WithUpgrades(f, [old EXCEPT ![j] = row])
  OBVIOUS
<1>1. UNCHANGED <<sub, invoices, done, calls>> /\ j \in DOMAIN a.upgrades /\ a.upgrades[j].state = "preview"
  BY DEF ConfirmQuote, UpgradeIn, Stripe
<1>2. Commit(e)
  BY <1>16, <1>17, <1>18, <1>19 DEF ConfirmQuote, WithUpgrades
<1>3. /\ a \in Saved /\ UpgradesSound(a) /\ d \in Saved /\ UpgradesSound(d) /\ Follows(a, d)
      /\ DOMAIN d.upgrades = DOMAIN a.upgrades
      /\ \A h \in DOMAIN a.upgrades : a.upgrades[h].submitted => d.upgrades[h].submitted
  BY KeptFacts, DraftsSubmitted, ObservedFollows
<1>4. /\ f \in Saved /\ DOMAIN old = DOMAIN d.upgrades
      /\ \A h \in DOMAIN old : h # j => old[h] = d.upgrades[h]
      /\ Judgement(d.upgrades[j], old[j]) /\ old[j].state = "submitting"
  <2>1. "submitting" \in UpgradeStates
    BY DEF UpgradeStates, Open
  <2>2. /\ f \in Saved /\ DOMAIN f.upgrades = DOMAIN d.upgrades
        /\ \A h \in DOMAIN d.upgrades : h # j => f.upgrades[h] = d.upgrades[h]
    <3>1. d \in Saved
      BY <1>3
    <3>2. /\ Turned(d, j, "submitting") \in Saved
          /\ DOMAIN Turned(d, j, "submitting").upgrades = DOMAIN d.upgrades
          /\ \A h \in DOMAIN d.upgrades :
                Turned(d, j, "submitting").upgrades[h] = IF h = j THEN [d.upgrades[h] EXCEPT !.state = "submitting"] ELSE d.upgrades[h]
      BY <2>1, <3>1, TurnedKeeps
    <3>3. \A h \in DOMAIN d.upgrades : h # j => Turned(d, j, "submitting").upgrades[h] = d.upgrades[h]
      BY <3>2
    <3> QED BY <1>16, <3>2, <3>3
  <2>3. j \in DOMAIN d.upgrades
    BY <1>1, <1>3
  <2>4. Judgement(d.upgrades[j], f.upgrades[j]) /\ f.upgrades[j].state = "submitting"
    BY <1>3, <1>16, <2>1, <2>3, TurnedJudges
  <2> QED BY <1>17, <2>2, <2>4
<1>5. row \in Upgrade /\ row.submitted /\ row.state = "submitting" /\ Judgement(d.upgrades[j], [row EXCEPT !.submitted = d.upgrades[j].submitted])
  <2>1. old[j] \in Upgrade
    BY <1>1, <1>3, <1>4, <1>17, SavedFields
  <2> QED BY <1>4, <1>18, <2>1 DEF Judgement, Upgrade
<1>6. /\ row.base = d.upgrades[j].base /\ row.period = d.upgrades[j].period /\ row.invoice = d.upgrades[j].invoice
      /\ row.applied => d.upgrades[j].applied \/ sub.price = High
  BY <1>5 DEF Judgement, Upgrade
<1>7. /\ DOMAIN e.upgrades = DOMAIN a.upgrades
      /\ e.upgrades[j] = row /\ \A h \in DOMAIN a.upgrades : h # j => e.upgrades[h] = d.upgrades[h]
  <2>1. /\ DOMAIN e.upgrades = DOMAIN old
        /\ \A h \in DOMAIN old : e.upgrades[h] = IF h = j THEN row ELSE old[h]
    <3>1. j \in DOMAIN f.upgrades /\ e = WithUpgrades(f, [f.upgrades EXCEPT ![j] = row]) /\ row \in Upgrade /\ f \in Saved
      BY <1>1, <1>3, <1>4, <1>5, <1>17, <1>19
    <3>2. /\ DOMAIN e.upgrades = DOMAIN f.upgrades
          /\ \A h \in DOMAIN f.upgrades : e.upgrades[h] = IF h = j THEN row ELSE f.upgrades[h]
      BY <3>1, RowTyped
    <3> QED BY <1>17, <3>2
  <2> QED BY <1>1, <1>3, <1>4, <2>1
<1>8. Len(d.upgrades) = Len(a.upgrades) /\ Len(e.upgrades) = Len(a.upgrades) /\ j = Len(a.upgrades)
  <2>1. e \in Saved
    BY <1>2 DEF PlanTypeOK, Commit
  <2>2. j = Len(a.upgrades)
    BY <1>1, <1>3 DEF UpgradesSound, Purchase
  <2> QED BY <1>3, <1>7, <2>1, <2>2, SameUpgradeRows
<1>9. ~d.upgrades[j].submitted /\ row.invoice = NoId
  <2>1. ~a.upgrades[j].submitted
    BY <1>1, <1>3 DEF UpgradesSound, Purchase
  <2>2. d.upgrades[j].submitted = a.upgrades[j].submitted
    BY <1>1, <1>3 DEF Follows, Proceeds
  <2> QED BY <1>1, <1>3, <1>6, <2>1, <2>2 DEF UpgradesSound, Purchase
<1>10. \A h \in DOMAIN a.upgrades : d.upgrades[h].submitted => d.upgrades[h].invoice # NoId
  <2>1. ASSUME NEW h \in DOMAIN a.upgrades, d.upgrades[h].submitted PROVE d.upgrades[h].invoice # NoId
    <3>1. Proceeds(a.upgrades[h], d.upgrades[h], h) /\ Purchase(a, h)
      BY <1>3, <2>1 DEF Follows, UpgradesSound
    <3>2. a.upgrades[h].state \notin Open
      BY <2>1 DEF ConfirmQuote, Blocked
    <3>3. a.upgrades[h].invoice # NoId
      BY <2>1, <3>1, <3>2 DEF Purchase, Proceeds
    <3> QED BY <3>1, <3>3 DEF Proceeds
  <2> QED BY <2>1
<1>11. ASSUME NEW h \in DOMAIN e.upgrades PROVE Purchase(e, h)
  <2>1. Purchase(d, h) /\ h <= j
    <3>1. DOMAIN a.upgrades = 1 .. Len(a.upgrades) /\ Len(a.upgrades) \in Nat
      BY <1>3, SameUpgradeRows
    <3> QED BY <1>3, <1>7, <1>8, <1>11, <3>1 DEF UpgradesSound
  <2>2. CASE h = j
    <3>1. \A g \in DOMAIN e.upgrades : g <= j
      <4>1. DOMAIN a.upgrades = 1 .. Len(a.upgrades) /\ Len(a.upgrades) \in Nat
        BY <1>3, SameUpgradeRows
      <4> QED BY <1>7, <1>8, <4>1
    <3>2. "submitting" \in Open /\ "submitting" # "preview"
      BY DEF Open
    <3>3. row.applied /\ row.period = sub.period => sub.price = High
      BY <1>6, <2>1, <2>2 DEF Purchase
    <3> QED BY <1>5, <1>7, <1>9, <2>2, <3>1, <3>2, <3>3 DEF Purchase
  <2>3. CASE h # j
    BY <1>7, <1>8, <1>10, <1>11, <2>1, <2>3 DEF Purchase
  <2> QED BY <2>2, <2>3
<1>12. ASSUME NEW k \in DOMAIN invoices, invoices[k].by # NoId PROVE Recognised(e, k)
  <2>1. Recognised(d, k)
    BY <1>3, <1>12 DEF UpgradesSound
  <2> QED BY <1>3, <1>7, <1>9, <2>1 DEF Recognised
<1>13. UpgradesSound(e)
  BY <1>11, <1>12 DEF UpgradesSound
<1>14. UpgradesSound(e)'
  BY <1>1, <1>13 DEF UpgradesSound, Purchase, Recognised
<1>15. \A h \in DOMAIN db.upgrades : db.upgrades[h].submitted => e.upgrades[h].submitted
  BY <1>3, <1>5, <1>7
<1> QED BY <1>1, <1>2, <1>14, <1>15, SameCalls, CommitUpgrades

LEMMA PreviewKept == ASSUME PlanInv, KeptInv, PlanTypeOK', Preview PROVE KeptInv'
<1> PICK a : a = db
  OBVIOUS
<1> PICK d : d = Observed(a)
  OBVIOUS
<1> PICK old : old = d.upgrades
  OBVIOUS
<1>1. PICK rows : rows = [j \in DOMAIN old |-> IF old[j].state = "preview" THEN [old[j] EXCEPT !.state = "expired"] ELSE old[j]]
  OBVIOUS
<1>2. PICK new : new = [state |-> "preview", submitted |-> FALSE, base |-> Latest(d), invoice |-> NoId,
                        period |-> d.period, applied |-> FALSE, attempts |-> 0, old |-> FALSE]
  OBVIOUS
<1> PICK all : all = Append(rows, new)
  OBVIOUS
<1> PICK e : e = WithUpgrades(d, all)
  OBVIOUS
<1>3. Commit(e) /\ UNCHANGED <<sub, invoices, done, calls>>
  BY <1>1, <1>2 DEF Preview, Stripe, WithUpgrades
<1>4. /\ d \in Saved /\ UpgradesSound(d) /\ DOMAIN old = DOMAIN db.upgrades
      /\ \A h \in DOMAIN db.upgrades : db.upgrades[h].submitted => old[h].submitted
  BY DraftsSubmitted
<1>5. new.state = "preview" /\ ~new.submitted /\ new.invoice = NoId /\ ~new.applied
  BY <1>2
<1>6. ASSUME NEW h \in DOMAIN old
      PROVE  /\ rows[h] \in Upgrade /\ rows[h].state # "preview"
             /\ old[h].submitted => rows[h] = old[h]
             /\ ~old[h].submitted => ~rows[h].submitted /\ rows[h].state \notin Open /\ rows[h].invoice = NoId
             /\ rows[h].applied = old[h].applied /\ rows[h].period = old[h].period
  <2>1. old[h] \in Upgrade /\ Purchase(d, h)
    BY <1>4, <1>6, SavedFields DEF UpgradesSound
  <2>2. CASE old[h].state = "preview"
    <3>1. rows[h] = [old[h] EXCEPT !.state = "expired"]
      BY <1>1, <1>6, <2>2
    <3>2. "expired" \notin Open
      BY DEF Open
    <3> QED BY <2>1, <2>2, <3>1, <3>2 DEF Upgrade, Purchase
  <2>3. CASE old[h].state # "preview"
    <3>1. rows[h] = old[h]
      BY <1>1, <1>6, <2>3
    <3> QED BY <2>1, <2>3, <3>1 DEF Purchase
  <2> QED BY <2>2, <2>3
<1>7. rows \in Seq(Upgrade) /\ DOMAIN rows = DOMAIN old
  <2>1. rows \in [DOMAIN old -> Upgrade]
    BY <1>1, <1>6
  <2>2. old \in Seq(Upgrade)
    BY <1>4, SavedFields
  <2> QED BY <2>1, <2>2, SeqAgain
<1>8. e.upgrades = all
  BY <1>4 DEF WithUpgrades, Saved
<1>9. new \in Upgrade
  <2>1. Latest(d) \in Nat /\ d.period \in Periods
    BY <1>4, PapersAre, SavedFields
  <2> QED BY <1>2, <2>1 DEF Upgrade, NoId
<1>10. /\ DOMAIN rows = 1 .. Len(rows) /\ DOMAIN all = 1 .. Len(rows) + 1 /\ Len(rows) \in Nat
       /\ Len(all) = Len(rows) + 1
       /\ \A k \in DOMAIN rows : all[k] = rows[k]
       /\ all[Len(rows) + 1] = new
  BY <1>7, <1>9, Appended
<1>11. \A h \in DOMAIN all : h \in DOMAIN old \/ h = Len(all)
  BY <1>7, <1>10
<1>12. ASSUME NEW h \in DOMAIN all PROVE Purchase(e, h)
  <2>1. CASE h \in DOMAIN old /\ old[h].submitted
    <3>1. all[h] = old[h] /\ Purchase(d, h)
      BY <1>4, <1>6, <1>7, <1>10, <2>1 DEF UpgradesSound
    <3>2. \A g \in DOMAIN all : all[g].submitted => g \in DOMAIN old /\ old[g].submitted
      BY <1>5, <1>6, <1>7, <1>10, <1>11
    <3> QED BY <1>8, <2>1, <3>1, <3>2 DEF Purchase
  <2>2. CASE h \in DOMAIN old /\ ~old[h].submitted
    <3>1. all[h] = rows[h] /\ Purchase(d, h)
      BY <1>4, <1>7, <1>10, <2>2 DEF UpgradesSound
    <3> QED BY <1>6, <1>8, <2>2, <3>1 DEF Purchase
  <2>3. CASE h = Len(all)
    <3>1. all[h] = new
      BY <1>10, <2>3
    <3>2. "preview" \notin Open
      BY DEF Open
    <3> QED BY <1>5, <1>8, <2>3, <3>1, <3>2 DEF Purchase
  <2> QED BY <1>11, <2>1, <2>2, <2>3
<1>13. ASSUME NEW k \in DOMAIN invoices, invoices[k].by # NoId PROVE Recognised(e, k)
  <2> PICK j : j = invoices[k].by
    OBVIOUS
  <2>1. Recognised(d, k)
    BY <1>4, <1>13 DEF UpgradesSound
  <2>2. j \in DOMAIN old /\ old[j].submitted
    BY <2>1 DEF Recognised
  <2>3. j \in DOMAIN all /\ all[j] = old[j]
    BY <1>6, <1>7, <1>10, <2>2
  <2> QED BY <1>8, <2>1, <2>3 DEF Recognised
<1>14. UpgradesSound(e)'
  <2>1. UpgradesSound(e)
    BY <1>8, <1>12, <1>13 DEF UpgradesSound
  <2> QED BY <1>3, <2>1 DEF UpgradesSound, Purchase, Recognised
<1>15. \A h \in DOMAIN db.upgrades : db.upgrades[h].submitted => e.upgrades[h].submitted
  BY <1>4, <1>6, <1>7, <1>8, <1>10
<1> QED BY <1>3, <1>14, <1>15, SameCalls, CommitUpgrades

-----------------------------------------------------------------------------
\* Stripe.
LEMMA InPlaceKept ==
    ASSUME PlanInv, KeptInv, UNCHANGED <<db, tx, calls, done>>, invoices' \in Seq(Invoice),
           DOMAIN invoices' = DOMAIN invoices,
           \A k \in DOMAIN invoices : /\ invoices'[k].by = invoices[k].by /\ invoices'[k].price = invoices[k].price
                                      /\ invoices'[k].period = invoices[k].period,
           sub'.period = sub.period, sub'.price = sub.price \/ sub'.price = High
    PROVE  KeptInv'
<1>1. Len(invoices') = Len(invoices)
  <2>1. DOMAIN invoices' = 1 .. Len(invoices') /\ Len(invoices') \in Nat
    BY LenProperties
  <2> QED BY <2>1, KeptFacts, InvoicesAre, SameBound
<1>2. RenewalSound'
  BY DEF KeptInv, RenewalSound
<1>3. \A d : UpgradesSound(d) => UpgradesSound(d)'
  BY DEF UpgradesSound, Purchase, Recognised
<1>4. UpgradesSound(db)' /\ UpgradesSound(tx.draft)'
  <2> PICK a : a = db
    OBVIOUS
  <2> PICK b : b = tx.draft
    OBVIOUS
  <2>1. UpgradesSound(a)' /\ UpgradesSound(b)'
    BY <1>3, KeptFacts
  <2>2. db' = a /\ tx'.draft = b
    OBVIOUS
  <2> QED BY <2>1, <2>2 DEF UpgradesSound, Purchase, Recognised
<1>5. ChargeSound'
  BY <1>1 DEF KeptInv, ChargeSound
<1> QED BY <1>2, <1>4, <1>5 DEF KeptInv

LEMMA CollectKept == ASSUME PlanInv, KeptInv, PlanTypeOK', NEW paid \in BOOLEAN, Collect(paid) PROVE KeptInv'
<1> PICK r : r = Renewal
  OBVIOUS
<1> PICK rows : rows = invoices'
  OBVIOUS
<1>1. /\ rows = [invoices EXCEPT ![r].tried = TRUE, ![r].status = IF paid THEN "paid" ELSE @]
      /\ sub' = [sub EXCEPT !.status = IF paid THEN "active" ELSE "past_due"] /\ UNCHANGED <<db, tx, calls, done>>
  BY DEF Collect, Local
<1>2. invoices \in Seq(Invoice) /\ sub \in Subscription /\ invoices' \in Seq(Invoice)
  BY StripeTyped DEF PlanTypeOK
<1>3. ASSUME NEW k \in DOMAIN invoices
      PROVE  /\ rows[k].by = invoices[k].by /\ rows[k].price = invoices[k].price
             /\ rows[k].period = invoices[k].period
  <2>1. invoices[k] \in Invoice
    BY <1>2, SeqMember
  <2>2. rows[k] = IF k = r THEN [invoices[k] EXCEPT !.tried = TRUE, !.status = IF paid THEN "paid" ELSE @] ELSE invoices[k]
    BY <1>1
  <2> QED BY <2>1, <2>2 DEF Invoice
<1>4. sub'.period = sub.period /\ sub'.price = sub.price
  BY <1>1, <1>2 DEF Subscription
<1>5. DOMAIN invoices' = DOMAIN invoices
  BY <1>1
<1> QED BY <1>1, <1>2, <1>3, <1>4, <1>5, InPlaceKept

LEMMA PayUpgradeKept == ASSUME PlanInv, KeptInv, PlanTypeOK', PayUpgrade PROVE KeptInv'
<1> PICK rows : rows = invoices'
  OBVIOUS
<1>1. /\ rows = [k \in DOMAIN invoices |-> IF invoices[k].by = sub.pending
                       THEN [invoices[k] EXCEPT !.status = "paid"] ELSE invoices[k]]
      /\ sub' = [sub EXCEPT !.price = High, !.pending = NoId] /\ UNCHANGED <<db, tx, calls, done>>
  BY DEF PayUpgrade, Local
<1>2. invoices \in Seq(Invoice) /\ sub \in Subscription /\ invoices' \in Seq(Invoice)
  BY StripeTyped DEF PlanTypeOK
<1>3. ASSUME NEW k \in DOMAIN invoices
      PROVE  /\ rows[k].by = invoices[k].by /\ rows[k].price = invoices[k].price
             /\ rows[k].period = invoices[k].period
  <2>1. invoices[k] \in Invoice
    BY <1>2, SeqMember
  <2>2. rows[k] = invoices[k] \/ rows[k] = [invoices[k] EXCEPT !.status = "paid"]
    BY <1>1
  <2> QED BY <2>1, <2>2 DEF Invoice
<1>4. sub'.period = sub.period /\ sub'.price = High
  BY <1>1, <1>2 DEF Subscription
<1>5. DOMAIN invoices' = DOMAIN invoices
  BY <1>1
<1> QED BY <1>1, <1>2, <1>3, <1>4, <1>5, InPlaceKept

LEMMA VoidedKept ==
    ASSUME PlanInv, KeptInv, PlanTypeOK', invoices' = Voided({sub.pending}), UNCHANGED <<db, tx, calls, done>>,
           sub'.period = sub.period, sub'.price = sub.price
    PROVE  KeptInv'
<1> PICK rows : rows = Voided({sub.pending})
  OBVIOUS
<1>1. invoices \in Seq(Invoice) /\ invoices' \in Seq(Invoice) /\ invoices' = rows
  BY StripeTyped DEF PlanTypeOK
<1>2. /\ DOMAIN rows = DOMAIN invoices
      /\ \A k \in DOMAIN invoices : /\ rows[k].by = invoices[k].by /\ rows[k].price = invoices[k].price
                                    /\ rows[k].period = invoices[k].period
  BY <1>1, VoidedInPlace
<1> QED BY <1>1, <1>2, InPlaceKept

LEMMA DiscardUpgradeKept == ASSUME PlanInv, KeptInv, PlanTypeOK', DiscardUpgrade PROVE KeptInv'
<1>1. sub' = [sub EXCEPT !.pending = NoId]
  BY DEF DiscardUpgrade
<1>2. sub'.period = sub.period /\ sub'.price = sub.price
  BY <1>1, StripeTyped DEF Subscription
<1> QED BY <1>2, VoidedKept DEF DiscardUpgrade, Local

LEMMA CancelKept == ASSUME PlanInv, KeptInv, PlanTypeOK', Cancel PROVE KeptInv'
<1>1. sub' = [sub EXCEPT !.status = "canceled", !.pending = NoId]
  BY DEF Cancel
<1>2. sub'.period = sub.period /\ sub'.price = sub.price
  BY <1>1, StripeTyped DEF Subscription
<1> QED BY <1>2, VoidedKept DEF Cancel, Local

LEMMA QuietStripeKept ==
    ASSUME PlanInv, KeptInv, Near \/ (\E i \in Ids : OperatorRelease(i)) \/ (\E call \in calls : Drop(call))
    PROVE  KeptInv'
<1>1. UNCHANGED <<sub, invoices, db, tx, done>> /\ calls' \subseteq calls
  BY DEF Near, OperatorRelease, Drop, Local, Stripe
<1> QED BY <1>1, SameCalls, UntouchedKept

\* A renewal leaves every upgrade behind.
LEMMA RenewKept == ASSUME PlanInv, PaidInv, KeptInv, PlanTypeOK', Renew PROVE KeptInv'
<1>1. PICK price : /\ sub' = [sub EXCEPT !.price = price, !.period = @ + 1, !.pending = NoId]
                   /\ invoices' = Append(Voided({sub.pending}), [price |-> price, period |-> sub.period + 1,
                             status |-> "open", tried |-> FALSE, by |-> NoId])
  BY DEF Renew
<1>2. PICK new : new = [price |-> price, period |-> sub.period + 1, status |-> "open", tried |-> FALSE, by |-> NoId]
  OBVIOUS
<1>3. PICK rows : rows = Voided({sub.pending})
  OBVIOUS
<1>4. UNCHANGED <<db, tx, calls, done>> /\ invoices' = Append(rows, new)
  BY <1>1, <1>2, <1>3 DEF Renew, Local
<1>5. invoices \in Seq(Invoice) /\ sub \in Subscription /\ sub' \in Subscription
  BY StripeTyped DEF PlanTypeOK
<1>6. sub'.price = price /\ sub'.period = sub.period + 1 /\ sub.period \in Nat
  BY <1>1, <1>5 DEF Subscription, Periods
<1>7. new \in Invoice /\ new.by = NoId /\ new.period = sub'.period /\ new.price = sub'.price
  <2>1. price \in Prices /\ sub.period + 1 \in Periods
    BY <1>5, <1>6 DEF Subscription
  <2> QED BY <1>2, <1>6, <2>1 DEF Invoice
<1>8. rows \in Seq(Invoice) /\ DOMAIN rows = DOMAIN invoices
      /\ \A k \in DOMAIN invoices : /\ rows[k].by = invoices[k].by /\ rows[k].price = invoices[k].price
                                    /\ rows[k].period = invoices[k].period
  BY <1>3, <1>5, VoidedTyped, VoidedInPlace
<1>9. PICK n \in Nat : n = Len(rows)
  BY <1>8, LenProperties
<1>10. /\ DOMAIN invoices = 1 .. n /\ DOMAIN invoices' = 1 .. n + 1
       /\ \A k \in 1 .. n : invoices'[k].by = invoices[k].by /\ invoices'[k].price = invoices[k].price
                            /\ invoices'[k].period = invoices[k].period
       /\ invoices'[n + 1] = new
  <2>1. /\ DOMAIN rows = 1 .. Len(rows) /\ DOMAIN invoices' = 1 .. Len(rows) + 1
        /\ \A k \in DOMAIN rows : invoices'[k] = rows[k]
        /\ invoices'[Len(rows) + 1] = new
    BY <1>4, <1>7, <1>8, Appended
  <2> QED BY <1>8, <1>9, <2>1
<1>11. \A k \in 1 .. n : invoices[k].period \in Nat /\ invoices[k].period <= sub.period
  <2>1. ASSUME NEW k \in 1 .. n PROVE invoices[k].period \in Nat /\ invoices[k].period <= sub.period
    <3>1. invoices[k] \in Invoice
      BY <1>5, <1>10, <2>1, InvoicesAre
    <3>2. invoices[k].period <= sub.period
      BY <1>10, <2>1 DEF KeptInv, RenewalSound
    <3> QED BY <3>1, <3>2 DEF Invoice, Periods
  <2> QED BY <2>1
<1>12. RenewalSound'
  <2>1. \A k \in 1 .. n + 1 : invoices'[k].period <= sub'.period
    <3>1. \A k \in 1 .. n + 1 : k \in 1 .. n \/ k = n + 1
      OBVIOUS
    <3> QED BY <1>6, <1>7, <1>10, <1>11, <3>1
  <2>2. n + 1 \in DOMAIN invoices' /\ \A k \in DOMAIN invoices' : ~ (k > n + 1)
    BY <1>10
  <2> QED BY <1>7, <1>10, <2>1, <2>2 DEF RenewalSound
<1>13. ASSUME NEW d \in Saved, RowsSound(d), NEW j \in DOMAIN d.upgrades
       PROVE  d.upgrades[j].period # sub'.period
  <2>1. d.upgrades[j].base \in 1 .. n /\ invoices[d.upgrades[j].base].period = d.upgrades[j].period
    BY <1>10, <1>13 DEF RowsSound
  <2> QED BY <1>6, <1>11, <2>1
<1>14. ASSUME NEW d \in Saved, RowsSound(d), UpgradesSound(d) PROVE UpgradesSound(d)'
  <2>1. ASSUME NEW j \in DOMAIN d.upgrades PROVE Purchase(d, j)'
    <3>1. Purchase(d, j)
      BY <1>14, <2>1 DEF UpgradesSound
    <3>2. d.upgrades[j].period # sub'.period
      BY <1>13, <1>14, <2>1
    <3>3. d.upgrades[j].invoice # NoId => d.upgrades[j].invoice \in DOMAIN invoices'
                                          /\ invoices'[d.upgrades[j].invoice].by = j
      BY <1>10, <3>1 DEF Purchase
    <3> QED BY <3>1, <3>2, <3>3 DEF Purchase
  <2>2. ASSUME NEW k \in DOMAIN invoices', invoices'[k].by # NoId PROVE Recognised(d, k)'
    <3>1. k \in 1 .. n /\ invoices[k].by # NoId
      <4>1. k \in 1 .. n \/ k = n + 1
        BY <1>10, <2>2
      <4> QED BY <1>7, <1>10, <2>2, <4>1
    <3>2. Recognised(d, k)
      BY <1>10, <1>14, <3>1 DEF UpgradesSound
    <3>3. (\A h \in DOMAIN invoices : h > k => invoices[h].by = NoId)
          => \A h \in DOMAIN invoices' : h > k => invoices'[h].by = NoId
      <4>1. \A h \in 1 .. n + 1 : h \in 1 .. n \/ h = n + 1
        OBVIOUS
      <4> QED BY <1>7, <1>10, <4>1
    <3> QED BY <1>4, <1>10, <3>1, <3>2, <3>3 DEF Recognised
  <2> QED BY <2>1, <2>2 DEF UpgradesSound
<1>15. UpgradesSound(db)' /\ UpgradesSound(tx.draft)'
  <2> PICK a : a = db
    OBVIOUS
  <2> PICK b : b = tx.draft
    OBVIOUS
  <2>1. UpgradesSound(a)' /\ UpgradesSound(b)'
    BY <1>14, KeptFacts DEF PaidInv
  <2>2. db' = a /\ tx'.draft = b
    BY <1>4
  <2> QED BY <2>1, <2>2 DEF UpgradesSound, Purchase, Recognised
<1>16. ChargeSound'
  <2>1. tx.pc = "charge" => tx.draft.upgrades[tx.id].period # sub'.period
    BY <1>13, KeptFacts DEF PlanInv, TxOK, PaidInv
  <2> QED BY <1>4, <2>1 DEF KeptInv, ChargeSound
<1> QED BY <1>12, <1>15, <1>16 DEF KeptInv


\* The charge of an upgrade adds its invoice to the one it was bought on.
LEMMA ChargedSound ==
    ASSUME NEW d \in Saved, UpgradesSound(d), invoices \in Seq(Invoice), NEW j \in DOMAIN d.upgrades,
           NEW u, u = d.upgrades[j], Unpaid(u), u.base = Len(invoices), j \notin done, j # NoId,
           NEW new \in Invoice, invoices' = Append(invoices, new), new.by = j, new.price = High, new.period = u.period,
           done' = done \cup {j}, sub'.period = sub.period, sub'.price = sub.price \/ sub'.price = High
    PROVE  UpgradesSound(d)'
<1>1. PICK n \in Nat : n = Len(invoices)
  BY LenProperties
<1>2. /\ DOMAIN invoices = 1 .. n /\ DOMAIN invoices' = 1 .. n + 1
      /\ \A k \in 1 .. n : invoices'[k] = invoices[k]
      /\ invoices'[n + 1] = new
  BY <1>1, Appended, InvoicesAre
<1>3. ASSUME NEW h \in DOMAIN d.upgrades PROVE Purchase(d, h)'
  BY <1>2, <1>3 DEF UpgradesSound, Purchase
<1>4. ASSUME NEW k \in 1 .. n, invoices[k].by # NoId PROVE Recognised(d, k)'
  <2> PICK h : h = invoices[k].by
    OBVIOUS
  <2> PICK v : v = d.upgrades[h]
    OBVIOUS
  <2>1. Recognised(d, k)
    BY <1>2, <1>4 DEF UpgradesSound
  <2>2. v.invoice = k
    <3>1. SUFFICES ASSUME v.invoice # k PROVE FALSE
      OBVIOUS
    <3>2. v.invoice = NoId /\ v.submitted /\ h \in DOMAIN d.upgrades /\ (h \in done \/ v.old)
      BY <2>1, <3>1 DEF Recognised
    <3>3. j <= h /\ h <= j
      BY <3>2 DEF UpgradesSound, Purchase, Unpaid
    <3>4. h \in Int /\ j \in Int
      BY <3>2, SameUpgradeRows
    <3> QED BY <3>2, <3>3, <3>4 DEF Unpaid
  <2> QED BY <1>2, <1>4, <2>1, <2>2 DEF Recognised
<1>5. Recognised(d, n + 1)'
  <2>1. \A h \in DOMAIN invoices' : ~ (h > n + 1)
    BY <1>2
  <2> QED BY <1>1, <1>2, <2>1 DEF Recognised, Unpaid
<1>6. ASSUME NEW k \in DOMAIN invoices', invoices'[k].by # NoId PROVE Recognised(d, k)'
  <2>1. k \in 1 .. n \/ k = n + 1
    BY <1>2, <1>6
  <2>2. k \in 1 .. n => invoices[k].by # NoId
    BY <1>2, <1>6
  <2> QED BY <1>4, <1>5, <2>1, <2>2
<1> QED BY <1>3, <1>6 DEF UpgradesSound

LEMMA ChargedKept ==
    ASSUME PlanInv, KeptInv, tx.pc = "charge", NEW j, j = tx.id, Chargeable(j), Charged(j)
    PROVE  /\ RenewalSound'
           /\ \A d : d = db \/ d = tx.draft => UpgradesSound(d)'
<1> PICK a : a = db
  OBVIOUS
<1> PICK b : b = tx.draft
  OBVIOUS
<1>1. CASE j \in done
  <2>1. UNCHANGED <<sub, invoices, done>>
    BY <1>1 DEF Charged
  <2>2. RenewalSound' /\ UpgradesSound(a)' /\ UpgradesSound(b)'
    BY <2>1 DEF KeptInv, RenewalSound, UpgradesSound, Purchase, Recognised
  <2> QED BY <2>2
<1>2. CASE j \notin done
  <2>1. PICK paid \in BOOLEAN :
            /\ sub' = IF paid THEN [sub EXCEPT !.price = High] ELSE [sub EXCEPT !.pending = j]
            /\ invoices' = Append(invoices, [price |-> High, period |-> sub.period,
                   status |-> IF paid THEN "paid" ELSE "open", tried |-> TRUE, by |-> j])
            /\ done' = done \cup {j}
    BY <1>2 DEF Charged
  <2>2. PICK new : new = [price |-> High, period |-> sub.period,
                          status |-> IF paid THEN "paid" ELSE "open", tried |-> TRUE, by |-> j]
    OBVIOUS
  <2>3. invoices \in Seq(Invoice) /\ sub \in Subscription /\ a \in Saved /\ b \in Saved /\ j \in Ids
        /\ UpgradesSound(a) /\ UpgradesSound(b) /\ j \in DOMAIN a.upgrades /\ j \in DOMAIN b.upgrades
    BY KeptFacts, IdsOf DEF PlanInv, TxOK
  <2>4. new \in Invoice /\ new.by = j /\ new.price = High /\ new.period = sub.period /\ j # NoId
    BY <2>2, <2>3 DEF Invoice, Subscription, Prices, Ids, NoId
  <2>5. invoices' = Append(invoices, new)
    BY <2>1, <2>2
  <2>6. sub'.period = sub.period /\ (sub'.price = sub.price \/ sub'.price = High)
    <3>1. [sub EXCEPT !.price = High].period = sub.period /\ [sub EXCEPT !.price = High].price = High
      BY <2>3 DEF Subscription
    <3>2. [sub EXCEPT !.pending = j].period = sub.period /\ [sub EXCEPT !.pending = j].price = sub.price
      BY <2>3 DEF Subscription
    <3> QED BY <2>1, <3>1, <3>2
  <2>7. /\ Unpaid(b.upgrades[j]) /\ Unpaid(a.upgrades[j])
        /\ a.upgrades[j].base = b.upgrades[j].base /\ a.upgrades[j].period = b.upgrades[j].period
        /\ sub.period = a.upgrades[j].period /\ b.upgrades[j].base = Len(invoices)
    BY <1>2 DEF KeptInv, ChargeSound, Chargeable
  <2>8. UpgradesSound(a)' /\ UpgradesSound(b)'
    <3>1. new.period = a.upgrades[j].period /\ new.period = b.upgrades[j].period
          /\ a.upgrades[j].base = Len(invoices) /\ b.upgrades[j].base = Len(invoices)
      BY <2>4, <2>7
    <3>2. UpgradesSound(a)'
      BY <1>2, <2>1, <2>3, <2>4, <2>5, <2>6, <2>7, <3>1, ChargedSound
    <3>3. UpgradesSound(b)'
      BY <1>2, <2>1, <2>3, <2>4, <2>5, <2>6, <2>7, <3>1, ChargedSound
    <3> QED BY <3>2, <3>3
  <2>9. RenewalSound'
    <3>1. PICK n \in Nat : n = Len(invoices)
      BY <2>3, LenProperties
    <3>2. /\ DOMAIN invoices = 1 .. n /\ DOMAIN invoices' = 1 .. n + 1
          /\ \A k \in 1 .. n : invoices'[k] = invoices[k]
          /\ invoices'[n + 1] = new
      BY <2>3, <2>4, <2>5, <3>1, Appended, InvoicesAre
    <3>3. \A k \in 1 .. n + 1 : k \in 1 .. n \/ k = n + 1
      OBVIOUS
    <3>4. sub.period \in Nat
      BY <2>3 DEF Subscription, Periods
    <3>5. PICK r \in DOMAIN invoices :
              /\ invoices[r].by = NoId /\ invoices[r].period = sub.period
              /\ invoices[r].price = High => sub.price = High
              /\ \A k \in DOMAIN invoices : k > r => invoices[k].by # NoId /\ invoices[k].period = sub.period
      BY DEF KeptInv, RenewalSound
    <3>6. \A k \in DOMAIN invoices' : invoices'[k].period <= sub'.period
      <4>1. \A k \in DOMAIN invoices : invoices[k].period <= sub.period
        BY DEF KeptInv, RenewalSound
      <4> QED BY <2>4, <2>6, <3>2, <3>3, <3>4, <4>1
    <3>7. \A k \in DOMAIN invoices' : k > r => invoices'[k].by # NoId /\ invoices'[k].period = sub'.period
      BY <2>4, <2>6, <3>2, <3>3, <3>5
    <3>8. r \in DOMAIN invoices' /\ invoices'[r].by = NoId /\ invoices'[r].period = sub'.period
          /\ (invoices'[r].price = High => sub'.price = High)
      BY <2>6, <3>2, <3>5
    <3> QED BY <3>6, <3>7, <3>8 DEF RenewalSound
  <2> QED BY <2>8, <2>9
<1> QED BY <1>1, <1>2

LEMMA ChargeUpgradeKept == ASSUME PlanInv, KeptInv, PlanTypeOK', ChargeUpgrade PROVE KeptInv'
<1> PICK j : j = tx.id
  OBVIOUS
<1> PICK a : a = db
  OBVIOUS
<1> PICK b : b = tx.draft
  OBVIOUS
<1>1. tx.pc = "charge"
  BY DEF ChargeUpgrade
<1>2. CASE Chargeable(j) /\ Charged(j) /\ Hold("charged", j, b) /\ UNCHANGED calls
  <2>1. RenewalSound' /\ UpgradesSound(a)' /\ UpgradesSound(b)'
    BY <1>1, <1>2, ChargedKept
  <2>2. db' = a /\ tx'.draft = b /\ tx'.pc = "charged" /\ tx'.id = j
    BY <1>2 DEF Hold
  <2>3. UpgradesSound(db)' /\ UpgradesSound(tx.draft)'
    <3>1. \A e : e = a \/ e = b => UpgradesSound(e)'
      BY <2>1
    <3> QED BY <2>2, <3>1 DEF UpgradesSound, Purchase, Recognised
  <2>4. ChargeSound'
    BY <1>1, <1>2, <2>2 DEF KeptInv, ChargeSound
  <2> QED BY <2>1, <2>3, <2>4 DEF KeptInv
<1>3. CASE Raise("upgrade failed", j) /\ UNCHANGED <<sub, invoices, done>>
  BY <1>1, <1>3, RaiseKept
<1>4. CASE Chargeable(j) /\ Charged(j) /\ Raise("upgrade failed", j)
  <2>1. RenewalSound' /\ UpgradesSound(a)'
    BY <1>1, <1>4, ChargedKept
  <2>2. db' = a /\ tx'.draft = a /\ tx'.pc = "idle"
    BY <1>4 DEF Raise, Commit
  <2>3. UpgradesSound(db)' /\ UpgradesSound(tx.draft)'
    <3>1. \A e : e = a => UpgradesSound(e)'
      BY <2>1
    <3> QED BY <2>2, <3>1 DEF UpgradesSound, Purchase, Recognised
  <2>4. ChargeSound'
    <3>1. \A c \in calls' : c.what = "upgrade failed" => a.upgrades[c.id].submitted
      <4> PICK new : new = [what |-> "upgrade failed", id |-> j]
        OBVIOUS
      <4>1. calls' = calls \cup {new} /\ new.id = j
        BY <1>4 DEF Raise
      <4> QED BY <1>1, <4>1 DEF KeptInv, ChargeSound
    <3> QED BY <2>2, <3>1 DEF ChargeSound
  <2> QED BY <2>1, <2>3, <2>4 DEF KeptInv
<1> QED BY <1>2, <1>3, <1>4 DEF ChargeUpgrade

-----------------------------------------------------------------------------
LEMMA KeptInitially == PlanInit => KeptInv
<1> SUFFICES ASSUME PlanInit PROVE KeptInv
  OBVIOUS
<1>1. PICK p \in Prices :
        /\ sub = [price |-> p, period |-> 1, status |-> "active", pending |-> NoId]
        /\ invoices = <<[price |-> p, period |-> 1, status |-> "paid", tried |-> TRUE, by |-> NoId]>>
        /\ db = [plan |-> p, matches |-> TRUE, period |-> 1, status |-> "active",
                 papers |-> <<[status |-> "paid", tried |-> TRUE, issue |-> FALSE]>>,
                 changes |-> <<>>, upgrades |-> <<>>]
        /\ tx = NoTransaction /\ calls = {}
  BY DEF PlanInit
<1>2. /\ DOMAIN invoices = {1} /\ invoices[1].price = p /\ invoices[1].period = 1 /\ invoices[1].by = NoId
      /\ sub.price = p /\ sub.period = 1
  BY <1>1
<1>3. DOMAIN db.upgrades = {} /\ tx.draft = db /\ tx.pc = "idle"
  BY <1>1 DEF NoTransaction
<1>4. RenewalSound
  BY <1>2 DEF RenewalSound
<1>5. UpgradesSound(db) /\ UpgradesSound(tx.draft)
  BY <1>2, <1>3 DEF UpgradesSound
<1>6. ChargeSound
  BY <1>1, <1>3 DEF ChargeSound
<1> QED BY <1>4, <1>5, <1>6 DEF KeptInv

LEMMA KeptSteps == PlanInv /\ PaidInv /\ KeptInv /\ [PlanNext]_planVars => KeptInv'
<1> SUFFICES ASSUME PlanInv, PaidInv, KeptInv, [PlanNext]_planVars PROVE KeptInv'
  OBVIOUS
<1>0. PlanTypeOK'
  BY PlanSteps DEF PlanInv
<1>1. CASE Holder
  BY <1>0, <1>1, CreateKept, HoldersKept, ChargeUpgradeKept, ObservationsKept DEF Holder
<1>2. CASE Submit \/ Preview \/ Observe \/ Lose
  BY <1>0, <1>2, SubmitKept, PreviewKept, ObservationsKept, LoseKept
<1>3. ASSUME NEW i \in Ids, Advance(i) \/ Undo(i) \/ ReviewChange(i) \/ AgeChange(i)
      PROVE  KeptInv'
  BY <1>0, <1>3, ChangesKeepUpgrades, FailKept DEF Advance
<1>4. ASSUME NEW j \in Ids, Pursue(j)
      PROVE  KeptInv'
  BY <1>0, <1>4, RetryUpgradeKept, FailUpgradeKept DEF Pursue
<1>5. ASSUME NEW j \in Ids, ConfirmQuote(j) \/ ExpireQuote(j) \/ AgeUpgrade(j)
      PROVE  KeptInv'
  BY <1>0, <1>5, ConfirmQuoteKept, ExpireQuoteKept, AgeUpgradeKept
<1>6. CASE Near \/ (\E i \in Ids : OperatorRelease(i)) \/ (\E call \in calls : Drop(call))
  BY <1>6, QuietStripeKept
<1>7. CASE Renew \/ PayUpgrade \/ DiscardUpgrade \/ Cancel
  BY <1>0, <1>7, RenewKept, PayUpgradeKept, DiscardUpgradeKept, CancelKept
<1>8. ASSUME NEW paid \in BOOLEAN, Collect(paid) PROVE KeptInv'
  BY <1>0, <1>8, CollectKept
<1>9. CASE UNCHANGED planVars
  BY <1>9, SameCalls, UntouchedKept DEF planVars
<1> QED BY <1>1, <1>2, <1>3, <1>4, <1>5, <1>6, <1>7, <1>8, <1>9 DEF PlanNext

-----------------------------------------------------------------------------
\* What an observation has written agrees with Stripe.
Exact(d) ==
    /\ DOMAIN d.papers = DOMAIN invoices
    /\ \A k \in DOMAIN invoices : /\ d.papers[k].status = invoices[k].status
                                  /\ d.papers[k].issue => InvoiceIssue(d, k)
    /\ sub.price = d.plan => d.matches

LEMMA ReconciledExact ==
    ASSUME NEW d \in Saved, invoices \in Seq(Invoice), sub \in Subscription
    PROVE  Exact(Reconciled(d)) /\ Reconciled(d) \in Saved
<1>1. PICK papers : papers = ObservedPapers(d)
  OBVIOUS
<1>2. PICK e : e = Reconciled(d)
  OBVIOUS
<1>3. papers \in Seq(Paper)
  BY <1>1, PapersTyped
<1>4. e = [d EXCEPT !.matches = (sub.price = d.plan), !.period = sub.period, !.status = sub.status, !.papers = papers]
  BY <1>1, <1>2 DEF Reconciled
<1>5. /\ e \in Saved /\ e.changes = d.changes /\ e.upgrades = d.upgrades /\ e.plan = d.plan /\ e.papers = papers
      /\ (e.matches <=> sub.price = d.plan)
  BY <1>3, <1>4 DEF Saved, Subscription
<1>6. \A k : InvoiceIssue(e, k) <=> InvoiceIssue(d, k)
  <2>1. \A k, j : PaidBy(e, k) = PaidBy(d, k) /\ (Quoted(e, k, j) <=> Quoted(d, k, j))
    BY <1>5 DEF PaidBy, Quoted
  <2>2. Bindings(e) = Bindings(d) /\ e.plan = d.plan
    BY <1>5 DEF Bindings
  <2>3. \A q : ExpectedPrice(e, q) = ExpectedPrice(d, q)
    BY <2>2 DEF ExpectedPrice
  <2>4. ASSUME NEW k PROVE InvoiceIssue(e, k) <=> InvoiceIssue(d, k)
    <3>1. PaidBy(e, k) = PaidBy(d, k) /\ ExpectedPrice(e, invoices[k].period) = ExpectedPrice(d, invoices[k].period)
      BY <2>1, <2>3
    <3>2. \A j : Quoted(e, k, j) <=> Quoted(d, k, j)
      BY <2>1
    <3> QED BY <3>1, <3>2 DEF InvoiceIssue
  <2> QED BY <2>4
<1>7. /\ DOMAIN papers = DOMAIN invoices
      /\ \A k \in DOMAIN invoices : /\ papers[k].status = invoices[k].status
                                    /\ papers[k].issue => InvoiceIssue(d, k)
  BY <1>1 DEF ObservedPapers
<1>8. Exact(e)
  <2>1. \A k \in DOMAIN invoices : /\ e.papers[k].status = invoices[k].status
                                   /\ e.papers[k].issue => InvoiceIssue(e, k)
    BY <1>5, <1>6, <1>7
  <2> QED BY <1>5, <1>7, <2>1 DEF Exact
<1> QED BY <1>2, <1>5, <1>8

LEMMA ObservedExact ==
    ASSUME NEW d \in Saved, invoices \in Seq(Invoice), sub \in Subscription
    PROVE  Exact(Observed(d))
<1> PICK u : u = ObserveUpgrade(ObserveChange(d))
  OBVIOUS
<1> PICK r : r = Reconciled(u)
  OBVIOUS
<1> PICK e : e = Paid(r)
  OBVIOUS
<1>1. u \in Saved
  BY ObserveChangeKeeps, ObserveUpgradeKeeps DEF KeptBy
<1>2. Exact(r) /\ r \in Saved
  BY <1>1, ReconciledExact
<1>3. Edited(r, e)
  BY <1>2, PaidEdits
<1>4. e.papers = r.papers /\ e.plan = r.plan /\ e.matches = r.matches
  BY <1>3 DEF Edited
<1>5. \A k \in DOMAIN invoices : InvoiceIssue(e, k) <=> InvoiceIssue(r, k)
  <2>1. \A k \in DOMAIN invoices : k # NoId
    BY InvoicesAre DEF NoId
  <2> QED BY <1>3, <2>1, EditedIssues
<1>6. Exact(e)
  BY <1>2, <1>4, <1>5 DEF Exact
<1> QED BY <1>6, ObservedIs

\* The judgement of an invoice looks only at those below it.
LEMMA SourcesRead ==
    ASSUME NEW d, Younger(d), NEW k \in 0 .. Latest(d), NEW f, NEW g, \A h \in 0 .. k - 1 : f[h] = g[h]
    PROVE  AssessedBy(d, f, k, Low, TRUE) = AssessedBy(d, g, k, Low, TRUE)
<1>1. CASE k = 0 \/ PaidBy(d, k) = {}
  BY <1>1 DEF AssessedBy
<1>2. CASE k # 0 /\ PaidBy(d, k) # {}
  <2> DEFINE j == CHOOSE i \in PaidBy(d, k) : TRUE
  <2>1. j \in PaidBy(d, k)
    BY <1>2
  <2>2. d.upgrades[j].base \in 0 .. k - 1
    BY <1>2, <2>1 DEF Younger, PaidBy
  <2>3. f[d.upgrades[j].base] = g[d.upgrades[j].base]
    BY <2>2
  <2> QED BY <1>2, <2>3 DEF AssessedBy
<1> QED BY <1>1, <1>2

LEMMA SourcesUnfold ==
    ASSUME NEW d, Latest(d) \in Nat, Younger(d)
    PROVE  \A k \in 0 .. Latest(d) : Sources(d)[k] = AssessedBy(d, Sources(d), k, Low, TRUE)
<1> DEFINE J(f, k) == AssessedBy(d, f, k, Low, TRUE)
           Solves(f, n) == f = [k \in 0 .. n |-> J(f, k)]
           Unsolved == {n \in 0 .. Latest(d) : ~ \E f : Solves(f, n)}
<1>0. \A k \in 0 .. Latest(d) : \A f, g : (\A h \in 0 .. k - 1 : f[h] = g[h]) => J(f, k) = J(g, k)
  BY SourcesRead
<1>3. Sources(d) = CHOOSE f : f = [k \in 0 .. Latest(d) |-> J(f, k)]
  BY DEF Sources
<1>5. ASSUME \A k \in 0 .. Latest(d) : Sources(d)[k] = J(Sources(d), k)
      PROVE  \A k \in 0 .. Latest(d) : Sources(d)[k] = AssessedBy(d, Sources(d), k, Low, TRUE)
  BY <1>5
<1> HIDE DEF J, Solves
<1>1. ASSUME Unsolved # {} PROVE FALSE
  <2>1. Unsolved \in SUBSET Nat
    OBVIOUS
  <2>2. \E n \in Unsolved : \A m \in Unsolved : n <= m
    <3> HIDE DEF Unsolved
    <3> QED BY <1>1, <2>1, LeastOf
  <2>3. PICK n \in Unsolved : \A m \in Unsolved : n <= m
    BY <2>2
  <2>4. n \in Nat /\ n <= Latest(d)
    OBVIOUS
  <2>5. PICK g : n > 0 => Solves(g, n - 1)
    <3>1. ASSUME n > 0 PROVE \E g : Solves(g, n - 1)
      <4>1. n - 1 \in 0 .. Latest(d) /\ ~ (n <= n - 1)
        BY <2>4, <3>1
      <4>2. n - 1 \notin Unsolved
        BY <2>3, <4>1
      <4> QED BY <4>1, <4>2
    <3> QED BY <3>1
  <2> PICK f : f = [k \in 0 .. n |-> IF k < n THEN g[k] ELSE J(g, n)]
    OBVIOUS
  <2>6. ASSUME NEW k \in 0 .. n PROVE f[k] = J(f, k)
    <3>1. \A h \in 0 .. k - 1 : f[h] = g[h]
      BY <2>4, <2>6
    <3>2. J(f, k) = J(g, k)
      BY <2>4, <3>1, <1>0
    <3>3. CASE k < n
      <4>1. g[k] = J(g, k)
        BY <2>4, <2>5, <3>3 DEF Solves
      <4> QED BY <3>2, <3>3, <4>1
    <3>4. CASE k = n
      BY <3>2, <3>4
    <3> QED BY <2>4, <3>3, <3>4
  <2>7. Solves(f, n)
    BY <2>6 DEF Solves
  <2> QED BY <2>3, <2>7
<1>2. \E f : f = [k \in 0 .. Latest(d) |-> J(f, k)]
  BY <1>1 DEF Solves
<1>4. Sources(d) = [k \in 0 .. Latest(d) |-> J(Sources(d), k)]
  BY <1>2, <1>3
<1> QED BY <1>4, <1>5

-----------------------------------------------------------------------------
\* An observation finds the latest invoice for the newest purchase.
LEMMA LatestIsFound ==
    ASSUME NEW d \in Saved, invoices \in Seq(Invoice), sub \in Subscription, UpgradesSound(d), d = Observed(d),
           Len(invoices) > 0, NEW k, k = Len(invoices), invoices[k].by # NoId
    PROVE  d.upgrades[invoices[k].by].invoice = k
<1>1. k \in DOMAIN invoices /\ k \in Nat /\ k > 0
  BY InvoicesAre
<1>2. PICK j : j = invoices[k].by
  OBVIOUS
<1>3. PICK u : u = d.upgrades[j]
  OBVIOUS
<1>4. /\ j \in DOMAIN d.upgrades /\ u.submitted /\ invoices[k].price = High
      /\ invoices[k].period = u.period /\ u.base = k - 1 /\ (u.invoice = k \/ u.invoice = NoId)
  BY <1>1, <1>2, <1>3 DEF UpgradesSound, Recognised
<1>5. ASSUME u.invoice = NoId PROVE FALSE
  <2>1. PICK c : c = ObserveChange(d)
    OBVIOUS
  <2>2. c \in Saved /\ c.upgrades = d.upgrades
    BY <2>1, ObserveChangeKeeps DEF KeptBy
  <2>3. u.state \in Open /\ \A h \in DOMAIN d.upgrades : d.upgrades[h].submitted => h <= j
    BY <1>3, <1>4, <1>5 DEF UpgradesSound, Purchase
  <2>4. PICK submitted : submitted = {g \in DOMAIN d.upgrades : d.upgrades[g].submitted}
    OBVIOUS
  <2>5. j = Last(submitted) /\ submitted # {}
    <3>1. DOMAIN d.upgrades = 1 .. Len(d.upgrades) /\ Len(d.upgrades) \in Nat
      BY SavedFields, LenProperties
    <3>2. j \in submitted /\ \A h \in submitted : h <= j
      BY <1>3, <1>4, <2>3, <2>4
    <3>3. PICK z : z = Last(submitted)
      OBVIOUS
    <3>4. z \in submitted /\ j <= z
      BY <2>4, <3>1, <3>2, <3>3, LastOf
    <3>5. z <= j /\ z \in Nat /\ j \in Nat
      BY <2>4, <3>1, <3>2, <3>4
    <3> QED BY <3>2, <3>3, <3>4, <3>5
  <2>6. Quoted(c, k, j) /\ k # u.base /\ u.state \notin {"applied", "expired"}
    <3>1. u.state \notin {"applied", "expired"}
      BY <2>3 DEF Open
    <3> QED BY <1>1, <1>2, <1>3, <1>4, <2>2, <3>1 DEF Quoted
  <2>7. PICK f : f = Evidence(WithInvoice(c, j))
    OBVIOUS
  <2>8. ObserveUpgrade(c) = Judged(f, j)
    <3>1. submitted = {g \in DOMAIN c.upgrades : c.upgrades[g].submitted} /\ u = c.upgrades[j]
      BY <1>3, <2>2, <2>4
    <3> QED BY <1>5, <2>2, <2>5, <2>6, <2>7, <3>1, ObserveUpgradeIs
  <2>9. f \in Saved /\ j \in DOMAIN f.upgrades /\ f.upgrades[j].invoice = k
    <3>1. PICK w : w = WithInvoice(c, j)
      OBVIOUS
    <3>2. w \in Saved /\ DOMAIN w.upgrades = DOMAIN d.upgrades /\ w.upgrades[j] = [u EXCEPT !.invoice = k]
      BY <1>3, <1>4, <2>2, <3>1, InvoiceFound
    <3>3. f \in Saved /\ f.upgrades = w.upgrades
      BY <2>7, <3>1, <3>2, EvidenceKeeps
    <3>4. u \in Upgrade
      BY <1>3, <1>4, SavedFields
    <3>5. [u EXCEPT !.invoice = k].invoice = k
      BY <3>4 DEF Upgrade
    <3> QED BY <1>4, <3>2, <3>3, <3>5
  <2>10. Judged(f, j).upgrades[j].invoice = k
    BY <2>9, JudgedRows DEF Judgement
  <2>11. d.upgrades = Judged(f, j).upgrades
    BY <2>1, <2>8, ObservedUpgrades
  <2> QED BY <1>1, <1>3, <1>5, <2>10, <2>11 DEF NoId
<1> QED BY <1>2, <1>3, <1>4, <1>5

LEMMA PaidIsKept == PlanInv /\ PaidInv /\ KeptInv => PaidPlanIsKept
<1> SUFFICES ASSUME PlanInv, PaidInv, KeptInv, NEW d, d = db, d = Observed(d),
                    sub.status = "active", sub.price = Low, d.plan = Low,
                    ExpectedPrice(d, sub.period) = Low, invoices[Renewal].status = "paid"
             PROVE  Access(d) = Low
  BY DEF PaidPlanIsKept
<1>1. /\ d \in Saved /\ invoices \in Seq(Invoice) /\ sub \in Subscription /\ Len(invoices) > 0
      /\ UpgradesSound(d) /\ RowsSound(d) /\ StripeSound
  BY KeptFacts DEF PaidInv
<1>2. PICK n \in Nat : n = Len(invoices)
  BY <1>1, LenProperties
<1>3. DOMAIN invoices = 1 .. n /\ n > 0 /\ \A k \in 1 .. n : invoices[k] \in Invoice
  BY <1>1, <1>2, InvoicesAre
<1>4. Latest(d) = n /\ d.period = sub.period /\ d.status = "active" /\ Exact(d)
  BY <1>1, <1>2, ObservationSound, ObservedKeeps, ObservedExact
<1>5. d.matches = TRUE
  BY <1>1, <1>4 DEF Exact, Saved
<1>6. \A j \in DOMAIN d.upgrades : j # NoId
  <2>1. DOMAIN d.upgrades = 1 .. Len(d.upgrades)
    BY <1>1, SavedFields, LenProperties
  <2> QED BY <2>1 DEF NoId
<1>7. PICK r \in 1 .. n :
          /\ invoices[r].by = NoId /\ invoices[r].period = sub.period
          /\ invoices[r].price = High => sub.price = High
          /\ \A k \in 1 .. n : k > r => invoices[k].by # NoId /\ invoices[k].period = sub.period
  BY <1>3 DEF KeptInv, RenewalSound
<1>8. invoices[r].status = "paid"
  <2>1. PICK S : S = {k \in 1 .. n : invoices[k].by = NoId}
    OBVIOUS
  <2>2. r \in S /\ \A k \in S : k <= r
    BY <1>7, <2>1
  <2>3. Last(S) \in S /\ r <= Last(S)
    BY <2>1, <2>2, LastOf
  <2>4. Last(S) = r
    BY <2>1, <2>2, <2>3
  <2> QED BY <1>3, <2>1, <2>4 DEF Renewal
<1>9. invoices[r].price = Low
  <2>1. invoices[r].price \in Prices
    BY <1>3 DEF Invoice
  <2> QED BY <1>7, <2>1 DEF Prices, Low, High
<1>10. PaidBy(d, r) = {} /\ ~InvoiceIssue(d, r)
  <2>1. ASSUME NEW j \in PaidBy(d, r) PROVE FALSE
    <3>1. j \in DOMAIN d.upgrades /\ d.upgrades[j].invoice = r /\ r # NoId
      BY DEF PaidBy, NoId
    <3>2. invoices[r].by = j
      BY <1>1, <3>1 DEF UpgradesSound, Purchase
    <3> QED BY <1>6, <1>7, <3>1, <3>2
  <2> QED BY <1>7, <1>9, <2>1 DEF InvoiceIssue
<1>11. d.papers[r].status = "paid" /\ ~d.papers[r].issue
  BY <1>3, <1>4, <1>8, <1>10 DEF Exact
<1>12. \A source : AssessedBy(d, source, r, Low, TRUE) = "covered"
  BY <1>4, <1>7, <1>10, <1>11 DEF AssessedBy
<1>13. ASSUME NEW k \in 1 .. n, k > r
       PROVE  \A source : AssessedBy(d, source, k, Low, TRUE) = source[k - 1]
  <2>1. PICK j : j = invoices[k].by
    OBVIOUS
  <2>2. PICK u : u = d.upgrades[j]
    OBVIOUS
  <2>3. j # NoId /\ invoices[k].period = sub.period
    BY <1>7, <1>13, <2>1
  <2>4. Recognised(d, k)
    BY <1>1, <1>3, <2>1, <2>3 DEF UpgradesSound
  <2>5. j \in DOMAIN d.upgrades /\ u.period = sub.period /\ u.base = k - 1
    BY <2>1, <2>2, <2>3, <2>4 DEF Recognised
  <2>6. ~u.applied
    <3>1. u.applied /\ u.period = sub.period => sub.price = High
      BY <1>1, <2>2, <2>5 DEF UpgradesSound, Purchase
    <3> QED BY <2>5, <3>1 DEF Low, High
  <2>7. u.invoice = k
    <3>1. CASE u.invoice = NoId
      <4>1. \A h \in 1 .. n : h > k => invoices[h].by = NoId
        BY <1>3, <2>1, <2>2, <2>3, <2>4, <3>1, <1>13 DEF Recognised, NoId
      <4>2. \A h \in 1 .. n : ~ (h > k)
        BY <1>7, <1>13, <4>1
      <4>3. k = n
        BY <4>2
      <4> QED BY <1>1, <1>2, <2>1, <2>2, <2>3, <4>3, LatestIsFound
    <3> QED BY <2>1, <2>2, <2>4, <3>1 DEF Recognised
  <2>8. PaidBy(d, k) = {j}
    <3>1. ASSUME NEW h \in PaidBy(d, k) PROVE h = j
      <4>1. h \in DOMAIN d.upgrades /\ d.upgrades[h].invoice = k /\ k # NoId
        BY DEF PaidBy, NoId
      <4> QED BY <1>1, <2>1, <4>1 DEF UpgradesSound, Purchase
    <3>2. j \in PaidBy(d, k)
      BY <2>2, <2>5, <2>7 DEF PaidBy
    <3> QED BY <3>1, <3>2
  <2>9. (CHOOSE i \in PaidBy(d, k) : TRUE) = j
    BY <2>8
  <2> QED BY <2>2, <2>5, <2>6, <2>8, <2>9 DEF AssessedBy, SourceStands
<1>14. \A k \in 0 .. n : Sources(d)[k] = AssessedBy(d, Sources(d), k, Low, TRUE)
  BY <1>1, <1>4, SoundIsYounger, SourcesUnfold
<1>15. Sources(d)[n] = "covered"
  <2>1. PICK Bad : Bad = {k \in r .. n : Sources(d)[k] # "covered"}
    OBVIOUS
  <2>2. ASSUME Bad # {} PROVE FALSE
    <3>1. Bad \in SUBSET Nat
      BY <2>1
    <3>2. PICK k \in Bad : \A h \in Bad : k <= h
      BY <2>2, <3>1, LeastOf
    <3>3. k \in 0 .. n /\ k \in r .. n /\ Sources(d)[k] # "covered"
      BY <2>1
    <3>4. k # r
      BY <1>12, <1>14, <3>3
    <3>5. k > r /\ k \in 1 .. n /\ k - 1 \in r .. n /\ ~ (k <= k - 1)
      BY <3>3, <3>4
    <3>6. Sources(d)[k - 1] = "covered"
      BY <2>1, <3>2, <3>5
    <3>7. Sources(d)[k] = Sources(d)[k - 1]
      BY <1>13, <1>14, <3>3, <3>5
    <3> QED BY <3>3, <3>6, <3>7
  <2> QED BY <2>1, <2>2
<1>16. Covered(d)
  <2>1. n \in 0 .. n
    OBVIOUS
  <2>2. Sources(d)[n] = AssessedBy(d, Sources(d), n, Low, TRUE)
    BY <1>14, <2>1
  <2>3. AssessedBy(d, Sources(d), n, Low, TRUE) = "covered"
    BY <1>15, <2>2
  <2> QED BY <1>4, <1>5, <2>3 DEF Covered, Assessment
<1> QED BY <1>4, <1>5, <1>16 DEF Access

\* An upgrade that is unpaid, discarded or unresolved takes nothing away: whoever has
\* paid this period's renewal at the lower price, charged and bound, keeps that plan
\* (AssessedBy, InvoiceIssue, ObserveUpgrade).
THEOREM PaidStaysKept == PlanSpec => []PaidPlanIsKept
<1>1. PlanInit => PlanInv /\ PaidInv /\ KeptInv
  BY PlanInitially, PaidInitially, KeptInitially
<1>2. PlanInv /\ PaidInv /\ KeptInv /\ [PlanNext]_planVars => PlanInv' /\ PaidInv' /\ KeptInv'
  BY PlanSteps, PaidSteps, KeptSteps
<1>3. PlanInv /\ PaidInv /\ KeptInv => PaidPlanIsKept
  BY PaidIsKept
<1> QED BY <1>1, <1>2, <1>3, PTL DEF PlanSpec

-----------------------------------------------------------------------------
(* Recurrence.  around is right for every calendar, zone and schedule.  The    *)
(* dates of a schedule are a day apart on the wall clock, and a change of      *)
(* offset of a day at most does not turn two of them round: so the occurrences *)
(* rise, the two loops stop at the latest that has come, and the next is the   *)
(* earliest that has not.  A recursive function is unfolded by way of one that *)
(* solves it.                                                                  *)

\* The first day of a month from that of the one before, as saved in f.
DayBy(f, m) == IF m <= 1 THEN 0 ELSE f[m - 1] + MonthLengths[m - 1]
CountsTo(f, n) == \A m \in 0 .. n : f[m] = DayBy(f, m)

LEMMA DaysCounted == \A n \in Nat : \E f : CountsTo(f, n)
<1> DEFINE S == {n \in Nat : ~ \E f : CountsTo(f, n)}
<1>1. SUFFICES ASSUME S # {} PROVE FALSE
  OBVIOUS
<1>2. PICK n \in S : \A y \in S : n <= y
  BY <1>1, LeastOf
<1>3. n \in Nat /\ ~ \E f : CountsTo(f, n)
  BY <1>2
<1>4. CASE n = 0
  <2> DEFINE g == [m \in {0} |-> 0]
  <2>1. CountsTo(g, 0)
    BY DEF CountsTo, DayBy
  <2> QED BY <1>3, <1>4, <2>1
<1>5. CASE n > 0
  <2>1. n - 1 \in Nat /\ n - 1 \notin S
    BY <1>2, <1>3, <1>5
  <2>2. PICK f : CountsTo(f, n - 1)
    BY <2>1
  <2> DEFINE g == [m \in 0 .. n |-> IF m = n THEN DayBy(f, n) ELSE f[m]]
  <2>3. ASSUME NEW m \in 0 .. n PROVE g[m] = DayBy(g, m)
    <3>1. DayBy(g, m) = DayBy(f, m)
      BY <1>3, <1>5 DEF DayBy
    <3>2. m # n => m \in 0 .. n - 1
      BY <1>3, <1>5
    <3>3. m # n => f[m] = DayBy(f, m)
      BY <2>2, <3>2 DEF CountsTo
    <3> QED BY <3>1, <3>3
  <2>4. CountsTo(g, n)
    BY <2>3 DEF CountsTo
  <2> QED BY <1>3, <2>4
<1> QED BY <1>3, <1>4, <1>5

LEMMA DaysAgree ==
    ASSUME NEW n \in Nat, NEW f, CountsTo(f, n), NEW g, CountsTo(g, n)
    PROVE  \A m \in 0 .. n : f[m] = g[m]
<1> DEFINE S == {m \in 0 .. n : f[m] # g[m]}
<1>1. SUFFICES ASSUME S # {} PROVE FALSE
  OBVIOUS
<1>2. PICK m \in S : \A y \in S : m <= y
  <2>1. S \in SUBSET Nat
    OBVIOUS
  <2> QED BY <1>1, <2>1, LeastOf
<1>3. m \in 0 .. n /\ f[m] = DayBy(f, m) /\ g[m] = DayBy(g, m)
  BY <1>2 DEF CountsTo
<1>4. m > 1 => f[m - 1] = g[m - 1]
  <2>1. m > 1 => m - 1 \in 0 .. n /\ ~ (m <= m - 1)
    BY <1>3
  <2> QED BY <1>2, <2>1
<1>5. f[m] = g[m]
  BY <1>3, <1>4 DEF DayBy
<1> QED BY <1>2, <1>5

LEMMA FirstDays == FirstDay = [m \in Nat |-> DayBy(FirstDay, m)]
<1> DEFINE F(n) == CHOOSE f : CountsTo(f, n)
           G == [n \in Nat |-> F(n)[n]]
<1>1. ASSUME NEW n \in Nat PROVE CountsTo(F(n), n)
  BY DaysCounted
<1>2. ASSUME NEW m \in Nat PROVE G[m] = DayBy(G, m)
  <2>1. G[m] = F(m)[m] /\ F(m)[m] = DayBy(F(m), m)
    BY <1>1 DEF CountsTo
  <2>2. m > 1 => G[m - 1] = F(m)[m - 1]
    <3>1. SUFFICES ASSUME m > 1 PROVE G[m - 1] = F(m)[m - 1]
      OBVIOUS
    <3>2. m - 1 \in Nat /\ m - 1 \in 0 .. m - 1 /\ G[m - 1] = F(m - 1)[m - 1]
      BY <3>1
    <3>3. CountsTo(F(m - 1), m - 1)
      BY <1>1, <3>2
    <3>4. CountsTo(F(m), m - 1)
      <4>1. CountsTo(F(m), m)
        BY <1>1
      <4> QED BY <4>1, <3>1 DEF CountsTo
    <3>5. F(m - 1)[m - 1] = F(m)[m - 1]
      <4> HIDE DEF F
      <4> QED BY <3>2, <3>3, <3>4, DaysAgree
    <3> QED BY <3>2, <3>5
  <2> HIDE DEF G, F
  <2>3. DayBy(F(m), m) = DayBy(G, m)
    BY <2>2 DEF DayBy
  <2> QED BY <2>1, <2>3
<1>3. G = [m \in Nat |-> DayBy(G, m)]
  <2>1. \A m \in Nat : G[m] = DayBy(G, m)
    BY <1>2
  <2>2. G = [m \in Nat |-> G[m]]
    OBVIOUS
  <2> HIDE DEF G
  <2> QED BY <2>1, <2>2
<1>4. FirstDay = CHOOSE f : f = [m \in Nat |-> DayBy(f, m)]
  BY DEF FirstDay, DayBy
<1> HIDE DEF G
<1> QED BY <1>3, <1>4

LEMMA NextFirstDay ==
    /\ FirstDay[1] = 0
    /\ \A m \in Months : FirstDay[m + 1] = FirstDay[m] + MonthLengths[m]
<1>1. \A m \in Nat : FirstDay[m] = DayBy(FirstDay, m)
  BY FirstDays
<1>2. Months \in SUBSET Nat /\ \A m \in Months : m + 1 > 1 /\ m + 1 - 1 = m
  BY CalendarAssumption DEF Months
<1>3. FirstDay[1] = 0
  BY <1>1 DEF DayBy
<1>4. ASSUME NEW m \in Months PROVE FirstDay[m + 1] = FirstDay[m] + MonthLengths[m]
  <2>1. m + 1 \in Nat /\ ~ (m + 1 <= 1) /\ (m + 1) - 1 = m
    BY <1>2
  <2>2. FirstDay[m + 1] = DayBy(FirstDay, m + 1)
    BY <1>1, <2>1
  <2> QED BY <2>1, <2>2 DEF DayBy
<1> QED BY <1>3, <1>4

Lengths == Len(MonthLengths)

LEMMA Calendars ==
    /\ Lengths \in Nat /\ Lengths > 3 /\ Months = 1 .. Lengths
    /\ DayLength \in Nat /\ DayLength > 0
    /\ \A m \in Months : MonthLengths[m] \in 28 .. 31
<1>1. Lengths \in Nat
  BY CalendarAssumption DEF Lengths
<1> QED BY <1>1, CalendarAssumption, ZoneAssumption DEF Lengths, Months

\* The first days of the calendar and of the month after it are numbers.
LEMMA FirstDayIsNat == \A m \in 1 .. Lengths + 1 : FirstDay[m] \in Nat
<1> DEFINE S == {m \in 1 .. Lengths + 1 : FirstDay[m] \notin Nat}
<1>1. SUFFICES ASSUME S # {} PROVE FALSE
  OBVIOUS
<1>2. PICK m \in S : \A y \in S : m <= y
  <2>1. S \in SUBSET Nat
    BY Calendars
  <2> QED BY <1>1, <2>1, LeastOf
<1>3. m \in 1 .. Lengths + 1 /\ m # 1
  BY <1>2, NextFirstDay
<1>4. m - 1 \in Months /\ m - 1 \in 1 .. Lengths + 1 /\ (m - 1) + 1 = m
  BY <1>3, Calendars
<1>5. FirstDay[m - 1] \in Nat
  <2>1. m - 1 \notin S
    BY <1>2, <1>3, Calendars
  <2> QED BY <2>1, <1>4
<1>6. FirstDay[m] = FirstDay[m - 1] + MonthLengths[m - 1]
  <2>1. FirstDay[(m - 1) + 1] = FirstDay[m - 1] + MonthLengths[m - 1]
    BY <1>4, NextFirstDay
  <2> QED BY <2>1, <1>4
<1>7. MonthLengths[m - 1] \in Nat
  BY <1>4, Calendars
<1> QED BY <1>2, <1>5, <1>6, <1>7

LEMMA MonthsCount ==
    \A m \in Months : FirstDay[m] \in Nat /\ MonthLengths[m] \in Nat /\ MonthLengths[m] > 0
<1>1. TAKE m \in Months
<1>2. m \in 1 .. Lengths + 1 /\ MonthLengths[m] \in 28 .. 31
  BY Calendars
<1> QED BY <1>2, FirstDayIsNat

\* A later month begins after the earlier one has ended.
LEMMA LaterMonth ==
    \A m \in Months, n \in 1 .. Lengths + 1 : m < n => FirstDay[m] + MonthLengths[m] <= FirstDay[n]
<1>1. TAKE m \in Months
<1> DEFINE S == {n \in 1 .. Lengths + 1 : m < n /\ ~ (FirstDay[m] + MonthLengths[m] <= FirstDay[n])}
<1>2. SUFFICES ASSUME S # {} PROVE FALSE
  OBVIOUS
<1>3. PICK n \in S : \A y \in S : n <= y
  <2>1. S \in SUBSET Nat
    BY Calendars
  <2> QED BY <1>2, <2>1, LeastOf
<1>4. n \in 1 .. Lengths + 1 /\ m < n /\ ~ (FirstDay[m] + MonthLengths[m] <= FirstDay[n])
  BY <1>3
<1>5. n - 1 \in Months /\ n - 1 \in 1 .. Lengths + 1 /\ (n - 1) + 1 = n /\ m \in 1 .. Lengths
  BY <1>1, <1>4, Calendars
<1>6. FirstDay[n] = FirstDay[n - 1] + MonthLengths[n - 1]
  <2>1. FirstDay[(n - 1) + 1] = FirstDay[n - 1] + MonthLengths[n - 1]
    BY <1>5, NextFirstDay
  <2> QED BY <2>1, <1>5
<1>7. n # m + 1
  <2>1. SUFFICES ASSUME n = m + 1 PROVE FALSE
    OBVIOUS
  <2>2. n - 1 = m
    BY <2>1, <1>5, Calendars
  <2>3. FirstDay[m] \in Nat /\ MonthLengths[m] \in Nat
    BY <1>1, MonthsCount
  <2> QED BY <2>2, <2>3, <1>4, <1>6
<1>8. FirstDay[m] + MonthLengths[m] <= FirstDay[n - 1]
  <2>1. n - 1 \notin S
    BY <1>3, <1>4, Calendars
  <2>2. m < n - 1
    BY <1>4, <1>5, <1>7, Calendars
  <2> QED BY <2>1, <2>2, <1>5
<1>9. /\ FirstDay[m] \in Nat /\ FirstDay[n - 1] \in Nat
      /\ MonthLengths[m] \in Nat /\ MonthLengths[n - 1] \in Nat
  BY <1>1, <1>5, MonthsCount
<1> QED BY <1>4, <1>6, <1>8, <1>9

LEMMA TimesRises ==
    ASSUME NEW a \in Int, NEW b \in Int, NEW c \in Nat, a <= b
    PROVE  a * c <= b * c
<1>1. PICK e \in Nat : b = a + e
  BY b - a \in Nat
<1>2. (a + e) * c = a * c + e * c
  OBVIOUS
<1>3. e * c \in Nat /\ a * c \in Int
  OBVIOUS
<1> QED BY <1>1, <1>2, <1>3

LEMMA DayIs ==
    ASSUME NEW wall \in Nat
    PROVE  /\ Day(wall) \in Nat /\ wall % DayLength \in 0 .. DayLength - 1
           /\ wall = Day(wall) * DayLength + (wall % DayLength)
<1>1. DayLength \in Nat /\ DayLength > 0
  BY Calendars
<1>2. /\ wall \div DayLength \in Int /\ wall % DayLength \in 0 .. DayLength - 1
      /\ wall = DayLength * (wall \div DayLength) + (wall % DayLength)
  BY <1>1
<1>3. wall \div DayLength >= 0
  BY <1>1, <1>2
<1>4. DayLength * (wall \div DayLength) = (wall \div DayLength) * DayLength
  BY <1>1, <1>2
<1> QED BY <1>2, <1>3, <1>4 DEF Day

\* A wall clock is before a day exactly when its own day is.
LEMMA DayBefore ==
    ASSUME NEW wall \in Nat, NEW d \in Nat
    PROVE  wall < d * DayLength <=> Day(wall) < d
<1>1. DayLength \in Nat /\ DayLength > 0
  BY Calendars
<1>2. /\ Day(wall) \in Nat /\ wall % DayLength \in 0 .. DayLength - 1
      /\ wall = Day(wall) * DayLength + (wall % DayLength)
  BY DayIs
<1>3. CASE Day(wall) < d
  <2>1. (Day(wall) + 1) * DayLength <= d * DayLength
    BY <1>1, <1>2, <1>3, TimesRises
  <2>2. (Day(wall) + 1) * DayLength = Day(wall) * DayLength + DayLength
    BY <1>1, <1>2
  <2>3. d * DayLength \in Int /\ Day(wall) * DayLength \in Int
    BY <1>1, <1>2
  <2> QED BY <2>1, <2>2, <2>3, <1>1, <1>2, <1>3
<1>4. CASE d <= Day(wall)
  <2>1. d * DayLength <= Day(wall) * DayLength
    BY <1>1, <1>2, <1>4, TimesRises
  <2>2. d * DayLength \in Int /\ Day(wall) * DayLength \in Int
    BY <1>1, <1>2
  <2> QED BY <2>1, <2>2, <1>1, <1>2, <1>4
<1> QED BY <1>2, <1>3, <1>4

\* Every day of the calendar has its month.
LEMMA MonthOfDay ==
    ASSUME NEW wall \in Nat, Day(wall) < FirstDay[Lengths + 1]
    PROVE  /\ MonthOf(wall) \in Months
           /\ FirstDay[MonthOf(wall)] <= Day(wall)
           /\ Day(wall) < FirstDay[MonthOf(wall)] + MonthLengths[MonthOf(wall)]
<1> DEFINE S == {m \in 1 .. Lengths + 1 : Day(wall) < FirstDay[m]}
<1>1. S \in SUBSET Nat /\ Lengths + 1 \in S
  BY Calendars
<1>2. PICK m \in S : \A y \in S : m <= y
  BY <1>1, LeastOf
<1>3. Day(wall) \in Nat
  BY DayIs
<1>4. m # 1
  BY <1>2, <1>3, NextFirstDay
<1>5. m - 1 \in Months /\ m - 1 \in 1 .. Lengths + 1 /\ (m - 1) + 1 = m
  BY <1>2, <1>4, Calendars
<1>6. FirstDay[m] = FirstDay[m - 1] + MonthLengths[m - 1]
  <2>1. FirstDay[(m - 1) + 1] = FirstDay[m - 1] + MonthLengths[m - 1]
    BY <1>5, NextFirstDay
  <2> QED BY <2>1, <1>5
<1>7. FirstDay[m - 1] <= Day(wall)
  <2>1. m - 1 \notin S
    BY <1>2, <1>5, Calendars
  <2>2. FirstDay[m - 1] \in Nat
    BY <1>5, FirstDayIsNat
  <2> QED BY <2>1, <2>2, <1>3, <1>5
<1>8. \E k \in Months : FirstDay[k] <= Day(wall) /\ Day(wall) < FirstDay[k] + MonthLengths[k]
  BY <1>2, <1>5, <1>6, <1>7
<1> QED BY <1>8 DEF MonthOf

LEMMA MonthBefore ==
    ASSUME NEW wall \in Nat, Day(wall) < FirstDay[Lengths + 1], NEW m \in 1 .. Lengths + 1, Day(wall) < FirstDay[m]
    PROVE  MonthOf(wall) < m
<1>1. /\ MonthOf(wall) \in Months /\ FirstDay[MonthOf(wall)] <= Day(wall)
  BY MonthOfDay
<1>2. m < MonthOf(wall) => FirstDay[m] <= FirstDay[MonthOf(wall)]
  <2>1. SUFFICES ASSUME m < MonthOf(wall) PROVE FirstDay[m] <= FirstDay[MonthOf(wall)]
    OBVIOUS
  <2>2. m \in Months /\ MonthOf(wall) \in 1 .. Lengths + 1
    BY <1>1, <2>1, Calendars
  <2>3. FirstDay[m] + MonthLengths[m] <= FirstDay[MonthOf(wall)]
    BY <2>1, <2>2, LaterMonth
  <2> QED BY <2>2, <2>3, FirstDayIsNat, Calendars
<1>3. Day(wall) \in Nat /\ FirstDay[m] \in Nat /\ FirstDay[MonthOf(wall)] \in Nat
  <2>1. MonthOf(wall) \in 1 .. Lengths + 1
    BY <1>1, Calendars
  <2> QED BY <2>1, DayIs, FirstDayIsNat
<1> QED BY <1>1, <1>2, <1>3, Calendars

\* The clamped day of a month, and its instant.
Kept(wall, m) == IF DayOfMonth(wall) < MonthLengths[m] THEN DayOfMonth(wall) ELSE MonthLengths[m] - 1

LEMMA ClampedIn ==
    ASSUME NEW wall \in Nat, Day(wall) < FirstDay[Lengths + 1], NEW m \in Months
    PROVE  /\ Kept(wall, m) \in 0 .. MonthLengths[m] - 1
           /\ Clamped(wall, m) = (FirstDay[m] + Kept(wall, m)) * DayLength + (wall % DayLength)
           /\ Clamped(wall, m) \in Nat
           /\ FirstDay[m] * DayLength <= Clamped(wall, m)
<1>1. DayOfMonth(wall) \in Nat
  <2>1. MonthOf(wall) \in 1 .. Lengths + 1 /\ FirstDay[MonthOf(wall)] <= Day(wall)
    BY MonthOfDay, Calendars
  <2> QED BY <2>1, DayIs, FirstDayIsNat DEF DayOfMonth
<1>2. Kept(wall, m) \in 0 .. MonthLengths[m] - 1
  BY <1>1, Calendars DEF Kept
<1>3. Clamped(wall, m) = (FirstDay[m] + Kept(wall, m)) * DayLength + (wall % DayLength)
  BY DEF Clamped, Kept
<1>4. /\ FirstDay[m] \in Nat /\ Kept(wall, m) \in Nat /\ wall % DayLength \in Nat /\ DayLength \in Nat
      /\ FirstDay[m] + Kept(wall, m) \in Nat
  <2>1. FirstDay[m] \in Nat /\ MonthLengths[m] \in Nat /\ DayLength \in Nat
    BY MonthsCount, Calendars
  <2>2. wall % DayLength \in Nat
    BY DayIs, Calendars
  <2>3. Kept(wall, m) \in Nat
    BY <1>2, <2>1
  <2> QED BY <2>1, <2>2, <2>3
<1>5. FirstDay[m] * DayLength <= (FirstDay[m] + Kept(wall, m)) * DayLength
  BY <1>4, TimesRises
<1>6. (FirstDay[m] + Kept(wall, m)) * DayLength \in Nat /\ FirstDay[m] * DayLength \in Nat
  BY <1>4
<1> QED BY <1>2, <1>3, <1>4, <1>5, <1>6

\* A date in a later month is a day later at least.
LEMMA ClampedLater ==
    ASSUME NEW wall \in Nat, Day(wall) < FirstDay[Lengths + 1], NEW m \in Months, NEW n \in Months, m < n
    PROVE  Clamped(wall, m) + DayLength <= Clamped(wall, n)
<1>1. /\ Kept(wall, m) \in 0 .. MonthLengths[m] - 1 /\ Kept(wall, n) \in 0 .. MonthLengths[n] - 1
      /\ Clamped(wall, m) = (FirstDay[m] + Kept(wall, m)) * DayLength + (wall % DayLength)
      /\ Clamped(wall, n) = (FirstDay[n] + Kept(wall, n)) * DayLength + (wall % DayLength)
  BY ClampedIn
<1>2. /\ FirstDay[m] \in Nat /\ FirstDay[n] \in Nat /\ MonthLengths[m] \in Nat /\ MonthLengths[n] \in Nat
      /\ DayLength \in Nat /\ wall % DayLength \in Nat
  <2>1. wall % DayLength \in 0 .. DayLength - 1 /\ DayLength \in Nat
    BY DayIs, Calendars
  <2> QED BY <2>1, MonthsCount
<1>3. FirstDay[m] + MonthLengths[m] <= FirstDay[n]
  BY LaterMonth, Calendars
<1>4. FirstDay[m] + Kept(wall, m) + 1 <= FirstDay[n] + Kept(wall, n)
  BY <1>1, <1>2, <1>3
<1> DEFINE p == FirstDay[m] + Kept(wall, m)
           q == FirstDay[n] + Kept(wall, n)
<1>5. p \in Nat /\ q \in Nat /\ p + 1 <= q
  <2>1. Kept(wall, m) \in Nat /\ Kept(wall, n) \in Nat
    BY <1>1, <1>2
  <2> QED BY <2>1, <1>2, <1>4
<1>6. Clamped(wall, m) = p * DayLength + (wall % DayLength) /\ Clamped(wall, n) = q * DayLength + (wall % DayLength)
  BY <1>1
<1> HIDE DEF p, q
<1>7. (p + 1) * DayLength <= q * DayLength
  BY <1>5, <1>2, TimesRises
<1>8. (p + 1) * DayLength = p * DayLength + DayLength /\ p * DayLength \in Nat /\ q * DayLength \in Nat
  BY <1>5, <1>2
<1> QED BY <1>2, <1>6, <1>7, <1>8

LEMMA ClampedHere ==
    ASSUME NEW wall \in Nat, Day(wall) < FirstDay[Lengths + 1]
    PROVE  Clamped(wall, MonthOf(wall)) = wall
<1>1. /\ MonthOf(wall) \in Months /\ MonthOf(wall) \in 1 .. Lengths + 1 /\ FirstDay[MonthOf(wall)] <= Day(wall)
      /\ Day(wall) < FirstDay[MonthOf(wall)] + MonthLengths[MonthOf(wall)]
  BY MonthOfDay, Calendars
<1>2. FirstDay[MonthOf(wall)] \in Nat /\ Day(wall) \in Nat /\ MonthLengths[MonthOf(wall)] \in Nat
  BY <1>1, MonthsCount, DayIs
<1>3. FirstDay[MonthOf(wall)] + Kept(wall, MonthOf(wall)) = Day(wall)
  BY <1>1, <1>2 DEF Kept, DayOfMonth
<1> QED BY <1>1, <1>3, ClampedIn, DayIs

-----------------------------------------------------------------------------
\* A schedule's fields, and its first wall clock.
Anchor(s) == Wall(s.zone, s.starts)

LEMMA Zones ==
    ASSUME NEW s \in Schedules
    PROVE  /\ s.starts \in Nat /\ s.starts < Horizon
           /\ s.zone.at \in Nat /\ s.zone.before \in 0 .. 2 * DayLength /\ s.zone.after \in 0 .. 2 * DayLength
           /\ s.zone.after - s.zone.before \in -DayLength .. DayLength
           /\ Period(s) \in {1, 7} /\ Quarter(s) \in {1, 3}
<1>1. s.zone["at"] \in Nat /\ s.zone["before"] \in Nat /\ s.zone["after"] \in Nat /\ s.starts \in Nat
  BY CalendarAssumption
<1>2. /\ s.starts < Horizon /\ s.zone.before <= 2 * DayLength /\ s.zone.after <= 2 * DayLength
      /\ s.zone.after - s.zone.before \in -DayLength .. DayLength
  BY ZoneAssumption
<1> QED BY <1>1, <1>2, Calendars DEF Period, Quarter

\* An instant of the calendar has its wall clock in it, with months to spare.
LEMMA WallIn ==
    ASSUME NEW s \in Schedules, NEW t \in Nat, t < Horizon
    PROVE  /\ Wall(s.zone, t) \in Nat /\ Day(Wall(s.zone, t)) < FirstDay[Lengths - 2]
           /\ t <= Wall(s.zone, t) /\ Day(Wall(s.zone, t)) < FirstDay[Lengths + 1]
<1>1. /\ Lengths - 3 \in Months /\ Lengths - 2 \in 1 .. Lengths + 1 /\ Lengths - 2 \in Months
      /\ Lengths + 1 \in 1 .. Lengths + 1 /\ Lengths - 2 < Lengths + 1 /\ Lengths - 3 < Lengths - 2
      /\ Lengths - 3 \in 1 .. Lengths + 1
  BY Calendars
<1>2. /\ FirstDay[Lengths - 3] + MonthLengths[Lengths - 3] <= FirstDay[Lengths - 2]
      /\ FirstDay[Lengths - 2] + MonthLengths[Lengths - 2] <= FirstDay[Lengths + 1]
  BY <1>1, LaterMonth
<1> DEFINE h == FirstDay[Lengths - 3]
           g == FirstDay[Lengths - 2]
           w == Wall(s.zone, t)
<1>3. h \in Nat /\ g \in Nat /\ FirstDay[Lengths + 1] \in Nat /\ h + 2 <= g /\ g <= FirstDay[Lengths + 1]
  <2>1. h \in Nat /\ g \in Nat /\ FirstDay[Lengths + 1] \in Nat
    BY <1>1, FirstDayIsNat
  <2>2. MonthLengths[Lengths - 3] \in 28 .. 31 /\ MonthLengths[Lengths - 2] \in 28 .. 31
    BY <1>1, Calendars
  <2> QED BY <1>2, <2>1, <2>2
<1>4. w \in Nat /\ t <= w /\ w <= t + 2 * DayLength
  <2>1. PICK o : o = (IF t < s.zone.at THEN s.zone.before ELSE s.zone.after)
    OBVIOUS
  <2>2. DayLength \in Nat /\ s.zone.before \in 0 .. 2 * DayLength /\ s.zone.after \in 0 .. 2 * DayLength
    BY Zones, Calendars
  <2>3. o \in 0 .. 2 * DayLength
    BY <2>1, <2>2
  <2>4. w = t + o
    BY <2>1 DEF Wall
  <2> QED BY <2>2, <2>3, <2>4
<1>5. t < h * DayLength
  BY DEF Horizon, Lengths
<1> HIDE DEF h, g, w
<1>6. (h + 2) * DayLength <= g * DayLength
  BY <1>3, Calendars, TimesRises
<1>7. (h + 2) * DayLength = h * DayLength + 2 * DayLength /\ h * DayLength \in Nat /\ g * DayLength \in Nat
  BY <1>3, Calendars
<1>8. w < g * DayLength
  BY <1>4, <1>5, <1>6, <1>7, Calendars
<1>9. Day(w) < g
  BY <1>3, <1>4, <1>8, DayBefore
<1>10. Day(w) \in Nat
  BY <1>4, DayIs
<1> QED BY <1>3, <1>4, <1>9, <1>10 DEF g, w

-----------------------------------------------------------------------------
\* The last occurrence within the calendar.
LastIndex(s) == IF ByDays(s) THEN FirstDay[Lengths] \div Period(s)
                ELSE (Lengths - MonthOf(Anchor(s))) \div Quarter(s)

LEMMA IndicesAre == \A s : Indices(s) = 0 .. LastIndex(s)
BY DEF Indices, LastIndex, Lengths, Anchor

LEMMA Quotients ==
    ASSUME NEW a \in Nat, NEW p \in {1, 3, 7}
    PROVE  a \div p \in Nat /\ (a \div p) * p <= a /\ a < (a \div p) * p + p
<1>1. CASE p = 1
  BY <1>1
<1>2. CASE p = 3
  BY <1>2
<1>3. CASE p = 7
  BY <1>3
<1> QED BY <1>1, <1>2, <1>3

LEMMA LaterQuotients ==
    ASSUME NEW a \in Int, NEW b \in Nat, a <= b, NEW p \in {1, 3, 7}
    PROVE  a \div p \in Int /\ a \div p <= b \div p
<1>1. CASE p = 1
  BY <1>1
<1>2. CASE p = 3
  BY <1>2
<1>3. CASE p = 7
  BY <1>3
<1> QED BY <1>1, <1>2, <1>3

LEMMA LastMonths ==
    /\ Lengths - 2 \in Months /\ FirstDay[Lengths - 2] \in Nat /\ FirstDay[Lengths] \in Nat
    /\ FirstDay[Lengths - 2] + 56 <= FirstDay[Lengths]
    /\ FirstDay[Lengths - 3] \in Nat /\ FirstDay[Lengths - 3] + 28 <= FirstDay[Lengths - 2]
<1>1. /\ Lengths - 3 \in Months /\ Lengths - 2 \in Months /\ Lengths - 1 \in Months /\ Lengths \in Months
      /\ (Lengths - 3) + 1 = Lengths - 2 /\ (Lengths - 2) + 1 = Lengths - 1 /\ (Lengths - 1) + 1 = Lengths
  BY Calendars
<1>2. FirstDay[(Lengths - 3) + 1] = FirstDay[Lengths - 3] + MonthLengths[Lengths - 3]
  BY <1>1, NextFirstDay
<1>3. FirstDay[(Lengths - 2) + 1] = FirstDay[Lengths - 2] + MonthLengths[Lengths - 2]
  BY <1>1, NextFirstDay
<1>4. FirstDay[(Lengths - 1) + 1] = FirstDay[Lengths - 1] + MonthLengths[Lengths - 1]
  BY <1>1, NextFirstDay
<1>5. /\ MonthLengths[Lengths - 3] \in 28 .. 31 /\ MonthLengths[Lengths - 2] \in 28 .. 31
      /\ MonthLengths[Lengths - 1] \in 28 .. 31
  BY <1>1, Calendars
<1>6. /\ FirstDay[Lengths - 3] \in Nat /\ FirstDay[Lengths - 2] \in Nat /\ FirstDay[Lengths - 1] \in Nat
      /\ FirstDay[Lengths] \in Nat
  BY <1>1, MonthsCount
<1> QED BY <1>1, <1>2, <1>3, <1>4, <1>5, <1>6

LEMMA AnchorIn ==
    ASSUME NEW s \in Schedules
    PROVE  /\ Anchor(s) \in Nat /\ s.starts <= Anchor(s) /\ Day(Anchor(s)) < FirstDay[Lengths + 1]
           /\ MonthOf(Anchor(s)) \in 1 .. Lengths - 3
<1>1. /\ Anchor(s) \in Nat /\ s.starts <= Anchor(s) /\ Day(Anchor(s)) < FirstDay[Lengths + 1]
      /\ Day(Anchor(s)) < FirstDay[Lengths - 2]
  BY Zones, WallIn DEF Anchor
<1>2. MonthOf(Anchor(s)) \in Months
  BY <1>1, MonthOfDay
<1>3. Lengths - 2 \in 1 .. Lengths + 1
  BY Calendars
<1>4. MonthOf(Anchor(s)) < Lengths - 2
  BY <1>1, <1>3, MonthBefore
<1> QED BY <1>1, <1>2, <1>4, Calendars

LEMMA LastIndexIs ==
    ASSUME NEW s \in Schedules
    PROVE  /\ LastIndex(s) \in Nat /\ LastIndex(s) > 0
           /\ ByDays(s) => FirstDay[Lengths - 2] <= LastIndex(s) * Period(s)
           /\ ~ ByDays(s) => MonthOf(Anchor(s)) + LastIndex(s) * Quarter(s) \in Lengths - 2 .. Lengths
<1>1. CASE ByDays(s)
  <2> DEFINE a == FirstDay[Lengths]
             b == FirstDay[Lengths - 2]
             p == Period(s)
             q == a \div p
  <2>1. a \in Nat /\ b \in Nat /\ b + 56 <= a /\ p \in {1, 7}
    BY LastMonths, Zones
  <2>2. LastIndex(s) = q
    BY <1>1 DEF LastIndex
  <2>3. q \in Nat /\ a < q * p + p
    BY <2>1, Quotients
  <2> HIDE DEF a, b, p, q
  <2>4. q * p \in Nat /\ b <= q * p /\ q # 0
    BY <2>1, <2>3
  <2> QED BY <1>1, <2>2, <2>3, <2>4 DEF b, p
<1>2. CASE ~ ByDays(s)
  <2> DEFINE m == MonthOf(Anchor(s))
             p == Quarter(s)
             q == (Lengths - m) \div p
  <2>1. m \in 1 .. Lengths - 3 /\ p \in {1, 3} /\ Lengths \in Nat /\ Lengths > 3 /\ Lengths - m \in Nat
    BY AnchorIn, Zones, Calendars
  <2>2. LastIndex(s) = q
    BY <1>2 DEF LastIndex
  <2>3. q \in Nat /\ q * p <= Lengths - m /\ Lengths - m < q * p + p
    BY <2>1, Quotients
  <2> HIDE DEF m, p, q
  <2>4. q * p \in Nat /\ q # 0
    BY <2>1, <2>3
  <2>5. m + q * p \in Lengths - 2 .. Lengths
    BY <2>1, <2>3, <2>4
  <2> QED BY <1>2, <2>2, <2>3, <2>4, <2>5 DEF m, p
<1> QED BY <1>1, <1>2

LEMMA WallsByDays ==
    ASSUME NEW s \in Schedules, ByDays(s), NEW i \in Nat
    PROVE  /\ WallOf(s, i) \in Nat /\ WallOf(s, 0) = Anchor(s)
           /\ WallOf(s, i) + DayLength <= WallOf(s, i + 1)
           /\ FirstDay[Lengths - 2] * DayLength <= WallOf(s, LastIndex(s))
<1> DEFINE p == Period(s)
           w == Anchor(s)
           l == LastIndex(s)
           b == FirstDay[Lengths - 2]
<1>1. p \in {1, 7} /\ w \in Nat /\ l \in Nat /\ b <= l * p /\ b \in Nat /\ DayLength \in Nat
  BY Zones, AnchorIn, LastIndexIs, LastMonths, Calendars
<1>2. \A j \in Nat : WallOf(s, j) = w + (j * p) * DayLength
  BY DEF WallOf, Anchor
<1> HIDE DEF p, w, l, b
<1>3. i * p \in Nat /\ (i + 1) * p \in Nat /\ i * p + 1 <= (i + 1) * p /\ l * p \in Nat /\ 0 * p = 0
  BY <1>1
<1>4. (i * p + 1) * DayLength <= ((i + 1) * p) * DayLength
  BY <1>1, <1>3, TimesRises
<1>5. (i * p + 1) * DayLength = (i * p) * DayLength + DayLength
  BY <1>1, <1>3
<1>6. b * DayLength <= (l * p) * DayLength
  BY <1>1, <1>3, TimesRises
<1>7. /\ (i * p) * DayLength \in Nat /\ ((i + 1) * p) * DayLength \in Nat /\ (l * p) * DayLength \in Nat
      /\ b * DayLength \in Nat /\ 0 * DayLength = 0
  BY <1>1, <1>3
<1>8. WallOf(s, i) \in Nat /\ WallOf(s, i) + DayLength <= WallOf(s, i + 1)
  BY <1>1, <1>2, <1>4, <1>5, <1>7
<1>9. WallOf(s, 0) = w
  BY <1>1, <1>2, <1>3, <1>7
<1>10. b * DayLength <= WallOf(s, l)
  BY <1>1, <1>2, <1>6, <1>7
<1> QED BY <1>8, <1>9, <1>10 DEF w, l, b

LEMMA WallsByMonths ==
    ASSUME NEW s \in Schedules, ~ ByDays(s), NEW i \in 0 .. LastIndex(s)
    PROVE  /\ WallOf(s, i) \in Nat /\ WallOf(s, 0) = Anchor(s)
           /\ i < LastIndex(s) => WallOf(s, i) + DayLength <= WallOf(s, i + 1)
           /\ FirstDay[Lengths - 2] * DayLength <= WallOf(s, LastIndex(s))
<1> DEFINE p == Quarter(s)
           w == Anchor(s)
           l == LastIndex(s)
           m == MonthOf(w)
<1>1. /\ p \in {1, 3} /\ w \in Nat /\ l \in Nat /\ m \in 1 .. Lengths - 3 /\ Lengths \in Nat /\ Lengths > 3
      /\ m + l * p \in Lengths - 2 .. Lengths /\ Day(w) < FirstDay[Lengths + 1] /\ Months = 1 .. Lengths
  BY Zones, AnchorIn, LastIndexIs, Calendars
<1>2. \A j : WallOf(s, j) = Clamped(w, m + j * p)
  BY DEF WallOf, Anchor
<1>3. Clamped(w, m) = w
  BY <1>1, ClampedHere
<1> HIDE DEF p, w, l, m
<1>4. \A j \in 0 .. l : m + j * p \in Months
  BY <1>1
<1>5. WallOf(s, i) \in Nat
  BY <1>1, <1>2, <1>4, ClampedIn DEF l
<1>6. WallOf(s, 0) = w
  <2>1. m + 0 * p = m
    BY <1>1
  <2> QED BY <1>2, <1>3, <2>1
<1>7. ASSUME i < l PROVE WallOf(s, i) + DayLength <= WallOf(s, i + 1)
  <2>1. i \in 0 .. l /\ i + 1 \in 0 .. l
    BY <1>1, <1>7 DEF l
  <2>2. m + i * p < m + (i + 1) * p
    BY <1>1, <2>1
  <2> QED BY <1>1, <1>2, <1>4, <2>1, <2>2, ClampedLater
<1>8. FirstDay[Lengths - 2] * DayLength <= WallOf(s, l)
  <2> DEFINE n == m + l * p
             a == Lengths - 2
  <2>1. n \in Months /\ a \in Months /\ a <= n
    BY <1>1
  <2>2. FirstDay[a] <= FirstDay[n]
    <3>1. FirstDay[a] \in Nat /\ FirstDay[n] \in Nat /\ MonthLengths[a] \in Nat
      BY <2>1, MonthsCount
    <3>2. a < n => FirstDay[a] + MonthLengths[a] <= FirstDay[n]
      BY <2>1, LaterMonth, <1>1
    <3>3. a = n \/ a < n
      BY <2>1, <1>1
    <3> HIDE DEF a, n
    <3> QED BY <3>1, <3>2, <3>3
  <2>3. FirstDay[a] \in Nat /\ FirstDay[n] \in Nat /\ DayLength \in Nat
    BY <2>1, MonthsCount, Calendars
  <2>4. FirstDay[a] * DayLength <= FirstDay[n] * DayLength
    BY <2>2, <2>3, TimesRises
  <2>5. FirstDay[n] * DayLength <= Clamped(w, n) /\ Clamped(w, n) \in Nat
    BY <1>1, <2>1, ClampedIn
  <2>6. FirstDay[a] * DayLength \in Nat /\ FirstDay[n] * DayLength \in Nat
    BY <2>3
  <2>7. WallOf(s, l) = Clamped(w, n)
    BY <1>2
  <2> HIDE DEF n
  <2> QED BY <2>4, <2>5, <2>6, <2>7
<1> QED BY <1>5, <1>6, <1>7, <1>8 DEF w, l

LEMMA Walls ==
    ASSUME NEW s \in Schedules, NEW i \in 0 .. LastIndex(s)
    PROVE  /\ WallOf(s, i) \in Nat /\ WallOf(s, 0) = Anchor(s)
           /\ i < LastIndex(s) => WallOf(s, i) + DayLength <= WallOf(s, i + 1)
           /\ FirstDay[Lengths - 2] * DayLength <= WallOf(s, LastIndex(s))
<1>1. i \in Nat
  BY LastIndexIs
<1>2. CASE ByDays(s)
  BY <1>1, <1>2, WallsByDays
<1>3. CASE ~ ByDays(s)
  BY <1>3, WallsByMonths
<1> QED BY <1>2, <1>3

-----------------------------------------------------------------------------
\* A change of offset by a day at most does not turn two dates round, and the
\* schedule's own start, which may be the later of two equal wall clocks, neither.
LEMMA InstantsRise ==
    ASSUME NEW s \in Schedules, NEW a \in Nat, NEW b \in Nat, a + DayLength <= b
    PROVE  /\ Instant(s.zone, a) \in Int /\ Instant(s.zone, b) \in Int
           /\ Instant(s.zone, a) <= Instant(s.zone, b)
           /\ a - 2 * DayLength <= Instant(s.zone, a)
           /\ b - 2 * DayLength <= Instant(s.zone, b)
           /\ Anchor(s) = a => s.starts <= Instant(s.zone, b)
<1> DEFINE z == s.zone
           u == z.before
           v == z.after
           c == z.at
<1>1. /\ c \in Nat /\ u \in 0 .. 2 * DayLength /\ v \in 0 .. 2 * DayLength /\ v - u \in -DayLength .. DayLength
      /\ s.starts \in Nat /\ DayLength \in Nat
  BY Zones, Calendars
<1>2. \A w : Instant(z, w) = IF w < c + (IF u < v THEN v ELSE u) THEN w - u ELSE w - v
  BY DEF Instant
<1>3. Anchor(s) = s.starts + (IF s.starts < c THEN u ELSE v)
  BY DEF Anchor, Wall
<1> HIDE DEF z, u, v, c
<1>4. /\ Instant(z, a) \in Int /\ Instant(z, b) \in Int
      /\ Instant(z, a) <= Instant(z, b)
      /\ a - 2 * DayLength <= Instant(z, a)
      /\ b - 2 * DayLength <= Instant(z, b)
  BY <1>1, <1>2
<1>5. Anchor(s) = a => s.starts <= Instant(z, b)
  BY <1>1, <1>2, <1>3
<1> QED BY <1>4, <1>5 DEF z

\* Each occurrence is as late as the one before, and the last of the calendar is
\* later than every instant of it.
LEMMA NextOccurrence ==
    ASSUME NEW s \in Schedules, NEW i \in 0 .. LastIndex(s) - 1
    PROVE  /\ Occurrence(s, i) \in Int /\ Occurrence(s, i + 1) \in Int
           /\ Occurrence(s, i) <= Occurrence(s, i + 1)
           /\ WallOf(s, i + 1) - 2 * DayLength <= Occurrence(s, i + 1)
<1>1. LastIndex(s) \in Nat /\ i \in 0 .. LastIndex(s) /\ i + 1 \in 0 .. LastIndex(s) /\ i < LastIndex(s) /\ i + 1 # 0
  BY LastIndexIs
<1>2. /\ WallOf(s, i) \in Nat /\ WallOf(s, i + 1) \in Nat /\ WallOf(s, i) + DayLength <= WallOf(s, i + 1)
      /\ WallOf(s, 0) = Anchor(s)
  BY <1>1, Walls
<1>3. /\ Instant(s.zone, WallOf(s, i)) \in Int /\ Instant(s.zone, WallOf(s, i + 1)) \in Int
      /\ Instant(s.zone, WallOf(s, i)) <= Instant(s.zone, WallOf(s, i + 1))
      /\ WallOf(s, i + 1) - 2 * DayLength <= Instant(s.zone, WallOf(s, i + 1))
      /\ Anchor(s) = WallOf(s, i) => s.starts <= Instant(s.zone, WallOf(s, i + 1))
  BY <1>2, InstantsRise
<1>4. Occurrence(s, i + 1) = Instant(s.zone, WallOf(s, i + 1))
  BY <1>1 DEF Occurrence
<1>5. CASE i = 0
  <2>1. Occurrence(s, i) = s.starts /\ s.starts \in Nat
    BY <1>5, Zones DEF Occurrence
  <2> QED BY <1>2, <1>3, <1>4, <1>5, <2>1
<1>6. CASE i # 0
  <2>1. Occurrence(s, i) = Instant(s.zone, WallOf(s, i))
    BY <1>6 DEF Occurrence
  <2> QED BY <1>3, <1>4, <2>1
<1> QED BY <1>5, <1>6

LEMMA Occurrences ==
    ASSUME NEW s \in Schedules, NEW i \in 0 .. LastIndex(s)
    PROVE  Occurrence(s, i) \in Int
<1>1. LastIndex(s) \in Nat
  BY LastIndexIs
<1>2. CASE i < LastIndex(s)
  <2>1. i \in 0 .. LastIndex(s) - 1
    BY <1>1, <1>2
  <2> QED BY <2>1, NextOccurrence
<1>3. CASE i = LastIndex(s)
  <2>1. LastIndex(s) > 0
    BY LastIndexIs
  <2>2. i - 1 \in 0 .. LastIndex(s) - 1 /\ (i - 1) + 1 = i
    BY <1>1, <1>3, <2>1
  <2>3. Occurrence(s, (i - 1) + 1) \in Int
    BY <2>2, NextOccurrence
  <2> QED BY <2>2, <2>3
<1> QED BY <1>1, <1>2, <1>3

LEMMA OccurrencesRise ==
    ASSUME NEW s \in Schedules, NEW i \in 0 .. LastIndex(s)
    PROVE  \A j \in 0 .. LastIndex(s) : i <= j => Occurrence(s, i) <= Occurrence(s, j)
<1> DEFINE S == {j \in 0 .. LastIndex(s) : i <= j /\ ~ (Occurrence(s, i) <= Occurrence(s, j))}
<1>1. SUFFICES ASSUME S # {} PROVE FALSE
  OBVIOUS
<1>2. LastIndex(s) \in Nat
  BY LastIndexIs
<1>3. PICK j \in S : \A y \in S : j <= y
  <2>1. S \in SUBSET Nat
    OBVIOUS
  <2> QED BY <1>1, <2>1, LeastOf
<1>4. j \in 0 .. LastIndex(s) /\ i <= j /\ ~ (Occurrence(s, i) <= Occurrence(s, j))
  BY <1>3
<1>5. Occurrence(s, i) \in Int /\ Occurrence(s, j) \in Int
  BY <1>4, Occurrences
<1>6. i < j
  BY <1>4, <1>5
<1>7. j - 1 \in 0 .. LastIndex(s) /\ j - 1 \in 0 .. LastIndex(s) - 1 /\ i <= j - 1 /\ (j - 1) + 1 = j /\ ~ (j <= j - 1)
  BY <1>2, <1>4, <1>6
<1>8. Occurrence(s, i) <= Occurrence(s, j - 1)
  BY <1>3, <1>7
<1>9. Occurrence(s, j - 1) <= Occurrence(s, (j - 1) + 1) /\ Occurrence(s, j - 1) \in Int
  BY <1>7, NextOccurrence
<1> QED BY <1>4, <1>5, <1>7, <1>8, <1>9

LEMMA LastIsAhead ==
    ASSUME NEW s \in Schedules, NEW t \in Nat, t < Horizon
    PROVE  Occurrence(s, LastIndex(s)) > t
<1> DEFINE h == FirstDay[Lengths - 3]
           g == FirstDay[Lengths - 2]
           l == LastIndex(s)
<1>1. h \in Nat /\ g \in Nat /\ h + 28 <= g /\ l \in Nat /\ l > 0 /\ DayLength \in Nat /\ t < h * DayLength
  BY LastMonths, LastIndexIs, Calendars DEF Horizon, Lengths
<1>2. l - 1 \in 0 .. l - 1 /\ (l - 1) + 1 = l /\ l \in 0 .. l
  BY <1>1
<1>3. WallOf(s, (l - 1) + 1) - 2 * DayLength <= Occurrence(s, (l - 1) + 1)
  BY <1>2, NextOccurrence
<1>4. WallOf(s, l) - 2 * DayLength <= Occurrence(s, l) /\ Occurrence(s, l) \in Int
  BY <1>2, <1>3, Occurrences
<1>5. g * DayLength <= WallOf(s, l) /\ WallOf(s, l) \in Nat
  BY <1>2, Walls
<1> HIDE DEF h, g, l
<1>6. (h + 28) * DayLength <= g * DayLength
  BY <1>1, TimesRises
<1>7. (h + 28) * DayLength = h * DayLength + 28 * DayLength /\ h * DayLength \in Nat /\ g * DayLength \in Nat
  BY <1>1
<1>8. Occurrence(s, l) > t
  BY <1>1, <1>4, <1>5, <1>6, <1>7
<1> QED BY <1>8 DEF l

-----------------------------------------------------------------------------
\* The two loops.  Each is a recursion that some function solves, so the chosen one
\* does, and what it finds follows by the least index where it would not.
StopsAt(s, t, i) == ~ (i > 0 /\ Occurrence(s, i) > t)

LEMMA BackSolved ==
    ASSUME NEW s, NEW t
    PROVE  \E f : f = [i \in Nat |-> IF i > 0 /\ Occurrence(s, i) > t THEN f[i - 1] ELSE i]
<1> DEFINE Tops(i) == {k \in 0 .. i : StopsAt(s, t, k) /\ \A j \in 0 .. i : k < j => ~ StopsAt(s, t, j)}
           f == [i \in Nat |-> CHOOSE k : k \in Tops(i)]
<1>1. ASSUME NEW i \in Nat, StopsAt(s, t, i) PROVE f[i] = i
  <2>1. Tops(i) = {i}
    BY <1>1
  <2> QED BY <2>1
<1>2. ASSUME NEW i \in Nat, ~ StopsAt(s, t, i) PROVE i > 0 /\ f[i] = f[i - 1]
  <2>1. i > 0 /\ i - 1 \in Nat
    BY <1>2 DEF StopsAt
  <2>2. Tops(i) = Tops(i - 1)
    <3>1. ASSUME NEW k \in Tops(i) PROVE k \in Tops(i - 1)
      BY <1>2, <2>1, <3>1
    <3>2. ASSUME NEW k \in Tops(i - 1) PROVE k \in Tops(i)
      BY <1>2, <2>1, <3>2
    <3> QED BY <3>1, <3>2
  <2> HIDE DEF Tops
  <2> QED BY <2>1, <2>2
<1>3. f = [i \in Nat |-> f[i]]
  OBVIOUS
<1> HIDE DEF f
<1>4. \A i \in Nat : f[i] = IF i > 0 /\ Occurrence(s, i) > t THEN f[i - 1] ELSE i
  BY <1>1, <1>2 DEF StopsAt
<1> QED BY <1>3, <1>4

LEMMA BackFinds ==
    ASSUME NEW s, NEW t, NEW e \in Nat
    PROVE  Back(s, t, e) \in 0 .. e /\ StopsAt(s, t, Back(s, t, e))
<1> DEFINE d == CHOOSE f : f = [i \in Nat |-> IF i > 0 /\ Occurrence(s, i) > t THEN f[i - 1] ELSE i]
<1>1. d = [i \in Nat |-> IF i > 0 /\ Occurrence(s, i) > t THEN d[i - 1] ELSE i]
  BY BackSolved
<1>2. Back(s, t, e) = d[e]
  BY DEF Back
<1> HIDE DEF d
<1>3. \A i \in Nat : d[i] = IF i > 0 /\ Occurrence(s, i) > t THEN d[i - 1] ELSE i
  BY <1>1
<1> DEFINE S == {i \in Nat : ~ (d[i] \in 0 .. i /\ StopsAt(s, t, d[i]))}
<1>4. S = {}
  <2>1. SUFFICES ASSUME S # {} PROVE FALSE
    OBVIOUS
  <2>2. PICK i \in S : \A y \in S : i <= y
    BY <2>1, LeastOf
  <2>3. i \in Nat /\ ~ (d[i] \in 0 .. i /\ StopsAt(s, t, d[i]))
    BY <2>2
  <2>4. ~ StopsAt(s, t, i)
    BY <1>3, <2>3 DEF StopsAt
  <2>5. i > 0 /\ d[i] = d[i - 1]
    BY <1>3, <2>3, <2>4 DEF StopsAt
  <2>6. i - 1 \in Nat /\ i - 1 \notin S
    BY <2>2, <2>3, <2>5
  <2>7. d[i - 1] \in 0 .. i - 1 /\ StopsAt(s, t, d[i - 1])
    BY <2>6
  <2> QED BY <2>3, <2>5, <2>7
<1> QED BY <1>2, <1>4

LEMMA ForthSolved ==
    ASSUME NEW s, NEW t
    PROVE  \E f : f = [i \in Nat |-> IF Occurrence(s, i + 1) <= t THEN f[i + 1] ELSE i]
<1> DEFINE Goes(i) == Occurrence(s, i + 1) <= t
           Ups(i) == {k \in Nat : i <= k /\ ~ Goes(k) /\ \A j \in Nat : i <= j /\ j < k => Goes(j)}
           f == [i \in Nat |-> CHOOSE k : k \in Ups(i)]
<1> HIDE DEF Goes
<1>1. ASSUME NEW i \in Nat, ~ Goes(i) PROVE f[i] = i
  <2>1. Ups(i) = {i}
    BY <1>1
  <2> QED BY <2>1
<1>2. ASSUME NEW i \in Nat, Goes(i) PROVE f[i] = f[i + 1]
  <2>1. Ups(i) = Ups(i + 1)
    <3>1. ASSUME NEW k \in Ups(i) PROVE k \in Ups(i + 1)
      BY <1>2, <3>1
    <3>2. ASSUME NEW k \in Ups(i + 1) PROVE k \in Ups(i)
      BY <1>2, <3>2
    <3> QED BY <3>1, <3>2
  <2> HIDE DEF Ups
  <2> QED BY <2>1
<1>3. f = [i \in Nat |-> f[i]]
  OBVIOUS
<1> HIDE DEF f
<1>4. \A i \in Nat : f[i] = IF Occurrence(s, i + 1) <= t THEN f[i + 1] ELSE i
  BY <1>1, <1>2 DEF Goes
<1> QED BY <1>3, <1>4

\* From an index whose occurrence has come, or from the first, the second loop finds
\* the last that has come before one that has not.
LEMMA ForthFinds ==
    ASSUME NEW s, NEW t, NEW l \in Nat, ~ (Occurrence(s, l) <= t), NEW b \in Nat, b < l
    PROVE  /\ Forth(s, t, b) \in b .. l - 1
           /\ ~ (Occurrence(s, Forth(s, t, b) + 1) <= t)
           /\ Forth(s, t, b) = b \/ Occurrence(s, Forth(s, t, b)) <= t
<1> DEFINE u == CHOOSE f : f = [i \in Nat |-> IF Occurrence(s, i + 1) <= t THEN f[i + 1] ELSE i]
<1>1. u = [i \in Nat |-> IF Occurrence(s, i + 1) <= t THEN u[i + 1] ELSE i]
  BY ForthSolved
<1>2. Forth(s, t, b) = u[b]
  BY DEF Forth
<1> HIDE DEF u
<1>3. \A i \in Nat : u[i] = IF Occurrence(s, i + 1) <= t THEN u[i + 1] ELSE i
  BY <1>1
<1> DEFINE Found(i) == /\ u[i] \in i .. l - 1
                       /\ ~ (Occurrence(s, u[i] + 1) <= t)
                       /\ u[i] = i \/ Occurrence(s, u[i]) <= t
           S == {n \in Nat : n < l /\ ~ Found(l - 1 - n)}
<1>4. S = {}
  <2>1. SUFFICES ASSUME S # {} PROVE FALSE
    OBVIOUS
  <2>2. PICK n \in S : \A y \in S : n <= y
    BY <2>1, LeastOf
  <2> DEFINE i == l - 1 - n
  <2>3. n \in Nat /\ n < l /\ i \in Nat /\ i < l /\ ~ Found(i)
    BY <2>2
  <2>4. Occurrence(s, i + 1) <= t
    <3>1. SUFFICES ASSUME ~ (Occurrence(s, i + 1) <= t) PROVE FALSE
      OBVIOUS
    <3>2. u[i] = i
      BY <1>3, <2>3, <3>1
    <3> HIDE DEF i
    <3>3. Found(i)
      BY <2>3, <3>1, <3>2
    <3> QED BY <2>3, <3>3
  <2>5. u[i] = u[i + 1]
    BY <1>3, <2>3, <2>4
  <2>6. i + 1 # l
    BY <2>4
  <2>7. n - 1 \in Nat /\ n - 1 < l /\ n - 1 \notin S /\ l - 1 - (n - 1) = i + 1
    BY <2>2, <2>3, <2>6
  <2>8. Found(i + 1)
    <3>1. Found(l - 1 - (n - 1))
      BY <2>7
    <3> QED BY <2>7, <3>1
  <2> HIDE DEF i
  <2> QED BY <2>3, <2>4, <2>5, <2>8
<1>5. Found(b)
  <2>1. l - 1 - b \in Nat /\ l - 1 - b < l /\ l - 1 - (l - 1 - b) = b
    OBVIOUS
  <2>2. Found(l - 1 - (l - 1 - b))
    BY <1>4, <2>1
  <2> HIDE DEF Found
  <2> QED BY <2>1, <2>2
<1> QED BY <1>2, <1>5

\* The index that around arrives at, from an estimate within the calendar.
Estimate(s, t) ==
    IF ByDays(s) THEN (Day(Wall(s.zone, t)) - Day(Anchor(s))) \div Period(s)
    ELSE (MonthOf(Wall(s.zone, t)) - MonthOf(Anchor(s))) \div Quarter(s)
Index(s, t) == Forth(s, t, Back(s, t, Larger(0, Estimate(s, t))))

LEMMA EstimateIn ==
    ASSUME NEW s \in Schedules, NEW t \in Nat, t < Horizon
    PROVE  Larger(0, Estimate(s, t)) \in 0 .. LastIndex(s)
<1> DEFINE w == Wall(s.zone, t)
<1>1. /\ w \in Nat /\ Day(w) < FirstDay[Lengths - 2] /\ Day(w) < FirstDay[Lengths + 1]
      /\ Anchor(s) \in Nat /\ LastIndex(s) \in Nat
  BY WallIn, AnchorIn, LastIndexIs
<1>2. Day(w) \in Nat /\ Day(Anchor(s)) \in Nat
  BY <1>1, DayIs
<1>3. Estimate(s, t) \in Int /\ Estimate(s, t) <= LastIndex(s)
  <2>1. CASE ByDays(s)
    <3>1. Day(w) - Day(Anchor(s)) \in Int /\ Day(w) - Day(Anchor(s)) <= FirstDay[Lengths] /\ FirstDay[Lengths] \in Nat
      BY <1>1, <1>2, LastMonths
    <3>2. Estimate(s, t) = (Day(w) - Day(Anchor(s))) \div Period(s) /\ LastIndex(s) = FirstDay[Lengths] \div Period(s)
      BY <2>1 DEF Estimate, LastIndex
    <3>3. Period(s) \in {1, 3, 7}
      BY Zones
    <3> QED BY <3>1, <3>2, <3>3, LaterQuotients
  <2>2. CASE ~ ByDays(s)
    <3>1. MonthOf(w) \in 1 .. Lengths /\ MonthOf(Anchor(s)) \in 1 .. Lengths - 3 /\ Lengths \in Nat
      BY <1>1, MonthOfDay, AnchorIn, Calendars
    <3>2. /\ MonthOf(w) - MonthOf(Anchor(s)) \in Int /\ Lengths - MonthOf(Anchor(s)) \in Nat
          /\ MonthOf(w) - MonthOf(Anchor(s)) <= Lengths - MonthOf(Anchor(s))
      BY <3>1
    <3>3. /\ Estimate(s, t) = (MonthOf(w) - MonthOf(Anchor(s))) \div Quarter(s)
          /\ LastIndex(s) = (Lengths - MonthOf(Anchor(s))) \div Quarter(s)
      BY <2>2 DEF Estimate, LastIndex
    <3>4. Quarter(s) \in {1, 3, 7}
      BY Zones
    <3> QED BY <3>2, <3>3, <3>4, LaterQuotients
  <2> QED BY <2>1, <2>2
<1> QED BY <1>1, <1>3 DEF Larger

\* Whatever the estimate was, the index is the latest whose occurrence has come, or
\* the first when none has.
LEMMA IndexIs ==
    ASSUME NEW s \in Schedules, NEW t \in Nat, t < Horizon
    PROVE  /\ Index(s, t) \in 0 .. LastIndex(s) - 1 /\ Occurrence(s, Index(s, t) + 1) > t
           /\ Index(s, t) = 0 \/ Occurrence(s, Index(s, t)) <= t
<1> DEFINE e == Larger(0, Estimate(s, t))
           b == Back(s, t, e)
           k == Forth(s, t, b)
           l == LastIndex(s)
<1>1. l \in Nat /\ l > 0 /\ e \in 0 .. l /\ e \in Nat
  BY LastIndexIs, EstimateIn
<1>2. Occurrence(s, l) > t /\ Occurrence(s, l) \in Int
  <2>1. l \in 0 .. l
    BY <1>1
  <2> QED BY <2>1, LastIsAhead, Occurrences
<1>3. b \in 0 .. e /\ StopsAt(s, t, b)
  BY <1>1, BackFinds
<1> HIDE DEF e, b
<1>4. b \in Nat /\ b < l
  BY <1>1, <1>2, <1>3 DEF StopsAt
<1>5. b = 0 \/ Occurrence(s, b) <= t
  <2>1. b \in 0 .. l
    BY <1>1, <1>4
  <2>2. Occurrence(s, b) \in Int
    BY <2>1, Occurrences
  <2> QED BY <1>3, <1>4, <2>2 DEF StopsAt
<1>6. ~ (Occurrence(s, l) <= t)
  BY <1>2
<1>7. k \in b .. l - 1 /\ ~ (Occurrence(s, k + 1) <= t) /\ (k = b \/ Occurrence(s, k) <= t)
  BY <1>1, <1>4, <1>6, ForthFinds
<1> HIDE DEF k
<1>8. k \in 0 .. l - 1 /\ k + 1 \in 0 .. l
  BY <1>1, <1>4, <1>7
<1>9. Occurrence(s, k + 1) > t
  <2>1. Occurrence(s, k + 1) \in Int
    BY <1>8, Occurrences
  <2> QED BY <1>7, <2>1
<1>10. k = 0 \/ Occurrence(s, k) <= t
  BY <1>5, <1>7
<1>11. Index(s, t) = k
  BY DEF Index, e, b, k
<1> HIDE DEF l
<1> QED BY <1>8, <1>9, <1>10, <1>11 DEF l

\* What around returns, in terms of that index.
LEMMA AroundUnfolds ==
    ASSUME NEW s, NEW t
    PROVE  Around(s, t) =
             IF s.ends # Never /\ t >= s.ends THEN [due |-> Never, next |-> Never]
             ELSE LET c == Occurrence(s, Index(s, t))
                      f == IF c <= t THEN Occurrence(s, Index(s, t) + 1) ELSE c
                  IN  [due |-> IF c <= t THEN c ELSE Never,
                       next |-> IF s.ends # Never /\ f >= s.ends THEN Never ELSE f]
BY DEF Around, Index, Estimate, Anchor

Located == schedule \in Schedules /\ now \in Nat /\ now < Horizon

LEMMA LocatedIsReference == Located => AroundIsReference
<1> SUFFICES ASSUME Located PROVE AroundIsReference
  OBVIOUS
<1> DEFINE s == schedule
           t == now
           a == Around(s, t)
           k == Index(s, t)
           l == LastIndex(s)
           O(i) == Occurrence(s, i)
           over == s.ends # Never /\ t >= s.ends
           f == IF O(k) <= t THEN O(k + 1) ELSE O(k)
           dates == {O(i) : i \in 0 .. l}
<1>1. s \in Schedules /\ t \in Nat /\ t < Horizon
  BY DEF Located
<1>2. l \in Nat /\ k \in 0 .. l - 1 /\ k + 1 \in 0 .. l /\ k \in 0 .. l /\ 0 \in 0 .. l /\ l > 0
  BY <1>1, LastIndexIs, IndexIs
<1>3. O(k + 1) > t /\ (k = 0 \/ O(k) <= t)
  BY <1>1, IndexIs
<1>4. \A i \in 0 .. l : O(i) \in Int
  BY <1>1, Occurrences
<1>5. \A i, j \in 0 .. l : i <= j => O(i) <= O(j)
  BY <1>1, OccurrencesRise
<1>6. O(0) \in Nat /\ s.ends \in Nat \cup {-1}
  <2>1. O(0) = s.starts /\ s.starts \in Nat
    BY <1>1, Zones DEF Occurrence
  <2> QED BY <1>1, <2>1, CalendarAssumption DEF Never
<1>7. a = IF over THEN [due |-> Never, next |-> Never]
          ELSE [due |-> IF O(k) <= t THEN O(k) ELSE Never, next |-> IF s.ends # Never /\ f >= s.ends THEN Never ELSE f]
  BY AroundUnfolds
<1>8. AroundIsReference
      <=> IF over THEN a = [due |-> Never, next |-> Never]
          ELSE /\ IF a.due = Never THEN \A o \in dates : o > t
                  ELSE a.due \in dates /\ a.due <= t
               /\ \A o \in dates : o <= t => o <= a.due
               /\ IF a.next = Never
                  THEN \A o \in dates : o > t => s.ends # Never /\ o >= s.ends
                  ELSE /\ a.next \in dates /\ a.next > t
                       /\ s.ends = Never \/ a.next < s.ends
                       /\ \A o \in dates : o > t => o >= a.next
  BY IndicesAre DEF AroundIsReference
<1>9. CASE over
  BY <1>7, <1>8, <1>9
<1>10. CASE ~ over
  <2>1. /\ a.due = (IF O(k) <= t THEN O(k) ELSE Never)
        /\ a.next = (IF s.ends # Never /\ f >= s.ends THEN Never ELSE f)
    BY <1>7, <1>10
  <2> HIDE DEF a, k, l, O
  <2>2. \A i \in 0 .. l : O(i) >= 0
    BY <1>2, <1>4, <1>5, <1>6
  <2>3. \A i \in 0 .. l : IF O(k) <= t THEN i <= k => O(i) <= O(k) ELSE O(i) >= O(k)
    BY <1>2, <1>3, <1>5
  <2>4. \A i \in 0 .. l : i <= k \/ O(i) >= O(k + 1)
    BY <1>2, <1>5
  <2>5. IF a.due = Never THEN \A o \in dates : o > t ELSE a.due \in dates /\ a.due <= t
    <3>1. CASE O(k) <= t
      <4>1. a.due = O(k) /\ O(k) # Never
        BY <2>1, <2>2, <3>1, <1>2 DEF Never
      <4> QED BY <4>1, <3>1, <1>2
    <3>2. CASE ~ (O(k) <= t)
      <4>1. a.due = Never
        BY <2>1, <3>2
      <4>2. \A i \in 0 .. l : O(i) > t
        BY <1>1, <1>2, <1>4, <2>3, <3>2
      <4> QED BY <4>1, <4>2
    <3> QED BY <3>1, <3>2
  <2>6. \A o \in dates : o <= t => o <= a.due
    <3>1. SUFFICES ASSUME NEW i \in 0 .. l, O(i) <= t PROVE O(i) <= a.due
      OBVIOUS
    <3>2. O(k) <= t
      BY <1>1, <1>2, <1>4, <2>3, <3>1
    <3>3. i <= k
      BY <1>1, <1>2, <1>3, <1>4, <2>4, <3>1
    <3> QED BY <2>1, <2>3, <3>2, <3>3
  <2>7. f \in dates /\ f > t /\ f \in Int /\ f >= 0 /\ \A i \in 0 .. l : O(i) > t => O(i) >= f
    <3>1. CASE O(k) <= t
      <4>1. f = O(k + 1)
        BY <3>1
      <4>2. \A i \in 0 .. l : O(i) > t => O(i) >= O(k + 1)
        BY <1>1, <1>2, <1>4, <2>3, <2>4, <3>1
      <4> QED BY <4>1, <4>2, <1>2, <1>3, <1>4, <2>2
    <3>2. CASE ~ (O(k) <= t)
      <4>1. f = O(k)
        BY <3>2
      <4> QED BY <4>1, <1>1, <1>2, <1>4, <2>2, <2>3, <3>2
    <3> QED BY <3>1, <3>2
  <2>8. IF a.next = Never
        THEN \A o \in dates : o > t => s.ends # Never /\ o >= s.ends
        ELSE /\ a.next \in dates /\ a.next > t
             /\ s.ends = Never \/ a.next < s.ends
             /\ \A o \in dates : o > t => o >= a.next
    <3> HIDE DEF f
    <3>1. f # Never
      BY <2>7 DEF Never
    <3>2. CASE s.ends # Never /\ f >= s.ends
      <4>1. a.next = Never /\ s.ends \in Nat
        BY <2>1, <3>2, <1>6 DEF Never
      <4>2. \A i \in 0 .. l : O(i) > t => O(i) >= s.ends
        BY <1>4, <2>7, <3>2, <4>1
      <4> QED BY <4>1, <4>2, <3>2
    <3>3. CASE ~ (s.ends # Never /\ f >= s.ends)
      <4>1. a.next = f
        BY <2>1, <3>3
      <4>2. s.ends = Never \/ f < s.ends
        BY <1>6, <2>7, <3>3 DEF Never
      <4> QED BY <4>1, <4>2, <3>1, <2>7
    <3> QED BY <3>2, <3>3
  <2> HIDE DEF over, dates, s, t
  <2> QED BY <1>8, <1>10, <2>5, <2>6, <2>8
<1> QED BY <1>9, <1>10

LEMMA HorizonIsInt == Horizon \in Int
BY LastMonths, Calendars DEF Horizon, Lengths

\* For every calendar, time zone and schedule, around returns the latest occurrence
\* that has come and the earliest that has not, up to the exclusive end.
THEOREM ReferenceKept == Spec => []AroundIsReference
<1>1. Init => Located
  <2>1. SUFFICES ASSUME Init PROVE Located
    OBVIOUS
  <2>2. schedule \in Schedules /\ now \in {0, schedule.starts}
    BY <2>1 DEF Init
  <2>3. schedule.starts \in Nat /\ schedule.starts < Horizon
    BY <2>2, Zones
  <2> QED BY <2>2, <2>3, HorizonIsInt DEF Located
<1>2. Located /\ [Pass]_vars => Located'
  <2>1. SUFFICES ASSUME Located, [Pass]_vars PROVE Located'
    OBVIOUS
  <2>2. CASE Pass
    BY <2>1, <2>2, HorizonIsInt DEF Located, Pass, Horizon
  <2>3. CASE UNCHANGED vars
    BY <2>1, <2>3 DEF Located, vars
  <2> QED BY <2>1, <2>2, <2>3
<1>3. Located => AroundIsReference
  BY LocatedIsReference
<1> QED BY <1>1, <1>2, <1>3, PTL DEF Spec
=============================================================================
