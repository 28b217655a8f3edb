--------------------------- MODULE BenchmarkReview ---------------------------
(***************************************************************************)
(* Human labels of a benchmark (services/benchmark_review_service.py):     *)
(* administrators review its cases, a disagreement becomes a dispute that  *)
(* a super-admin resolves, and settled labels are published as numbered,   *)
(* frozen revisions.  The closure of a reviewer's account redacts the name *)
(* from all of it (account_closure_redaction.py).                          *)
(*                                                                         *)
(* Every mutation begins with an UPDATE of the benchmark's row, which both *)
(* counts its revision and holds the row until the commit, so each is one  *)
(* step; one that is refused is rolled back with its count.  A window acts *)
(* on the version or revision that it has loaded.                          *)
(***************************************************************************)
EXTENDS Integers, Sequences, FiniteSets

CONSTANTS
    Admins,       \* administrators
    Supers,       \* super-admins among them
    Cases,        \* cases of the benchmark
    Verdicts,     \* what an approved label may say
    Former,       \* the name that redaction leaves
    MaxVersions,  \* bound: reviews of a case
    MaxRevision   \* bound: mutations of the benchmark

ASSUME BenchmarkAssumption ==
    /\ Supers \subseteq Admins /\ Former \notin Admins /\ IsFiniteSet(Cases)
    /\ MaxVersions \in Nat /\ MaxRevision \in Nat

VARIABLES
    revision,      \* ResearchBenchmark.revision
    reviews,       \* BenchmarkCaseReview: the reviews of each case, by version
    criteria,      \* the evaluation criteria
    publications,  \* BenchmarkPublication, by number
    present        \* the administrators whose accounts are not closed

benchmarkVars == <<revision, reviews, criteria, publications, present>>

NoVerdict == "none"
Final     == {"approved", "excluded"}
Names     == Admins \cup {Former}

\* by is created_by, which redaction keeps; name is created_by_name.
Review   == [state : Final \cup {"draft", "disputed"}, verdict : Verdicts \cup {NoVerdict},
             by : Admins, name : Names]
Criteria == [status : {"draft", "approved"}, revision : Nat, name : Names]
\* A label of an exported case: its latest review if that is final.
Label    == [status : Final \cup {"pending"}, verdict : Verdicts \cup {NoVerdict},
             version : Nat, name : Names]
Publication == [source : Nat, labels : [Cases -> Label], criteria : Criteria]

BenchmarkTypeOK ==
    /\ revision \in Nat
    /\ reviews \in [Cases -> Seq(Review)]
    /\ criteria \in Criteria
    /\ publications \in Seq(Publication)
    /\ present \in SUBSET Admins

-----------------------------------------------------------------------------

Version(c)  == Len(reviews[c])
Disputed(c) == Version(c) > 0 /\ reviews[c][Version(c)].state = "disputed"
FinalsOf(s) == {i \in DOMAIN s : s[i].state \in Final}

\* The last final review of a case, whatever drafts follow it.
LastFinal(c) == {i \in FinalsOf(reviews[c]) : \A j \in FinalsOf(reviews[c]) : j <= i}

\* A final decision differs from another in its state, or in what it approves.
Differs(r, state, verdict) ==
    r.state # state \/ (state = "approved" /\ r.verdict # verdict)

\* Mutant: only the review just before is compared.
LatestConflict(c, u, state, verdict) ==
    /\ state \in Final /\ ~Disputed(c)
    /\ Version(c) > 0
    /\ LET r == reviews[c][Version(c)] IN
       r.state \in Final /\ r.by # u /\ Differs(r, state, verdict)

\* A draft between two final decisions does not bypass the comparison.
Conflict(c, u, state, verdict) ==
    /\ state \in Final /\ ~Disputed(c)
    /\ \E i \in LastFinal(c) :
          LET r == reviews[c][i] IN r.by # u /\ Differs(r, state, verdict)

\* append_review raises: a disputed case is resolved by a super-admin, who says so.
MaySave(c, u, state, resolve) ==
    /\ resolve => u \in Supers
    /\ Disputed(c) /\ state # "disputed" => u \in Supers /\ resolve /\ state \in Final

\* export_reviews.
Exported(c) ==
    IF Version(c) = 0
    THEN [status |-> "pending", verdict |-> NoVerdict, version |-> 0, name |-> Former]
    ELSE LET r == reviews[c][Version(c)] IN
         [status |-> IF r.state \in Final THEN r.state ELSE "pending", verdict |-> r.verdict,
          version |-> Version(c), name |-> r.name]
Labels == [c \in Cases |-> Exported(c)]

\* summary: unpublished_changes.
Unpublished ==
    publications = <<>> \/ publications[Len(publications)].source # revision

-----------------------------------------------------------------------------

BenchmarkInit ==
    /\ revision = 0 /\ reviews = [c \in Cases |-> <<>>]
    /\ criteria = [status |-> "draft", revision |-> 0, name |-> Former]
    /\ publications = <<>>
    /\ present = Admins

\* lock_benchmark.
Lock == revision < MaxRevision /\ revision' = revision + 1

\* save_review: the window must have seen the case's latest version.
SaveReview(u, c, expected, state, verdict, resolve) ==
    /\ Lock
    /\ u \in present /\ expected = Version(c) /\ expected < MaxVersions
    /\ MaySave(c, u, state, resolve)
    /\ (state = "approved") = (verdict # NoVerdict)
    /\ reviews' = [reviews EXCEPT ![c] = Append(@,
          [state |-> IF Conflict(c, u, state, verdict) THEN "disputed" ELSE state,
           verdict |-> verdict, by |-> u, name |-> u])]
    /\ UNCHANGED <<criteria, publications, present>>

\* import_reviews: drafts, never over a case that has a review.
ImportReviews(u, set, expected) ==
    /\ Lock
    /\ u \in present \cap Supers /\ expected = revision
    /\ set # {} /\ MaxVersions > 0 /\ \A c \in set : Version(c) = 0
    /\ reviews' = [c \in Cases |-> IF c \in set
          THEN <<[state |-> "draft", verdict |-> NoVerdict, by |-> u, name |-> u]>> ELSE reviews[c]]
    /\ UNCHANGED <<criteria, publications, present>>

\* save_criteria, for the revision the window has seen.
SaveCriteria(u, expected, status) ==
    /\ Lock
    /\ u \in present \cap Supers /\ expected = revision
    /\ criteria' = [status |-> status, revision |-> revision + 1, name |-> u]
    /\ UNCHANGED <<reviews, publications, present>>

Publishable ==
    /\ \A c \in Cases : Labels[c].status # "pending"
    /\ \E c \in Cases : Labels[c].status = "approved"
    /\ criteria.status = "approved"
Repeated ==
    /\ publications # <<>>
    /\ LET last == publications[Len(publications)] IN last.labels = Labels /\ last.criteria = criteria

\* publish: every case settled, one approved, the criteria approved, and not what
\* the last publication already says.
Publish(u, expected) ==
    /\ Lock
    /\ u \in present \cap Supers /\ expected = revision
    /\ Publishable /\ ~Repeated
    /\ publications' = Append(publications, [source |-> revision', labels |-> Labels, criteria |-> criteria])
    /\ UNCHANGED <<reviews, criteria, present>>

Redacted(name, u) == IF name = u THEN Former ELSE name

\* redact_admin_history: the name goes from the reviews, the criteria and what was
\* published of them; the benchmark's row is not counted.
Redact(u) ==
    /\ u \in present
    /\ present' = present \ {u}
    /\ reviews' = [c \in Cases |-> [i \in DOMAIN reviews[c] |->
                      [reviews[c][i] EXCEPT !.name = Redacted(@, u)]]]
    /\ criteria' = [criteria EXCEPT !.name = Redacted(@, u)]
    /\ publications' = [n \in DOMAIN publications |->
          [publications[n] EXCEPT !.labels = [c \in Cases |-> [@[c] EXCEPT !.name = Redacted(@, u)]],
                                  !.criteria = [@ EXCEPT !.name = Redacted(@, u)]]]
    /\ UNCHANGED revision

BenchmarkNext ==
    \/ \E u \in Admins, c \in Cases, expected \in 0 .. MaxVersions,
          state \in Final \cup {"draft", "disputed"}, verdict \in Verdicts \cup {NoVerdict},
          resolve \in BOOLEAN : SaveReview(u, c, expected, state, verdict, resolve)
    \/ \E u \in Admins, set \in SUBSET Cases, expected \in 0 .. MaxRevision : ImportReviews(u, set, expected)
    \/ \E u \in Admins, expected \in 0 .. MaxRevision, status \in {"draft", "approved"} :
          SaveCriteria(u, expected, status)
    \/ \E u \in Admins, expected \in 0 .. MaxRevision : Publish(u, expected)
    \/ \E u \in Admins : Redact(u)

BenchmarkSpec == BenchmarkInit /\ [][BenchmarkNext]_benchmarkVars

-----------------------------------------------------------------------------
(* Properties.                                                             *)

\* Two final decisions in a row, by different administrators, that differ: the
\* second stands only as a super-admin's resolution of a dispute, whatever drafts,
\* imports and redactions lie between them.
DisagreementIsDisputed ==
    \A c \in Cases :
        LET s == reviews[c] IN
        \A i, j \in FinalsOf(s) :
            (/\ i < j /\ ~\E k \in FinalsOf(s) : i < k /\ k < j
             /\ s[i].by # s[j].by /\ Differs(s[i], s[j].state, s[j].verdict))
            => s[j].by \in Supers /\ s[j - 1].state = "disputed"

==============================================================================
