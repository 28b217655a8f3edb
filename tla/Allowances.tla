------------------------------ MODULE Allowances ------------------------------
(* The monthly allowances of one account: the ledger that limits it             *)
(* (subscription_access_service), whose rows are reserved when a run is         *)
(* admitted and settled or released when it ends, and the ledger that only      *)
(* observes (subscription_observation_service); against edits and deletions of  *)
(* digests, changes of the plan and of the policy, and retries. Every           *)
(* transaction below holds the account's lock, but for a deletion.              *)
EXTENDS Integers, FiniteSetsExt

CONSTANTS
    Topics,         \* digests that the account may have
    Attempts,       \* runs, in the order of their start
    Configuration,  \* what the revision of each tier includes
    MaxPapers,      \* largest maximum_papers of a digest (30)
    MaxClock        \* bound: months and anniversaries that pass

Tiers    == {"free", "paid"}
Triggers == {"manual", "scheduled"}

ASSUME AllowancesAssumption ==
    /\ Attempts \subseteq Nat \ {0} /\ MaxPapers \in Nat \ {0} /\ MaxClock \in Nat
    /\ Configuration \in [Tiers -> [runs : Nat, manual : Nat, papers : Nat, perRun : Nat, schedules : BOOLEAN]]

VARIABLES
    hours,     \* time: every anniversary of the account and every month's first day
    policyMode,\* the latest access policy
    tier,      \* the plan that billing allows, the Free plan if it ended
    maximum,   \* digests.maximum_papers, 0 for a digest that is not there
    attempt,   \* digest_runs
    charged,   \* subscription_run_usage
    watched,   \* subscription_observed_runs
    removal,   \* what each deletion of a digest has found
    stranded   \* runs that were deleted under way

allowanceVars == <<hours, policyMode, tier, maximum, attempt, charged, watched, removal, stranded>>

\* An anniversary and the first day of a month take turns.
WindowAt(t) == t \div 2
MonthAt(t)  == (t + 1) \div 2

\* papers are those asked for while a row is reserved, and those summarised then.
Uncharged  == [state |-> "none", window |-> 0, tier |-> "free", papers |-> 0]
Unwatched  == [state |-> "none", month |-> 0]
Unstarted  == [state |-> "absent", topic |-> CHOOSE d \in Topics : TRUE, trigger |-> "manual", papers |-> 0]
NoRemoval  == [at |-> "idle", found |-> {}]

AllowancesInit ==
    /\ hours = 0 /\ policyMode = "sandbox" /\ tier = "paid"
    /\ maximum = [d \in Topics |-> 0]
    /\ attempt = [r \in Attempts |-> Unstarted]
    /\ charged = [r \in Attempts |-> Uncharged]
    /\ watched = [r \in Attempts |-> Unwatched]
    /\ removal = [d \in Topics |-> NoRemoval]
    /\ stranded = {}

-----------------------------------------------------------------------------
(* The allowance.                                                              *)

\* totals: the rows of a window that count against it, and the papers of each.
Counted(w) == {r \in Attempts : charged[r].state \in {"reserved", "settled"} /\ charged[r].window = w}
PaperUnits(w) == {u \in Counted(w) \X (1 .. MaxPapers) : u[2] <= charged[u[1]].papers}
UsedPapers(w) == Cardinality(PaperUnits(w))

\* reasons, none of which applies.
Included(papers, trigger) ==
    LET c == Configuration[tier]
        w == WindowAt(hours) IN
    /\ Cardinality(Counted(w)) + 1 <= c.runs
    /\ trigger = "manual" => Cardinality({r \in Counted(w) : attempt[r].trigger = "manual"}) + 1 <= c.manual
    /\ UsedPapers(w) + papers <= c.papers
    /\ papers <= c.perRun
    /\ trigger = "scheduled" => c.schedules

\* assess: complimentary access is not limited.
Assessed(papers, trigger) == policyMode = "complimentary" \/ Included(papers, trigger)

\* reserve, of what was assessed: at the current plan and in the current window; a
\* row that is reserved or settled stays as it is.
Charge(r, papers) ==
    IF policyMode = "complimentary" \/ charged[r].state \in {"reserved", "settled"} THEN charged
    ELSE [charged EXCEPT ![r] = [state |-> "reserved", window |-> WindowAt(hours), tier |-> tier,
                                 papers |-> papers]]

\* observation.reserve: a retry goes back to its entry, in its original month.
Watch(r) ==
    IF watched[r].state = "none" THEN [watched EXCEPT ![r] = [state |-> "reserved", month |-> MonthAt(hours)]]
    ELSE [watched EXCEPT ![r].state = IF @ = "released" THEN "reserved" ELSE @]

\* settle, in both ledgers: what is not reserved stays as it is.
EndState(success) == IF success THEN "settled" ELSE "released"
Settlement(r, success, actual) ==
    /\ charged' = IF charged[r].state # "reserved" THEN charged
                  ELSE [charged EXCEPT ![r].state = EndState(success), ![r].papers = actual]
    /\ watched' = IF watched[r].state # "reserved" THEN watched
                  ELSE [watched EXCEPT ![r].state = EndState(success)]

-----------------------------------------------------------------------------
(* Runs.                                                                       *)

NothingRuns == \A r \in Attempts : attempt[r].state # "active"

StartRun(r, d, trigger) ==
    /\ attempt[r].state = "absent" /\ \A q \in Attempts : q < r => attempt[q].state # "absent"
    /\ maximum[d] > 0 /\ NothingRuns
    /\ Assessed(maximum[d], trigger)
    /\ attempt' = [attempt EXCEPT ![r] = [state |-> "active", topic |-> d, trigger |-> trigger, papers |-> maximum[d]]]
    /\ charged' = Charge(r, maximum[d]) /\ watched' = Watch(r)
    /\ UNCHANGED <<hours, policyMode, tier, maximum, removal, stranded>>

\* Mutant: what was admitted once is not assessed again.
RetryUnassessed(r) ==
    /\ attempt[r].state = "failed" /\ NothingRuns
    /\ attempt' = [attempt EXCEPT ![r].state = "active"]
    /\ charged' = Charge(r, attempt[r].papers) /\ watched' = Watch(r)
    /\ UNCHANGED <<hours, policyMode, tier, maximum, removal, stranded>>

\* A retry is a new admission, of the papers and the trigger of the first one.
RetryRun(r) ==
    /\ attempt[r].state = "failed" /\ NothingRuns
    /\ charged[r].state \notin {"reserved", "settled"} => Assessed(attempt[r].papers, attempt[r].trigger)
    /\ attempt' = [attempt EXCEPT ![r].state = "active"]
    /\ charged' = Charge(r, attempt[r].papers) /\ watched' = Watch(r)
    /\ UNCHANGED <<hours, policyMode, tier, maximum, removal, stranded>>

\* A run has no more summaries than it asked for papers; those of one that failed
\* count nowhere.
EndRun(r, success) ==
    /\ attempt[r].state = "active"
    /\ attempt' = [attempt EXCEPT ![r].state = IF success THEN "completed" ELSE "failed"]
    /\ \E actual \in {0, attempt[r].papers} : Settlement(r, success, IF success THEN actual ELSE 0)
    /\ UNCHANGED <<hours, policyMode, tier, maximum, removal, stranded>>

-----------------------------------------------------------------------------
(* Digests.                                                                    *)

\* create, and _update: the plan is only asked about more papers than before.
EditTopic(d, papers) ==
    /\ papers # maximum[d] /\ removal[d].at = "idle"
    /\ papers > maximum[d] /\ policyMode = "sandbox" => papers <= Configuration[tier].perRun
    /\ maximum' = [maximum EXCEPT ![d] = papers]
    /\ UNCHANGED <<hours, policyMode, tier, attempt, charged, watched, removal, stranded>>

RunsOfTopic(d) == {r \in Attempts : attempt[r].topic = d /\ attempt[r].state \in {"active", "completed", "failed"}}
ActiveOf(d)    == {r \in RunsOfTopic(d) : attempt[r].state = "active"}

\* Mutant: the digest's runs are not looked at.
CheckSkipped(d) ==
    /\ maximum[d] > 0 /\ removal[d].at = "idle"
    /\ removal' = [removal EXCEPT ![d] = [at |-> "checked", found |-> ActiveOf(d)]]
    /\ UNCHANGED <<hours, policyMode, tier, maximum, attempt, charged, watched, stranded>>

\* _delete, up to its check: no run of the digest is under way.
DeletionCheck(d) ==
    /\ maximum[d] > 0 /\ removal[d].at = "idle" /\ ActiveOf(d) = {}
    /\ removal' = [removal EXCEPT ![d] = [at |-> "checked", found |-> ActiveOf(d)]]
    /\ UNCHANGED <<hours, policyMode, tier, maximum, attempt, charged, watched, stranded>>

\* run_id is set to NULL, the rest of the row is kept.
UsageKept(d) == charged

\* The deletion, with all the runs the digest has by then.
DeletionCommit(d) ==
    /\ removal[d].at = "checked"
    /\ maximum' = [maximum EXCEPT ![d] = 0]
    /\ attempt' = [r \in Attempts |-> IF r \in RunsOfTopic(d) THEN [attempt[r] EXCEPT !.state = "deleted"]
                                      ELSE attempt[r]]
    /\ charged' = UsageKept(d)
    /\ stranded' = stranded \cup (ActiveOf(d) \ removal[d].found)
    /\ removal' = [removal EXCEPT ![d] = NoRemoval]
    /\ UNCHANGED <<hours, policyMode, tier, watched>>

-----------------------------------------------------------------------------
(* The plan, the policy and time.                                              *)

TierTurns ==
    /\ tier' \in Tiers \ {tier}
    /\ UNCHANGED <<hours, policyMode, maximum, attempt, charged, watched, removal, stranded>>

\* change_policy waits for the active run.
PolicyTurns ==
    /\ NothingRuns
    /\ policyMode' \in {"sandbox", "complimentary"} \ {policyMode}
    /\ UNCHANGED <<hours, tier, maximum, attempt, charged, watched, removal, stranded>>

TimePasses ==
    /\ hours < MaxClock /\ hours' = hours + 1
    /\ UNCHANGED <<policyMode, tier, maximum, attempt, charged, watched, removal, stranded>>

AllowancesNext ==
    \/ \E r \in Attempts, d \in Topics, trigger \in Triggers : StartRun(r, d, trigger)
    \/ \E r \in Attempts : RetryRun(r) \/ EndRun(r, TRUE) \/ EndRun(r, FALSE)
    \/ \E d \in Topics : DeletionCheck(d) \/ DeletionCommit(d) \/ \E papers \in 1 .. MaxPapers : EditTopic(d, papers)
    \/ TierTurns \/ PolicyTurns \/ TimePasses

AllowancesSpec == AllowancesInit /\ [][AllowancesNext]_allowanceVars

-----------------------------------------------------------------------------
(* Properties.                                                                 *)

\* However runs fail, are retried in a later window, are deleted, and however the
\* plan changes meanwhile: what counts in a window is within the plan under which
\* it was admitted, in runs and in papers, and in total within the larger one.
AllowanceKept ==
    \A t \in 0 .. hours :
        LET counted == Counted(WindowAt(t))
            free    == {r \in counted : charged[r].tier = "free"} IN
        /\ Cardinality(counted) <= Max({Configuration[p].runs : p \in Tiers})
        /\ UsedPapers(WindowAt(t)) <= Max({Configuration[p].papers : p \in Tiers})
        /\ Cardinality(free) <= Configuration["free"].runs
        /\ Cardinality({r \in counted : attempt[r].trigger = "manual"}) <= Max({Configuration[p].manual : p \in Tiers})

\* What was consumed cannot be won back, by deleting the digest or otherwise, and an
\* observed entry never leaves the month of its first admission.
ConsumptionStays ==
    [][\A r \in Attempts :
          /\ charged[r].state = "settled" => charged'[r] = charged[r]
          /\ watched[r].state # "none" => watched'[r].month = watched[r].month]_allowanceVars

\* A reservation, in either ledger, ends with its run. Only that of a run whose
\* digest was deleted under it is left behind, and only if it was admitted after
\* the deletion had looked.
ReservationsEnd ==
    \A r \in Attempts :
        charged[r].state = "reserved" \/ watched[r].state = "reserved"
        => attempt[r].state = "active" \/ r \in stranded
=============================================================================
