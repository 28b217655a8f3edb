----------------------------- MODULE MCStandalone -----------------------------
(* Components that share no state with one another, checked in one run: each   *)
(* behaviour is one of a single component, while the others rest in a state    *)
(* they can be in: their first one, and a schedule that has ended.             *)
EXTENDS MCRecurrence, OffsiteBackup, BenchmarkReview, EmailVerification, RateLimits,
        SourceEvidence, BillingNotices, Allowances

VARIABLE part

MCConfiguration ==
    [free |-> [runs |-> 1, manual |-> 1, papers |-> 2, perRun |-> 2, schedules |-> FALSE],
     paid |-> [runs |-> 2, manual |-> 1, papers |-> 3, perRun |-> 2, schedules |-> TRUE]]

EvidenceRests   == selected = PmcPapers /\ runWorker = CHOOSE f \in Readers : TRUE
RecurrenceRests == schedule = (CHOOSE s \in Schedules : s.ends # Never) /\ now = schedule.ends

StandaloneInit ==
    /\ BackupInit /\ BenchmarkInit /\ VerificationInit /\ LimitInit /\ EvidenceInit /\ NoticesInit /\ AllowancesInit
    /\ \/ part = "recurrence" /\ Init /\ EvidenceRests
       \/ part = "sources" /\ RecurrenceRests
       \/ part \in {"backup", "benchmark", "verification", "limits", "notices", "allowances"}
          /\ RecurrenceRests /\ EvidenceRests

StandaloneNext ==
    /\ UNCHANGED part
    /\ \/ /\ part = "recurrence" /\ Pass
          /\ UNCHANGED <<backupVars, benchmarkVars, verificationVars, limitVars, evidenceVars, noticeVars, allowanceVars>>
       \/ /\ part = "backup" /\ BackupNext
          /\ UNCHANGED <<vars, benchmarkVars, verificationVars, limitVars, evidenceVars, noticeVars, allowanceVars>>
       \/ /\ part = "benchmark" /\ BenchmarkNext
          /\ UNCHANGED <<vars, backupVars, verificationVars, limitVars, evidenceVars, noticeVars, allowanceVars>>
       \/ /\ part = "verification" /\ VerificationNext
          /\ UNCHANGED <<vars, backupVars, benchmarkVars, limitVars, evidenceVars, noticeVars, allowanceVars>>
       \/ /\ part = "limits" /\ LimitNext
          /\ UNCHANGED <<vars, backupVars, benchmarkVars, verificationVars, evidenceVars, noticeVars, allowanceVars>>
       \/ /\ part = "sources" /\ EvidenceNext
          /\ UNCHANGED <<vars, backupVars, benchmarkVars, verificationVars, limitVars, noticeVars, allowanceVars>>
       \/ /\ part = "notices" /\ NoticesNext
          /\ UNCHANGED <<vars, backupVars, benchmarkVars, verificationVars, limitVars, evidenceVars, allowanceVars>>
       \/ /\ part = "allowances" /\ AllowancesNext
          /\ UNCHANGED <<vars, backupVars, benchmarkVars, verificationVars, limitVars, evidenceVars, noticeVars>>

StandaloneVars == <<part, vars, backupVars, benchmarkVars, verificationVars, limitVars, evidenceVars, noticeVars, allowanceVars>>
StandaloneSpec == StandaloneInit /\ [][StandaloneNext]_StandaloneVars
===============================================================================
