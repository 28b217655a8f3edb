------------------------------ MODULE RateLimits ------------------------------
(***************************************************************************)
(* The shared fixed-window counters (services/rate_limit_service.py) of    *)
(* one scope and subject.  A request adds one to the row of its window,    *)
(* which an UPDATE does if it is there and below the limit, and an INSERT  *)
(* if it is not; the row is held until the request's transaction ends,     *)
(* which for a run's admission is long after (commit=False).               *)
(*                                                                         *)
(* Statements see what is committed when they begin, and wait for the      *)
(* holder of the row they are to change.                                   *)
(***************************************************************************)
EXTENDS Integers

CONSTANTS
    Requests,   \* concurrent requests
    Limit,      \* what a window allows
    MaxWindow   \* bound: windows

ASSUME LimitAssumption == Limit \in Nat \ {0} /\ MaxWindow \in Nat \ {0}

VARIABLES
    window,   \* the current window
    bucket,   \* RateLimitBucket.count of each window, or Absent
    asking,   \* the requests: where they are, and their window
    granted   \* history: requests of the current window that were granted

limitVars == <<window, bucket, asking, granted>>

Absent  == 0
Windows == 1 .. MaxWindow
Waiting == [at |-> "idle", window |-> 1]
Statements == {"update", "look", "insert", "again"}
Asking  == [at : {"idle", "granted"} \cup Statements, window : Windows]

LimitTypeOK ==
    /\ window \in Windows /\ granted \in Nat
    /\ bucket \in [Windows -> Nat]
    /\ asking \in [Requests -> Asking]

LimitInit ==
    /\ window = 1 /\ granted = 0
    /\ bucket = [w \in Windows |-> Absent]
    /\ asking = [r \in Requests |-> Waiting]

-----------------------------------------------------------------------------

AtStatement(r, statement) == asking[r].at = statement
Present(r) == bucket[asking[r].window] # Absent
\* Another transaction has changed the row and not ended.
Held(r) == \E o \in Requests \ {r} : asking[o].at = "granted" /\ asking[o].window = asking[r].window
Ask(r, statement) == asking' = [asking EXCEPT ![r].at = statement]
Reading == UNCHANGED <<window, bucket, granted>>

\* consume: the window is that of the request's clock.
BeginRequest(r) ==
    /\ AtStatement(r, "idle")
    /\ asking' = [asking EXCEPT ![r] = [at |-> "update", window |-> window]]
    /\ Reading

\* The UPDATE finds no row, none below the limit, or adds one.
UpdateBucket(r) ==
    /\ AtStatement(r, "update")
    /\ \/ ~Present(r) /\ Ask(r, "look")
       \/ Present(r) /\ ~Held(r) /\ bucket[asking[r].window] < Limit /\ Ask(r, "granted")
       \/ Present(r) /\ ~Held(r) /\ bucket[asking[r].window] >= Limit /\ Ask(r, "idle")
    /\ Reading

\* db.get: a row that has appeared since refuses the request.
LookBucket(r) ==
    /\ AtStatement(r, "look")
    /\ \/ Present(r) /\ Ask(r, "idle")
       \/ ~Present(r) /\ Ask(r, "insert")
    /\ Reading

\* The INSERT waits for another one of the same key.
InsertBucket(r) ==
    /\ AtStatement(r, "insert") /\ ~Held(r)
    /\ \/ Present(r) /\ Ask(r, "again")
       \/ ~Present(r) /\ Ask(r, "granted")
    /\ Reading

\* Mutant: having lost the race for the INSERT counts as accepted.
UpdateAfterAny(r) ==
    /\ AtStatement(r, "again") /\ ~Held(r)
    /\ \/ Present(r) /\ Ask(r, "granted")
       \/ ~Present(r) /\ Ask(r, "idle")
    /\ Reading

\* After an IntegrityError the UPDATE decides.
UpdateAfter(r) ==
    /\ AtStatement(r, "again") /\ ~Held(r)
    /\ \/ Present(r) /\ bucket[asking[r].window] < Limit /\ Ask(r, "granted")
       \/ ~(Present(r) /\ bucket[asking[r].window] < Limit) /\ Ask(r, "idle")
    /\ Reading

\* The transaction ends: what it has added is there, or was never.
CommitRequest(r) ==
    /\ AtStatement(r, "granted")
    /\ bucket' = [bucket EXCEPT ![asking[r].window] = @ + 1]
    /\ granted' = IF asking[r].window = window THEN granted + 1 ELSE granted
    /\ Ask(r, "idle")
    /\ UNCHANGED window

RollBackRequest(r) ==
    /\ AtStatement(r, "granted")
    /\ Ask(r, "idle")
    /\ Reading

\* cleanup_rate_limits.
CleanBuckets ==
    /\ \A r \in Requests : AtStatement(r, "granted") /\ Present(r) => asking[r].window = window
    /\ bucket' = [w \in Windows |-> IF w < window THEN Absent ELSE bucket[w]]
    /\ UNCHANGED <<window, asking, granted>>

NextWindow ==
    /\ window < MaxWindow
    /\ window' = window + 1 /\ granted' = 0
    /\ UNCHANGED <<bucket, asking>>

LimitNext ==
    \/ \E r \in Requests : \/ BeginRequest(r) \/ UpdateBucket(r) \/ LookBucket(r) \/ InsertBucket(r)
                           \/ UpdateAfter(r) \/ CommitRequest(r) \/ RollBackRequest(r)
    \/ CleanBuckets
    \/ NextWindow

LimitSpec == LimitInit /\ [][LimitNext]_limitVars

-----------------------------------------------------------------------------

\* While a window lasts no more than Limit of its requests are granted, whatever
\* the order of their statements, of the first INSERT among them and of the
\* cleaner, and however long their transactions stay open.
WithinLimit == granted <= Limit
===============================================================================
