----------------------------- MODULE RunPromise -----------------------------
(***************************************************************************)
(* What the queue promises an account, with no workers, leases, requests   *)
(* or stages in it: a run is admitted with a reservation, collects accepted *)
(* units of work that are never taken back, and ends exactly once per      *)
(* admission, completed with every unit and its reservation settled or     *)
(* failed with its reservation released.                                   *)
(***************************************************************************)
EXTENDS Integers

CONSTANTS Runs, OwnerOf, Total   \* OwnerOf: runs to accounts; Total: units of a run

VARIABLES phase,   \* the run's status as its owner sees it
          done,    \* accepted units of work
          hold     \* the reservation

promiseVars == <<phase, done, hold>>

Open(r) == phase[r] \in {"queued", "running"}

Init ==
    /\ phase = [r \in Runs |-> "absent"]
    /\ done = [r \in Runs |-> 0]
    /\ hold = [r \in Runs |-> "none"]

Admit(r) ==
    /\ phase[r] \in {"absent", "failed"}
    /\ \A p \in Runs : OwnerOf[p] = OwnerOf[r] => ~Open(p)
    /\ phase' = [phase EXCEPT ![r] = "queued"]
    /\ hold' = [hold EXCEPT ![r] = "reserved"]
    /\ UNCHANGED done

Begin(r) ==
    /\ phase[r] = "queued"
    /\ phase' = [phase EXCEPT ![r] = "running"]
    /\ UNCHANGED <<done, hold>>

Accept(r) ==
    /\ phase[r] = "running"
    /\ done[r] < Total
    /\ done' = [done EXCEPT ![r] = @ + 1]
    /\ UNCHANGED <<phase, hold>>

Finish(r) ==
    /\ phase[r] = "running"
    /\ done[r] = Total
    /\ phase' = [phase EXCEPT ![r] = "completed"]
    /\ hold' = [hold EXCEPT ![r] = "settled"]
    /\ UNCHANGED done

Fail(r) ==
    /\ phase[r] = "running"
    /\ phase' = [phase EXCEPT ![r] = "failed"]
    /\ hold' = [hold EXCEPT ![r] = "released"]
    /\ UNCHANGED done

Next == \E r \in Runs : Admit(r) \/ Begin(r) \/ Accept(r) \/ Finish(r) \/ Fail(r)

Spec == Init /\ [][Next]_promiseVars
=============================================================================
