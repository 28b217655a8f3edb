--------------------------- MODULE MCScheduleDispatch ---------------------------
(***************************************************************************)
(* Two instances of ScheduleDispatch in one run.  In "races" one digest    *)
(* meets every interleaving of edits, plans, closure, crashes and two      *)
(* dispatchers.  In "page" three accounts have an overdue digest each and  *)
(* a page holds two: digests whose accounts hold them up fill it, or all   *)
(* of it but one place.                                                    *)
(***************************************************************************)
EXTENDS ScheduleDispatch

CONSTANTS w1, w2, s1, alice, bob, carol

EveryHour == [dates |-> 1 .. MaxTime + 1, ends |-> Never, email |-> FALSE]
Mailed    == [dates |-> {2, 3}, ends |-> 3, email |-> TRUE]
Both      == {EveryHour, Mailed}

MCDigests == 1 .. 3
MCOwnerOf == <<alice, bob, carol>>

VARIABLE case

MCVars == <<case, vars>>

SavedRow == [EmptyRow EXCEPT !.schedule = EveryHour, !.next = 2]

MCInit ==
    \/ case = "races" /\ Init
    \/ /\ case = "page"
       /\ clock = 2
       /\ row = [d \in Digests |-> SavedRow]
       /\ since = [d \in Digests |-> 1]
       /\ access = [o \in Owners |-> "open"]
       /\ active = [o \in Owners |-> TRUE]
       /\ closing = [o \in Owners |-> FALSE]
       /\ running = [o \in Owners |-> FALSE]
       /\ runs = <<>>
       /\ lock = [o \in Owners |-> Nobody]
       /\ tick = [w \in Dispatchers |-> IdleTick]
       /\ session = [s \in Sessions |-> IdleSession]

\* Bob and Carol have no schedules, and nothing happens to their accounts.
OneDigest ==
    /\ \A d \in {2, 3} : row'[d] = row[d]
    /\ \A s \in Sessions : session'[s].digest = 1
    /\ \A o \in {bob, carol} :
          /\ access'[o] = access[o] /\ active'[o] = active[o]
          /\ closing'[o] = closing[o] /\ running'[o] = running[o]

\* The occurrences of hour 2: Alice's rate limit and Bob's allowance come and go,
\* and Carol's digest waits behind theirs.
FullPage ==
    /\ UNCHANGED <<clock, session, closing, active>>
    /\ access'[alice] \in {"open", "limited"}
    /\ access'[bob] \in {"open", "exhausted"}
    /\ access'[carol] = "open"
    /\ \A o \in Owners : running'[o] => running[o] \/ runs' # runs

MCNext == /\ Next /\ UNCHANGED case
          /\ IF case = "races" THEN OneDigest ELSE FullPage

MCSpec == MCInit /\ [][MCNext]_MCVars /\ Fairness
=============================================================================
