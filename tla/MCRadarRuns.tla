----------------------------- MODULE MCRadarRuns -----------------------------
(* Small instances of RadarRuns for TLC. *)
EXTENDS RadarRuns, TLC

CONSTANTS w1, w2, alice

\* One account with one run: everything two workers can do to it.
OneRun        == {1}
OneOwner      == {alice}
OneOwnerOf    == [r \in OneRun |-> alice]

\* Two runs of one account, which exclude each other.
TwoRuns       == {1, 2}
SameOwnerOf   == [r \in TwoRuns |-> alice]

\* The account is metered.
OnlyAlice     == {alice}

WorkerSymmetry == Permutations({w1, w2})
=============================================================================
