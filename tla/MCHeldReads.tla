----------------------------- MODULE MCHeldReads -----------------------------
(* HeldReads on small instances: no two revisions share a stat identity. *)
EXTENDS HeldReads, TLC

CONSTANTS a1, a2, r1, r2, r3

MCAskers == {a1, a2}
MCOneAsker == {a1}
MCRevisions == {r1, r2, r3}
MCTwoRevisions == {r1, r2}
MCStampOf == [r \in MCRevisions |-> r]
Symmetric == Permutations(MCAskers) \union Permutations(MCRevisions)
=============================================================================
