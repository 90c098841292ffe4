----------------------------- MODULE MCCoreProbe -----------------------------
(* CoreProbe on small instances: no two builds share (mtime, size). *)
EXTENDS CoreProbe, TLC

CONSTANTS a1, a2, r1, r2

MCAskers == {a1, a2}
MCOneAsker == {a1}
MCRevisions == {r1, r2}
MCKeyOf == [r \in MCRevisions |-> r]
Symmetric == Permutations(MCAskers) \union Permutations(MCRevisions)
SymmetricBuilds == Permutations(MCRevisions)
=============================================================================
