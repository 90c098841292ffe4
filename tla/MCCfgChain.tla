----------------------------- MODULE MCCfgChain -----------------------------
(***************************************************************************)
(* CfgChain on small instances: retroarch.cfg and one appended file, two    *)
(* override files, two directories, one of them a root.  What is set is     *)
(* varied one group of keys at a time: a flag, the directory, the gate with *)
(* a flag, the override directory with a flag.                              *)
(***************************************************************************)
EXTENDS CfgChain, FiniteSets, TLC

CONSTANTS d1, d2, saves, config, beside, roms

MCPaths == {d1, d2}
MCDefaultFlags == [k \in Flags |-> k = "sort_by_core"]

TextsOver(keys) ==
  {Missing} \union
  UNION {{t \in [set -> UNION {ValuesOf(k) : k \in set}] : \A k \in set : t[k] \in ValuesOf(k)} :
           set \in SUBSET keys}
NoFiles == [i \in 1 .. 2 |-> Missing]
Chains(base, over, dirs, candidates) ==
  [base : [1 .. 2 -> TextsOver(base)],
   over : {[d \in OverrideDirs |-> IF d \in dirs THEN f[d] @@ NoFiles ELSE NoFiles] :
             f \in [dirs -> [1 .. candidates -> TextsOver(over)]]},
   opaque : {{}}]
Opaque(chains, positions) ==
  {[chain EXCEPT !.opaque = positions] : chain \in chains}

MCInstallations ==
  Chains({"sort_by_core"}, {"sort_by_core"}, {config}, 2)
    \union Chains({"directory"}, {"directory"}, {config}, 2)
    \union Chains({"auto_overrides_enable"}, {"auto_overrides_enable", "in_content_dir"}, {config}, 1)
    \union Chains({"rgui_config_directory"}, {"sort_by_content"}, {config, beside}, 1)
    \union Opaque(Chains({"sort_by_core"}, {"sort_by_core"}, {config}, 1), {1})
    \union Opaque(Chains({"sort_by_core"}, {"sort_by_core"}, {config}, 1), {2})

MCOpaqueInstallations == Opaque(Chains({"directory"}, {"directory"}, {config}, 1), {3})

(* The trees: whether the second directory exists, and how far the sorted    *)
(* directories do.                                                          *)
Shapes == {"nothing", "content is a file", "core is a file", "all"}
KindIn(shape, existing, p) ==
  IF p.root \in MCPaths \ existing THEN "missing"
  ELSE IF p = Root(p.root)
  THEN IF p.root = saves /\ shape = "nothing" THEN "missing" ELSE "directory"
  ELSE CASE shape = "nothing" -> "missing"
         [] shape = "all" -> "directory"
         [] shape = "core is a file" -> IF p.core THEN "file" ELSE "directory"
         [] shape = "content is a file" ->
              IF p.content /\ p.core THEN "missing" ELSE IF p.content THEN "file" ELSE "directory"
MCTrees ==
  {[p \in Places |-> KindIn(shape, existing, p)] : shape \in Shapes, existing \in {{d1}, {d1, d2}}}
=============================================================================
