------------------------------ MODULE CfgChain ------------------------------
(***************************************************************************)
(* Where RetroArch's saves land: what atlas answers from the configuration  *)
(* files, next to a RetroArch that loads them.                              *)
(*                                                                          *)
(* RetroArch merges retroarch.cfg and the appended files one after another, *)
(* applies each key of the merge, looks up the gate and the directory of    *)
(* the overrides in what stands then, and loads everything once more with   *)
(* the overrides merged on top where one exists, over what already stands.  *)
(* atlas reads each key at most twice: the last base file that sets it and  *)
(* the last override that does.  Neither the files nor the roots change in  *)
(* between; the sorted directory is created when the game is first saved.   *)
(***************************************************************************)
EXTENDS Naturals

CONSTANTS
  Appended,        \* how many files the launch appends
  Overrides,       \* how many override files the content has candidates for
  Installations,   \* the files there can be, a set of [base, over, opaque] records
  Trees,           \* the directory trees there can be, functions over Places
  Paths,           \* the paths a setting can name
  DefaultFlags,    \* LayoutDefaults: a flag no file sets
  PlatformDefault, \* the saves directory no file sets
  PlatformConfig,  \* the config directory no file sets
  ConfigFileDir,   \* the directory of retroarch.cfg
  ContentDir,      \* the directory of the content
  Missing,         \* no file there
  None             \* Python's None

Bases == 1 + Appended
Chain == 1 .. Bases + Overrides
Flags == {"in_content_dir", "sort_by_content", "sort_by_core"}
LayoutKeys == Flags \union {"directory"}
Gates == {"auto_overrides_enable", "rgui_config_directory"}
Keys == LayoutKeys \union Gates
Booleans == Flags \union {"auto_overrides_enable"}

(* A parsed file is a function from the keys it sets: its dropped lines set *)
(* none.  "yes" stands for whatever is no boolean, 1 and 0 for true, false. *)
(* Opaque are the files of the chain with a byte in them that is not UTF-8: *)
(* RetroArch parses bytes, atlas reads no text there (READ_INVALID_TEXT).   *)
ValuesOf(k) ==
  IF k \in Booleans THEN {"true", "false", "yes"} ELSE Paths \union {"default", ""}
IsFile(t) == t # Missing => DOMAIN t \subseteq Keys /\ \A k \in DOMAIN t : t[k] \in ValuesOf(k)

OverrideDirs == Paths \union {PlatformConfig, ConfigFileDir}
Roots == Paths \union {PlatformDefault, ContentDir}
Places == [root : Roots, content : BOOLEAN, core : BOOLEAN]
Kinds == {"directory", "file", "missing"}
Root(r) == [root |-> r, content |-> FALSE, core |-> FALSE]
RootOf(p) == Root(p.root)

ASSUME SizesAssumption == Appended \in Nat /\ Overrides \in Nat
ASSUME DefaultsAssumption == DefaultFlags \in [Flags -> BOOLEAN]
ASSUME TreesAssumption == Trees \subseteq [Places -> Kinds]
ASSUME FilesAssumption ==
  \A f \in Installations :
    /\ \A i \in 1 .. Bases : IsFile(f.base[i])
    /\ \A d \in OverrideDirs, i \in 1 .. Overrides : IsFile(f.over[d][i])
    /\ f.opaque \subseteq Chain
ASSUME DirsAssumption ==
  /\ None \notin OverrideDirs \union Places \union {[dir |-> None, fallback |-> None]}
  /\ {"default", ""} \intersect Paths = {}

VARIABLES
  files,     \* the configuration files
  kind,      \* kind[p]: what stands at place p
  pc,        \* RetroArch's next step
  pos,       \* how many files of the chain the current load has merged
  merged,    \* merged[k]: which of them k is read from, 0 where none sets it
  standing,  \* standing[k]: the setting RetroArch runs with
  from,      \* from[k]: the file it was set by, 0 for the default
  refused,   \* the <<file, key>> reads that set nothing
  target,    \* where the game was first saved
  layout,    \* what atlas resolved each layout key to
  answer     \* what atlas answered

emulator == <<pc, pos, merged, standing, from, refused, target>>
atlas == <<layout, answer>>
vars == <<files, kind, emulator, atlas>>

(* File i of the chain, the overrides read from directory d. *)
TextAt(i, d) == IF i <= Bases THEN files.base[i] ELSE files.over[d][i - Bases]
Sets(i, d, k) == TextAt(i, d) # Missing /\ k \in DOMAIN TextAt(i, d)

(* What RetroArch and atlas make of one read: a value that is no boolean,   *)
(* or no directory, sets nothing.                                           *)
Taken(k, v) ==
  IF k \in Booleans THEN v \in {"true", "false"}
  ELSE k = "directory" => v = "default" \/ (v \in Paths /\ kind[Root(v)] = "directory")

(* Mutant: the literal "default" is taken for a path. *)
MeaningAsWritten(k, v) ==
  IF k \in Booleans THEN v = "true" ELSE v

Meaning(k, v) ==
  IF k \in Booleans THEN v = "true"
  ELSE IF k = "directory" THEN (IF v = "default" THEN PlatformDefault ELSE v)
  ELSE IF v \in {"default", ""} THEN ConfigFileDir
  ELSE v

Default(k) ==
  IF k \in Flags THEN DefaultFlags[k]
  ELSE IF k = "auto_overrides_enable" THEN TRUE
  ELSE IF k = "directory" THEN PlatformDefault
  ELSE PlatformConfig

-----------------------------------------------------------------------------
(* RetroArch. *)
Init ==
  /\ files \in Installations
  /\ kind \in Trees
  /\ pc = "boot"
  /\ pos = 0
  /\ merged = [k \in Keys |-> 0]
  /\ standing = [k \in Keys |-> Default(k)]
  /\ from = [k \in Keys |-> 0]
  /\ refused = {}
  /\ target = None
  /\ layout = None
  /\ answer = None

OverrideDir == standing["rgui_config_directory"]
OverrideAt(i) == TextAt(i, OverrideDir) # Missing
FilesToMerge == IF pc = "boot" THEN Bases ELSE Bases + Overrides

(* config_append_file: "the key-value pairs of the new config file takes    *)
(* priority over the old".                                                  *)
MergeFile ==
  /\ pc \in {"boot", "reload"}
  /\ pos < FilesToMerge
  /\ pos' = pos + 1
  /\ merged' = [k \in Keys |-> IF Sets(pos + 1, OverrideDir, k) THEN pos + 1 ELSE merged[k]]
  /\ UNCHANGED <<files, kind, pc, standing, from, refused, target, atlas>>

ReadValue(k) == TextAt(merged[k], OverrideDir)[k]
Applies(k) == merged[k] # 0 /\ Taken(k, ReadValue(k))
RefusedReads == {<<merged[k], k>> : k \in {j \in Keys : merged[j] # 0 /\ ~Applies(j)}}

(* Every key of the merge is read once, over what stands already. *)
ApplySettings ==
  /\ pc \in {"boot", "reload"}
  /\ pos = FilesToMerge
  /\ standing' = [k \in Keys |-> IF Applies(k) THEN Meaning(k, ReadValue(k)) ELSE standing[k]]
  /\ from' = [k \in Keys |-> IF Applies(k) THEN merged[k] ELSE from[k]]
  /\ refused' = refused \union RefusedReads
  /\ pc' = IF pc = "boot" THEN "booted" ELSE "loaded"
  /\ UNCHANGED <<files, kind, pos, merged, target, atlas>>

(* config_load_override: one reload with every override, or none.  What     *)
(* stands is kept: it runs without config_set_defaults.                     *)
OverridesApply ==
  standing["auto_overrides_enable"] /\ \E i \in Bases + 1 .. Bases + Overrides : OverrideAt(i)

LoadOverride ==
  /\ pc = "booted"
  /\ pc' = IF OverridesApply THEN "reload" ELSE "loaded"
  /\ pos' = 0
  /\ merged' = [k \in Keys |-> 0]
  /\ UNCHANGED <<files, kind, standing, from, refused, target, atlas>>

(* The first save: the sorted directory is there, is created, or the root   *)
(* is used instead.                                                         *)
SortedDir ==
  [root    |-> IF standing["in_content_dir"] THEN ContentDir ELSE standing["directory"],
   content |-> standing["sort_by_content"],
   core    |-> standing["sort_by_core"]]
Above(p) == {RootOf(p), [p EXCEPT !.core = FALSE], p}

SaveThere ==
  /\ pc = "loaded"
  /\ SortedDir = RootOf(SortedDir) \/ kind[SortedDir] = "directory"
  /\ target' = SortedDir
  /\ UNCHANGED kind

CreateAndSave ==
  /\ pc = "loaded"
  /\ SortedDir # RootOf(SortedDir)
  /\ kind[SortedDir] = "missing"
  /\ \A p \in Above(SortedDir) : kind[p] # "file"
  /\ kind' = [p \in Places |-> IF p \in Above(SortedDir) THEN "directory" ELSE kind[p]]
  /\ target' = SortedDir

RevertAndSave ==
  /\ pc = "loaded"
  /\ SortedDir # RootOf(SortedDir)
  /\ kind[SortedDir] # "directory"
  /\ target' = RootOf(SortedDir)
  /\ UNCHANGED kind

FirstSave ==
  /\ SaveThere \/ CreateAndSave \/ RevertAndSave
  /\ pc' = "saved"
  /\ UNCHANGED <<files, pos, merged, standing, from, refused, atlas>>

-----------------------------------------------------------------------------
(* atlas. *)
Last(S) == CHOOSE i \in S : \A j \in S : j <= i
LastThatSets(S) == IF S = {} THEN 0 ELSE Last(S)

(* The one base file and the one override that key k is read from, 0 for    *)
(* neither; d is the override directory, None where no override applies.    *)
Legible(i) == i \notin files.opaque
BootRead(k) == LastThatSets({i \in 1 .. Bases : Legible(i) /\ Sets(i, None, k)})
OverrideRead(k, d) ==
  IF d = None THEN 0
  ELSE LastThatSets({i \in Bases + 1 .. Bases + Overrides : Legible(i) /\ Sets(i, d, k)})

TakenAt(i, d, k) == i # 0 /\ Taken(k, TextAt(i, d)[k])

(* Mutant: the last file that sets a key decides it, refused or not. *)
ApplyLast(stands, i, d, k) ==
  [value    |-> IF TakenAt(i, d, k) THEN Meaning(k, TextAt(i, d)[k]) ELSE stands.value,
   deciding |-> IF i # 0 THEN i ELSE stands.deciding]

Apply(stands, i, d, k) ==
  IF TakenAt(i, d, k)
  THEN [value |-> Meaning(k, TextAt(i, d)[k]), deciding |-> i]
  ELSE stands

Booted(k) == Apply([value |-> Default(k), deciding |-> 0], BootRead(k), None, k)

(* The gate and the override directory are read from the boot layers. *)
GatedDir ==
  IF Booted("auto_overrides_enable").value THEN Booted("rgui_config_directory").value ELSE None

(* Mutant: an override's read hides the boot's, taken or not. *)
OneRead(k) ==
  LET start == [value |-> Default(k), deciding |-> 0]
  IN  IF OverrideRead(k, GatedDir) # 0 THEN Apply(start, OverrideRead(k, GatedDir), GatedDir, k)
      ELSE Booted(k)

ChainRead(k) == Apply(Booted(k), OverrideRead(k, GatedDir), GatedDir, k)

(* Mutant: values no getter ever saw are reported too. *)
EveryRejected ==
  {read \in Chain \X LayoutKeys :
     /\ read[1] <= Bases \/ GatedDir # None
     /\ Sets(read[1], GatedDir, read[2])
     /\ ~TakenAt(read[1], GatedDir, read[2])}

RejectedReads ==
  {read \in Chain \X LayoutKeys :
     /\ read[1] \in {BootRead(read[2]), OverrideRead(read[2], GatedDir)}
     /\ ~TakenAt(read[1], GatedDir, read[2])}

(* An appended file RetroArch would skip, or would apply and atlas cannot   *)
(* read, ends the question without a place.                                 *)
Unreachable == [dir |-> None, fallback |-> None]
AppendedRead == \A i \in 2 .. Bases : files.base[i] # Missing /\ Legible(i)

Refuse ==
  /\ layout = None /\ answer = None
  /\ ~AppendedRead
  /\ answer' = Unreachable
  /\ UNCHANGED <<files, kind, emulator, layout>>

(* The question is asked before the game is saved.  A retroarch.cfg that    *)
(* cannot be read is stated, config-unreadable; an override is not.         *)
ReadChain ==
  /\ layout = None /\ answer = None
  /\ target = None
  /\ AppendedRead
  /\ layout' = [keys     |-> [k \in LayoutKeys |-> ChainRead(k)],
                rejected |-> RejectedReads,
                degraded |-> ~Legible(1)]
  /\ UNCHANGED <<files, kind, emulator, answer>>

Stands(k) == layout.keys[k].value

PlacementDir ==
  [root    |-> IF Stands("in_content_dir") THEN ContentDir ELSE Stands("directory"),
   content |-> Stands("sort_by_content"),
   core    |-> Stands("sort_by_core")]

(* Mutant: what does not exist yet is taken to be creatable. *)
SortedOrBlocked(dir) ==
  [dir |-> IF kind[dir] = "file" THEN RootOf(dir) ELSE dir, fallback |-> None]

SortedDirFallback(dir) ==
  IF dir = RootOf(dir) \/ kind[dir] = "directory" THEN [dir |-> dir, fallback |-> None]
  ELSE IF kind[dir] = "file" THEN [dir |-> RootOf(dir), fallback |-> None]
  ELSE [dir |-> dir, fallback |-> RootOf(dir)]

(* The machine is looked at last, maybe after the game was saved. *)
AnswerPlacement ==
  /\ layout # None /\ answer = None
  /\ answer' = SortedDirFallback(PlacementDir)
  /\ UNCHANGED <<files, kind, emulator, layout>>

Next ==
  \/ MergeFile \/ ApplySettings \/ LoadOverride \/ FirstSave
  \/ Refuse \/ ReadChain \/ AnswerPlacement

Spec == Init /\ [][Next]_vars
-----------------------------------------------------------------------------
Positions == 0 .. Bases + Overrides
SettingsOf(k) ==
  IF k \in Booleans THEN BOOLEAN
  ELSE IF k = "directory" THEN Paths \union {PlatformDefault}
  ELSE OverrideDirs

TypeOK ==
  /\ files \in Installations
  /\ kind \in [Places -> Kinds]
  /\ pc \in {"boot", "booted", "reload", "loaded", "saved"}
  /\ pos \in Positions
  /\ merged \in [Keys -> Positions]
  /\ DOMAIN standing = Keys
  /\ \A k \in Keys : standing[k] \in SettingsOf(k)
  /\ from \in [Keys -> Positions]
  /\ refused \subseteq Chain \X Keys
  /\ target \in Places \union {None}
  /\ layout # None => \A k \in LayoutKeys : layout.keys[k].value \in SettingsOf(k)
  /\ answer \in [dir : Places \union {None}, fallback : Places \union {None}] \union {None}

Loaded == pc \in {"loaded", "saved"} /\ layout # None /\ ~layout.degraded

(* What atlas says stands is what stands once RetroArch has loaded the       *)
(* chain, whatever is set, refused, shadowed, gated or moved along it: two   *)
(* reads per key are enough, "whatever the chain's length" (_read_layers).   *)
(* Where atlas knows less it says so: "every degradation is a stated caveat, *)
(* never a silent guess" (_read_chain).                                      *)
LayoutIsTheEmulators == Loaded => \A k \in LayoutKeys : layout.keys[k].value = standing[k]

(* The file atlas names is the one RetroArch took the setting from: naming   *)
(* another "sends the reader to edit a file that decides nothing"            *)
(* (chain_bool_read, _resolve_directory).                                    *)
DecidingFileIsTheEmulators == Loaded => \A k \in LayoutKeys : layout.keys[k].deciding = from[k]

(* What atlas says was refused is what RetroArch read and refused, and a     *)
(* value shadowed before any getter saw it is not (IgnoredSetting,           *)
(* RejectedDirectory).                                                       *)
RefusalsAreTheEmulators ==
  Loaded => layout.rejected = {read \in refused : read[2] \in LayoutKeys}

(* The game is saved in the directory answered, or in the fallback where     *)
(* one is stated: with no fallback the answer is a certainty, whether the    *)
(* sorted directory exists, can be created or is blocked                     *)
(* (_sorted_dir_fallback).                                                   *)
SavesLandWhereAnswered ==
  answer # None /\ answer # Unreachable /\ ~layout.degraded /\ target # None =>
    target \in {answer.dir, answer.fallback}
=============================================================================
