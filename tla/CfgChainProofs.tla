--------------------------- MODULE CfgChainProofs ---------------------------
(***************************************************************************)
(* For every number of appended files and overrides, whatever they set and  *)
(* whatever directories exist: atlas names the settings, the deciding files *)
(* and the refusals of the RetroArch that loads the same chain, and the     *)
(* game is saved where it answered.                                         *)
(***************************************************************************)
EXTENDS CfgChain, WellFoundedInduction, TLAPS

(* Every file of every chain is text.  Without it the theorems are false:   *)
(* an override atlas cannot read is left out of the answer.                 *)
Readable == \A f \in Installations : f.opaque = {}
AllText == files.opaque = {}

(* What RetroArch has merged so far. *)
Setters(n, k) == {i \in 1 .. n : Sets(i, OverrideDir, k)}
MergeInv ==
  pc \in {"boot", "reload"} =>
    /\ pos <= FilesToMerge
    /\ \A k \in Keys : merged[k] = LastThatSets(Setters(pos, k))

(* What stands before, between and after the two loads. *)
BootRefused == {<<BootRead(k), k>> : k \in {j \in Keys : BootRead(j) # 0 /\ ~TakenAt(BootRead(j), None, j)}}
LoadInv ==
  /\ pc = "boot" =>
       /\ \A k \in Keys : standing[k] = Default(k) /\ from[k] = 0
       /\ refused = {}
  /\ pc \in {"booted", "reload"} =>
       /\ \A k \in Keys : standing[k] = Booted(k).value /\ from[k] = Booted(k).deciding
       /\ refused = BootRefused
  /\ pc = "reload" => OverridesApply
  /\ pc = "loaded" =>
       /\ \A k \in LayoutKeys : standing[k] = ChainRead(k).value /\ from[k] = ChainRead(k).deciding
       /\ RejectedReads = {read \in refused : read[2] \in LayoutKeys}

(* Until the save, what atlas resolved is what it would resolve now. *)
ReadInv ==
  /\ target # None <=> pc = "saved"
  /\ layout # None /\ pc # "saved" =>
       /\ \A k \in LayoutKeys : layout.keys[k] = ChainRead(k)
       /\ layout.rejected = RejectedReads
       /\ answer # None => answer = SortedDirFallback(PlacementDir)
  /\ layout = None /\ answer # None => answer = Unreachable

(* Where the game was saved, and what the sorted directory is since. *)
SavedInv ==
  pc = "saved" =>
    \/ /\ target = SortedDir
       /\ SortedDir = RootOf(SortedDir) \/ kind[SortedDir] = "directory"
    \/ /\ target = RootOf(SortedDir)
       /\ SortedDir # RootOf(SortedDir)
       /\ kind[SortedDir] # "directory"

Agreement ==
  /\ LayoutIsTheEmulators
  /\ DecidingFileIsTheEmulators
  /\ RefusalsAreTheEmulators
  /\ SavesLandWhereAnswered

IInv == AllText /\ TypeOK /\ MergeInv /\ LoadInv /\ ReadInv /\ SavedInv /\ Agreement
-----------------------------------------------------------------------------
Less == {ss \in Nat \X Nat : ss[1] < ss[2]}

(* The strict order of the naturals is well-founded: a finite chain has a last. *)
LEMMA LessWellFounded == IsWellFoundedOn(Less, Nat)
  BY NatLessThanWellFounded, Zenon DEF OpToRel, Less

(* A set of positions has a last one. *)
LEMMA LastIsLast ==
  ASSUME NEW n \in Nat, NEW S \in SUBSET (1 .. n), S # {}
  PROVE  Last(S) \in S /\ \A j \in S : j <= Last(S)
<1> DEFINE Below == {n - i : i \in S}
<1>1. Below \subseteq Nat
  <2>1. \A i \in S : n - i \in Nat
    OBVIOUS
  <2>2. QED BY <2>1
<1>2. Below # {}
  OBVIOUS
<1>3. PICK m \in Below : \A y \in Below : ~ (<<y, m>> \in Less)
  BY <1>1, <1>2, LessWellFounded, WFMin, Zenon
<1>4. \A y \in Below : ~ (y < m)
  BY <1>1, <1>3 DEF Less
<1>5. PICK i \in S : m = n - i
  OBVIOUS
<1>6. \A j \in S : j <= i
  <2>1. SUFFICES ASSUME NEW j \in S PROVE j <= i
    OBVIOUS
  <2>2. ~ (n - j < n - i)
    BY <1>4, <1>5
  <2>3. QED BY <2>2
<1>7. QED BY <1>6 DEF Last

(* It is the only one no other follows. *)
LEMMA LastIsUnique ==
  ASSUME NEW n \in Nat, NEW S \in SUBSET (1 .. n), NEW i \in S, \A j \in S : j <= i
  PROVE  LastThatSets(S) = i
<1>1. Last(S) \in S /\ \A j \in S : j <= Last(S)
  BY LastIsLast
<1> DEFINE m == Last(S)
<1>2. m <= i /\ i <= m
  BY <1>1
<1>3. S \subseteq Nat
  OBVIOUS
<1>4. m = i
  <2>1. m \in Nat /\ i \in Nat
    BY <1>1, <1>3
  <2> HIDE DEF m
  <2>2. QED BY <1>2, <2>1
<1>5. QED BY <1>4 DEF LastThatSets

(* The file that decides a key is the last of those that set it, or none does. *)
LEMMA LastType ==
  ASSUME NEW n \in Nat, NEW S \in SUBSET (1 .. n)
  PROVE  /\ LastThatSets(S) \in S \union {0}
         /\ LastThatSets(S) = 0 <=> S = {}
         /\ \A j \in S : j <= LastThatSets(S)
<1>1. CASE S = {}
  BY <1>1 DEF LastThatSets
<1>2. CASE S # {}
  <2>1. Last(S) \in S /\ \A j \in S : j <= Last(S)
    BY <1>2, LastIsLast
  <2>2. 0 \notin S
    OBVIOUS
  <2>3. QED BY <1>2, <2>1, <2>2 DEF LastThatSets
<1>3. QED BY <1>1, <1>2

(* Where the override files begin and end among the positions. *)
LEMMA SizesType == Bases \in Nat /\ Bases >= 1 /\ Bases + Overrides \in Nat
  BY SizesAssumption DEF Bases

(* A base file is the same wherever the overrides are read from. *)
LEMMA BaseIsBase ==
  ASSUME NEW i, i <= Bases, NEW d, NEW e, NEW k
  PROVE  TextAt(i, d) = TextAt(i, e) /\ Sets(i, d, k) = Sets(i, e, k) /\ TakenAt(i, d, k) = TakenAt(i, e, k)
  BY DEF TextAt, Sets, TakenAt

(* The files are well formed, so what is set is a value of its key. *)
LEMMA ValueType ==
  ASSUME files \in Installations,
         NEW i \in Chain, NEW d, i <= Bases \/ d \in OverrideDirs, NEW k, Sets(i, d, k)
  PROVE  k \in Keys /\ TextAt(i, d)[k] \in ValuesOf(k)
<1>1. CASE i <= Bases
  <2>1. i \in 1 .. Bases
    BY <1>1, SizesType DEF Chain
  <2>2. IsFile(files.base[i])
    BY <2>1, FilesAssumption
  <2>3. QED BY <1>1, <2>2 DEF TextAt, Sets, IsFile
<1>2. CASE ~ (i <= Bases)
  <2>1. i - Bases \in 1 .. Overrides
    BY <1>2, SizesType, SizesAssumption DEF Chain, Bases
  <2>2. IsFile(files.over[d][i - Bases])
    BY <1>2, <2>1, FilesAssumption
  <2>3. QED BY <1>2, <2>2 DEF TextAt, Sets, IsFile
<1>3. QED BY <1>1, <1>2

(* A line the emulator takes means a setting of the key's type. *)
LEMMA MeaningType ==
  ASSUME NEW k \in Keys, NEW v \in ValuesOf(k), Taken(k, v)
  PROVE  Meaning(k, v) \in SettingsOf(k)
<1>1. CASE k \in Booleans
  <2>1. Meaning(k, v) = (v = "true") /\ SettingsOf(k) = BOOLEAN
    BY <1>1 DEF Meaning, SettingsOf
  <2>2. (v = "true") \in BOOLEAN
    OBVIOUS
  <2>3. QED BY <2>1, <2>2
<1>2. CASE k = "directory"
  BY <1>2 DEF Meaning, SettingsOf, Taken, Booleans, Flags
<1>3. CASE k = "rgui_config_directory"
  <2>1. v \in Paths \union {"default", ""}
    BY <1>3 DEF ValuesOf, Booleans, Flags
  <2>2. QED BY <1>3, <2>1 DEF Meaning, SettingsOf, Booleans, Flags, OverrideDirs
<1>4. QED BY <1>1, <1>2, <1>3 DEF Keys, LayoutKeys, Gates, Booleans

(* So is what it starts from before any file. *)
LEMMA DefaultType ==
  ASSUME NEW k \in Keys
  PROVE  Default(k) \in SettingsOf(k)
<1>1. CASE k \in Flags
  <2>1. Default(k) = DefaultFlags[k] /\ SettingsOf(k) = BOOLEAN
    BY <1>1 DEF Default, SettingsOf, Booleans
  <2>2. QED BY <1>1, <2>1, DefaultsAssumption
<1>2. CASE k = "auto_overrides_enable"
  BY <1>2 DEF Default, SettingsOf, Booleans, Flags
<1>3. CASE k = "directory"
  BY <1>3 DEF Default, SettingsOf, Booleans, Flags
<1>4. CASE k = "rgui_config_directory"
  BY <1>4 DEF Default, SettingsOf, Booleans, Flags, OverrideDirs
<1>5. QED BY <1>1, <1>2, <1>3, <1>4 DEF Keys, LayoutKeys, Gates

(* Which files a key is read from. *)
LEMMA BootReadType ==
  ASSUME AllText, NEW k, NEW d
  PROVE  LET S == {i \in 1 .. Bases : Sets(i, d, k)}
         IN  /\ BootRead(k) = LastThatSets(S)
             /\ BootRead(k) \in S \union {0}
             /\ BootRead(k) = 0 <=> S = {}
             /\ \A j \in S : j <= BootRead(k)
<1> DEFINE S == {i \in 1 .. Bases : Sets(i, d, k)}
<1>1. S = {i \in 1 .. Bases : Sets(i, None, k)}
  BY SizesType, BaseIsBase
<1>2. BootRead(k) = LastThatSets(S)
  BY <1>1 DEF BootRead, AllText, Legible
<1>3. S \in SUBSET (1 .. Bases)
  OBVIOUS
<1>4. /\ LastThatSets(S) \in S \union {0}
      /\ LastThatSets(S) = 0 <=> S = {}
      /\ \A j \in S : j <= LastThatSets(S)
  <2> HIDE DEF S
  <2> QED BY <1>3, LastType, SizesType
<1>5. QED BY <1>2, <1>4

(* The override that decides a key is the last of those that set it, or none does. *)
LEMMA OverrideReadType ==
  ASSUME AllText, NEW k, NEW d, d # None
  PROVE  LET S == {i \in Bases + 1 .. Bases + Overrides : Sets(i, d, k)}
         IN  /\ OverrideRead(k, d) = LastThatSets(S)
             /\ OverrideRead(k, d) \in S \union {0}
             /\ OverrideRead(k, d) = 0 <=> S = {}
             /\ \A j \in S : j <= OverrideRead(k, d)
<1> DEFINE S == {i \in Bases + 1 .. Bases + Overrides : Sets(i, d, k)}
<1>1. OverrideRead(k, d) = LastThatSets(S)
  BY DEF OverrideRead, AllText, Legible
<1>2. S \in SUBSET (1 .. Bases + Overrides)
  BY SizesType
<1>3. /\ LastThatSets(S) \in S \union {0}
      /\ LastThatSets(S) = 0 <=> S = {}
      /\ \A j \in S : j <= LastThatSets(S)
  <2> HIDE DEF S
  <2> QED BY <1>2, LastType, SizesType
<1>4. QED BY <1>1, <1>3

Reads(k) == [value : SettingsOf(k), deciding : Positions]

(* Applying the deciding file to what stands gives a reading. *)
LEMMA ApplyType ==
  ASSUME files \in Installations, NEW k \in Keys, NEW d, NEW i \in Positions,
         i = 0 \/ (Sets(i, d, k) /\ (i <= Bases \/ d \in OverrideDirs)),
         NEW stands \in Reads(k)
  PROVE  Apply(stands, i, d, k) \in Reads(k)
<1>1. CASE TakenAt(i, d, k)
  <2>1. i \in Chain
    BY <1>1, SizesType DEF TakenAt, Chain, Positions
  <2>2. TextAt(i, d)[k] \in ValuesOf(k)
    BY <1>1, <2>1, ValueType DEF TakenAt
  <2>3. Meaning(k, TextAt(i, d)[k]) \in SettingsOf(k)
    BY <1>1, <2>2, MeaningType DEF TakenAt
  <2>4. QED BY <1>1, <2>3 DEF Apply, Reads
<1>2. CASE ~TakenAt(i, d, k)
  BY <1>2 DEF Apply
<1>3. QED BY <1>1, <1>2

(* What the base files leave standing is a reading of the key. *)
LEMMA BootedType ==
  ASSUME AllText, files \in Installations, NEW k \in Keys
  PROVE  Booted(k) \in Reads(k)
<1>1. [value |-> Default(k), deciding |-> 0] \in Reads(k)
  BY DefaultType, SizesType DEF Reads, Positions
<1>2. BootRead(k) \in {j \in 1 .. Bases : Sets(j, None, k)} \union {0}
  BY BootReadType
<1>3. BootRead(k) \in Positions /\ BootRead(k) <= Bases
  BY <1>2, SizesType, SizesAssumption DEF Positions
<1>4. BootRead(k) = 0 \/ Sets(BootRead(k), None, k)
  BY <1>2
<1>5. QED BY <1>1, <1>3, <1>4, ApplyType DEF Booted

(* The override directory atlas looks in is one of those there are, or none. *)
LEMMA GatedDirType ==
  ASSUME AllText, files \in Installations
  PROVE  GatedDir \in OverrideDirs \union {None}
<1>1. Booted("rgui_config_directory") \in Reads("rgui_config_directory")
  BY BootedType DEF Keys, Gates
<1>2. SettingsOf("rgui_config_directory") = OverrideDirs
  BY DEF SettingsOf, Booleans, Flags
<1>3. QED BY <1>1, <1>2 DEF GatedDir, Reads

(* What atlas reads along the chain is a reading of the key. *)
LEMMA ChainReadType ==
  ASSUME AllText, files \in Installations, NEW k \in Keys
  PROVE  ChainRead(k) \in Reads(k)
<1>1. Booted(k) \in Reads(k)
  BY BootedType
<1>2. CASE GatedDir = None
  <2>1. OverrideRead(k, GatedDir) = 0
    BY <1>2 DEF OverrideRead
  <2>2. 0 \in Positions
    BY SizesType DEF Positions
  <2>3. QED BY <1>1, <2>1, <2>2, ApplyType DEF ChainRead
<1>3. CASE GatedDir # None
  <2>1. GatedDir \in OverrideDirs
    BY <1>3, GatedDirType
  <2>2. OverrideRead(k, GatedDir)
          \in {j \in Bases + 1 .. Bases + Overrides : Sets(j, GatedDir, k)} \union {0}
    BY <1>3, OverrideReadType
  <2>3. OverrideRead(k, GatedDir) \in Positions
    BY <2>2, SizesType, SizesAssumption DEF Positions
  <2>4. OverrideRead(k, GatedDir) = 0 \/ Sets(OverrideRead(k, GatedDir), GatedDir, k)
    BY <2>2
  <2>5. QED BY <1>1, <2>1, <2>3, <2>4, ApplyType DEF ChainRead
<1>4. QED BY <1>2, <1>3

(* What atlas would resolve depends on the files and the tree alone. *)
LEMMA ReadsKeep ==
  ASSUME UNCHANGED <<files, kind>>
  PROVE  /\ \A k : Booted(k)' = Booted(k) /\ ChainRead(k)' = ChainRead(k)
         /\ RejectedReads' = RejectedReads
         /\ BootRefused' = BootRefused
<1>1. \A i, d, k : Sets(i, d, k)' = Sets(i, d, k) /\ TextAt(i, d)' = TextAt(i, d) /\ Legible(i)' = Legible(i)
  BY DEF Sets, TextAt, Legible
<1>2. \A k, v : Taken(k, v)' = Taken(k, v)
  BY DEF Taken
<1>3. \A i, d, k : TakenAt(i, d, k)' = TakenAt(i, d, k)
  BY <1>1, <1>2 DEF TakenAt
<1>4. \A k, d : BootRead(k)' = BootRead(k) /\ OverrideRead(k, d)' = OverrideRead(k, d)
  BY <1>1 DEF BootRead, OverrideRead
<1>5. \A stands, i, d, k : Apply(stands, i, d, k)' = Apply(stands, i, d, k)
  BY <1>1, <1>3 DEF Apply
<1>6. \A k : Booted(k)' = Booted(k)
  BY <1>4, <1>5 DEF Booted
<1>7. GatedDir' = GatedDir
  BY <1>6 DEF GatedDir
<1>8. \A k : ChainRead(k)' = ChainRead(k)
  BY <1>4, <1>5, <1>6, <1>7 DEF ChainRead
<1>9. RejectedReads' = RejectedReads
  BY <1>3, <1>4, <1>7 DEF RejectedReads
<1>10. BootRefused' = BootRefused
  BY <1>3, <1>4 DEF BootRefused
<1>11. QED BY <1>6, <1>8, <1>9, <1>10

-----------------------------------------------------------------------------
(* Every installation starts in the invariant. *)
LEMMA InitInv ==
  ASSUME Readable, Init
  PROVE  IInv
<1>1. TypeOK
  <2>1. \A k \in Keys : standing[k] \in SettingsOf(k)
    BY DefaultType DEF Init
  <2>2. 0 \in Positions
    BY SizesType DEF Positions
  <2>3. QED BY <2>1, <2>2, TreesAssumption DEF Init, TypeOK
<1>2. MergeInv
  <2>1. \A k : Setters(0, k) = {}
    BY DEF Setters
  <2>2. QED BY <2>1, SizesType DEF Init, MergeInv, FilesToMerge, LastThatSets
<1>3. LoadInv
  BY DEF Init, LoadInv
<1>4. ReadInv /\ SavedInv /\ Agreement
  BY DEF Init, ReadInv, SavedInv, Agreement, LayoutIsTheEmulators, DecidingFileIsTheEmulators,
         RefusalsAreTheEmulators, SavesLandWhereAnswered, Loaded
<1>5. AllText
  BY DEF Readable, AllText, Init
<1>6. QED BY <1>1, <1>2, <1>3, <1>4, <1>5 DEF IInv

(* Reading one more base file keeps it. *)
LEMMA MergeFileStep ==
  ASSUME IInv, MergeFile
  PROVE  IInv'
<1> USE DEF IInv
<1>1. /\ UNCHANGED <<files, kind, pc, standing, from, refused, target, layout, answer>>
      /\ pos' = pos + 1 /\ pos < FilesToMerge
      /\ pc \in {"boot", "reload"}
      /\ merged' = [k \in Keys |-> IF Sets(pos + 1, OverrideDir, k) THEN pos + 1 ELSE merged[k]]
  BY DEF MergeFile, atlas
<1>2. FilesToMerge \in Nat /\ FilesToMerge <= Bases + Overrides /\ pos \in Nat
  BY SizesType, SizesAssumption DEF FilesToMerge, TypeOK, Positions, Bases
<1>3. pos + 1 \in Positions
  BY <1>1, <1>2, SizesType DEF Positions
<1>4. TypeOK'
  <2>1. merged' \in [Keys -> Positions]
    BY <1>1, <1>3 DEF TypeOK
  <2>2. \A k : SettingsOf(k)' = SettingsOf(k)
    BY DEF SettingsOf
  <2>3. QED BY <1>1, <1>3, <2>1, <2>2 DEF TypeOK
<1>5. MergeInv'
  <2>1. \A d, i, k : Sets(i, d, k)' = Sets(i, d, k)
    BY <1>1 DEF Sets, TextAt
  <2>2. FilesToMerge' = FilesToMerge /\ OverrideDir' = OverrideDir
    BY <1>1 DEF FilesToMerge, OverrideDir
  <2>3. ASSUME NEW k \in Keys
        PROVE  merged'[k] = LastThatSets(Setters(pos + 1, k))
    <3>1. merged[k] = LastThatSets(Setters(pos, k))
      BY <1>1 DEF MergeInv
    <3>2. CASE Sets(pos + 1, OverrideDir, k)
      <4>1. Setters(pos + 1, k) \in SUBSET (1 .. pos + 1)
        BY DEF Setters
      <4>2. pos + 1 \in Setters(pos + 1, k)
        BY <1>2, <3>2 DEF Setters
      <4>3. \A j \in Setters(pos + 1, k) : j <= pos + 1
        BY <1>2 DEF Setters
      <4>4. LastThatSets(Setters(pos + 1, k)) = pos + 1
        <5>1. pos + 1 \in Nat
          BY <1>2
        <5>2. QED BY <4>1, <4>2, <4>3, <5>1, LastIsUnique, Zenon
      <4>5. QED BY <1>1, <3>2, <4>4
    <3>3. CASE ~Sets(pos + 1, OverrideDir, k)
      <4>1. Setters(pos + 1, k) = Setters(pos, k)
        BY <1>2, <3>3 DEF Setters
      <4>2. QED BY <1>1, <3>1, <3>3, <4>1
    <3>4. QED BY <3>2, <3>3
  <2>4. \A k : Setters(pos, k)' = Setters(pos + 1, k)
    BY <1>1, <2>1, <2>2 DEF Setters
  <2>5. pos' <= FilesToMerge'
    BY <1>1, <1>2, <2>2
  <2>6. \A k \in Keys : merged'[k] = LastThatSets(Setters(pos, k)')
    BY <2>3, <2>4
  <2>7. QED BY <2>5, <2>6 DEF MergeInv
<1>6. LoadInv'
  <2>1. OverridesApply' = OverridesApply
    BY <1>1 DEF OverridesApply, OverrideAt, OverrideDir, TextAt
  <2>2. QED BY <1>1, <2>1, ReadsKeep DEF LoadInv
<1>7. ReadInv'
  <2>1. SortedDirFallback(PlacementDir)' = SortedDirFallback(PlacementDir)
    BY <1>1 DEF PlacementDir, Stands, SortedDirFallback
  <2>2. QED BY <1>1, <2>1, ReadsKeep DEF ReadInv
<1>8. SavedInv' /\ Agreement'
  BY <1>1 DEF SavedInv, Agreement, LayoutIsTheEmulators, DecidingFileIsTheEmulators,
         RefusalsAreTheEmulators, SavesLandWhereAnswered, Loaded
<1>9. QED BY <1>1, <1>4, <1>5, <1>6, <1>7, <1>8 DEF AllText

(* What the boot load applies is what atlas reads of the base files. *)
LEMMA BootApply ==
  ASSUME IInv, pc = "boot", pos = FilesToMerge, NEW k \in Keys
  PROVE  /\ merged[k] = BootRead(k)
         /\ Applies(k) <=> TakenAt(BootRead(k), None, k)
         /\ Applies(k) => ReadValue(k) = TextAt(BootRead(k), None)[k]
<1>1. pos = Bases
  BY DEF FilesToMerge
<1>2. merged[k] = BootRead(k)
  BY <1>1, BootReadType DEF IInv, MergeInv, Setters
<1>3. BootRead(k) <= Bases
  <2>1. BootRead(k) \in {j \in 1 .. Bases : Sets(j, None, k)} \union {0}
    BY BootReadType DEF IInv
  <2>2. QED BY <2>1, SizesType
<1>4. TextAt(BootRead(k), OverrideDir) = TextAt(BootRead(k), None)
  BY <1>3, BaseIsBase
<1>5. QED BY <1>2, <1>4 DEF Applies, ReadValue, TakenAt

(* Applying the merged base files at boot keeps it. *)
LEMMA ApplyBootStep ==
  ASSUME IInv, ApplySettings, pc = "boot"
  PROVE  IInv'
<1> USE DEF IInv
<1>1. /\ UNCHANGED <<files, kind, pos, merged, target, layout, answer>>
      /\ pos = FilesToMerge
      /\ pc' = "booted"
      /\ standing' = [k \in Keys |-> IF Applies(k) THEN Meaning(k, ReadValue(k)) ELSE standing[k]]
      /\ from' = [k \in Keys |-> IF Applies(k) THEN merged[k] ELSE from[k]]
      /\ refused' = RefusedReads
  BY DEF ApplySettings, atlas, LoadInv
<1>2. ASSUME NEW k \in Keys
      PROVE  standing'[k] = Booted(k).value /\ from'[k] = Booted(k).deciding
  <2>1. standing[k] = Default(k) /\ from[k] = 0
    BY DEF LoadInv
  <2>2. CASE Applies(k)
    BY <1>1, <2>2, BootApply DEF Booted, Apply
  <2>3. CASE ~Applies(k)
    BY <1>1, <2>1, <2>3, BootApply DEF Booted, Apply
  <2>4. QED BY <2>2, <2>3
<1>3. refused' = BootRefused
  BY <1>1, BootApply DEF RefusedReads, BootRefused, Applies
<1>4. TypeOK'
  <2>1. \A k \in Keys : standing'[k] \in SettingsOf(k)' /\ from'[k] \in Positions
    BY <1>2, BootedType DEF TypeOK, Reads, SettingsOf
  <2>2. DOMAIN standing' = Keys /\ from' \in [Keys -> Positions]
    BY <1>1, <2>1
  <2>3. BootRefused \subseteq Chain \X Keys
    <3>1. ASSUME NEW k \in Keys, BootRead(k) # 0
          PROVE  BootRead(k) \in Chain
      <4>1. BootRead(k) \in {j \in 1 .. Bases : Sets(j, None, k)}
        BY <3>1, BootReadType
      <4>2. QED BY <4>1, SizesType, SizesAssumption DEF Chain
    <3>2. QED BY <3>1 DEF BootRefused
  <2>4. \A k : SettingsOf(k)' = SettingsOf(k)
    BY DEF SettingsOf
  <2>5. QED BY <1>1, <1>3, <2>1, <2>2, <2>3, <2>4 DEF TypeOK
<1>5. MergeInv'
  BY <1>1 DEF MergeInv
<1>6. LoadInv'
  BY <1>1, <1>2, <1>3, ReadsKeep DEF LoadInv
<1>7. ReadInv'
  <2>1. SortedDirFallback(PlacementDir)' = SortedDirFallback(PlacementDir)
    BY <1>1 DEF PlacementDir, Stands, SortedDirFallback
  <2>2. QED BY <1>1, <2>1, ReadsKeep DEF ReadInv
<1>8. SavedInv' /\ Agreement'
  BY <1>1 DEF SavedInv, Agreement, LayoutIsTheEmulators, DecidingFileIsTheEmulators,
         RefusalsAreTheEmulators, SavesLandWhereAnswered, Loaded, ReadInv
<1>9. QED BY <1>1, <1>4, <1>5, <1>6, <1>7, <1>8 DEF AllText

(* The gate and the directory of the overrides are RetroArch's. *)
LEMMA GatedDirIsTheEmulators ==
  ASSUME IInv, pc \in {"booted", "reload"}
  PROVE  /\ GatedDir = IF standing["auto_overrides_enable"] THEN OverrideDir ELSE None
         /\ OverrideDir \in OverrideDirs
<1>1. "auto_overrides_enable" \in Keys /\ "rgui_config_directory" \in Keys
  BY DEF Keys, Gates
<1>2. SettingsOf("rgui_config_directory") = OverrideDirs
  BY DEF SettingsOf, Booleans, Flags
<1>3. QED BY <1>1, <1>2 DEF IInv, LoadInv, TypeOK, GatedDir, OverrideDir

(* Where the emulator loads no override atlas finds none that decides. *)
LEMMA NoOverride ==
  ASSUME IInv, pc = "booted", ~OverridesApply, NEW k
  PROVE  OverrideRead(k, GatedDir) = 0
<1>1. CASE GatedDir = None
  BY <1>1 DEF OverrideRead
<1>2. CASE GatedDir # None
  <2>1. standing["auto_overrides_enable"] /\ GatedDir = OverrideDir
    BY <1>2, GatedDirIsTheEmulators
  <2>2. \A i \in Bases + 1 .. Bases + Overrides : ~Sets(i, GatedDir, k)
    BY <2>1 DEF OverridesApply, OverrideAt, Sets
  <2>3. {i \in Bases + 1 .. Bases + Overrides : Sets(i, GatedDir, k)} = {}
    BY <2>2
  <2>4. QED BY <1>2, <2>3, OverrideReadType DEF IInv
<1>3. QED BY <1>1, <1>2

(* The file that decides at boot is a base file of the chain. *)
LEMMA BootReadInChain ==
  ASSUME AllText, NEW k, BootRead(k) # 0
  PROVE  BootRead(k) \in Chain /\ BootRead(k) <= Bases
<1>1. BootRead(k) \in {j \in 1 .. Bases : Sets(j, None, k)}
  BY BootReadType
<1>2. QED BY <1>1, SizesType, SizesAssumption DEF Chain

(* The reload that a found override starts keeps it. *)
LEMMA LoadOverrideStep ==
  ASSUME IInv, LoadOverride
  PROVE  IInv'
<1> USE DEF IInv
<1>1. /\ UNCHANGED <<files, kind, standing, from, refused, target, layout, answer>>
      /\ pc = "booted" /\ pos' = 0
      /\ pc' = IF OverridesApply THEN "reload" ELSE "loaded"
      /\ merged' = [k \in Keys |-> 0]
  BY DEF LoadOverride, atlas
<1>2. TypeOK'
  <2>1. 0 \in Positions
    BY SizesType DEF Positions
  <2>2. \A k : SettingsOf(k)' = SettingsOf(k)
    BY DEF SettingsOf
  <2>3. QED BY <1>1, <2>1, <2>2 DEF TypeOK
<1>3. MergeInv'
  <2>1. \A k : Setters(pos, k)' = {}
    BY <1>1 DEF Setters
  <2>2. pos' <= FilesToMerge'
    BY <1>1, SizesType DEF FilesToMerge
  <2>3. QED BY <1>1, <2>1, <2>2 DEF MergeInv, LastThatSets
<1>4. LoadInv'
  <2>1. OverridesApply' = OverridesApply
    BY <1>1 DEF OverridesApply, OverrideAt, OverrideDir, TextAt
  <2>2. CASE OverridesApply
    BY <1>1, <2>1, <2>2, ReadsKeep DEF LoadInv
  <2>3. CASE ~OverridesApply
    <3>1. ASSUME NEW k \in LayoutKeys
          PROVE  standing[k] = ChainRead(k).value /\ from[k] = ChainRead(k).deciding
      <4>1. ChainRead(k) = Booted(k)
        BY <1>1, <2>3, NoOverride DEF ChainRead, Apply, TakenAt
      <4>2. QED BY <1>1, <4>1 DEF LoadInv, Keys
    <3>2. RejectedReads = {read \in refused : read[2] \in LayoutKeys}
      <4>1. RejectedReads =
              {read \in Chain \X LayoutKeys :
                 read[1] = BootRead(read[2]) /\ ~TakenAt(read[1], None, read[2])}
        <5>1. ASSUME NEW read \in Chain \X LayoutKeys
              PROVE  /\ read[1] \in {BootRead(read[2]), OverrideRead(read[2], GatedDir)}
                          <=> read[1] = BootRead(read[2])
                     /\ read[1] = BootRead(read[2]) =>
                          (TakenAt(read[1], GatedDir, read[2]) <=> TakenAt(read[1], None, read[2]))
          <6>1. read[1] # 0
            BY SizesType DEF Chain
          <6>2. OverrideRead(read[2], GatedDir) = 0
            BY <1>1, <2>3, NoOverride
          <6>3. QED BY <6>1, <6>2, BootReadInChain, BaseIsBase
        <5>2. QED BY <5>1 DEF RejectedReads
      <4>2. refused = BootRefused
        BY <1>1 DEF LoadInv
      <4>3. 0 \notin Chain
        BY SizesType DEF Chain
      <4>4. \A read \in RejectedReads : read \in BootRefused /\ read[2] \in LayoutKeys
        BY <4>1, <4>3 DEF BootRefused, Keys
      <4>5. \A read \in BootRefused : read[2] \in LayoutKeys => read \in RejectedReads
        BY <4>1, BootReadInChain DEF BootRefused
      <4>6. QED BY <4>2, <4>4, <4>5
    <3>3. QED BY <1>1, <2>3, <3>1, <3>2, ReadsKeep DEF LoadInv
  <2>4. QED BY <2>2, <2>3
<1>5. ReadInv'
  <2>1. SortedDirFallback(PlacementDir)' = SortedDirFallback(PlacementDir)
    BY <1>1 DEF PlacementDir, Stands, SortedDirFallback
  <2>2. QED BY <1>1, <2>1, ReadsKeep DEF ReadInv
<1>6. SavedInv' /\ Agreement'
  <2>1. pc' # "saved" /\ target' = None
    BY <1>1 DEF ReadInv
  <2>2. SavedInv' /\ SavesLandWhereAnswered'
    BY <2>1 DEF SavedInv, SavesLandWhereAnswered
  <2>3. QED BY <1>4, <1>5, <2>1, <2>2
        DEF LoadInv, ReadInv, Agreement, LayoutIsTheEmulators, DecidingFileIsTheEmulators,
            RefusalsAreTheEmulators, Loaded
<1>7. QED BY <1>1, <1>2, <1>3, <1>4, <1>5, <1>6 DEF AllText

(* What the reload applies is the last override that sets the key, or else  *)
(* what the boot load read.                                                 *)
LEMMA ReloadApply ==
  ASSUME IInv, pc = "reload", pos = FilesToMerge, NEW k \in Keys
  PROVE  /\ merged[k] = IF OverrideRead(k, GatedDir) # 0 THEN OverrideRead(k, GatedDir) ELSE BootRead(k)
         /\ Applies(k) <=> TakenAt(merged[k], GatedDir, k)
         /\ ReadValue(k) = TextAt(merged[k], GatedDir)[k]
         /\ merged[k] \in Chain \union {0}
<1> DEFINE S == {i \in Bases + 1 .. Bases + Overrides : Sets(i, GatedDir, k)}
<1> DEFINE B == {i \in 1 .. Bases : Sets(i, GatedDir, k)}
<1>1. GatedDir = OverrideDir /\ GatedDir # None
  BY GatedDirIsTheEmulators, DirsAssumption DEF IInv, LoadInv, OverridesApply
<1>2. merged[k] = LastThatSets(Setters(Bases + Overrides, k))
  BY DEF IInv, MergeInv, FilesToMerge
<1>3. Setters(Bases + Overrides, k) = B \union S
  BY <1>1, SizesType, SizesAssumption DEF Setters
<1>4. CASE S = {}
  <2>1. OverrideRead(k, GatedDir) = 0
    BY <1>1, <1>4, OverrideReadType DEF IInv
  <2>2. BootRead(k) = LastThatSets(B)
    BY BootReadType DEF IInv
  <2>3. merged[k] = BootRead(k)
    BY <1>2, <1>3, <1>4, <2>2
  <2>4. QED BY <1>1, <2>1, <2>3, BootReadInChain DEF IInv, Applies, ReadValue, TakenAt
<1>5. CASE S # {}
  <2> DEFINE o == OverrideRead(k, GatedDir)
  <2>1. o \in S /\ (\A j \in S : j <= o) /\ o # 0
    BY <1>1, <1>5, OverrideReadType DEF IInv
  <2>2. o \in B \union S
    BY <2>1
  <2>3. \A j \in B \union S : j <= o
    BY <2>1, SizesType
  <2>4. B \union S \in SUBSET (1 .. Bases + Overrides)
    BY SizesType, SizesAssumption
  <2>5. LastThatSets(B \union S) = o
    <3> HIDE DEF S, B, o
    <3> QED BY <2>2, <2>3, <2>4, LastIsUnique, SizesType
  <2>6. merged[k] = o
    BY <1>2, <1>3, <2>5
  <2>7. o \in Chain
    BY <2>2, <2>4 DEF Chain
  <2>8. QED BY <1>1, <2>1, <2>6, <2>7 DEF Applies, ReadValue, TakenAt
<1>6. QED BY <1>4, <1>5

(* Applying what the overrides were merged into keeps it. *)
LEMMA ApplyReloadStep ==
  ASSUME IInv, ApplySettings, pc = "reload"
  PROVE  IInv'
<1> USE DEF IInv
<1>1. /\ UNCHANGED <<files, kind, pos, merged, target, layout, answer>>
      /\ pos = FilesToMerge
      /\ pc' = "loaded"
      /\ standing' = [k \in Keys |-> IF Applies(k) THEN Meaning(k, ReadValue(k)) ELSE standing[k]]
      /\ from' = [k \in Keys |-> IF Applies(k) THEN merged[k] ELSE from[k]]
      /\ refused' = refused \union RefusedReads
  BY DEF ApplySettings, atlas
<1>2. \A k \in Keys : BootRead(k) # 0 =>
        (TakenAt(BootRead(k), GatedDir, k) <=> TakenAt(BootRead(k), None, k))
          /\ TextAt(BootRead(k), GatedDir) = TextAt(BootRead(k), None)
  BY BootReadInChain, BaseIsBase
<1>3. ASSUME NEW k \in Keys
      PROVE  standing'[k] = ChainRead(k).value /\ from'[k] = ChainRead(k).deciding
  <2>1. standing[k] = Booted(k).value /\ from[k] = Booted(k).deciding
    BY DEF LoadInv
  <2>2. CASE OverrideRead(k, GatedDir) # 0
    BY <1>1, <2>1, <2>2, ReloadApply DEF ChainRead, Apply
  <2>3. CASE OverrideRead(k, GatedDir) = 0
    <3>1. ChainRead(k) = Booted(k)
      BY <2>3 DEF ChainRead, Apply, TakenAt
    <3>2. merged[k] = BootRead(k)
      BY <1>1, <2>3, ReloadApply
    <3>3. CASE Applies(k)
      <4>1. TakenAt(BootRead(k), GatedDir, k) /\ BootRead(k) # 0
        BY <1>1, <3>2, <3>3, ReloadApply DEF TakenAt
      <4>2. Booted(k) = [value |-> Meaning(k, TextAt(BootRead(k), GatedDir)[k]), deciding |-> BootRead(k)]
        BY <1>2, <4>1 DEF Booted, Apply
      <4>3. QED BY <1>1, <3>1, <3>2, <3>3, <4>2, ReloadApply
    <3>4. CASE ~Applies(k)
      BY <1>1, <2>1, <3>1, <3>4
    <3>5. QED BY <3>3, <3>4
  <2>4. QED BY <2>2, <2>3
<1>4. RejectedReads = {read \in refused' : read[2] \in LayoutKeys}
  <2>1. 0 \notin Chain
    BY SizesType DEF Chain
  <2>2. refused = BootRefused
    BY DEF LoadInv
  <2>3. ASSUME NEW read \in RejectedReads
        PROVE  read \in refused' /\ read[2] \in LayoutKeys
    <3> DEFINE i == read[1]
    <3> DEFINE k == read[2]
    <3>1. /\ read = <<i, k>> /\ i \in Chain /\ k \in LayoutKeys /\ k \in Keys /\ i # 0
          /\ i \in {BootRead(k), OverrideRead(k, GatedDir)} /\ ~TakenAt(i, GatedDir, k)
      BY <2>1 DEF RejectedReads, Keys
    <3> HIDE DEF i, k
    <3>2. CASE i = BootRead(k)
      <4>1. ~TakenAt(BootRead(k), None, k)
        BY <1>2, <3>1, <3>2
      <4>2. QED BY <1>1, <2>2, <3>1, <3>2, <4>1 DEF BootRefused, k
    <3>3. CASE i = OverrideRead(k, GatedDir)
      <4>1. merged[k] = i /\ ~Applies(k)
        BY <1>1, <3>1, <3>3, ReloadApply
      <4>2. QED BY <1>1, <3>1, <4>1 DEF RefusedReads, k
    <3>4. QED BY <3>1, <3>2, <3>3
  <2>4. ASSUME NEW k \in LayoutKeys, <<merged[k], k>> \in RefusedReads
        PROVE  <<merged[k], k>> \in RejectedReads
    <3>1. k \in Keys /\ merged[k] # 0 /\ ~Applies(k)
      BY <2>4 DEF RefusedReads, Keys
    <3>2. /\ merged[k] \in Chain
          /\ ~TakenAt(merged[k], GatedDir, k)
          /\ merged[k] \in {BootRead(k), OverrideRead(k, GatedDir)}
      BY <1>1, <3>1, ReloadApply
    <3>3. QED BY <3>2 DEF RejectedReads
  <2>5. ASSUME NEW k \in LayoutKeys, <<BootRead(k), k>> \in BootRefused
        PROVE  <<BootRead(k), k>> \in RejectedReads
    <3>1. k \in Keys /\ BootRead(k) # 0 /\ ~TakenAt(BootRead(k), None, k)
      BY <2>5 DEF BootRefused, Keys
    <3>2. BootRead(k) \in Chain /\ ~TakenAt(BootRead(k), GatedDir, k)
      BY <1>2, <3>1, BootReadInChain
    <3>3. QED BY <3>2 DEF RejectedReads
  <2>6. ASSUME NEW read \in refused', read[2] \in LayoutKeys
        PROVE  read \in RejectedReads
    <3>1. CASE read \in BootRefused
      BY <2>5, <2>6, <3>1 DEF BootRefused
    <3>2. CASE read \in RefusedReads
      BY <2>4, <2>6, <3>2 DEF RefusedReads
    <3>3. QED BY <1>1, <2>2, <2>6, <3>1, <3>2
  <2>7. QED BY <2>3, <2>6
<1>5. TypeOK'
  <2>1. \A k \in Keys : standing'[k] \in SettingsOf(k)' /\ from'[k] \in Positions
    BY <1>3, ChainReadType DEF TypeOK, Reads, SettingsOf
  <2>2. DOMAIN standing' = Keys /\ from' \in [Keys -> Positions]
    BY <1>1, <2>1
  <2>3. RefusedReads \subseteq Chain \X Keys
    BY <1>1, ReloadApply DEF RefusedReads
  <2>4. \A k : SettingsOf(k)' = SettingsOf(k)
    BY DEF SettingsOf
  <2>5. QED BY <1>1, <2>1, <2>2, <2>3, <2>4 DEF TypeOK
<1>6. MergeInv'
  BY <1>1 DEF MergeInv
<1>7. LoadInv'
  BY <1>1, <1>3, <1>4, ReadsKeep DEF LoadInv, Keys
<1>8. ReadInv'
  <2>1. SortedDirFallback(PlacementDir)' = SortedDirFallback(PlacementDir)
    BY <1>1 DEF PlacementDir, Stands, SortedDirFallback
  <2>2. QED BY <1>1, <2>1, ReadsKeep DEF ReadInv
<1>9. SavedInv' /\ Agreement'
  <2>1. pc' # "saved" /\ target' = None
    BY <1>1 DEF ReadInv
  <2>2. SavedInv' /\ SavesLandWhereAnswered'
    BY <2>1 DEF SavedInv, SavesLandWhereAnswered
  <2>3. QED BY <1>1, <1>7, <1>8, <2>1, <2>2
        DEF LoadInv, ReadInv, Agreement, LayoutIsTheEmulators, DecidingFileIsTheEmulators,
            RefusalsAreTheEmulators, Loaded
<1>10. QED BY <1>1, <1>5, <1>6, <1>7, <1>8, <1>9 DEF AllText

(* Where RetroArch and atlas agree on the layout, they sort the same way. *)
LEMMA SamePlacement ==
  ASSUME LayoutIsTheEmulators, pc \in {"loaded", "saved"}, layout # None, ~layout.degraded
  PROVE  PlacementDir = SortedDir
<1>1. \A k \in LayoutKeys : layout.keys[k].value = standing[k]
  BY DEF LayoutIsTheEmulators, Loaded
<1>2. /\ "in_content_dir" \in LayoutKeys /\ "sort_by_content" \in LayoutKeys
      /\ "sort_by_core" \in LayoutKeys /\ "directory" \in LayoutKeys
  BY DEF LayoutKeys, Flags
<1>3. QED BY <1>1, <1>2 DEF PlacementDir, SortedDir, Stands

(* The emulator's sorted directory is a place. *)
LEMMA SortedDirType ==
  ASSUME TypeOK
  PROVE  SortedDir \in Places
<1>1. /\ standing["in_content_dir"] \in BOOLEAN
      /\ standing["sort_by_content"] \in BOOLEAN
      /\ standing["sort_by_core"] \in BOOLEAN
      /\ standing["directory"] \in Paths \union {PlatformDefault}
  BY DEF TypeOK, SettingsOf, Keys, LayoutKeys, Flags, Booleans
<1>2. QED BY <1>1 DEF SortedDir, Places, Roots

(* So is the one atlas answers with. *)
LEMMA PlacementDirType ==
  ASSUME TypeOK, layout # None
  PROVE  PlacementDir \in Places
<1>1. /\ Stands("in_content_dir") \in BOOLEAN
      /\ Stands("sort_by_content") \in BOOLEAN
      /\ Stands("sort_by_core") \in BOOLEAN
      /\ Stands("directory") \in Paths \union {PlatformDefault}
  BY DEF TypeOK, Stands, SettingsOf, LayoutKeys, Flags, Booleans
<1>2. QED BY <1>1 DEF PlacementDir, Places, Roots

(* And so is the root either is sorted under. *)
LEMMA RootType ==
  ASSUME NEW p \in Places
  PROVE  RootOf(p) \in Places /\ p # None /\ RootOf(p) # None
<1>1. RootOf(p) \in Places
  BY DEF RootOf, Root, Places
<1>2. QED BY <1>1, DirsAssumption

(* Placing the first save keeps the invariant. *)
LEMMA FirstSaveStep ==
  ASSUME IInv, FirstSave
  PROVE  IInv'
<1> USE DEF IInv
<1>1. /\ UNCHANGED <<files, pos, merged, standing, from, refused, layout, answer>>
      /\ pc = "loaded" /\ pc' = "saved"
      /\ SaveThere \/ CreateAndSave \/ RevertAndSave
  BY DEF FirstSave, SaveThere, CreateAndSave, RevertAndSave, atlas
<1>2. SortedDir \in Places /\ RootOf(SortedDir) \in Places /\ SortedDir' = SortedDir
  BY <1>1, SortedDirType, RootType DEF SortedDir
<1>3. SavedInv'
  <2>1. CASE SaveThere
    BY <1>1, <1>2, <2>1 DEF SaveThere, SavedInv
  <2>2. CASE RevertAndSave
    BY <1>1, <1>2, <2>2 DEF RevertAndSave, SavedInv
  <2>3. CASE CreateAndSave
    <3>1. SortedDir \in Above(SortedDir)
      BY DEF Above
    <3>2. kind'[SortedDir] = "directory"
      BY <1>2, <2>3, <3>1 DEF CreateAndSave
    <3>3. QED BY <1>1, <1>2, <2>3, <3>2 DEF CreateAndSave, SavedInv
  <2>4. QED BY <1>1, <2>1, <2>2, <2>3
<1>4. TypeOK'
  <2>1. kind' \in [Places -> Kinds]
    BY <1>1 DEF SaveThere, CreateAndSave, RevertAndSave, TypeOK, Kinds
  <2>2. target' \in Places
    BY <1>1, <1>2 DEF SaveThere, CreateAndSave, RevertAndSave
  <2>3. \A k : SettingsOf(k)' = SettingsOf(k)
    BY DEF SettingsOf
  <2>4. QED BY <1>1, <2>1, <2>2, <2>3 DEF TypeOK
<1>5. MergeInv' /\ LoadInv'
  BY <1>1 DEF MergeInv, LoadInv
<1>6. target' # None
  BY <1>1, <1>2, RootType DEF SaveThere, CreateAndSave, RevertAndSave
<1>7. ReadInv'
  BY <1>1, <1>6 DEF ReadInv, Unreachable
<1>8. Agreement'
  <2>1. layout # None => LayoutIsTheEmulators /\ DecidingFileIsTheEmulators /\ RefusalsAreTheEmulators
    BY DEF Agreement
  <2>2. LayoutIsTheEmulators' /\ DecidingFileIsTheEmulators' /\ RefusalsAreTheEmulators'
    BY <1>1, <2>1 DEF LayoutIsTheEmulators, DecidingFileIsTheEmulators, RefusalsAreTheEmulators, Loaded
  <2>3. SavesLandWhereAnswered'
    <3>1. SUFFICES ASSUME answer # None, answer # Unreachable, ~layout.degraded
                   PROVE  target' \in {answer.dir, answer.fallback}
      BY <1>1 DEF SavesLandWhereAnswered, Unreachable
    <3>2. layout # None /\ answer = SortedDirFallback(PlacementDir)
      BY <1>1, <3>1 DEF ReadInv
    <3>3. answer = SortedDirFallback(SortedDir)
      BY <1>1, <2>1, <3>1, <3>2, SamePlacement
    <3>4. QED BY <1>1, <3>3 DEF SaveThere, CreateAndSave, RevertAndSave, SortedDirFallback
  <2>4. QED BY <2>2, <2>3 DEF Agreement
<1>9. QED BY <1>1, <1>3, <1>4, <1>5, <1>7, <1>8 DEF AllText

(* Answering without a place, the chain unreadable, keeps it. *)
LEMMA RefuseStep ==
  ASSUME IInv, Refuse
  PROVE  IInv'
<1> USE DEF IInv
<1>1. /\ UNCHANGED <<files, kind, pc, pos, merged, standing, from, refused, target, layout>>
      /\ layout = None /\ answer' = Unreachable
  BY DEF Refuse, emulator
<1>2. TypeOK'
  <2>1. \A k : SettingsOf(k)' = SettingsOf(k)
    BY DEF SettingsOf
  <2>2. QED BY <1>1, <2>1 DEF TypeOK, Unreachable
<1>3. MergeInv'
  <2>1. \A k : Setters(pos, k)' = Setters(pos, k)
    BY <1>1 DEF Setters, Sets, TextAt, OverrideDir
  <2>2. QED BY <1>1, <2>1 DEF MergeInv, FilesToMerge
<1>4. LoadInv'
  <2>1. OverridesApply' = OverridesApply
    BY <1>1 DEF OverridesApply, OverrideAt, OverrideDir, TextAt
  <2>2. QED BY <1>1, <2>1, ReadsKeep DEF LoadInv
<1>5. ReadInv'
  BY <1>1 DEF ReadInv, Unreachable
<1>6. SavedInv'
  BY <1>1 DEF SavedInv, SortedDir
<1>7. Agreement'
  BY <1>1 DEF Agreement, LayoutIsTheEmulators, DecidingFileIsTheEmulators,
         RefusalsAreTheEmulators, SavesLandWhereAnswered, Loaded, Unreachable
<1>8. QED BY <1>1, <1>2, <1>3, <1>4, <1>5, <1>6, <1>7 DEF AllText

(* Atlas reading its chain keeps it. *)
LEMMA ReadChainStep ==
  ASSUME IInv, ReadChain
  PROVE  IInv'
<1> USE DEF IInv
<1>1. /\ UNCHANGED <<files, kind, pc, pos, merged, standing, from, refused, target, answer>>
      /\ answer = None /\ target = None
      /\ layout' = [keys |-> [k \in LayoutKeys |-> ChainRead(k)], rejected |-> RejectedReads,
                    degraded |-> ~Legible(1)]
  BY DEF ReadChain, emulator
<1>2. TypeOK'
  <2>1. \A k : SettingsOf(k)' = SettingsOf(k)
    BY DEF SettingsOf
  <2>2. \A k \in LayoutKeys : layout'.keys[k].value \in SettingsOf(k)
    BY <1>1, ChainReadType DEF TypeOK, Reads, Keys
  <2>3. QED BY <1>1, <2>1, <2>2 DEF TypeOK
<1>3. MergeInv'
  <2>1. \A k : Setters(pos, k)' = Setters(pos, k)
    BY <1>1 DEF Setters, Sets, TextAt, OverrideDir
  <2>2. QED BY <1>1, <2>1 DEF MergeInv, FilesToMerge
<1>4. LoadInv'
  <2>1. OverridesApply' = OverridesApply
    BY <1>1 DEF OverridesApply, OverrideAt, OverrideDir, TextAt
  <2>2. QED BY <1>1, <2>1, ReadsKeep DEF LoadInv
<1>5. ReadInv' /\ pc # "saved"
  BY <1>1, ReadsKeep DEF ReadInv
<1>6. SavedInv'
  BY <1>1, <1>5 DEF SavedInv
<1>7. Agreement'
  BY <1>1, <1>4, <1>5 DEF ReadInv, LoadInv, Agreement, LayoutIsTheEmulators,
         DecidingFileIsTheEmulators, RefusalsAreTheEmulators, SavesLandWhereAnswered, Loaded
<1>8. QED BY <1>1, <1>2, <1>3, <1>4, <1>5, <1>6, <1>7 DEF AllText

(* Atlas answering keeps it. *)
LEMMA AnswerStep ==
  ASSUME IInv, AnswerPlacement
  PROVE  IInv'
<1> USE DEF IInv
<1>1. /\ UNCHANGED <<files, kind, pc, pos, merged, standing, from, refused, target, layout>>
      /\ layout # None /\ answer = None
      /\ answer' = SortedDirFallback(PlacementDir)
  BY DEF AnswerPlacement, emulator
<1>2. PlacementDir \in Places /\ RootOf(PlacementDir) \in Places
  BY <1>1, PlacementDirType, RootType
<1>3. TypeOK'
  <2>1. \A k : SettingsOf(k)' = SettingsOf(k)
    BY DEF SettingsOf
  <2>2. QED BY <1>1, <1>2, <2>1 DEF TypeOK, SortedDirFallback
<1>4. MergeInv'
  <2>1. \A k : Setters(pos, k)' = Setters(pos, k)
    BY <1>1 DEF Setters, Sets, TextAt, OverrideDir
  <2>2. QED BY <1>1, <2>1 DEF MergeInv, FilesToMerge
<1>5. LoadInv'
  <2>1. OverridesApply' = OverridesApply
    BY <1>1 DEF OverridesApply, OverrideAt, OverrideDir, TextAt
  <2>2. QED BY <1>1, <2>1, ReadsKeep DEF LoadInv
<1>6. ReadInv'
  <2>1. SortedDirFallback(PlacementDir)' = SortedDirFallback(PlacementDir)
    BY <1>1 DEF PlacementDir, Stands, SortedDirFallback
  <2>2. QED BY <1>1, <2>1, ReadsKeep DEF ReadInv
<1>7. SavedInv'
  BY <1>1 DEF SavedInv, SortedDir
<1>8. Agreement'
  <2>1. LayoutIsTheEmulators' /\ DecidingFileIsTheEmulators' /\ RefusalsAreTheEmulators'
    BY <1>1 DEF Agreement, LayoutIsTheEmulators, DecidingFileIsTheEmulators, RefusalsAreTheEmulators, Loaded
  <2>2. SavesLandWhereAnswered'
    <3>1. SUFFICES ASSUME target # None, ~layout.degraded
                   PROVE  target \in {answer'.dir, answer'.fallback}
      BY <1>1 DEF SavesLandWhereAnswered
    <3>2. pc = "saved"
      BY <3>1 DEF ReadInv
    <3>3. answer' = SortedDirFallback(SortedDir)
      BY <1>1, <3>1, <3>2, SamePlacement DEF Agreement
    <3>4. SortedDir \in Places
      BY SortedDirType
    <3>5. kind[SortedDir] \in Kinds
      BY <3>4 DEF TypeOK
    <3>6. QED BY <3>2, <3>3, <3>5 DEF SavedInv, SortedDirFallback
  <2>3. QED BY <2>1, <2>2 DEF Agreement
<1>9. QED BY <1>1, <1>3, <1>4, <1>5, <1>6, <1>7, <1>8 DEF AllText

(* A stutter keeps it. *)
LEMMA NothingMoves ==
  ASSUME IInv, UNCHANGED vars
  PROVE  IInv'
<1> USE DEF IInv
<1>1. UNCHANGED <<files, kind, pc, pos, merged, standing, from, refused, target, layout, answer>>
  BY DEF vars, emulator, atlas
<1>2. TypeOK'
  <2>1. \A k : SettingsOf(k)' = SettingsOf(k)
    BY DEF SettingsOf
  <2>2. QED BY <1>1, <2>1 DEF TypeOK
<1>3. MergeInv'
  <2>1. \A k : Setters(pos, k)' = Setters(pos, k)
    BY <1>1 DEF Setters, Sets, TextAt, OverrideDir
  <2>2. QED BY <1>1, <2>1 DEF MergeInv, FilesToMerge
<1>4. LoadInv'
  <2>1. OverridesApply' = OverridesApply
    BY <1>1 DEF OverridesApply, OverrideAt, OverrideDir, TextAt
  <2>2. QED BY <1>1, <2>1, ReadsKeep DEF LoadInv
<1>5. ReadInv'
  <2>1. SortedDirFallback(PlacementDir)' = SortedDirFallback(PlacementDir)
    BY <1>1 DEF PlacementDir, Stands, SortedDirFallback
  <2>2. QED BY <1>1, <2>1, ReadsKeep DEF ReadInv
<1>6. SavedInv'
  BY <1>1 DEF SavedInv, SortedDir
<1>7. Agreement'
  BY <1>1 DEF Agreement, LayoutIsTheEmulators, DecidingFileIsTheEmulators,
         RefusalsAreTheEmulators, SavesLandWhereAnswered, Loaded
<1>8. QED BY <1>1, <1>2, <1>3, <1>4, <1>5, <1>6, <1>7 DEF AllText
-----------------------------------------------------------------------------
(* The inductive invariant: what is merged, what stands between the loads,   *)
(* what atlas resolved and where the game was saved (_read_layers).          *)
THEOREM ChainInvariant ==
  ASSUME Readable
  PROVE  Spec => []IInv
<1>1. Init => IInv
  BY InitInv
<1>2. IInv /\ [Next]_vars => IInv'
  <2>1. SUFFICES ASSUME IInv, [Next]_vars PROVE IInv'
    OBVIOUS
  <2>2. CASE MergeFile
    BY <2>1, <2>2, MergeFileStep
  <2>3. CASE ApplySettings
    <3>1. pc \in {"boot", "reload"}
      BY <2>3 DEF ApplySettings
    <3>2. QED BY <2>1, <2>3, <3>1, ApplyBootStep, ApplyReloadStep
  <2>4. CASE LoadOverride
    BY <2>1, <2>4, LoadOverrideStep
  <2>5. CASE FirstSave
    BY <2>1, <2>5, FirstSaveStep
  <2>6. CASE Refuse
    BY <2>1, <2>6, RefuseStep
  <2>7. CASE ReadChain
    BY <2>1, <2>7, ReadChainStep
  <2>8. CASE AnswerPlacement
    BY <2>1, <2>8, AnswerStep
  <2>9. CASE UNCHANGED vars
    BY <2>1, <2>9, NothingMoves
  <2>10. QED BY <2>1, <2>2, <2>3, <2>4, <2>5, <2>6, <2>7, <2>8, <2>9 DEF Next
<1>3. QED BY <1>1, <1>2, PTL DEF Spec

(* Every behaviour is type correct, however long the chain. *)
THEOREM ChainTypeCorrect ==
  ASSUME Readable
  PROVE  Spec => []TypeOK
<1>1. IInv => TypeOK
  BY DEF IInv
<1>2. QED BY <1>1, ChainInvariant, PTL

(* For every chain: the settings atlas answers are the ones RetroArch runs   *)
(* with once it has loaded it (_read_layers: two reads per key are enough).  *)
THEOREM ChainLayout ==
  ASSUME Readable
  PROVE  Spec => []LayoutIsTheEmulators
<1>1. IInv => LayoutIsTheEmulators
  BY DEF IInv, Agreement
<1>2. QED BY <1>1, ChainInvariant, PTL

(* For every chain: the file atlas names for a setting is the one it was     *)
(* taken from (chain_bool_read, _resolve_directory).                         *)
THEOREM ChainProvenance ==
  ASSUME Readable
  PROVE  Spec => []DecidingFileIsTheEmulators
<1>1. IInv => DecidingFileIsTheEmulators
  BY DEF IInv, Agreement
<1>2. QED BY <1>1, ChainInvariant, PTL

(* For every chain: what atlas reports as refused is what RetroArch read and *)
(* refused, no more and no less (IgnoredSetting, RejectedDirectory).         *)
THEOREM ChainRefusals ==
  ASSUME Readable
  PROVE  Spec => []RefusalsAreTheEmulators
<1>1. IInv => RefusalsAreTheEmulators
  BY DEF IInv, Agreement
<1>2. QED BY <1>1, ChainInvariant, PTL

(* For every chain and every directory tree: the game is saved in the        *)
(* directory answered, or in its fallback (_sorted_dir_fallback).            *)
THEOREM ChainSaves ==
  ASSUME Readable
  PROVE  Spec => []SavesLandWhereAnswered
<1>1. IInv => SavesLandWhereAnswered
  BY DEF IInv, Agreement
<1>2. QED BY <1>1, ChainInvariant, PTL
=============================================================================
