# emu-atlas in TLA+

emu-atlas answers, for one machine, where an emulation frontend keeps things
and what it would do: which systems a frontend declares, where their ROMs live,
which core launches them, where saves land, which firmware is wanted. It is a
library without a process of its own. A *handle* (one installation of EmuDeck,
RetroDECK, RetroArch or a standalone emulator) answers *questions* by reading
the files of the machine through a *machine seam*, live, every time it is
asked. The machine is edited by other programs while atlas reads it. What is
hard is therefore not the algorithms but the reading: a question takes many
reads, the files change between any two of them, a few readings are kept
between questions, cores are loaded in child processes that crash and hang, and
an answer is a claim about what *another* program (a frontend, RetroArch) would
do with the same files.

## The system's parts

| part | code | state it keeps | operations | how it meets the others |
|---|---|---|---|---|
| machine seam | `machine.py` | the core probe's memory `_core_cache`, the process-wide interpreter slot | `read_text`, `file_stamp`, `file_digest`, listings, globs, link walks, `read_core` | every read of every other part goes through it |
| core probe | `machine.py`, `_core_probe.py` | one child process per probe | load a core, print its word, capture its options | started by `read_core`, killed at a timeout |
| one question | `_question.py` | a memo per thread, alive for one outermost question | `one_question`, `once` | every public question opens it, nested ones share it |
| handle memories | `installations.py` (`_FindRulesFiles`, `_BlobHashes`, `EmuDeck`) | readings kept between questions under stat identities | lookup, keep, drop | asked by launch, firmware and build questions |
| installation handles | `installations.py` | where the installation was found | some forty questions | compose everything else |
| RetroArch configuration chain | `retroarch_cfg.py`, `installations.py` | none (texts of the layers) | merge of base, appended and override layers, flags, directories | savefile, savestate, system and cheat directories; the override gates |
| detection and aggregate | `detect.py`, `every_installation.py` | a list of handles | detect, ask every handle | constructs handles |
| ES-DE catalogue and find rules | `esde.py`, `find_rules.py`, `launch.py`, `frontend_path.py` | none | layer merge, emulator lookup | handles read it through `once` or the handle memories |
| placement rules | `placement.py`, `mode_rules.py`, `oddities.py` and tables | none | save placement from chain, content and rule cards | asks the chain |
| firmware | `firmware.py` and tables | none | match declared against present files | asks `read_core`, digests |
| readers and decoders | `psx_*.py`, `disc_opens.py`, `lha.py`, `squashfs.py`, `whdload.py` and others | the registered zstd provider | decode one file | called by single questions |
| contract, CLI, tables | `contract.py`, `cli.py`, `_data.py` and others | none | serialise, look up | outermost layer |

What makes each of them correct:

* *machine seam*: a read never blocks and never raises; what it says of a path
  is what stands there at some moment of the call.
* *core probe*: a question is answered however the core behaves; what a core
  printed is its answer; nothing passing is remembered; what is remembered is
  said of the build that stood there.
* *one question*: what is read through `once` is one revision of each source,
  none older than the question, and no memo outlives it.
* *handle memories*: a handle that keeps readings answers as one that keeps
  nothing.
* *handles*: the parts of one answer rest on one revision of every source.
* *configuration chain*: the value, the deciding layer and the directory
  answered are the emulator's own.
* *detection*: every installation that stands on the machine is one handle, in
  a fixed order, and one RetroArch is never two of them; the aggregate's answer
  for an installation is its handle's.

## The modules

| module | models | abstract specification | checked by | proved in |
|---|---|---|---|---|
| `LiveReads` | a handle that keeps nothing: asked, it reads, it answers | it is one | through `HeldReads` | |
| `HeldReads` | the readings a handle keeps between questions | `LiveReads` | `HeldRules`, `Resolvers`, `HeldLive`, `HeldDigests` | `HeldReadsProofs` |
| `CoreProbe` | `read_core`, the probe child, the memory of both | | `ProbeShared`, `ProbeAlone` | `CoreProbeProofs` |
| `Question` | `one_question` and `once` | | `Resolvers` | `QuestionProofs` |
| `RomLocations` | RetroDECK's `systems`, `rom_location`, `rom_locations`, over an instance of `Question` | `Question` | `RomLocations`, `RomMarker` | `RomLocationsProofs` |
| `CfgChain` | where saves land: atlas's reading of the chain next to a RetroArch | the RetroArch half | `CfgChain`, `CfgOpaque` | `CfgChainProofs` |
| `LinkWalks` | where links lead: `resolve_links` and `_destination_of`, `_link_view`, the fixture's `_resolve` | the kernel's walk | `Resolvers`, `LinkTarget` | `LinkWalksProofs` |
| `LaunchLookup` | find-rules layers and the lookup of each command of a launch answer | what ES-DE finds | `Resolvers` | `LaunchLookupProofs` |
| `Arrangements` | `detect()`, `roots()`, `health()`, the aggregate's health | what stood meanwhile | `Resolvers` | `MovingDiskProofs` |
| `SandboxView` | what a Flatpak frontend sees: `_SandboxLaunchView` | flatpak's mounts and the kernel | `Resolvers` | `LinkWalksProofs` (types) |
| `FirmwareVerdict` | `requirements_met` and `system_firmware_met`, from the looks at the disk up | what the emulator finds | `Resolvers`, `FirmwareKeys` | `MovingDiskProofs` |

`PathWalks` is the step of a walk that `LinkWalks` and `SandboxView` share,
`Absent` the one value for Python's `None` where modules are composed. The
small sets a run uses are in an `MC` module: one each for the first modules,
and `MCResolvers` for `Question`, `LinkWalks`, `LaunchLookup`, `Arrangements`,
`SandboxView`, `FirmwareVerdict` and one thread of `HeldReads`. Those share no
variable, as the code shares no state between them, so the behaviours of `MCResolvers` are the behaviours of
each while the others rest in their initial state; an invariant of one
module says nothing of the variables of another, and nothing is lost by never
moving two at once. The operators marked *Mutant* stand for plausible slips in
the code and occur in no specification: each names the definition beside it.

### HeldReads

`held` is the four memories: `_FindRulesFiles` (`rules`, and `embedded` for a
file inside an AppImage), `_BlobHashes` (`blob`) and the frontend build of
`EmuDeck` (`build`). A lookup is four steps, as in the code: `Stat` takes the
stamp, `ServeHeld` or `Miss` compares it, `ReadFile` reads, and a `Keep` action
per memory stores and returns, each by its own rule: a parse is kept if it is
one and dropped otherwise, a digest is kept whatever it is, a build replaces
what was held. `asked`, `pc`, `stamp`, `got` and `answer` are the locals of one
thread. Between any two steps `ChangeMachine` may replace, restore, remove,
hide or chmod the file, or a host registers or withdraws the codec. `seen` is
history: what a plain read would have said at each moment of the question. A
file is its revision; its bytes are not modelled.

### CoreProbe

`memo` is `_core_cache`, `registered` the interpreter slot. `StatCore` takes
the key, `Remembered` and `MustProbe` look it up, `Spawn` or `CannotStart`
start the child, `Collect` reads what an ended one printed, `TimeOut` kills a
running one, `Keep` stores what the rule keeps. The child is a process of its
own: it prints that the library does not load, or the base line, then the line
with the options, and it may crash, hang or exit after any of them. A printed
line is which of the three it is and which build it came from.

### Question

`memo[t]` is the context variable of thread `t`, `depth[t]` how many decorated
calls it is inside of. `Open` is the outermost call, `Nest` one inside,
`Once` a read through the memo, `Leave` a return or a raise. `drawn` and
`since` are history: what the open question was handed, and what has stood in
each file since it was opened.

### RomLocations

One step per look at the machine. `ReadMarker` is `_read_marker`, read afresh
by every part; `ReadOverlay`, `ReadBundled` and `ReadSettings` go through
`once`, that is, through an instance of `Question` whose variables are this
module's. Where the bundled layer is, is not: `_sandbox().bundled` resolves the
running deploy for every part, so `LookForUserDeploy`, `LookForSystemDeploy` (the
user installation wins) and `LookForFile` are live steps, each deploy is a
source of its own, and what is kept in the memo is kept under the deploy it was
read from. A catalogue is the function from the systems it declares to the kind
of their `<path>`: none, under `%ROMPATH%`, or a literal one. `MergeLayers` is
`merge_layers`: a custom system replaces the bundled one, path and all.
`BeginPart`, `PlaceNext` and `EndPart` walk `rom_locations`: the list first,
then each system. `AnswerSystems`, `AnswerNowhere` and `AnswerPlacement` end a
part with what the reads came to: nowhere, where the catalogue was not read, does
not declare the system or gives it no `<path>`, before the settings are looked
at; else by the settings (`PlacementBy`), a literal path under no root. `EditSource` may
come between any two steps of an open question. Between two questions it has no
step: the handle keeps nothing of this kind from one to the other, and every
content a question can begin with is an initial one.

### CfgChain

A configuration file is the function from the keys it sets; layers are numbered
in load order: 1 is `retroarch.cfg`, then the appended files, then the
overrides. The module has two halves over one set of files. The *emulator* half is
external, modelled from what `src/` says of RetroArch (each docstring cites its
source lines): it merges files one by one, applies every key of the merge over
what stands, looks up the gate and the override directory, reloads if an
override exists, and at last saves a game for the first time, creating the
sorted directory or reverting to the root. The *atlas* half is `_base_layers`,
`_override_gates`, `_read_layers`, `_resolve_flag` and `_resolve_directory`
(`ReadChain`, with at most two reads a key), `_read_appended` (`Refuse`),
`_resolve_placement_dir` (`PlacementDir`) and `_sorted_dir_fallback`
(`AnswerPlacement`). The halves share `files` and `kind` and are compared by
the invariants. The literal value `"default"`, a blank, a path that is no
directory and a word that is no boolean are values of a key, since what is
refused where is the point. Files with a byte that is not UTF-8 are `opaque`:
RetroArch parses them, atlas reads no text.

### LinkWalks

A `tree` is the function from places to what stands there; a place is a
sequence of names, a link has its target and whether it is absolute.
`AskDestination` is `destination_under` down to the first walk; `Walk` is one
turn of `resolve_links`' loop, with the kernel's turn beside it; `Settle` ends
a walk and starts the next one (the root, the composed path, its directory) or
answers. `AskLinkView`, `SpliceFirstLink` and `AnswerLinkView` are
`_resolve_symlink_chain` and `_link_view`. The kernel is `FixtureMachine._resolve`,
which the repository states as the kernel's own walk, with the failure of a
step through a file added. "." and empty segments are dropped before the walk;
a root that is relative is the same refusal as one that is not set.

### LaunchLookup

`ReadCustom`, `FindShadow`, `ReadShadow` and `ReadBundled` are `layered()`; a
layer is what its parse yields, `None` if nothing. `TakeCommand`,
`SeekToken`, `SeekProgram`, `SeekCore`, `Probe`, `Exhausted` and the `After`
actions are `LaunchLookup._evaluate` and what it calls; `located` is its memory of searches,
`probed` what the view said of each place, chosen at the first probe and kept
to. The frontend is ES-DE's `findEmulator` as `launch.py` describes it, on any machine
that agrees with what was seen: `PossibleFiles` and `PossibleLayers` range over
the rest. Wildcards, `%ROMPATH%` and the notes about launcher scripts, tokens
and unreadable layers are left out.

### Arrangements

`disk` is the markers and folders; `Move` changes one of them between any two
reads. `Probe...` is `detect()` in its order, `AskRoots` and `AskEveryHealth`
put a question to the handles found, `Read` takes the next source of it,
`AnswerOne` is the answer with its findings. `stood` and `shown` are history:
what stood all through a detection or question, and what stood at some moment
of it. Findings that come from the catalogue, a settings file or the content tree,
and version caveats, are left out.

### SandboxView

`HostOf` is where the view reads a path of the sandbox on the host, or why it
cannot say; `Resolve` is one turn of its `_resolve`, `Told` its `found` and
`regular_file`. Flatpak is external, modelled from what the class and the
tables beside it say of flatpak: `Sandboxes` are the sets of mounts that the
grants leave open, `Enter` the kernel's turn over them. `/run/host`,
`/run/media`, an ostree host's homes, three of the four XDG binds, directory
questions and listings are left out; a grant names a path with no link in it.

### FirmwareVerdict

An emulator is what its declarations want: `core.wants` is a sequence of places,
each with the route it is looked at by. A place holds one of ten states, which
are what the seam, the packaged table and the core's own test can tell apart.
Every look at the disk is a step, and `Shift` may change the disk before any of them:
`ObserveKind`, `ObserveSize`, `ObserveDigest` are `_observe` for a declared
file; `ImageGate`, `ImageDigest` are `_duckstation_named_content` for a region
key; `OfferKind` to `ConfiguredDigest` are `_offered`, `_configured_image` and
`_configured_content` for an option that names a file in a listed folder;
`ListFolder`, `SizeUp`, `EndListing`, `ReadDigest`, `ReadHeader` are the listing, its
size filter and its reads, for a folder (`DirectoryIdentified`) and for
DuckStation's search (`PickImage`, `FoundImage`). What they state is in
`required` and `absent`; `Weigh` is `requirements_met` and
`system_firmware_met` over it, with `Satisfied`, `GroupSatisfied` and
`SystemImageFor` below. Verdicts are `yes`, `no` and `open` for `True`, `False`
and `None`.

Next to it stands the emulator, external: `Worths` says what a wanted place is
to it on a disk, with both values where the code says that nobody can tell
(a repacked archive, bytes the emulator boots with a warning), `Boots` when a
launch starts. `stoodAt` is history: what stood at each place during the
question, and `Moments` the disks a reader of single places could have seen.

Left out: the parse of `.info` files, cards and tables; the route that opens a
name and searches after it (SwanStation and Beetle PSX); the reading of the disc
that decides a region (the region is a constant of the emulator here); a
DataRoot the launch decides; option values that a listing could not produce or
that name the listing; whose file a distribution supplied; files nobody claims;
the memo of folders read twice in one answer.

## What the runs check

| run | instance | what it shows |
|---|---|---|
| `HeldRules` | 2 threads, 3 revisions, 4 changes, both parse memories | `HitsAreLive`: what a memory serves was on the machine during the question. `AnswersAsIfNothingKept`: every step is one of `LiveReads`. |
| `HeldLive` | 2 threads, 2 revisions, 2 changes, digest and build memories | `AnswersLive`: every question is answered, as `LiveReads` answers it. |
| `HeldDigests` | digests, chmod | violation, see below |
| `ProbeShared` | 2 threads, 2 builds, 3 changes | `MemoIsLive`, `OnlyAKilledRunIsRememberedUnanswered`, `PrintedAnswerStands` |
| `ProbeAlone` | 1 thread, 2 builds, 4 changes | `TheTimeoutIsPaidOnce`, `AnAnswerIsMemoized`, `EveryQuestionEnds` |
| `Resolvers` | seven modules, each alone | the table below |
| `RomLocations` | 2 roots, 2 systems, 2 edits per question of any source but the second root's overlay | `OneRevisionPerPart`: what `systems` or `rom_location` answers rests on one revision of each source and one deploy. `ListedSystemsArePlaced`, `OneRomRoot`: as long as the parts of a `rom_locations` saw one marker and found their bundled layer in one deploy or all in none (`PartsAgree`), every listed system with a `<path>` is placed, those by `%ROMPATH%` under one root, or all are refused for what the settings say |
| `RomMarker` | the same, the marker edited | violation, see below |
| `CfgChain` | 1 appended file, 2 overrides, 2 directories, 8 trees | `LayoutIsTheEmulators`, `DecidingFileIsTheEmulators`, `RefusalsAreTheEmulators`, `SavesLandWhereAnswered` |
| `CfgOpaque` | an opaque override | violation, see below |
| `LinkTarget` | one tree with a link whose target climbs out of another link | violation, see below |
| `FirmwareKeys` | one region key | violation, see below |

| of `Resolvers` | instance | what it shows |
|---|---|---|
| `Question` | 2 threads, 2 files of 2 revisions, 3 calls deep | `OneReadingPerKey`, `NothingOlderThanTheQuestion`, `NoMemoLeftBehind` |
| `LinkWalks` | 567 trees of up to 4 entries, 2 hops, 30 declared names under their roots, 4 directories | `LandsWithTheKernel`: every walk that the kernel completes ends where the kernel's does. `OnlyAFileLeadsOut`: what is written to is in the firmware tree, or led out by a link that is itself in it. `NothingInsideIsRefused`: no refusal of what a core can open there. `APrefixSettles`, `LinkViewIsTheKernels` |
| `LaunchLookup` | 4 layers, answers of 1 or 2 of 7 commands, 2 environments | `VerdictIsTheFrontends`: a launcher found or refused is what ES-DE starts or refuses whatever stands where atlas could not look. `AssumptionsAreNoted`: an answer that rests on an assumed PATH says so. `DoubtIsReal`: an answer is left open only where two machines that agree with all that was seen differ |
| `Arrangements` | 4 machines, 2 moves per detection and question | `NoRetroArchTwice`, `WhatStandsIsFound`, `FindingsAreOfTheStatedRoots` |
| `SandboxView` | 192 hosts, 9 grants, 28 probes, 2 hops | `ProbesAreTheSandboxes`: a hit is a file in every sandbox the grants allow, a miss in none |
| `HeldReads` | 1 thread, 2 revisions, 4 changes of any kind, both parse memories | `FailuresAreReadAfresh`: no failure is served from memory, whatever happens, rolled-back files included |
| `FirmwareVerdict` | 11 emulators of one or two wants, a folder of two files and two files beside it, 1 change of the disk per question, with and without a content check | `VerdictIsEarned`: a yes only where the emulator starts, whatever was not read and whichever region the launch has, a no only where it cannot; said neither of a no that rests on candidates of a search that were not read (`LeftToSearch`), nor of a pick that vanished or was put there after it was listed (`LostPick`), nor of a yes by an image that a region key names and nobody read (`UnreadKey`). `ConsoleVerdictIsEarned`: the same of the console's image, with the same exceptions. `DoubtIsOpen`: on a disk that stands still a question is left open only where what was told fits both |

**Why the bounds are enough.** Every race of a memory involves one thread
between two of its steps, one other that fills or empties the same slot, and a
file replaced twice: two threads, three revisions and four changes hold all of
that, and the proofs lift it to any number. In `HeldRules` the two parse
memories also answer for each other's slot. A probe is raced by a deploy before
its key, between key and load, and after the load: three changes; the fourth
of `ProbeAlone` is a host that repairs its libraries or interpreter. A question three calls deep has an outermost, a nested and
an innermost one. Two edits suffice to change a source and another one, or one
and back, within one answer. In a chain, what is decided is decided by the last
and the one before last of a group; two base files and two overrides are that.
Keys do not meet while files are merged, so the run varies one group of
keys at a time: a flag, the directory, the gate with a flag, the override
directory with a flag and two places to find overrides in. The eight trees are
the sorted directory existing, missing, blocked at its first or its second
component, each with one or both of the directories the files name.

Two hops are a limit that is met by a path inside
a folder, by one over two links, and missed by one; the walk is the same at
any hop, which the proofs of `LinkWalks` use for every limit. A find-rules search is
decided by its first place that is no miss, so two places a list and two
entries per answer make every order of hit, miss and unknown, and every search
remembered by a later entry. Detection reads six things in a row: two moves
make and unmake one, or make one and take another. A firmware verdict joins
what single looks came to, and no look tells how often a place
changed before it: one change is every pair of looks that see different disks.
Two wants are a declaration beside another, two options of one group, and a key
beside the search for the regions left over.

`CHECK_DEADLOCK FALSE` stands in the runs of `CfgChain` alone: a RetroArch that
has saved and a question that is answered have nothing left to do. The other
specifications never stop.

**Fairness.** `HeldReads` and `CoreProbe` assume weak fairness of `AskerStep`,
per thread: a host thread inside a call is scheduled, and the timeout of
`subprocess.run` fires (`TimeOut` is a step of the asker). Nothing is assumed
of a probe child, of the machine, or of who asks: a child may hang forever and
no one need ever ask again. `HeldLive` and `EveryQuestionEnds` are the only
properties that use it.

## What disagrees with what is written

* `CfgOpaque`. An override file with one byte that is not UTF-8 (a Latin-1
  comment) is read as no text by `_override_layers` and left out like a missing
  one, while RetroArch parses its bytes. The answer names another directory than
  the one saved to, without a caveat. `_read_chain` promises that every
  degradation is stated; an appended file in this state is refused, and an
  unreadable `retroarch.cfg` is stated (`layout.degraded`).
* `RomMarker`. `rom_locations` reads RetroDECK's marker once for the list and
  again for each system, so an edit in between mixes two revisions in one
  answer, which the class's docstring and DESIGN.md exclude.
* `HeldDigests`. `_BlobHashes` keeps failed digests, and a chmod does not move a
  stamp: a file hashed while unreadable stays unhashed. Its docstring says it
  keeps by the rule of `_FindRulesFiles`, which keeps no failure.
* `LinkTarget`. `_splice_first_link` normalises the spelling of a relative link
  target before the links in it are followed, so a target that climbs out of
  another link is taken to the wrong folder; `resolve_links` and the fixture
  follow first, as the kernel does, and each of the three says that they agree.

* `FirmwareKeys`. `_duckstation_named_content` leaves the word `unknown` on an
  image it was not to read, and `satisfied` takes that as a yes: without a
  content check any file of an accepted size that a region key names is the right
  one, and the console has its image. `satisfied`'s docstring withholds exactly
  this, and `_named_content` answers `unchecked` with a comment saying why.

More were seen while modelling and have no run of their own:

* Each part of `rom_locations` resolves the running deploy again (installations.py:24146), so
  a deploy that is removed between the list and a placement leaves a system that
  was listed answered `catalogue-unread`; where the other installation has a
  deploy too, the placement goes by the catalogue of that one. `rom_locations`'
  docstring says that the catalogue is read and parsed once for all of them.
  `RomMarker` with `Edited = {"user", "system"}` shows it: `OneRevisionPerAnswer`
  speaks of the deploy as of the marker.
* `_FindRulesFiles.read` takes the stamp before it reads, so a file replaced
  between the two is kept under the stamp of the one it replaced. When that one
  is moved back, with its mtime, size and inode, the parse of the other is served
  (installations.py:21045). The docstring says that a parse is kept under the
  identity of the file it came from. `HeldDigests` with `Holds = {"rules"}` and
  `Events = {"replace", "rollback"}` violates `HitsAreLive`.
* Two threads miss the memory of `read_core` and probe one core at once; the
  one whose run was killed stores after the one that was answered, and the
  answer is gone (machine.py:1964). `ProbeAlone` with two threads violates
  `AnAnswerIsMemoized`.
* A region key names a missing file, and the search for the other regions has
  candidates nobody read, or could not be listed. The search then states no requirement,
  every image that is stated is missing, and `_system_image_for` answers that
  the console has none (firmware.py:3268), where the same question with
  a content check leaves it open. how-to-use.md:4047 says of such a no that it
  "holds for every region, including one no option lists", and
  `requirements_met`'s docstring that "a `False` is always demonstrated".
  `VerdictIsEarned` and `ConsoleVerdictIsEarned` leave it out (`LeftToSearch`).
* The pick of a search that vanishes before `_found_image` looks at it again
  makes the requirement missing, although the search had other candidates; and
  a file that is put where an option names one, after the listing was asked
  whether it offers it, is not asked for its header (`LostPick`).

* The frontend-build memory keeps "this runtime lacks the codec" under the
  image's stamp (installations.py:26728), so a provider registered later does
  not change the answer, where how-to-use.md:92 lets a host register one at any time.
* A path that climbs out of a revoked folder, or out of what is no folder, is
  answered as a miss by `_SandboxLaunchView._resolve`, or as found, without asking whether what
  it climbs out of is there: to the sandbox a masked folder is an empty one, and
  the kernel climbs from no file. `ProbesAreTheSandboxes` leaves these paths out.
* The tokens `host` and `home` granted at once with the home, or a folder over it,
  revoked under another spelling: only `grants.paths` lift a mask
  (installations.py:1480), so the view answers a miss where this model binds the home.
  No grant of the run is of this kind.
* A directory of the host's root that a host grant revokes is taken here not to
  be bound with the rest; the code's comment and flatpak's exports leave this open.

## What is proved

The provers take the specification for every value of its constants.

* `HeldReadsProofs`: `TypeCorrect`, always. `HitsLive` and
  `KeepsNothingVisible` assume `Sound`: only parses are asked for, the machine
  replaces, removes, hides and gains a codec, and no two revisions share a stamp.
  `HitsAreLive` is not inductive. A memory is right because the stamp it is under was taken
  *before* its reading was made and is the stamp of a revision that never
  returns; so the invariant says what a held reading is (`HeldInv`:
  never a failure, and the present file's parse whenever its stamp is the present
  file's), the same of a reading about to be kept (`GotInv`), that the present is among what a question has seen
  (`SeenInv`), and, for a thread that is about to look up while another is about to keep under
  the very stamp it took, that this reading has been seen by it too
  (`RaceInv`). `KeepsNothingVisible` then maps each step to a step of
  `LiveReads` or a stutter: `ServeHeld` and the `Keep` actions are its `Answer`.
  `NoFailureServed` needs none of that: where only parses are kept
  (`ParsesAlone`), what is put in is a parse, whatever the machine does and
  whatever stamps collide (`ParsesKept`).
* `CoreProbeProofs`: `ProbeTypeCorrect`, `AskedAgain` and `PrintedStands`,
  always; `RememberedIsLive` under `Distinct`: no two builds share (mtime, size). The
  argument is the one above, with a child process between the key and the
  reading (`CurrentInv`, `ResultInv`, `RaceInv`). `PaidOnce` and `AnswersKept`
  under `Alone`, one thread: nothing is remembered under a key while its probe
  runs, and a run that was killed is remembered or about to be (`AloneInv`).
* `QuestionProofs`: `OneRevisionAQuestion`, `FromItsOwnTime` and
  `NoMemoOutlives`, always: what was drawn is in the memo or was never drawn,
  what is in the memo has stood in the file since the question was opened, and
  a memo is open exactly as long as a question is.
* `RomLocationsProofs`: `RomQuestionsAreQuestions`, always: every step of the
  ROM questions is a step of `Question` or a stutter, so what `QuestionProofs`
  says holds of them, by an instance of that module. `PartsAreOfOneRevision`
  adds that a question asked directly is one part, reads the marker once and
  settles on a deploy once (`MarkerInv`). Of `rom_locations`, `RomMarker` is the
  counterexample.
  `RomTypes`, `ListedArePlaced` and `OneRootForAll`, for any systems, roots,
  layers and edits, rest on `RomInv`: the memo is Question's (`QInv`); which
  part is asked and how deep (`PartInv`); the catalogue of a part is the one
  that the layers under its root and in the deploy it found hold now in the memo
  (`CatalogueInv`), and so is the list that the placements follow (`ListInv`);
  as long as the parts agree, every placement so far is by the one held reading
  of the settings, or for want of a `<path>` (`PlaceInv`). Neither property
  is inductive without the memo: a system is placed from the catalogue it was
  listed by because a second part of the question draws nothing anew. Both ask
  that the parts agree on the marker and on the deploy (`PartsAgree`), which
  `once` does not see to; all parts finding none is such an agreement, as a list
  without a bundled layer is empty or of an exclusive overlay.
* `MovingDiskProofs`, of `Arrangements`: for any machines, any readings and any number of moves.
  `DescribedOnce`: what a probe still to come may add, nothing found so far
  describes (`FoundSoFar`). `StandingIsFound` is the other half, nothing that
  stood all along is missed: `stood` shrinks and `shown` grows around what
  stands now (`StandingInv`), and what a probe that is past would have found is
  found if it stood (`FoundInv`, by the order of the probes).
  `FindingsOfOneMarker`: the marker is the first source a question reads, what
  is left to read is a tail of the list of sources (`AskingInv`), and each
  reading was so at a moment of the question (`SeenInv`); so a finding about a
  folder is of a folder that the marker read in that very question names
  (`AnswersInv`). `InstallTypes` adds the types.
* `MovingDiskProofs`, of `FirmwareVerdict`: `FirmwareTypes`, `VerdictsAreEarned`
  and `ConsoleVerdictsAreEarned`, for any emulators, any places and any number of
  moves. A verdict is said of one moment, and the looks it is put together from
  were taken at many. The invariant `FirmwareTold` therefore speaks of each place
  alone: what a listing, a requirement or an absence rests on is that this place
  was in one of these states at some time of the question (`HasStood`), and what
  has stood stays so (`ClaimsStay`, `ListingStays`), whatever moves. `LookTold` and
  `ListingTold` say what a question halfway through its looks may rely on,
  `Earned` what a stated requirement that says yes or no has behind it,
  `Demonstrated` the same of a system a search found nothing for.
  `FirmwareToldHolds` shows it by one lemma per action. The properties follow
  because the times meet: disks are made of what stood at each place, so wishes
  of different places are met at one moment (`SomeMoment`), and the wants of one
  emulator do not wish for different things of one place (`AFolderFailsOnce`,
  `ASearchFailsOnce`, `FilesFailTogether`; then `OneMomentFails` and
  `OneMomentServes` of all its wants at once). This last step is where it matters
  what emulators want: two wants of one file that each judge it otherwise would
  have no such moment. `EntriesAssumption` says what the entries of
  firmware.py are: LRPS2 and PCEE2 declare their folder alone, DuckStation's
  keys and its search want the same of the images in different places, and none
  of its declarations is refused (`_duckstation_standalone_core`).
  `CoresAssumption` says that a folder lists its own files and an option names
  one of them (`_a_listing_could_name`), `StatesAssumption` that folders are not
  nested and `None` is no place and no word, `ShiftsAssumption` that a bound is a
  number.
* `MovingDiskProofs`, of `FirmwareVerdict` on a disk that stands still:
  `DoubtsAreOpen`, that `requirements_met` leaves a question open only where what
  it was told fits an emulator that starts and one that does not. `FirmwareTold`
  is too weak for it: it says what has stood, and where nothing moved the looks
  know what stands. `FirmwareSeen` says so (a file that was opened is there, a
  listing kept every file of the right size, a digest is the one of the bytes
  there) and what each requirement then leaves: one left open is of a want that
  may be either (`Settled`), a search that stated nothing could have missed a good
  image or there is none (`LeftUnsaid`). `FirmwareSeenHolds` shows it by one lemma
  per action, beside `FirmwareToldHolds`. At the answer the two worlds are made
  from the wants: all that may be good is (`Best`), all that may be bad is
  (`Worst`), both fit what was told (`BothAreTold`), and the emulator starts in
  the first (`ItMayStart`) and not in the second (`ItMayNotStart`). This asks
  more of the emulators than the verdicts do: were a system needed that none of
  the wants is of, the code would leave it open and the emulator could never
  start. `NeedsAssumption` says what the cards do: a system an emulator needs an
  image for is one of a want (`system_firmware_needs`), options of one group serve
  regions of their own and at least one (`FirmwareAlternatives.__post_init__`),
  DuckStation's images are of the one system of its card, which cannot run
  without one, and its search is for all regions where no key names an image and
  for the rest where one does.
  The five assumptions of `FirmwareVerdict` are evaluated in the run.
* `LinkWalksProofs`: `WalksTyped`, `ResolvesAsTheKernel` and
  `RefusalsAreTheKernels`, for any tree, any names and any limit. The argument
  is that the two walks go in lock step: until the kernel ends, both have the
  same place, the same rest of the path and the same hops, and where it ends at
  the limit so has the other (`LockStep`); a kernel that stopped at what is no
  directory opens nothing, and the property does not speak of it.
  `Reached` and `LandsWithTheKernel` carry that over the three walks
  of one question, `AnswerInv` ties the answer to where they ended.
  `OnlyFilesLeadOut` and `PrefixesSettle` compare walks of different paths, so
  the invariant must say how a walk came to be where it is: there is a trail
  of it, a finite function of walks from the start of its path, each the step
  of the one before (`TrailInv`). A trail of a path is one of every longer
  path, as long as it has segments left (`LongerStep`), and two trails of one
  path agree, so the walk of the root is the beginning of the walk of what
  is below it. The link view, whose paths are folds over a sequence, is only
  model-checked.
  `SandboxTypes` is of `SandboxView`, whose two walks are made of the same steps:
  no walk follows more links than the limit, the view stops early for one of two
  reasons only, and a probe has one of three answers.
* `LaunchLookupProofs`: `LookupTypes`, `VerdictsAreTheFrontends` and
  `AssumptionsNoted`, for any layers, commands, answers and environments.
  ES-DE tries entry after entry and directory after directory, the lookup one
  list: what the first hit of the list is, the nested loops take
  (`NestedIsFlat`, by division with remainder). A verdict speaks of every
  machine that agrees with what was seen, and the model has no such machine in
  its state. The invariant quantifies over them: `Right` and `Holds` say of a
  result or a verdict that it is what ES-DE finds or starts under every set of
  files that agrees with the probes so far and every content of the layer that
  was not read, which further probes can only leave true (`RightStays`,
  `HoldsStays`). `LocatedInv` says it of every remembered search, so an entry
  may use one that another entry made; `SearchInv` that the places of a search
  that are gone were all misses; `FlowInv` that what is looked for may be, and
  what comes before it was found. An answer without
  `launch-path-assumed` rests on this: a program found without an assumption
  was found at its own word, before any directory of the PATH
  (`RightProgram`), and rules without a systempath never ask for the PATH
  (`PathAside`). The assumptions: `Assumed` is one of the
  environments, layers, commands and answers have the shape the parsers give
  them, and `None` is none of those.
* `CfgChainProofs`: `ChainTypeCorrect`, `ChainLayout`, `ChainProvenance`,
  `ChainRefusals`, `ChainSaves`, for any number of appended files and
  overrides, any files and any tree, under `Readable`: no file is opaque (with
  one, `CfgOpaque` is the counterexample). `MergeInv`: what is merged is
  the last setter so far. `LoadInv`: what stands before, between and after the
  two loads is atlas's reading of none, the base and all of the chain; here a
  boot value that is re-read in the reload is re-applied to itself, which is
  why two reads suffice. `ReadInv`: what atlas resolved stays what it would
  resolve, as files and roots do not move before the save. `SavedInv`: where
  the game went and what the sorted directory is since. That the last element
  of a set of positions exists is the well-foundedness of `<` on the naturals.

Only model-checked: liveness (`AnswersLive`, `EveryQuestionEnds`), which needs
fairness and `ENABLED`, out of the prover's reach; `LinkViewIsTheKernels`, whose
paths are folds over sequences and so ask for induction over data;
`DoubtIsReal` of `LaunchLookup`, which says that two machines exist that differ,
and whether they do depends on what `Layers` holds, so it is no theorem for
every value; `ProbesAreTheSandboxes`, which is
true of hosts and grants of the shapes listed above and not of every value of
`Hosts` and `Grants` (it does not hold of a link or a file above a granted path,
nor of the `home` and `host` tokens granted at once with the home revoked, see
above). `ResolversTypeOK` is the conjunction of the types of the modules in that
run, which are proved each in its module, and `FailuresAreReadAfresh` is the
property of `HeldReads` proved as `NoFailureServed`, said there of one thread.
None of the modules defines a recursive operator.

## What is assumed and left out

* A stat identity that comes back is out of `HeldRules` (a backup moved over a
  file brings its mtime, size and inode with it) and of the theorems `HitsLive`
  and `KeepsNothingVisible` (`Sound`): with `Rollback` `HitsAreLive` is false (see
  above), so no property that holds covers it. Two builds with one
  (mtime, size), which how-to-use.md warns of, are the same for `CoreProbe`.
* Two threads that probe one core at once both wait for it; the later to finish
  overwrites the earlier. `TheTimeoutIsPaidOnce` and `AnAnswerIsMemoized` are
  said of one thread; with two the second is false, see above.
  `MemoIsLive` and `OnlyAKilledRunIsRememberedUnanswered` hold of both stored
  readings and say nothing of which one stays.
* `RomLocations` does not model what a catalogue says beyond `<path>`, nor a
  `<path>` that resolves to a folder that is not there; `LookForFile` takes the
  deploy's file as present or not, which is what `_deployment_path` looks at.
* In `CfgChain` the question is asked before the game is first saved, and
  nobody edits the files between RetroArch's launch and the answer. Cores,
  sandboxes, relative roots and `~` are not modelled; nor are the remaining
  keys, nor the savestate family, which is the same code with other key names.
* Not modelled at all: see the components with status `not_modelled` in
  PROJECT.json. Binary decoders have their input as their state space; packaged
  tables and serialisation have no behaviour over time.

## Plan

Done in this order, the most shared behaviour first: handle memories, core
probe, one question, ROM placement over it, configuration chain, links,
find rules, detection, the sandbox, firmware verdicts. Next:

1. `CoreOptions`: the chain's second half, which `.opt` file a core reads
   (`game_specific_options`, decided after the overrides) and the per-game
   override of one, as a component of `CfgChain`'s emulator; with `cfg_uint`
   against a reference definition at its width.
2. `RomLocations` for EmuDeck, whose settings are read afresh per part.
3. The launch command: order of substitution and word splitting, bounded.

Proofs still worth having: `ChainLayout` with opaque base files;
`ProbesAreTheSandboxes`, in lock step as in `LinkWalksProofs`, once the shapes of
hosts and grants are assumptions of `SandboxView`.
