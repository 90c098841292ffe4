--------------------------- MODULE FirmwareVerdict ---------------------------
(***************************************************************************)
(* What firmware.py says of the firmware an emulator wants: whether each    *)
(* wanted file is there and right, whether the requirements are met, and    *)
(* whether the console has the image it cannot start without.  Each answer  *)
(* is three-valued and is put together from many looks at a disk that may  *)
(* move between any two of them.  Beside it stands what the emulator finds  *)
(* on the same disk.  The routes are a declared file, a declared folder     *)
(* that a core lists (LRPS2), one file in it that an option names, the      *)
(* region keys of DuckStation and its search.                              *)
(***************************************************************************)
EXTENDS Naturals, SequencesExt, Absent

CONSTANTS
  States,    \* States[p]: what may stand at place p; its domain, the places
  FolderOf,  \* FolderOf[p]: the folder p is in, or None
  Cores,     \* the emulators asked about, each with what it wants
  MaxShifts  \* how often the disk moves under one question

(* A place holds nothing, a folder (a "closed" one cannot be listed), what    *)
(* cannot be looked at ("hidden"), or a file.  A file is "locked" against     *)
(* reading, "short" of every accepted size, or its bytes are "known" to the   *)
(* table and to the core's own test, "denied" by the test, "unlisted" in the  *)
(* table, or "other": neither.                                               *)
FolderStates == {"dir", "closed"}
Files == {"locked", "short", "known", "denied", "unlisted", "other"}
AllStates == FolderStates \union Files \union {"missing", "hidden"}

(* A wanted place: where it is, how the bytes are judged, and whose it is.    *)
(* inside is the folder listed, named what an option names in it; regions     *)
(* are those of the launches an option of the group serves.                  *)
Routes == {"file", "folder", "key", "search"}
Values == {"yes", "no", "open"}

ASSUME StatesAssumption ==
  /\ None \notin DOMAIN States \union {"dump", "archive", "listed", "unlisted", "bios", "no bios"}
  /\ \A p \in DOMAIN States : States[p] \subseteq AllStates
  /\ FolderOf \in [DOMAIN States -> DOMAIN States \union {None}]
  /\ \A p \in DOMAIN States : FolderOf[p] # None => FolderOf[FolderOf[p]] = None
(* A folder lists its own files, and an option names one of those: a bare,    *)
(* unhidden name (_a_listing_could_name).                                    *)
ASSUME CoresAssumption ==
  /\ None \notin Cores
  /\ \A c \in Cores :
       /\ Len(c.wants) \in Nat
       /\ DOMAIN c.wants = 1..Len(c.wants)
       /\ \A i \in DOMAIN c.wants :
            LET w == c.wants[i]
            IN  /\ w.route \in Routes
                /\ w.at \in DOMAIN States
                /\ w.pins \in {None, "dump", "archive"}
                /\ w.inside \in Seq(DOMAIN States)
                /\ \A p \in ToSet(w.inside) : FolderOf[p] = w.at
                /\ w.named \in ToSet(w.inside) \union {None}

(* What is wanted together.  LRPS2 and PCEE2 declare the folder alone.        *)
(* DuckStation wants the images its region keys name in the folder it would   *)
(* search, and searches for the regions left over, or for all where no key    *)
(* names one (_duckstation_standalone_core); no declaration of its is refused. *)
ASSUME EntriesAssumption ==
  \A c \in Cores : \A i, j \in DOMAIN c.wants :
    LET w == c.wants[i]
        v == c.wants[j]
    IN  /\ w.regions # None => w.route \in {"key", "search"}
        /\ w.route = "folder" => i = j
        /\ w.route \in {"key", "search"} =>
             /\ v.route \in {"key", "search"}
             /\ c.declaration = "packaged"
             /\ c.refused = {}
        /\ w.route = "search" => (i = j \/ (v.route = "key" /\ v.at # w.at /\ w.regions # None))
ASSUME ShiftsAssumption == MaxShifts \in Nat

(* What is needed.  A system an emulator needs an image for is one of a want   *)
(* (system_firmware_needs), the options of a group serve regions of their own *)
(* (FirmwareAlternatives), and DuckStation's images are of the one system of   *)
(* its card, which cannot run without one; its search is for the regions left  *)
(* over only where a key names one.  Cards with no want are left out.         *)
ASSUME NeedsAssumption ==
  \A c \in Cores :
    /\ c.declaration = "packaged" => DOMAIN c.wants # {}
    /\ c.state = "cannot-run-without-firmware" =>
         \A s \in c.needs : \E i \in DOMAIN c.wants : c.wants[i].system = s
    /\ \A i, j \in DOMAIN c.wants :
         LET w == c.wants[i]
             v == c.wants[j]
         IN  /\ w.route = "key" => w.regions # None
             /\ w.route = "search" => (w.regions = None <=> DOMAIN c.wants = {i})
             /\ w.regions # None => w.regions # {}
             /\ i # j /\ w.regions # None /\ v.regions # None => w.regions \intersect v.regions = {}
             /\ w.route \in {"key", "search"} =>
                  c.state = "cannot-run-without-firmware" /\ c.needs = {w.system}

VARIABLES
  shelf,     \* the disk: what stands at each place
  shifts,    \* how often it has moved
  stoodAt,   \* what has stood at each place since the question was asked
  core,      \* the emulator asked about
  verify,    \* whether the bytes are to be read
  turn,      \* the wanted place being looked at
  look,      \* the next look at the disk
  pending,   \* of a listing, which of the files inside are yet to be sized
  kept,      \* of a listing, the files of an accepted size
  reads,     \* what reading each of them came to
  partial,   \* whether the listing stopped short
  required,  \* the requirements stated so far
  absent,    \* absent_by_search: the systems a search found no image for
  verdict    \* the answer

firmwareVars ==
  <<shelf, shifts, stoodAt, core, verify, turn, look, pending, kept, reads, partial,
    required, absent, verdict>>
diskVars == <<shelf, shifts, stoodAt>>
questionOf == <<core, verify>>

Stands(disk, p) ==
  IF FolderOf[p] = None \/ disk[FolderOf[p]] \in FolderStates THEN disk[p]
  ELSE IF disk[FolderOf[p]] = "hidden" THEN "hidden" ELSE "missing"
There(p) == Stands(shelf, p)

(* The machine seam: path_kind, file_size against the accepted sizes, the     *)
(* digest looked up in the table, and the core's own test.                   *)
Kind(s) == IF s \in Files THEN "file" ELSE IF s \in FolderStates THEN "dir" ELSE s
Digest(s) ==
  IF s \in {"known", "denied"} THEN "listed"
  ELSE IF s \in {"unlisted", "other", "short"} THEN "unlisted" ELSE None
Header(s) ==
  IF s \in {"known", "unlisted"} THEN "bios"
  ELSE IF s \in {"denied", "other", "short"} THEN "no bios" ELSE None

Want == core.wants[turn]
Listed(w) == w.route \in {"folder", "search"}
-----------------------------------------------------------------------------
NoLooks == pending = {} /\ kept = <<>> /\ reads = <<>> /\ partial = FALSE

FirmwareInit ==
  /\ shelf = <<>>
  /\ shifts = 0
  /\ stoodAt = <<>>
  /\ core = None
  /\ verify = FALSE
  /\ turn = 1
  /\ look = "idle"
  /\ NoLooks
  /\ required = {}
  /\ absent = {}
  /\ verdict = None

(* A search lists at once; every other route looks at its place first. *)
FirstLook(c, i) ==
  IF i > Len(c.wants) THEN "weigh"
  ELSE IF c.wants[i].route = "search" THEN "list" ELSE "kind"

WantedPlaces(c) ==
  LET wanted == UNION {{c.wants[i].at} \union ToSet(c.wants[i].inside) : i \in DOMAIN c.wants}
  IN  wanted \union ({FolderOf[p] : p \in wanted} \ {None})
DisksFor(c) ==
  {d \in [WantedPlaces(c) -> UNION {States[p] : p \in WantedPlaces(c)}] :
     \A p \in WantedPlaces(c) : d[p] \in States[p]}

AskFirmware ==
  /\ look = "idle"
  /\ core' \in Cores
  /\ verify' \in BOOLEAN
  /\ shelf' \in DisksFor(core')
  /\ stoodAt' = [p \in DOMAIN shelf' |-> {Stands(shelf', p)}]
  /\ look' = FirstLook(core', 1)
  /\ UNCHANGED <<shifts, turn, pending, kept, reads, partial, required, absent, verdict>>

(* Somebody installs, removes or replaces something. *)
Shift ==
  /\ look \notin {"idle", "weigh", "answered"}
  /\ shifts < MaxShifts
  /\ \E p \in DOMAIN shelf : \E s \in States[p] \ {shelf[p]} :
       shelf' = [shelf EXCEPT ![p] = s]
  /\ shifts' = shifts + 1
  /\ stoodAt' = [p \in DOMAIN shelf |-> stoodAt[p] \union {Stands(shelf', p)}]
  /\ UNCHANGED <<core, verify, turn, look, pending, kept, reads, partial, required, absent,
                 verdict>>

GoOn(next) ==
  /\ look' = next
  /\ UNCHANGED <<turn, pending, kept, reads, partial, required, absent>>

(* The place is done with: a requirement is stated of it, or none is. *)
Pass ==
  /\ turn' = turn + 1
  /\ look' = FirstLook(core, turn + 1)
  /\ pending' = {} /\ kept' = <<>> /\ reads' = <<>> /\ partial' = FALSE

Looked(found, checked) ==
  [want |-> turn, found |-> found, checked |-> checked, lists |-> FALSE, contents |-> "open",
   picked |-> FALSE]

State(requirement) ==
  /\ required' = required \union {requirement}
  /\ UNCHANGED absent
  /\ Pass
Conclude(found, checked) == State(Looked(found, checked))
ConcludeFolder(found, contents) ==
  State([Looked(found, "unknown") EXCEPT !.lists = TRUE, !.contents = contents])
ConcludePick(found, checked) == State([Looked(found, checked) EXCEPT !.picked = TRUE])

Looking == UNCHANGED <<shelf, shifts, stoodAt, core, verify, verdict>>

(* _observe: what stands at the place. *)
ObserveKind ==
  LET kind == Kind(There(Want.at))
  IN  /\ look = "kind"
      /\ IF Want.route = "folder"
         THEN IF kind # "dir" THEN ConcludeFolder(kind, "open")
              ELSE GoOn(IF Want.named = None THEN "list" ELSE "offered")
         ELSE IF kind # "file" THEN Conclude(kind, None)
         ELSE IF Want.route = "key" THEN GoOn("gate")
         ELSE IF Want.pins = None THEN Conclude("file", "unknown")
         ELSE IF ~verify THEN Conclude("file", "unchecked")
         ELSE GoOn("size")
      /\ Looking

(* Mutant: bytes that differ are wrong, an archive's too. *)
DiffersAlike == "mismatch"

(* _differs: of an archive a difference settles nothing. *)
Differs == IF Want.pins = "archive" THEN "not-comparable" ELSE "mismatch"

ObserveSize ==
  /\ look = "size"
  /\ IF There(Want.at) = "short" THEN Conclude("file", Differs) ELSE GoOn("digest")
  /\ Looking

ObserveDigest ==
  LET digest == Digest(There(Want.at))
  IN  /\ look = "digest"
      /\ Conclude("file", IF digest = None THEN "unread"
                          ELSE IF digest = "listed" THEN "verified" ELSE Differs)
      /\ Looking

-----------------------------------------------------------------------------
(* _duckstation_named_content: the size gate, then the bytes.  A key's image  *)
(* that is not read keeps the word _observe had for it without an identity.  *)
ImageGate ==
  LET s == There(Want.at)
  IN  /\ look = "gate"
      /\ IF s = "short" THEN Conclude("file", "refused")
         ELSE IF Kind(s) # "file" \/ ~verify THEN Conclude("file", "unknown")
         ELSE GoOn("image")
      /\ Looking

Recognised(digest) ==
  IF digest = None THEN "unread" ELSE IF digest = "listed" THEN "verified" ELSE "unrecognised"

ImageDigest ==
  /\ look = "image"
  /\ Conclude("file", Recognised(Digest(There(Want.at))))
  /\ Looking

(* _offered: whether the core's listing offers the file the option names. *)
OfferKind ==
  LET kind == Kind(There(Want.named))
  IN  /\ look = "offered"
      /\ GoOn(IF kind = "dir" THEN "list" ELSE IF kind = "file" THEN "offered size" ELSE "still there")
      /\ Looking

OfferSize ==
  /\ look = "offered size"
  /\ GoOn(IF There(Want.named) = "short" THEN "list"
          ELSE IF verify THEN "offered header" ELSE "still there")
  /\ Looking

OfferHeader ==
  /\ look = "offered header"
  /\ GoOn(IF Header(There(Want.named)) = "no bios" THEN "list" ELSE "still there")
  /\ Looking

(* _configured_image: nothing there hands the answer back to the folder. *)
StillThere ==
  /\ look = "still there"
  /\ GoOn(IF There(Want.named) = "missing" THEN "list" ELSE "named")
  /\ Looking

(* _configured_requirement and _configured_content. *)
ConfiguredKind ==
  LET kind == Kind(There(Want.named))
  IN  /\ look = "named"
      /\ IF kind # "file" THEN ConcludePick(kind, None)
         ELSE IF ~verify THEN ConcludePick("file", "unchecked")
         ELSE GoOn("named digest")
      /\ Looking

ConfiguredDigest ==
  /\ look = "named digest"
  /\ ConcludePick("file", Recognised(Digest(There(Want.named))))
  /\ Looking
-----------------------------------------------------------------------------
Earliest(indices) == CHOOSE i \in indices : \A j \in indices : i <= j

(* _directory_candidates and _sized_files: one listing, then each size. *)
ListFolder ==
  /\ look = "list"
  /\ look' = "sizes"
  /\ pending' = {i \in DOMAIN Want.inside :
                    There(Want.at) = "dir" /\ There(Want.inside[i]) # "missing"}
  /\ partial' = (There(Want.at) \in {"closed", "hidden"})
  /\ UNCHANGED <<turn, kept, reads, required, absent>>
  /\ Looking

SizeUp ==
  LET p == Want.inside[Earliest(pending)]
  IN  /\ look = "sizes"
      /\ pending # {}
      /\ kept' = IF There(p) \in Files \ {"short"} THEN Append(kept, p) ELSE kept
      /\ pending' = pending \ {Earliest(pending)}
      /\ UNCHANGED <<turn, look, reads, partial, required, absent>>
      /\ Looking

StateNothing == Pass /\ UNCHANGED <<required, absent>>

(* Sizes alone may settle that nothing is there, if all of it was seen; a      *)
(* search for some regions only says so in a caveat (_duckstation_search).    *)
EndListing ==
  /\ look = "sizes"
  /\ pending = {}
  /\ IF kept # <<>> /\ verify THEN GoOn("read")
     ELSE IF Want.route = "folder"
     THEN ConcludeFolder("dir", IF kept = <<>> /\ ~partial THEN "no" ELSE "open")
     ELSE IF kept = <<>> /\ ~partial /\ Want.regions = None
     THEN Pass /\ absent' = absent \union {Want.system} /\ UNCHANGED required
     ELSE StateNothing
  /\ Looking

(* _read_candidate: the digest, then the header; a search asks no header. *)
ReadDigest ==
  /\ look = "read"
  /\ Len(reads) < Len(kept)
  /\ reads' = Append(reads, [digest |-> Digest(There(kept[Len(reads) + 1])), header |-> None])
  /\ look' = IF Want.route = "folder" THEN "header" ELSE "read"
  /\ UNCHANGED <<turn, pending, kept, partial, required, absent>>
  /\ Looking

ReadHeader ==
  /\ look = "header"
  /\ reads' = [reads EXCEPT ![Len(reads)].header = Header(There(kept[Len(reads)]))]
  /\ look' = "read"
  /\ UNCHANGED <<turn, pending, kept, partial, required, absent>>
  /\ Looking

(* _candidate_statement: the header decides, unless the table denies it. *)
Undecided(read) == read.header = None \/ (read.header = "no bios" /\ read.digest = "listed")

DirectoryIdentified ==
  /\ look = "read"
  /\ Want.route = "folder"
  /\ Len(reads) = Len(kept)
  /\ ConcludeFolder("dir",
       IF \E i \in DOMAIN reads : reads[i].header = "bios" THEN "yes"
       ELSE IF \E i \in DOMAIN reads : Undecided(reads[i]) THEN "open" ELSE "no")
  /\ Looking

(* BiosTable.pick: a known image first, else the first in order. *)
PickImage ==
  LET known == {i \in DOMAIN reads : reads[i].digest = "listed"}
      first == Earliest(IF known = {} THEN DOMAIN reads ELSE known)
  IN  /\ look = "read"
      /\ Want.route = "search"
      /\ Len(reads) = Len(kept)
      /\ look' = "picked"
      /\ kept' = <<kept[first]>>
      /\ reads' = <<reads[first]>>
      /\ UNCHANGED <<turn, pending, partial, required, absent>>
      /\ Looking

(* _found_image: what stands at the pick is asked once more. *)
FoundImage ==
  LET kind == Kind(There(kept[1]))
  IN  /\ look = "picked"
      /\ ConcludePick(kind, IF kind = "file" THEN Recognised(reads[1].digest) ELSE None)
      /\ Looking
-----------------------------------------------------------------------------
(* FirmwareRequirement.satisfied *)
Satisfied(r) ==
  IF r.found = "hidden" THEN "open"
  ELSE IF r.found = "missing" THEN "no"
  ELSE IF r.found = "dir" THEN r.contents
  ELSE IF r.lists THEN "no"
  ELSE IF r.checked \in {"mismatch", "refused"} THEN "no"
  ELSE IF r.checked \in {"unchecked", "not-comparable", "unrecognised", "unread"} THEN "open"
  ELSE "yes"

WantOf(r) == core.wants[r.want]
Options == {r \in required : WantOf(r).regions # None}
HasGroup == Options # {}

(* FirmwareAlternatives: a decided region weighs its own option alone. *)
WeighedOptions ==
  IF core.region = None THEN Options ELSE {r \in Options : core.region \in WantOf(r).regions}

(* Mutant: all options are weighed, whatever the region. *)
GroupSatisfiedByAll ==
  LET verdicts == {Satisfied(r) : r \in Options}
  IN  IF verdicts \in {{"yes"}, {"no"}} THEN CHOOSE v \in verdicts : TRUE ELSE "open"

GroupSatisfied ==
  LET verdicts == {Satisfied(r) : r \in WeighedOptions}
  IN  IF verdicts \in {{"yes"}, {"no"}} THEN CHOOSE v \in verdicts : TRUE ELSE "open"

(* unmet and undetermined, with the group's own verdict. *)
EntryVerdicts == {Satisfied(r) : r \in {q \in required \ Options : WantOf(q).need = "required"}}
             \union (IF HasGroup THEN {GroupSatisfied} ELSE {})

(* Mutant: a refused declaration leaves the rest to speak for the system. *)
SystemImageForStated(system) ==
  LET images == {Satisfied(r) : r \in {q \in required : WantOf(q).system = system}}
  IN  IF "yes" \in images THEN "yes"
      ELSE IF system \in absent \/ images = {"no"} THEN "no"
      ELSE "open"

(* _system_image_for: one image of its own is enough. *)
SystemImageFor(system) ==
  LET images == {Satisfied(r) : r \in {q \in required : WantOf(q).system = system}}
  IN  IF "yes" \in images THEN "yes"
      ELSE IF system \in absent \/ (images = {"no"} /\ core.refused = {}) THEN "no"
      ELSE "open"

(* _system_image_in_place: each needing system has one. *)
SystemImageInPlace ==
  LET verdicts == {SystemImageFor(s) : s \in core.needs}
  IN  IF core.state # "cannot-run-without-firmware" THEN "yes"
      ELSE IF "no" \in verdicts THEN "no"
      ELSE IF "open" \in verdicts THEN "open" ELSE "yes"

Unjudged == core.declaration \notin {"read", "packaged"}

SystemFirmwareMet ==
  IF Unjudged \/ core.state \in {None, "open"} THEN "open" ELSE SystemImageInPlace

RequirementsMet ==
  LET parts == EntryVerdicts \union {SystemImageInPlace}
  IN  IF Unjudged THEN "open"
      ELSE IF core.declaration = "packaged" /\ required = {}
      THEN IF SystemImageInPlace = "no" THEN "no" ELSE "open"
      ELSE IF "no" \in parts THEN "no"
      ELSE IF "open" \in parts \/ "required" \in core.refused THEN "open"
      ELSE "yes"

Weigh ==
  /\ look = "weigh"
  /\ verdict' = [met |-> RequirementsMet, system |-> SystemFirmwareMet]
  /\ look' = "answered"
  /\ UNCHANGED <<shelf, shifts, stoodAt, core, verify, turn, pending, kept, reads, partial,
                 required, absent>>

NextFirmwareQuestion ==
  /\ look = "answered"
  /\ shelf' = <<>>
  /\ shifts' = 0
  /\ stoodAt' = <<>>
  /\ core' = None
  /\ verify' = FALSE
  /\ turn' = 1
  /\ look' = "idle"
  /\ required' = {}
  /\ absent' = {}
  /\ verdict' = None
  /\ UNCHANGED <<pending, kept, reads, partial>>

FirmwareNext ==
  \/ AskFirmware \/ Shift
  \/ ObserveKind \/ ObserveSize \/ ObserveDigest \/ ImageGate \/ ImageDigest
  \/ OfferKind \/ OfferSize \/ OfferHeader \/ StillThere \/ ConfiguredKind \/ ConfiguredDigest
  \/ ListFolder \/ SizeUp \/ EndListing \/ ReadDigest \/ ReadHeader \/ DirectoryIdentified
  \/ PickImage \/ FoundImage
  \/ Weigh \/ NextFirmwareQuestion

FirmwareSpec == FirmwareInit /\ [][FirmwareNext]_firmwareVars

LooksOfARoute ==
  {"kind", "size", "digest", "gate", "image", "offered", "offered size", "offered header",
   "still there", "named", "named digest", "list", "sizes", "read", "header", "picked"}

(* A disk stands while a question is open, what is there has been there, and  *)
(* each want states at most one requirement, of the wants already passed.     *)
FirmwareTypeOK ==
  /\ shifts \in 0..MaxShifts
  /\ look \in LooksOfARoute \union {"idle", "weigh", "answered"}
  /\ (core = None) <=> (look = "idle")
  /\ verdict \in [met : Values, system : Values] \union {None}
  /\ look # "idle" =>
       /\ core \in Cores
       /\ DOMAIN shelf = WantedPlaces(core)
       /\ \A p \in DOMAIN shelf : shelf[p] \in States[p] /\ There(p) \in stoodAt[p]
       /\ \A q, r \in required : q.want < turn /\ (q.want = r.want => q = r)
       /\ (turn <= Len(core.wants)) <=> (look \in LooksOfARoute)
-----------------------------------------------------------------------------
(* What the emulator finds.  It looks at each place at some moment of the     *)
(* question; worths are what a wanted place may be to it, where FALSE is "it  *)
(* does not start on this" and both values are "nobody can tell from here".   *)
Moments == {m \in [DOMAIN shelf -> AllStates] : \A p \in DOMAIN shelf : m[p] \in stoodAt[p]}

Judged(s, good, bad) ==
  IF s \in good THEN {TRUE} ELSE IF s \in bad THEN {FALSE} ELSE BOOLEAN

Among(w, m, good, doubtful) ==
  LET inside == {m[p] : p \in ToSet(w.inside)}
  IN  IF m[w.at] \in Files \union {"missing"} THEN {FALSE}
      ELSE IF m[w.at] # "dir" THEN BOOLEAN
      ELSE IF inside \intersect good # {} THEN {TRUE}
      ELSE IF inside \intersect doubtful # {} THEN BOOLEAN
      ELSE {FALSE}

(* A declaration without a dump asks for a file; one with a dump, for these  *)
(* bytes; an archive may be repacked and be as good.                         *)
FileWorths(w, m) ==
  IF w.pins = None THEN Judged(m[w.at], Files, {"missing"})
  ELSE Judged(m[w.at], {"known", "denied"},
              {"missing"} \union IF w.pins = "dump" THEN {"other", "unlisted", "short"} ELSE {})

KeyWorths(w, m) == Judged(m[w.at], {"known", "denied"}, {"missing", "short"})

(* Where the option's file is not offered, the core takes the folder's.      *)
FolderWorths(w, m) ==
  IF w.named # None /\ m[w.named] \in {"known", "unlisted", "locked", "hidden"}
  THEN Judged(m[w.named], {"known", "unlisted"}, {})
  ELSE Among(w, m, {"known", "unlisted"}, {"locked"})

SearchWorths(w, m) == Among(w, m, {"known", "denied"}, {"unlisted", "other", "locked"})

Worths(w, m) ==
  IF w.route = "file" THEN FileWorths(w, m)
  ELSE IF w.route = "key" THEN KeyWorths(w, m)
  ELSE IF w.route = "folder" THEN FolderWorths(w, m)
  ELSE SearchWorths(w, m)

WorldsAt(m) ==
  {g \in [DOMAIN core.wants -> BOOLEAN] : \A i \in DOMAIN core.wants : g[i] \in Worths(core.wants[i], m)}

(* What an answer cannot tell: bytes it was not to read, bytes the table      *)
(* lists and the core's own test denies, and a named file the table lists not. *)
Unread(w, m) ==
  \/ w.route = "file" /\ w.pins # None /\ m[w.at] \in Files
  \/ w.route = "key" /\ m[w.at] \in Files \ {"short"}
  \/ w.named # None /\ m[w.named] \in Files \ {"short"}
  \/ Listed(w) /\ m[w.at] = "dir" /\ \E p \in ToSet(w.inside) : m[p] \in Files \ {"short"}
Contested(w, m) ==
  \/ w.route = "folder" /\ Among(w, m, {"known", "unlisted"}, {"denied"}) = BOOLEAN
  \/ w.named # None /\ m[w.named] = "unlisted"
ToldAt(m) ==
  {g \in [DOMAIN core.wants -> BOOLEAN] :
     \A i \in DOMAIN core.wants :
       LET w == core.wants[i]
       IN  g[i] \in IF (~verify /\ Unread(w, m)) \/ Contested(w, m) THEN BOOLEAN ELSE Worths(w, m)}

(* The system has its image: one of its wants is good, or, where declarations *)
(* were refused, one nobody can name is (hidden).                            *)
SystemServed(good, hidden) ==
  \A s \in core.needs :
    \/ \E i \in DOMAIN core.wants : core.wants[i].system = s /\ good[i]
    \/ core.refused # {} /\ hidden

Boots(good, hidden, region) ==
  /\ \A i \in DOMAIN core.wants :
       core.wants[i].regions = None /\ core.wants[i].need = "required" => good[i]
  /\ "required" \in core.refused => hidden
  /\ HasGroup => \E r \in Options : region \in WantOf(r).regions /\ good[r.want]
  /\ core.state = "cannot-run-without-firmware" => SystemServed(good, hidden)

(* The regions the launches of the question may come to; one that no option   *)
(* serves leaves the group unsaid.                                           *)
ListedRegions == UNION {WantOf(r).regions : r \in Options}
Regions ==
  IF ~HasGroup THEN {None} ELSE IF core.region = None THEN ListedRegions
  ELSE {core.region} \intersect ListedRegions
LaunchesAt(worlds) ==
  {Boots(good, hidden, region) : good \in worlds, hidden \in BOOLEAN, region \in Regions}

(* A key's image whose bytes nobody asked after, and that is taken as right. *)
UnreadKey == \E r \in required : WantOf(r).route = "key" /\ r.found = "file" /\ r.checked = "unknown"
(* A pick that moved under its listing: gone when it was looked at again,     *)
(* others beside it, or put there after it had not been offered.             *)
LostPick ==
  \E r \in required :
    r.picked /\ (r.found = "missing" \/ (WantOf(r).named # None /\ stoodAt[WantOf(r).named] # {There(WantOf(r).named)}))
(* A search for the regions left over that stated nothing it might have.     *)
LeftToSearch ==
  \E i \in DOMAIN core.wants :
    /\ core.wants[i].route = "search" /\ core.wants[i].regions # None
    /\ \A r \in required : r.want # i
    /\ \E m \in Moments : TRUE \in Worths(core.wants[i], m)

Decided == look = "answered" /\ ~Unjudged

(* requirements_met says yes only where the emulator starts on what stood    *)
(* there during the question, whichever region the launch comes to, and no    *)
(* only where it cannot, whatever was not read.                              *)
VerdictIsEarned ==
  Decided =>
    /\ verdict.met = "no" /\ ~LostPick /\ ~LeftToSearch =>
         \E m \in Moments : LaunchesAt(WorldsAt(m)) \subseteq {FALSE}
    /\ verdict.met = "yes" /\ ~LostPick /\ ~UnreadKey =>
         \E m \in Moments : LaunchesAt(WorldsAt(m)) \subseteq {TRUE}

(* The same of system_firmware_met, which asks of the console alone whether   *)
(* it has an image, for every region.                                        *)
ConsoleVerdictIsEarned ==
  Decided /\ core.state = "cannot-run-without-firmware" =>
    /\ verdict.system = "no" /\ ~LostPick /\ ~LeftToSearch =>
         /\ verdict.met = "no"
         /\ \E m \in Moments : \A good \in WorldsAt(m), hidden \in BOOLEAN : ~SystemServed(good, hidden)
    /\ verdict.system = "yes" /\ ~LostPick /\ ~UnreadKey =>
         \E m \in Moments : \A good \in WorldsAt(m), hidden \in BOOLEAN : SystemServed(good, hidden)

(* On a disk that did not move, requirements_met leaves a question open only  *)
(* where what it was told (nothing of bytes it was not to read) fits both an   *)
(* emulator that starts and one that does not.                               *)
DoubtIsOpen ==
  Decided /\ shifts = 0 /\ verdict.met = "open" /\ Regions # {} =>
    \A m \in Moments : LaunchesAt(ToldAt(m)) = BOOLEAN

(* What satisfied promises of itself: a yes is never said of bytes nobody     *)
(* read, an all-clear it did not earn.                                       *)
EveryYesIsEarned ==
  Decided /\ verdict.met = "yes" =>
    \E m \in Moments : LaunchesAt(WorldsAt(m)) \subseteq {TRUE}
=============================================================================
