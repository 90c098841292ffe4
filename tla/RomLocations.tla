---------------------------- MODULE RomLocations ----------------------------
(***************************************************************************)
(* Where a RetroDECK's ROMs live: the questions systems(), rom_location(s)  *)
(* and rom_locations(), which asks the other two from inside itself.  Each   *)
(* reads the marker for the RetroDECK root, the catalogue layers under that  *)
(* root and in the deploy that runs, and ES-DE's settings; every look at the *)
(* machine is a step, and the machine can change between any two.  A layer   *)
(* and the settings are read through once() (module Question); the marker,   *)
(* and which deploy runs, are asked of the machine by every part.            *)
(***************************************************************************)
EXTENDS Naturals, FiniteSets

CONSTANTS
  Roots,             \* the roots rd_home_path can name
  DefaultRoot,       \* <home>/retrodeck, where the marker names none
  Systems,           \* the systems a catalogue layer can declare
  Overlays,          \* what a custom layer can be, a subset of OverlayLayers
  Bundles,           \* what a deploy can hold, a subset of BundledLayers
  Settings,          \* what ES-DE's settings can say, a subset of SettingsSay
  Edited,            \* the sources that change while the question is open
  Questions,         \* which questions are asked, a subset of AllQuestions
  DetectedByDeploy,  \* whether the handle was detected without a marker
  MaxEdits,          \* bound on how often a source changes in one question
  None

(* A system's <path>: none, under %ROMPATH%, or a literal one. *)
Paths == {"pathless", "rompath", "literal"}
Catalogues == UNION {[S -> Paths] : S \in SUBSET Systems}
NoSystems == [s \in {} |-> "pathless"]

Layers(kinds) == [says : kinds, declares : Catalogues]
OverlayLayers == Layers({"merged", "exclusive", "invalid", "unread"})
(* A deploy that is not there, one that ships no es_systems.xml, or its file. *)
BundledLayers == Layers({"merged", "invalid", "unread", "nofile", "nodeploy"})
AllQuestions == {"systems", "rom_location", "rom_locations"}

(* The overlay of root r is the source r; the bundled layer of a deploy is   *)
(* the source named as the installation that has it.                         *)
Deploys == {"user", "system"}
Sources == Roots \union Deploys \union {"marker", "settings"}
Markers == [says : Roots \union {"missing", "broken"}]
SettingsSay == {"unset", "absolute", "relative", "unreadable"}
RomSettings == [says : Settings]
SourceContent(s) ==
  CASE s = "marker"   -> Markers
    [] s \in Deploys  -> Bundles
    [] s = "settings" -> RomSettings
    [] OTHER          -> Overlays

ASSUME RootAssumption == DefaultRoot \in Roots
ASSUME LayersAssumption ==
  Overlays \subseteq OverlayLayers /\ Bundles \subseteq BundledLayers /\ Settings \subseteq SettingsSay
ASSUME AskedAssumption ==
  Edited \subseteq Sources /\ Questions \subseteq AllQuestions /\ MaxEdits \in Nat

VARIABLES
  world, memo, depth, drawn, since,  \* module Question's
  question,  \* the question asked of the handle
  part,      \* the question being answered inside it: "systems", a system, or None
  next,      \* the next read
  root,      \* the RetroDECK root the part goes by
  custom,    \* the part's custom layer
  bundle,    \* the deploy the part goes by
  declared,  \* the part's catalogue: the <path>s in force, or None where unread
  listed,    \* the systems the answer lists
  placed,    \* placed[s]: where the answer says s keeps its ROMs, or None
  markers,   \* the marker revisions the answer rests on
  bundles,   \* what its looks for a bundled layer came to: deploys, or None
  edits      \* how often a source has changed since the question was asked

questionMemo == <<memo, depth, drawn, since>>
answer == <<listed, placed>>
rests == <<markers, bundles>>
local == <<question, part, next, root, custom, bundle, declared, answer, rests>>
vars == <<world, questionMemo, local, edits>>

Me == "asker"
Q == INSTANCE Question
       WITH Threads <- {Me}, Keys <- Sources, ContentOf <- SourceContent, MaxDepth <- 2

(* "pathless" and "undeclared" carry one code; the message tells them apart. *)
Reasons == {"not-set-up", "catalogue-unread", "undeclared", "pathless",
            "unreadable", "relative", "placed"}
Placements == [why : Reasons, under : {"unset", "absolute", "literal", None}]
Nowhere(why) == [why |-> why, under |-> None]

ASSUME RomNamesAssumption ==
  /\ None \notin Systems \union AllQuestions \union Deploys \union Q!Contents \union Q!Memos
  /\ \A placement \in Placements : placement # None
  /\ \A systems \in Catalogues : systems # None
  /\ "systems" \notin Systems
  /\ Roots \intersect ({"marker", "settings"} \union Deploys) = {}

Init ==
  /\ \E m \in Markers, held \in [Deploys -> Bundles], setting \in RomSettings,
        over \in [Roots -> Overlays] :
       world = [s \in Sources |-> CASE s = "marker"   -> m
                                    [] s \in Deploys  -> held[s]
                                    [] s = "settings" -> setting
                                    [] OTHER          -> over[s]]
  /\ Q!NoQuestionYet
  /\ question = None
  /\ part = None
  /\ next = "begin"
  /\ root = None
  /\ custom = None
  /\ bundle = None
  /\ declared = None
  /\ listed = {}
  /\ placed = [s \in Systems |-> None]
  /\ markers = {}
  /\ bundles = {}
  /\ edits = 0

(* Nothing is kept between two questions: an edit there is another start. *)
EditSource ==
  /\ question # None
  /\ edits < MaxEdits
  /\ edits' = edits + 1
  /\ \E s \in Edited : Q!Edit(s)
  /\ UNCHANGED local

(* The outermost question opens the memo. *)
AskQuestion(q, p) ==
  /\ question = None
  /\ Q!Open(Me)
  /\ question' = q
  /\ part' = p
  /\ next' = IF p = None THEN "begin" ELSE "marker"
  /\ listed' = {}
  /\ placed' = [s \in Systems |-> None]
  /\ markers' = {}
  /\ bundles' = {}
  /\ edits' = 0
  /\ UNCHANGED <<root, custom, bundle, declared>>

Asks ==
  \/ "systems" \in Questions /\ AskQuestion("systems", "systems")
  \/ "rom_location" \in Questions /\ \E s \in Systems : AskQuestion("rom_location", s)
  \/ "rom_locations" \in Questions /\ AskQuestion("rom_locations", None)

(* rom_locations asks systems(), then rom_location() of each it lists. *)
BeginPart(p) ==
  /\ Q!Nest(Me)
  /\ part' = p
  /\ next' = "marker"
  /\ UNCHANGED <<question, root, custom, bundle, declared, answer, rests>>

Begin == question = "rom_locations" /\ next = "begin" /\ BeginPart("systems")

PlaceNext(s) ==
  /\ next = "between"
  /\ s \in listed /\ placed[s] = None
  /\ BeginPart(s)

(* A part answers.  The question goes on, or this was all of it. *)
EndPart ==
  /\ Q!Leave(Me)
  /\ part' = None
  /\ next' = IF depth[Me] = 1 THEN "begin" ELSE "between"
  /\ question' = IF depth[Me] = 1 THEN None ELSE question
  /\ root' = None
  /\ custom' = None
  /\ bundle' = None
  /\ declared' = None

Lists(systems) ==
  /\ part = "systems"
  /\ listed' = systems
  /\ EndPart
  /\ UNCHANGED placed

Places(placement) ==
  /\ part \in Systems
  /\ placed' = [placed EXCEPT ![part] = placement]
  /\ EndPart
  /\ UNCHANGED listed

(* _read_marker: read live, every time a part asks. *)
NotSetUp == world["marker"].says = "missing" /\ DetectedByDeploy

MarkerNotSetUp ==
  /\ next = "marker"
  /\ NotSetUp
  /\ markers' = markers \union {world["marker"]}
  /\ UNCHANGED bundles
  /\ Lists({}) \/ Places(Nowhere("not-set-up"))

ReadMarker ==
  /\ next = "marker"
  /\ ~NotSetUp
  /\ markers' = markers \union {world["marker"]}
  /\ root' = IF world["marker"].says \in Roots THEN world["marker"].says ELSE DefaultRoot
  /\ next' = "overlay"
  /\ UNCHANGED <<world, questionMemo, question, part, custom, bundle, declared, answer, bundles>>

(* Mutant: the marker is read again when the catalogue has been. *)
CatalogueAndMarker(systems) ==
  /\ declared' = systems
  /\ next' = "answer"
  /\ markers' = markers \union {world["marker"]}
  /\ UNCHANGED <<question, part, root, custom, answer>>

(* What the catalogue read comes to: its systems, or None where it is unread. *)
CatalogueIs(systems) ==
  /\ declared' = systems
  /\ next' = "answer"
  /\ UNCHANGED <<question, part, root, custom, answer, markers>>

(* The custom layer first: it can end the reading. *)
ReadOverlay ==
  LET layer == Q!OnceValue(Me, root)
  IN  /\ next = "overlay"
      /\ Q!Once(Me, root)
      /\ UNCHANGED <<bundle, bundles>>
      /\ \/ layer.says = "invalid" /\ CatalogueIs(NoSystems)
         \/ layer.says = "exclusive" /\ CatalogueIs(layer.declares)
         \/ /\ layer.says \in {"merged", "unread"}
            /\ custom' = IF layer.says = "merged" THEN layer.declares ELSE NoSystems
            /\ next' = "user"
            /\ UNCHANGED <<question, part, root, declared, answer, markers>>

(* A look of _sandbox().bundled(), which is asked of the machine and not of  *)
(* once(): the file is under no deploy, or the look goes on.                 *)
NoBundledPath ==
  /\ bundle' = None
  /\ bundles' = bundles \union {None}
  /\ CatalogueIs(None)

LookOn(deploy, then) ==
  /\ bundle' = deploy
  /\ next' = then
  /\ UNCHANGED <<question, part, root, custom, declared, answer, rests>>

(* _running_deploy: the user installation's deploy wins, if it is there. *)
LookForUserDeploy ==
  /\ next = "user"
  /\ UNCHANGED <<world, questionMemo>>
  /\ IF world["user"].says # "nodeploy" THEN LookOn("user", "file") ELSE LookOn(None, "system")

LookForSystemDeploy ==
  /\ next = "system"
  /\ UNCHANGED <<world, questionMemo>>
  /\ IF world["system"].says # "nodeploy" THEN LookOn("system", "file") ELSE NoBundledPath

(* _deployment_path: a path the running deploy does not carry is none. *)
LookForFile ==
  /\ next = "file"
  /\ UNCHANGED <<world, questionMemo>>
  /\ IF world[bundle].says \in {"nofile", "nodeploy"} THEN NoBundledPath
     ELSE /\ bundles' = bundles \union {bundle}
          /\ next' = "bundled"
          /\ UNCHANGED <<question, part, root, custom, bundle, declared, answer, markers>>

(* A custom system replaces the bundled one, <path> and all. *)
MergeLayers(bundled, above) ==
  [s \in DOMAIN bundled \union DOMAIN above |-> IF s \in DOMAIN above THEN above[s] ELSE bundled[s]]

ReadBundled ==
  LET layer == Q!OnceValue(Me, bundle)
  IN  /\ next = "bundled"
      /\ Q!Once(Me, bundle)
      /\ UNCHANGED <<bundle, bundles>>
      /\ CatalogueIs(CASE layer.says = "merged"  -> MergeLayers(layer.declares, custom)
                       [] layer.says = "invalid" -> NoSystems
                       [] OTHER                  -> None)

AnswerSystems ==
  /\ next = "answer"
  /\ Lists(IF declared = None THEN {} ELSE DOMAIN declared)
  /\ UNCHANGED rests

(* Answered before the settings are read: nothing says where. *)
AnswerNowhere ==
  /\ next = "answer"
  /\ \/ declared = None /\ Places(Nowhere("catalogue-unread"))
     \/ declared # None /\ part \notin DOMAIN declared /\ Places(Nowhere("undeclared"))
     \/ /\ declared # None /\ part \in DOMAIN declared
        /\ declared[part] = "pathless"
        /\ Places(Nowhere("pathless"))
  /\ UNCHANGED rests

(* ES-DE's ROMDirectory is read for any system declared with a <path>. *)
ReadSettings ==
  /\ next = "answer"
  /\ declared # None /\ part \in DOMAIN declared
  /\ declared[part] # "pathless"
  /\ next' = "settings"
  /\ Q!Once(Me, "settings")
  /\ UNCHANGED <<question, part, root, custom, bundle, declared, answer, rests>>

(* _esde_system_dir: settings that name no directory refuse a literal <path> *)
(* too; resolve_rom_path then leaves it as it is.                            *)
PlacementBy(path, setting) ==
  IF setting \in {"relative", "unreadable"} THEN Nowhere(setting)
  ELSE [why |-> "placed", under |-> IF path = "literal" THEN "literal" ELSE setting]

(* Mutant: the setting is handed on unresolved. *)
PlaceUnresolved ==
  /\ next = "settings"
  /\ Places(Nowhere(memo[Me]["settings"].says))
  /\ UNCHANGED rests

AnswerPlacement ==
  /\ next = "settings"
  /\ Places(PlacementBy(declared[part], memo[Me]["settings"].says))
  /\ UNCHANGED rests

(* Every listed system is placed: rom_locations is answered. *)
EndRomLocations ==
  /\ next = "between"
  /\ \A s \in listed : placed[s] # None
  /\ Q!Leave(Me)
  /\ question' = None
  /\ next' = "begin"
  /\ UNCHANGED <<part, root, custom, bundle, declared, answer, rests>>

HandleStep ==
  \/ Begin \/ \E s \in Systems : PlaceNext(s)
  \/ MarkerNotSetUp \/ ReadMarker \/ ReadOverlay
  \/ LookForUserDeploy \/ LookForSystemDeploy \/ LookForFile \/ ReadBundled
  \/ AnswerSystems \/ AnswerNowhere \/ ReadSettings \/ AnswerPlacement
  \/ EndRomLocations

Next == EditSource \/ Asks \/ (HandleStep /\ UNCHANGED edits)

Spec == Init /\ [][Next]_vars
-----------------------------------------------------------------------------
TypeOK ==
  /\ \A s \in Sources : world[s] \in SourceContent(s)
  /\ question \in Questions \union {None}
  /\ part \in Systems \union {"systems", None}
  /\ next \in {"begin", "between", "marker", "overlay", "user", "system", "file",
               "bundled", "answer", "settings"}
  /\ root \in Roots \union {None}
  /\ custom \in Catalogues \union {None}
  /\ bundle \in Deploys \union {None}
  /\ declared \in Catalogues \union {None}
  /\ listed \subseteq Systems
  /\ placed \in [Systems -> Placements \union {None}]
  /\ markers \subseteq Markers
  /\ bundles \subseteq Deploys \union {None}
  /\ edits \in 0 .. MaxEdits

(* "A concurrent config edit can never mix two revisions inside one answer" *)
(* (RetroDeck's docstring; DESIGN.md's consistency model): what an answer    *)
(* rests on is one revision of the marker, one deploy and one revision of    *)
(* every layer.                                                              *)
OneRevisionPerAnswer ==
  Cardinality(markers) <= 1 /\ Cardinality(bundles) <= 1 /\ Q!OneReadingPerKey

(* That is so of systems() and of rom_location(), whatever is edited while   *)
(* they read.                                                                *)
OneRevisionPerPart == question \in {"systems", "rom_location"} => OneRevisionPerAnswer

(* "The catalogue is read and parsed once for all of them" (rom_locations'   *)
(* docstring).  That is so as long as the marker's readings agree and every  *)
(* part found its bundled layer in the same deploy, or in none: whatever     *)
(* else is edited in between, a listed system is placed, or refused for what *)
(* its own <path> or the settings say.                                       *)
PartsAgree == Cardinality(markers) <= 1 /\ Cardinality(bundles) <= 1

ListedSystemsArePlaced ==
  PartsAgree =>
    \A s \in listed : placed[s] # None =>
      placed[s].why \notin {"not-set-up", "catalogue-unread", "undeclared"}

(* Under the same condition all listed systems that have a <path> are placed *)
(* or all are refused for one reason, and all that are placed by %ROMPATH%   *)
(* are under one root: ES-DE's settings are one reading.  A literal <path>   *)
(* is under no root, and is refused with the rest.                           *)
OneRomRoot ==
  PartsAgree =>
    \A s, t \in {x \in listed : placed[x] # None /\ placed[x].why # "pathless"} :
      /\ placed[s].why = placed[t].why
      /\ \/ placed[s].under = placed[t].under
         \/ "literal" \in {placed[s].under, placed[t].under}
=============================================================================
