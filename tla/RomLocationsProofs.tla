-------------------------- MODULE RomLocationsProofs --------------------------
(***************************************************************************)
(* RetroDECK's ROM questions are questions in the sense of module Question, *)
(* for any roots, systems and layers; so systems() and rom_location() each  *)
(* rest on one revision of every file they read, and, as long as its parts  *)
(* agree on the marker and on the deploy, rom_locations() places what it    *)
(* lists as listed, and under one root.                                     *)
(***************************************************************************)
EXTENDS RomLocations, FiniteSetTheorems, TLAPS

QP == INSTANCE QuestionProofs
        WITH Threads <- {Me}, Keys <- Sources, ContentOf <- SourceContent, MaxDepth <- 2

Direct == {"systems", "rom_location"}

(* An overlay is looked for under a root, the bundled layer in a deploy. *)
LookInv ==
  /\ next = "overlay" => root \in Roots
  /\ next \in {"file", "bundled"} => bundle \in Deploys

(* A question asked directly is one part: it reads the marker once, and     *)
(* comes to one deploy, or to none.                                         *)
MarkerInv ==
  question \in Direct =>
    /\ depth[Me] = 1
    /\ next \notin {"begin", "between"}
    /\ IF next = "marker" THEN markers = {} ELSE \E m : markers = {m}
    /\ IF next \in {"marker", "overlay", "user", "system", "file"} THEN bundles = {}
       ELSE bundles = {} \/ \E d : bundles = {d}
-----------------------------------------------------------------------------
(* The assumptions of module Question hold of this instance of it. *)
LEMMA QuestionAssumptions == QP!DepthAssumption /\ QP!NothingAssumption
BY RomNamesAssumption DEF QP!DepthAssumption, QP!NothingAssumption, QP!Contents, QP!Memos,
   Q!Contents, Q!Memos

(* No question is under way at the start. *)
LEMMA RomInit == Init => Q!QuestionInit /\ LookInv /\ (question = None)
<1> SUFFICES ASSUME Init PROVE Q!QuestionInit /\ LookInv /\ (question = None)
  OBVIOUS
<1>1. PICK m \in Markers, held \in [Deploys -> Bundles], setting \in RomSettings,
           over \in [Roots -> Overlays] :
        world = [s \in Sources |-> CASE s = "marker"   -> m
                                     [] s \in Deploys  -> held[s]
                                     [] s = "settings" -> setting
                                     [] OTHER          -> over[s]]
  BY DEF Init
<1>2. \A s \in Sources : world[s] \in SourceContent(s)
  BY <1>1 DEF SourceContent, Sources, Deploys
<1>3. world \in [Sources -> Q!Contents]
  BY <1>1, <1>2 DEF Q!Contents
<1> QED
  BY <1>2, <1>3 DEF Init, Q!QuestionInit, LookInv

(* Every step of the handle is one of its question, or none. *)
LEMMA RomStep ==
  LookInv /\ [Next]_vars => [Q!QuestionNext]_(Q!questionVars) /\ LookInv'
<1> SUFFICES ASSUME LookInv, [Next]_vars PROVE [Q!QuestionNext]_(Q!questionVars) /\ LookInv'
  OBVIOUS
<1> USE DEF LookInv, questionMemo, answer, rests
<1> DEFINE Me1 == Q!Ask(Me) \/ Q!Leave(Me) \/ \E k \in Sources : Q!Once(Me, k)
<1>1. Me1 => Q!QuestionNext
  BY DEF Q!QuestionNext
<1>2. CASE EditSource
  <2>1. PICK s \in Edited : Q!Edit(s)
    BY <1>2 DEF EditSource
  <2>2. Q!QuestionNext
    BY <2>1, AskedAssumption DEF Q!QuestionNext
  <2> QED
    BY <1>2, <2>2 DEF EditSource, local
<1>3. CASE Asks
  BY <1>1, <1>3 DEF Asks, AskQuestion, Q!Ask
<1>4. CASE Begin \/ \E s \in Systems : PlaceNext(s)
  BY <1>1, <1>4 DEF Begin, PlaceNext, BeginPart, Q!Ask
<1>5. ASSUME EndPart PROVE Q!QuestionNext /\ LookInv'
  BY <1>1, <1>5 DEF EndPart
<1>6. CASE MarkerNotSetUp \/ AnswerSystems \/ AnswerNowhere \/ AnswerPlacement
  BY <1>5, <1>6 DEF MarkerNotSetUp, AnswerSystems, AnswerNowhere, AnswerPlacement, Lists, Places
<1>7. CASE ReadMarker
  BY <1>7, RootAssumption DEF ReadMarker, Q!questionVars
<1>8. CASE LookForUserDeploy \/ LookForSystemDeploy \/ LookForFile
  <2>1. UNCHANGED Q!questionVars
    BY <1>8 DEF LookForUserDeploy, LookForSystemDeploy, LookForFile, Q!questionVars
  <2>2. /\ next' \in {"system", "file", "bundled", "answer"}
        /\ next' \in {"file", "bundled"} => bundle' \in Deploys
    BY <1>8 DEF LookForUserDeploy, LookForSystemDeploy, LookForFile, LookOn, NoBundledPath,
       CatalogueIs, Deploys
  <2> QED
    BY <2>1, <2>2
<1>9. CASE ReadOverlay
  <2>1. Q!Once(Me, root) /\ root \in Sources
    BY <1>9 DEF ReadOverlay, Sources
  <2>2. next' \in {"user", "answer"}
    BY <1>9 DEF ReadOverlay, CatalogueIs
  <2> QED
    BY <1>1, <2>1, <2>2
<1>10. CASE ReadBundled
  <2>1. Q!Once(Me, bundle) /\ bundle \in Sources /\ next' = "answer"
    BY <1>10 DEF ReadBundled, CatalogueIs, Sources
  <2> QED
    BY <1>1, <2>1
<1>11. CASE ReadSettings
  <2>1. Q!Once(Me, "settings") /\ "settings" \in Sources /\ next' = "settings"
    BY <1>11 DEF ReadSettings, Sources
  <2> QED
    BY <1>1, <2>1
<1>12. CASE EndRomLocations
  BY <1>1, <1>12 DEF EndRomLocations
<1>13. CASE UNCHANGED vars
  BY <1>13 DEF vars, local, Q!questionVars
<1> QED
  BY <1>2, <1>3, <1>4, <1>6, <1>7, <1>9, <1>10, <1>11, <1>12, <1>13, <1>8 DEF Next, HandleStep

(* systems(), rom_location() and rom_locations() are questions that ask     *)
(* each other through one_question and read through once (RetroDeck).       *)
THEOREM RomQuestionsAreQuestions == Spec => Q!QuestionSpec
BY RomInit, RomStep, PTL DEF Spec, Q!QuestionSpec
-----------------------------------------------------------------------------
(* What QuestionProofs says of a question's steps, it says of these.        *)
LEMMA SameInit == Q!QuestionInit => QP!QuestionInit
BY DEF Q!QuestionInit, QP!QuestionInit, Q!NoQuestionYet, QP!NoQuestionYet, Q!Contents, QP!Contents

LEMMA SameStep == [Q!QuestionNext]_(Q!questionVars) => [QP!QuestionNext]_(QP!questionVars)
BY DEF Q!QuestionNext, QP!QuestionNext, Q!questionVars, QP!questionVars, Q!Edit, QP!Edit,
       Q!Ask, QP!Ask, Q!Open, QP!Open, Q!Nest, QP!Nest, Q!Leave, QP!Leave, Q!Once, QP!Once,
       Q!OnceValue, QP!OnceValue, Q!EmptyMemo, QP!EmptyMemo

LEMMA MemoInit == Init => QP!QInv
BY RomInit, SameInit, QuestionAssumptions, QP!QInit

LEMMA MemoStep == LookInv /\ QP!QInv /\ [Next]_vars => QP!QInv'
BY RomStep, SameStep, QuestionAssumptions, QP!QStep

(* The marker is read where a direct question begins and nowhere else in    *)
(* it, and what the bundled layer is read from is settled once.             *)
LEMMA MarkerStep == QP!QInv /\ MarkerInv /\ [Next]_vars => MarkerInv'
<1> SUFFICES ASSUME QP!QInv, MarkerInv, [Next]_vars PROVE MarkerInv'
  OBVIOUS
<1> USE DEF MarkerInv, questionMemo, answer, rests
<1>1. depth \in [{Me} -> 0 .. 2]
  BY DEF QP!QInv, QP!QuestionTypeOK
<1>2. CASE EditSource
  BY <1>2 DEF EditSource, Q!Edit, local
<1>3. CASE Asks
  <2>1. PICK q \in AllQuestions, p \in Systems \union {"systems", None} :
          AskQuestion(q, p) /\ (q \in Direct => p # None)
    BY <1>3, RomNamesAssumption DEF Asks, AllQuestions, Direct
  <2> QED
    BY <1>1, <2>1 DEF AskQuestion, Q!Open
<1>4. CASE Begin
  BY <1>4 DEF Begin, BeginPart, Direct
<1>5. CASE \E s \in Systems : PlaceNext(s)
  BY <1>5 DEF PlaceNext, BeginPart
<1>6. ASSUME EndPart PROVE MarkerInv'
  BY <1>6, RomNamesAssumption DEF EndPart, Direct, AllQuestions
<1>7. CASE MarkerNotSetUp \/ AnswerSystems \/ AnswerNowhere \/ AnswerPlacement
  BY <1>6, <1>7 DEF MarkerNotSetUp, AnswerSystems, AnswerNowhere, AnswerPlacement, Lists, Places
<1>8. CASE ReadMarker
  BY <1>8 DEF ReadMarker
<1>9. CASE ReadOverlay \/ ReadBundled \/ ReadSettings
  <2>1. \/ next = "overlay" /\ next' \in {"user", "answer"}
        \/ next \in {"bundled", "answer"} /\ next' \in {"answer", "settings"}
    BY <1>9 DEF ReadOverlay, ReadBundled, ReadSettings, CatalogueIs
  <2>2. UNCHANGED <<question, markers, bundles, depth>>
    BY <1>9 DEF ReadOverlay, ReadBundled, ReadSettings, CatalogueIs, Q!Once, rests
  <2> QED
    BY <2>1, <2>2
<1>10. CASE LookForUserDeploy \/ LookForSystemDeploy \/ LookForFile
  <2>1. next \in {"user", "system", "file"} /\ UNCHANGED <<question, markers, depth>>
    BY <1>10 DEF LookForUserDeploy, LookForSystemDeploy, LookForFile, LookOn, NoBundledPath,
       CatalogueIs, rests
  <2>2. \/ next' \in {"system", "file"} /\ UNCHANGED bundles
        \/ next' \in {"bundled", "answer"} /\ \E d : bundles' = bundles \union {d}
    BY <1>10 DEF LookForUserDeploy, LookForSystemDeploy, LookForFile, LookOn, NoBundledPath,
       CatalogueIs, rests
  <2> QED
    BY <2>1, <2>2
<1>11. CASE EndRomLocations
  BY <1>11, RomNamesAssumption DEF EndRomLocations, Direct, AllQuestions
<1>12. CASE UNCHANGED vars
  BY <1>12 DEF vars, local, rests
<1> QED
  BY <1>2, <1>3, <1>4, <1>5, <1>7, <1>8, <1>9, <1>11, <1>12, <1>10 DEF Next, HandleStep

(* No edit mixes two revisions of any file inside one answer of systems()   *)
(* or rom_location(), the marker included (RetroDeck's docstring).          *)
THEOREM PartsAreOfOneRevision == Spec => []OneRevisionPerPart
<1>1. Init => LookInv /\ QP!QInv /\ MarkerInv
  BY RomInit, MemoInit, RomNamesAssumption DEF MarkerInv, Direct, AllQuestions
<1>2. LookInv /\ QP!QInv /\ MarkerInv /\ [Next]_vars => (LookInv /\ QP!QInv /\ MarkerInv)'
  BY RomStep, MemoStep, MarkerStep
<1>3. QP!QInv /\ MarkerInv => OneRevisionPerPart
  <2> SUFFICES ASSUME QP!QInv, MarkerInv, question \in Direct PROVE OneRevisionPerAnswer
    BY DEF OneRevisionPerPart, Direct
  <2>1. Q!OneReadingPerKey
    BY DEF QP!QInv, QP!OneReadingPerKey, Q!OneReadingPerKey
  <2>2. ASSUME NEW few, few = {} \/ \E m : few = {m} PROVE Cardinality(few) <= 1
    <3>1. CASE few = {}
      <4>1. Cardinality(few) = 0
        BY <3>1, FS_EmptySet
      <4> QED
        BY <4>1
    <3>2. CASE \E m : few = {m}
      <4>1. Cardinality(few) = 1
        BY <3>2, FS_Singleton
      <4> QED
        BY <4>1
    <3> QED
      BY <2>2, <3>1, <3>2
  <2>3. Cardinality(markers) <= 1 /\ Cardinality(bundles) <= 1
    BY <2>2 DEF MarkerInv
  <2> QED
    BY <2>1, <2>3 DEF OneRevisionPerAnswer
<1> QED
  BY <1>1, <1>2, <1>3, PTL DEF Spec
-----------------------------------------------------------------------------
(* The one reading of every layer that a whole rom_locations rests on is    *)
(* what its question's memo holds; the rest of the invariant says how the   *)
(* parts, the catalogue and the placements go by it.                        *)
Held == memo[Me]

NotSetUpBy(m) == m.says = "missing" /\ DetectedByDeploy
RootOf(m) == IF m.says \in Roots THEN m.says ELSE DefaultRoot
Agreeing == (\A m, n \in markers : m = n) /\ \A d, e \in bundles : d = e

(* What the held layers declare under root r, with the bundled layer of     *)
(* deploy d, or with none.                                                  *)
Above(layer) == IF layer.says = "merged" THEN layer.declares ELSE NoSystems
Under(layer, above) ==
  CASE layer.says = "merged"  -> MergeLayers(layer.declares, above)
    [] layer.says = "invalid" -> NoSystems
    [] OTHER                  -> None

IsCatalogue(r, d, systems) ==
  /\ Held[r] # None
  /\ \/ Held[r].says = "invalid" /\ systems = NoSystems
     \/ Held[r].says = "exclusive" /\ systems = Held[r].declares
     \/ /\ Held[r].says \in {"merged", "unread"}
        /\ d \in bundles
        /\ d = None => systems = None
        /\ d # None => Held[d] # None /\ systems = Under(Held[d], Above(Held[r]))

IsListed(r, systems) ==
  \E d \in Deploys \union {None} : \E c \in Catalogues : IsCatalogue(r, d, c) /\ systems = DOMAIN c

(* Where a listed system can be placed by one reading of the settings.      *)
BySettings(setting) == {PlacementBy(path, setting) : path \in {"rompath", "literal"}}
PlacedBy(setting) == BySettings(setting) \union {None, Nowhere("pathless")}

MemoTyped ==
  memo[Me] # None => \A k \in Sources : memo[Me][k] \in SourceContent(k) \union {None}

(* Which part of which question is being answered. *)
PartInv ==
  /\ part = None <=> next \in {"begin", "between"}
  /\ question = None => next = "begin" /\ depth[Me] = 0
  /\ question # None =>
       depth[Me] = IF question = "rom_locations" /\ part # None THEN 2 ELSE 1
  /\ next = "between" => question = "rom_locations"
  /\ question = "systems" => part = "systems"
  /\ question = "rom_location" => part \in Systems
  /\ question = "rom_locations" /\ part \in Systems => part \in listed /\ placed[part] = None

(* A part goes by a marker it read, by the layers held under its root, and  *)
(* by the layer held of the deploy it found.                                *)
CatalogueInv ==
  /\ next \in {"overlay", "user", "system", "file", "bundled", "answer", "settings"} =>
       \E m \in markers : root = RootOf(m) /\ ~NotSetUpBy(m)
  /\ next \in {"user", "system", "file", "bundled"} =>
       /\ Held[root] # None
       /\ Held[root].says \in {"merged", "unread"}
       /\ custom = Above(Held[root])
  /\ next \in {"file", "bundled"} => bundle \in Deploys
  /\ next = "bundled" => bundle \in bundles
  /\ next \in {"answer", "settings"} => IsCatalogue(root, bundle, declared)
  /\ next = "settings" =>
       /\ part \in Systems /\ Held["settings"] # None
       /\ declared # None /\ part \in DOMAIN declared /\ declared[part] # "pathless"

(* What is listed is the catalogue held under the root of a marker read. *)
ListInv ==
  /\ \/ part = "systems"
     \/ question = "rom_location"
     \/ question = "rom_locations" /\ next = "begin"
     => listed = {} /\ (part \notin Systems => placed = [s \in Systems |-> None])
  /\ question = "rom_locations" /\ listed # {} =>
       \E m \in markers : ~NotSetUpBy(m) /\ IsListed(RootOf(m), listed)

(* What is placed goes by one reading of the settings, the one held. *)
PlaceInv ==
  Agreeing =>
    \E setting \in SettingsSay :
      /\ \A s \in listed : placed[s] \in PlacedBy(setting)
      /\ question = "rom_locations" /\ (\E s \in listed : placed[s] \in BySettings(setting)) =>
           Held["settings"] # None /\ Held["settings"].says = setting

RomInv ==
  /\ QP!QInv
  /\ TypeOK /\ MemoTyped /\ IsFiniteSet(markers) /\ IsFiniteSet(bundles)
  /\ PartInv
  /\ CatalogueInv
  /\ ListInv
  /\ PlaceInv
-----------------------------------------------------------------------------
(* What a source holds is of the source's own kind. *)
LEMMA SourcesAreTyped ==
  /\ \A r \in Roots : r \in Sources /\ SourceContent(r) \subseteq OverlayLayers
  /\ \A d \in Deploys : d \in Sources /\ SourceContent(d) \subseteq BundledLayers
  /\ "settings" \in Sources /\ SourceContent("settings") = RomSettings
  /\ "marker" \in Sources /\ SourceContent("marker") = Markers
BY LayersAssumption, RomNamesAssumption DEF SourceContent, Sources, Deploys

(* A catalogue laid over another is one. *)
LEMMA MergedIsCatalogue == \A c, d \in Catalogues : MergeLayers(c, d) \in Catalogues
<1> SUFFICES ASSUME NEW c \in Catalogues, NEW d \in Catalogues PROVE MergeLayers(c, d) \in Catalogues
  OBVIOUS
<1>1. PICK S \in SUBSET Systems, T \in SUBSET Systems : c \in [S -> Paths] /\ d \in [T -> Paths]
  BY DEF Catalogues
<1>2. MergeLayers(c, d) \in [S \union T -> Paths]
  BY <1>1 DEF MergeLayers
<1> QED
  BY <1>2 DEF Catalogues

(* A catalogue gives systems their <path>s. *)
LEMMA CatalogueIsTyped ==
  /\ NoSystems \in Catalogues
  /\ \A c \in Catalogues : DOMAIN c \subseteq Systems /\ (\A s \in DOMAIN c : c[s] \in Paths) /\ c # None
<1>1. NoSystems \in [{} -> Paths]
  BY DEF NoSystems
<1> QED
  BY <1>1, RomNamesAssumption DEF Catalogues

(* What once() hands a question is of the kind of its source, the memo      *)
(* holds it from then on, and nothing the memo held is changed.             *)
LEMMA OnceIsHeld ==
  ASSUME RomInv, NEW k \in Sources, Q!Once(Me, k)
  PROVE  /\ Held'[k] = Q!OnceValue(Me, k)
         /\ Held'[k] \in SourceContent(k)
         /\ Held'[k] # None
         /\ \A j \in Sources : Held[j] # None => Held'[j] = Held[j]
         /\ MemoTyped'
         /\ UNCHANGED <<world, depth>>
<1>1. depth[Me] > 0 /\ memo[Me] # None /\ memo \in [{Me} -> QP!Memos \union {None}]
  BY DEF Q!Once, RomInv, QP!QInv, QP!QuestionTypeOK, QP!NoMemoLeftBehind, Me
<1>2. memo[Me] \in [Sources -> QP!Contents \union {None}]
  BY <1>1 DEF QP!Memos
<1> DEFINE v == Q!OnceValue(Me, k)
<1>3. v \in SourceContent(k)
  BY <1>1, <1>2 DEF Q!OnceValue, RomInv, MemoTyped, TypeOK
<1>4. v # None
  BY <1>3, RomNamesAssumption DEF Q!Contents
<1>5. memo' = [memo EXCEPT ![Me] = [memo[Me] EXCEPT ![k] = v]]
  BY DEF Q!Once
<1> HIDE DEF v
<1>6. memo'[Me] = [memo[Me] EXCEPT ![k] = v]
  BY <1>1, <1>5
<1>7. \A j \in Sources : memo[Me][j] # None => memo'[Me][j] = memo[Me][j]
  <2> SUFFICES ASSUME NEW j \in Sources, memo[Me][j] # None PROVE memo'[Me][j] = memo[Me][j]
    OBVIOUS
  <2>1. CASE j = k
    BY <1>1, <1>2, <1>6, <2>1 DEF v, Q!OnceValue
  <2>2. CASE j # k
    BY <1>2, <1>6, <2>2
  <2> QED
    BY <2>1, <2>2
<1>8. MemoTyped'
  BY <1>1, <1>2, <1>3, <1>6 DEF MemoTyped, RomInv
<1> QED
  BY <1>2, <1>3, <1>4, <1>6, <1>7, <1>8 DEF Held, v, Q!Once

(* A root has one catalogue, as long as the looks for a deploy agree. *)
LEMMA OneCatalogue ==
  ASSUME NEW r, NEW d, NEW e, NEW a, NEW b, IsCatalogue(r, d, a), IsCatalogue(r, e, b), Agreeing
  PROVE  a = b
BY DEF IsCatalogue, Agreeing

(* What is held stays held, so a catalogue stays one. *)
LEMMA HeldKeepsCatalogues ==
  ASSUME \A j \in Sources : Held[j] # None => Held'[j] = Held[j],
         bundles \subseteq bundles', bundles \subseteq Deploys \union {None}, NEW r \in Roots
  PROVE  \A d, c : IsCatalogue(r, d, c) => IsCatalogue(r, d, c)'
<1> SUFFICES ASSUME NEW d, NEW c, IsCatalogue(r, d, c) PROVE IsCatalogue(r, d, c)'
  OBVIOUS
<1>1. Held'[r] = Held[r]
  BY SourcesAreTyped DEF IsCatalogue
<1>2. d \in bundles /\ d # None /\ Held[d] # None => Held'[d] = Held[d] /\ d \in bundles'
  BY SourcesAreTyped
<1> QED
  BY <1>1, <1>2 DEF IsCatalogue

(* A part goes by a root, whatever the marker says. *)
LEMMA RootOfIsRoot == \A m : RootOf(m) \in Roots
BY RootAssumption DEF RootOf

(* Types are kept: what is read is of its source's kind. *)
LEMMA TypeStep ==
  ASSUME RomInv, [Next]_vars
  PROVE  TypeOK' /\ MemoTyped' /\ IsFiniteSet(markers') /\ IsFiniteSet(bundles')
<1> USE DEF RomInv, questionMemo, answer, rests
<1>1. TypeOK /\ MemoTyped /\ IsFiniteSet(markers) /\ IsFiniteSet(bundles) /\ depth \in [{Me} -> 0 .. 2]
  BY DEF QP!QInv, QP!QuestionTypeOK
<1>2. memo \in [{Me} -> QP!Memos \union {None}] /\ world \in [Sources -> QP!Contents]
  BY DEF QP!QInv, QP!QuestionTypeOK
<1>3. world["marker"] \in Markers
  BY <1>1, SourcesAreTyped DEF TypeOK
<1>4. CASE EditSource
  <2>1. PICK s \in Edited : \E c \in SourceContent(s) : world' = [world EXCEPT ![s] = c]
    BY <1>4 DEF EditSource, Q!Edit
  <2>2. \A k \in Sources : world'[k] \in SourceContent(k)
    BY <1>1, <1>2, <2>1, AskedAssumption DEF TypeOK
  <2>3. edits' \in 0 .. MaxEdits
    BY <1>1, <1>4, AskedAssumption DEF EditSource, TypeOK
  <2>4. UNCHANGED <<memo, local>>
    BY <1>4 DEF EditSource, Q!Edit
  <2> QED
    BY <1>1, <2>2, <2>3, <2>4 DEF TypeOK, MemoTyped, local
<1>5. CASE Asks
  <2>1. PICK q \in Questions, p \in Systems \union {"systems", None} : AskQuestion(q, p)
    BY <1>5 DEF Asks
  <2>2. next' \in {"begin", "marker"} /\ placed' \in [Systems -> Placements \union {None}]
    BY <2>1 DEF AskQuestion
  <2>3. MemoTyped'
    BY <1>2, <2>1 DEF AskQuestion, Q!Open, Q!EmptyMemo, MemoTyped
  <2>4. IsFiniteSet({}) /\ 0 \in 0 .. MaxEdits
    BY FS_EmptySet, AskedAssumption
  <2> QED
    BY <1>1, <1>5, <2>1, <2>2, <2>3, <2>4 DEF AskQuestion, Q!Open, TypeOK
<1>6. CASE (Begin \/ \E s \in Systems : PlaceNext(s)) /\ UNCHANGED edits
  BY <1>1, <1>6 DEF Begin, PlaceNext, BeginPart, Q!Nest, TypeOK, MemoTyped
<1>7. ASSUME EndPart PROVE /\ MemoTyped' /\ UNCHANGED world
                          /\ part' = None /\ root' = None /\ custom' = None
                          /\ bundle' = None /\ declared' = None
                          /\ next' \in {"begin", "between"} /\ question' \in {question, None}
  BY <1>1, <1>2, <1>7 DEF EndPart, Q!Leave, MemoTyped
<1>8. ASSUME NEW systems \in SUBSET Systems, Lists(systems), UNCHANGED <<bundles, edits>>, markers' \subseteq Markers
      PROVE  TypeOK' /\ MemoTyped'
  BY <1>1, <1>7, <1>8 DEF Lists, TypeOK
<1>9. ASSUME NEW placement \in Placements, Places(placement), UNCHANGED <<bundles, edits>>, markers' \subseteq Markers
      PROVE  TypeOK' /\ MemoTyped'
  BY <1>1, <1>7, <1>9 DEF Places, TypeOK
<1>10. ASSUME markers' = markers \union {world["marker"]}
       PROVE  markers' \subseteq Markers /\ IsFiniteSet(markers')
  BY <1>1, <1>3, <1>10, FS_AddElement DEF TypeOK
<1>11. \A why \in Reasons : Nowhere(why) \in Placements
  BY DEF Nowhere, Placements
<1>12. CASE MarkerNotSetUp /\ UNCHANGED edits
  BY <1>8, <1>9, <1>10, <1>11, <1>12 DEF MarkerNotSetUp, Reasons
<1>13. CASE ReadMarker /\ UNCHANGED edits
  BY <1>1, <1>10, <1>13, RootAssumption DEF ReadMarker, TypeOK, MemoTyped
<1>14. CASE ReadOverlay /\ UNCHANGED edits
  <2>1. root \in Roots
    BY <1>14, RootOfIsRoot DEF ReadOverlay, CatalogueInv
  <2> DEFINE layer == Q!OnceValue(Me, root)
  <2>2. layer \in OverlayLayers /\ MemoTyped' /\ UNCHANGED world
    BY <1>14, <2>1, OnceIsHeld, SourcesAreTyped DEF ReadOverlay
  <2>3. layer.declares \in Catalogues
    BY <2>2 DEF OverlayLayers, Layers
  <2> HIDE DEF layer
  <2>4. /\ next' \in {"answer", "user"}
        /\ declared' \in {declared, NoSystems, layer.declares}
        /\ custom' \in {custom, layer.declares, NoSystems}
        /\ UNCHANGED <<question, part, root, bundle, listed, placed, markers, bundles, edits>>
    BY <1>14 DEF ReadOverlay, CatalogueIs, layer
  <2> QED
    BY <1>1, <2>2, <2>3, <2>4, CatalogueIsTyped DEF TypeOK
<1>15. CASE (LookForUserDeploy \/ LookForSystemDeploy \/ LookForFile) /\ UNCHANGED edits
  <2>1. /\ next' \in {"system", "file", "bundled", "answer"}
        /\ bundle' \in Deploys \union {None} /\ declared' \in {declared, None}
        /\ bundles' = bundles \/ \E d \in Deploys \union {None} : bundles' = bundles \union {d}
        /\ UNCHANGED <<world, memo, question, part, root, custom, listed, placed, markers, edits>>
    BY <1>1, <1>15 DEF LookForUserDeploy, LookForSystemDeploy, LookForFile, LookOn, NoBundledPath,
       CatalogueIs, Deploys, TypeOK
  <2>2. IsFiniteSet(bundles') /\ bundles' \subseteq Deploys \union {None}
    BY <1>1, <2>1, FS_AddElement DEF TypeOK
  <2> QED
    BY <1>1, <2>1, <2>2 DEF TypeOK, MemoTyped
<1>16. CASE ReadBundled /\ UNCHANGED edits
  <2> DEFINE layer == Q!OnceValue(Me, bundle)
  <2>1. layer \in BundledLayers /\ MemoTyped' /\ UNCHANGED world
    BY <1>16, OnceIsHeld, SourcesAreTyped DEF ReadBundled, CatalogueInv
  <2>2. layer.declares \in Catalogues
    BY <2>1 DEF BundledLayers, Layers
  <2>3. custom \in Catalogues
    <3>1. custom = Above(Held[root]) /\ Held[root] # None /\ root \in Roots /\ Held # None
      BY <1>2, <1>16, RootOfIsRoot DEF ReadBundled, CatalogueInv, Held, Q!Once, QP!QInv, QP!NoMemoLeftBehind, Me
    <3>2. Held[root] \in OverlayLayers
      BY <3>1, SourcesAreTyped DEF MemoTyped, Held
    <3> QED
      BY <3>1, <3>2, CatalogueIsTyped DEF Above, OverlayLayers, Layers
  <2> HIDE DEF layer
  <2>4. CatalogueIs(CASE layer.says = "merged"  -> MergeLayers(layer.declares, custom)
                      [] layer.says = "invalid" -> NoSystems
                      [] OTHER                  -> None)
    BY <1>16 DEF ReadBundled, layer
  <2>5. declared' \in Catalogues \union {None}
    BY <2>2, <2>3, <2>4, MergedIsCatalogue, CatalogueIsTyped DEF CatalogueIs
  <2>6. UNCHANGED <<bundle, bundles>>
    BY <1>16 DEF ReadBundled
  <2> QED
    BY <1>1, <1>16, <2>1, <2>4, <2>5, <2>6 DEF CatalogueIs, TypeOK
<1>17. CASE AnswerSystems /\ UNCHANGED edits
  <2>1. Lists(IF declared = None THEN {} ELSE DOMAIN declared) /\ UNCHANGED <<markers, bundles>>
    BY <1>17 DEF AnswerSystems
  <2>2. (IF declared = None THEN {} ELSE DOMAIN declared) \in SUBSET Systems
    BY <1>1, CatalogueIsTyped DEF TypeOK
  <2> QED
    BY <1>1, <1>8, <1>17, <2>1, <2>2 DEF TypeOK
<1>18. CASE AnswerNowhere /\ UNCHANGED edits
  BY <1>1, <1>9, <1>11, <1>18 DEF AnswerNowhere, TypeOK, Reasons
<1>19. CASE ReadSettings /\ UNCHANGED edits
  <2>1. MemoTyped' /\ UNCHANGED world
    BY <1>19, OnceIsHeld, SourcesAreTyped DEF ReadSettings
  <2> QED
    BY <1>1, <1>19, <2>1 DEF ReadSettings, TypeOK
<1>20. CASE AnswerPlacement /\ UNCHANGED edits
  <2> DEFINE setting == memo[Me]["settings"].says
             placement == PlacementBy(declared[part], setting)
  <2>1. memo[Me] # None /\ memo[Me]["settings"] # None
    BY <1>2, <1>20 DEF AnswerPlacement, Places, EndPart, Q!Leave, CatalogueInv, Held, QP!QInv, QP!NoMemoLeftBehind, Me
  <2>2. memo[Me]["settings"] \in RomSettings
    BY <1>1, <2>1, SourcesAreTyped DEF MemoTyped
  <2>3. setting \in SettingsSay
    BY <2>2, LayersAssumption DEF RomSettings
  <2>4. placement \in Placements
    BY <2>3 DEF PlacementBy, Placements, Reasons, Nowhere, SettingsSay
  <2>5. Places(placement) /\ UNCHANGED <<markers, bundles>>
    BY <1>20 DEF AnswerPlacement
  <2> QED
    BY <1>1, <1>9, <1>20, <2>4, <2>5 DEF TypeOK
<1>21. CASE EndRomLocations /\ UNCHANGED edits
  BY <1>1, <1>2, <1>21 DEF EndRomLocations, Q!Leave, TypeOK, MemoTyped
<1>22. CASE UNCHANGED vars
  BY <1>1, <1>22 DEF vars, local, TypeOK, MemoTyped
<1> QED
  BY <1>1, <1>4, <1>5, <1>6, <1>12, <1>13, <1>14, <1>16, <1>17, <1>18, <1>19, <1>20, <1>21, <1>22, <1>15
     DEF Next, HandleStep, AnswerSystems, AnswerNowhere, AnswerPlacement, ReadSettings, ReadOverlay,
         ReadBundled, CatalogueIs, EndRomLocations, Begin, PlaceNext, BeginPart

(* The steps inside a part. *)
Looks == LookForUserDeploy \/ LookForSystemDeploy \/ LookForFile
Reads == ReadMarker \/ ReadOverlay \/ Looks \/ ReadBundled \/ ReadSettings

(* The parts follow one another as the questions ask them. *)
LEMMA PartStep ==
  ASSUME RomInv, [Next]_vars
  PROVE  PartInv'
<1> USE RomNamesAssumption DEF PartInv, questionMemo, answer, rests, AllQuestions
<1>1. PartInv /\ TypeOK /\ depth \in [{Me} -> 0 .. 2]
  BY DEF RomInv, QP!QInv, QP!QuestionTypeOK
<1>2. CASE EditSource
  BY <1>1, <1>2 DEF EditSource, Q!Edit, local
<1>3. CASE Asks
  <2>1. PICK q \in AllQuestions, p \in Systems \union {"systems", None} :
          /\ AskQuestion(q, p)
          /\ q = "systems" => p = "systems"
          /\ q = "rom_location" => p \in Systems
          /\ q = "rom_locations" => p = None
    BY <1>3 DEF Asks, AllQuestions
  <2>2. depth'[Me] = 1 /\ question' = q /\ part' = p /\ next' = IF p = None THEN "begin" ELSE "marker"
    BY <1>1, <2>1 DEF AskQuestion, Q!Open
  <2> QED
    BY <2>1, <2>2 DEF AllQuestions
<1>4. CASE Begin
  <2>1. depth'[Me] = 2 /\ part' = "systems" /\ next' = "marker" /\ question' = "rom_locations"
    BY <1>1, <1>4 DEF Begin, BeginPart, Q!Nest
  <2> QED
    BY <2>1
<1>5. CASE \E s \in Systems : PlaceNext(s)
  <2>1. PICK s \in Systems : PlaceNext(s)
    BY <1>5
  <2>2. depth'[Me] = 2 /\ part' = s /\ next' = "marker" /\ question' = "rom_locations"
    BY <1>1, <2>1 DEF PlaceNext, BeginPart, Q!Nest
  <2> QED
    BY <2>1, <2>2 DEF PlaceNext, BeginPart
<1>6. ASSUME EndPart, part # None PROVE PartInv'
  <2>1. depth'[Me] = depth[Me] - 1 /\ question # None
    BY <1>1, <1>6 DEF EndPart, Q!Leave
  <2>2. CASE question = "rom_locations"
    <3>1. depth[Me] = 2 /\ depth'[Me] = 1
      BY <1>1, <1>6, <2>1, <2>2
    <3>2. part' = None /\ next' = "between" /\ question' = "rom_locations"
      BY <1>6, <2>2, <3>1 DEF EndPart
    <3> QED
      BY <3>1, <3>2
  <2>3. CASE question # "rom_locations"
    <3>1. depth[Me] = 1 /\ depth'[Me] = 0
      BY <1>1, <1>6, <2>1, <2>3
    <3>2. part' = None /\ next' = "begin" /\ question' = None
      BY <1>6, <3>1 DEF EndPart
    <3> QED
      BY <3>1, <3>2 DEF AllQuestions
  <2> QED
    BY <2>2, <2>3
<1>7. CASE MarkerNotSetUp \/ AnswerSystems \/ AnswerNowhere \/ AnswerPlacement
  <2>1. EndPart /\ next \in {"marker", "answer", "settings"}
    BY <1>7 DEF MarkerNotSetUp, AnswerSystems, AnswerNowhere, AnswerPlacement, Lists, Places
  <2> QED
    BY <1>1, <1>6, <2>1
<1>8. CASE Reads
  <2>1. next \notin {"begin", "between"} /\ next' \notin {"begin", "between"}
    BY <1>8 DEF Reads, Looks, ReadMarker, ReadOverlay, ReadBundled, ReadSettings, CatalogueIs,
       LookForUserDeploy, LookForSystemDeploy, LookForFile, LookOn, NoBundledPath
  <2>2. UNCHANGED <<question, part, depth, listed, placed>>
    BY <1>8 DEF Reads, Looks, ReadMarker, ReadOverlay, ReadBundled, ReadSettings, CatalogueIs, Q!Once,
       LookForUserDeploy, LookForSystemDeploy, LookForFile, LookOn, NoBundledPath
  <2> QED
    BY <1>1, <2>1, <2>2
<1>9. CASE EndRomLocations
  <2>1. question = "rom_locations" /\ part = None /\ depth'[Me] = 0
    BY <1>1, <1>9 DEF EndRomLocations, Q!Leave
  <2>2. question' = None /\ next' = "begin" /\ part' = None
    BY <1>9, <2>1 DEF EndRomLocations
  <2> QED
    BY <2>1, <2>2 DEF AllQuestions
<1>10. CASE UNCHANGED vars
  BY <1>1, <1>10 DEF vars, local
<1> QED
  BY <1>2, <1>3, <1>4, <1>5, <1>7, <1>8, <1>9, <1>10 DEF Next, HandleStep, Reads, Looks

(* A part keeps to its marker, and reads the catalogue held under its root. *)
LEMMA CatalogueStep ==
  ASSUME RomInv, [Next]_vars
  PROVE  CatalogueInv'
<1> USE RomNamesAssumption DEF questionMemo, answer, rests
<1>1. CatalogueInv /\ PartInv /\ TypeOK
  BY DEF RomInv
<1>2. CASE EditSource \/ UNCHANGED vars
  <2>1. UNCHANGED <<memo, local>>
    BY <1>2 DEF EditSource, Q!Edit, vars
  <2> QED
    BY <1>1, <2>1 DEF local, CatalogueInv, IsCatalogue, Held
<1>3. ASSUME next' \in {"begin", "between", "marker"} PROVE CatalogueInv'
  BY <1>3 DEF CatalogueInv
<1>4. CASE \/ Asks \/ Begin \/ \E s \in Systems : PlaceNext(s)
           \/ MarkerNotSetUp \/ AnswerSystems \/ AnswerNowhere \/ AnswerPlacement \/ EndRomLocations
  BY <1>3, <1>4 DEF Asks, AskQuestion, Begin, PlaceNext, BeginPart, MarkerNotSetUp, AnswerSystems,
     AnswerNowhere, AnswerPlacement, Lists, Places, EndPart, EndRomLocations
<1>5. CASE ReadMarker
  BY <1>5 DEF ReadMarker, CatalogueInv, RootOf, NotSetUp, NotSetUpBy
<1>6. CASE ReadOverlay
  <2> DEFINE layer == Q!OnceValue(Me, root)
  <2>1. root \in Roots /\ \E m \in markers : root = RootOf(m) /\ ~NotSetUpBy(m)
    BY <1>1, <1>6, RootOfIsRoot DEF ReadOverlay, CatalogueInv
  <2>2. root' = root /\ markers' = markers
    BY <1>6 DEF ReadOverlay, CatalogueIs
  <2>3. Held'[root] = layer /\ Held'[root] # None
    BY <1>6, <2>1, OnceIsHeld, SourcesAreTyped DEF ReadOverlay
  <2> HIDE DEF layer
  <2>4. \/ layer.says = "invalid" /\ CatalogueIs(NoSystems)
        \/ layer.says = "exclusive" /\ CatalogueIs(layer.declares)
        \/ /\ layer.says \in {"merged", "unread"}
           /\ custom' = IF layer.says = "merged" THEN layer.declares ELSE NoSystems
           /\ next' = "user"
    BY <1>6 DEF ReadOverlay, layer
  <2> QED
    BY <2>1, <2>2, <2>3, <2>4 DEF CatalogueIs, CatalogueInv, IsCatalogue, Above, RootOf, NotSetUpBy
<1>7. CASE Looks
  <2>1. /\ \E m \in markers : root = RootOf(m) /\ ~NotSetUpBy(m)
        /\ Held[root] # None /\ Held[root].says \in {"merged", "unread"} /\ custom = Above(Held[root])
    BY <1>1, <1>7 DEF Looks, LookForUserDeploy, LookForSystemDeploy, LookForFile, CatalogueInv
  <2>2. Held' = Held /\ UNCHANGED <<root, custom, markers>>
    BY <1>7 DEF Looks, LookForUserDeploy, LookForSystemDeploy, LookForFile, LookOn, NoBundledPath,
       CatalogueIs, Held
  <2>3. next = "file" => bundle \in Deploys
    BY <1>1 DEF CatalogueInv
  <2>4. \/ next' = "system"
        \/ next' = "file" /\ bundle' \in Deploys
        \/ next' = "bundled" /\ bundle' \in Deploys /\ bundle' \in bundles'
        \/ next' = "answer" /\ bundle' = None /\ None \in bundles' /\ declared' = None
    BY <1>7, <2>3 DEF Looks, LookForUserDeploy, LookForSystemDeploy, LookForFile, LookOn,
       NoBundledPath, CatalogueIs, Deploys
  <2> QED
    BY <2>1, <2>2, <2>4 DEF CatalogueInv, IsCatalogue, Above, RootOf, NotSetUpBy, Deploys
<1>8. CASE ReadBundled
  <2> DEFINE layer == Q!OnceValue(Me, bundle)
  <2>1. root \in Roots /\ \E m \in markers : root = RootOf(m) /\ ~NotSetUpBy(m)
    BY <1>1, <1>8, RootOfIsRoot DEF ReadBundled, CatalogueInv
  <2>2. /\ Held[root] # None /\ Held[root].says \in {"merged", "unread"} /\ custom = Above(Held[root])
        /\ bundle \in Deploys /\ bundle \in bundles
    BY <1>1, <1>8 DEF ReadBundled, CatalogueInv
  <2>3. Held'[bundle] = layer /\ Held'[bundle] # None /\ Held'[root] = Held[root]
    BY <1>8, <2>1, <2>2, OnceIsHeld, SourcesAreTyped DEF ReadBundled
  <2> HIDE DEF layer
  <2>4. CatalogueIs(Under(layer, custom)) /\ UNCHANGED <<bundle, bundles>>
    BY <1>8 DEF ReadBundled, layer, Under
  <2>5. bundle # None
    BY <2>2
  <2>6. IsCatalogue(root, bundle, declared)'
    BY <2>2, <2>3, <2>4, <2>5 DEF CatalogueIs, IsCatalogue
  <2> QED
    BY <2>1, <2>4, <2>6 DEF CatalogueIs, CatalogueInv, RootOf, NotSetUpBy
<1>9. CASE ReadSettings
  <2>1. root \in Roots /\ \E m \in markers : root = RootOf(m) /\ ~NotSetUpBy(m)
    BY <1>1, <1>9, RootOfIsRoot DEF ReadSettings, CatalogueInv
  <2>2. IsCatalogue(root, bundle, declared) /\ bundles \subseteq Deploys \union {None}
    BY <1>1, <1>9 DEF ReadSettings, CatalogueInv, TypeOK
  <2>3. /\ Held'["settings"] # None
        /\ \A j \in Sources : Held[j] # None => Held'[j] = Held[j]
    BY <1>9, OnceIsHeld, SourcesAreTyped DEF ReadSettings
  <2>4. UNCHANGED <<root, bundle, bundles, declared, markers, part>> /\ next' = "settings"
    BY <1>9 DEF ReadSettings
  <2>5. IsCatalogue(root, bundle, declared)'
    BY <2>1, <2>2, <2>3, <2>4, HeldKeepsCatalogues
  <2>6. part \in DOMAIN declared /\ part \in Systems /\ declared # None /\ declared[part] # "pathless"
    BY <1>1, <1>9, CatalogueIsTyped DEF ReadSettings, TypeOK
  <2> QED
    BY <2>1, <2>3, <2>4, <2>5, <2>6 DEF CatalogueInv, RootOf, NotSetUpBy
<1> QED
  BY <1>2, <1>4, <1>5, <1>6, <1>8, <1>9, <1>7 DEF Next, HandleStep, Looks

(* A read of the catalogue or of the settings keeps what is held, and       *)
(* leaves the lists as they are.                                            *)
LEMMA ReadsKeep ==
  ASSUME RomInv, Reads
  PROVE  /\ \A j \in Sources : Held[j] # None => Held'[j] = Held[j]
         /\ UNCHANGED <<question, part, listed, placed>>
         /\ markers \subseteq markers'
         /\ bundles \subseteq bundles'
         /\ next' \notin {"begin", "between"}
<1> USE DEF answer, rests
<1>1. CASE ReadMarker
  BY <1>1 DEF ReadMarker, questionMemo, Held
<1>2. CASE ReadOverlay
  <2>1. root \in Sources
    BY <1>2, RootOfIsRoot, SourcesAreTyped DEF ReadOverlay, RomInv, CatalogueInv
  <2> QED
    BY <1>2, <2>1, OnceIsHeld DEF ReadOverlay, CatalogueIs
<1>3. CASE Looks
  BY <1>3 DEF Looks, LookForUserDeploy, LookForSystemDeploy, LookForFile, LookOn, NoBundledPath,
     CatalogueIs, questionMemo, Held
<1>4. CASE ReadBundled
  <2>1. bundle \in Sources
    BY <1>4, SourcesAreTyped DEF ReadBundled, RomInv, CatalogueInv
  <2> QED
    BY <1>4, <2>1, OnceIsHeld DEF ReadBundled, CatalogueIs
<1>5. CASE ReadSettings
  BY <1>5, OnceIsHeld, SourcesAreTyped DEF ReadSettings
<1> QED
  BY <1>1, <1>2, <1>3, <1>4, <1>5 DEF Reads

(* A part of rom_locations ends, and the memo stays open for the next. *)
LEMMA PartOfAListEnds ==
  ASSUME RomInv, EndPart, part # None
  PROVE  /\ question = "rom_locations" => Held' = Held /\ question' = question /\ next' = "between"
         /\ question # "rom_locations" => question' = None /\ next' = "begin"
         /\ part' = None
<1>1. PartInv /\ depth \in [{Me} -> 0 .. 2] /\ memo \in [{Me} -> QP!Memos \union {None}]
  BY DEF RomInv, QP!QInv, QP!QuestionTypeOK
<1>2. question # None /\ memo' = [memo EXCEPT ![Me] = IF depth[Me] = 1 THEN None ELSE @]
  BY <1>1 DEF EndPart, Q!Leave, PartInv
<1> QED
  BY <1>1, <1>2 DEF EndPart, PartInv, Held

(* What rom_locations lists stays the catalogue held under a marker's root. *)
LEMMA ListStep ==
  ASSUME RomInv, [Next]_vars
  PROVE  ListInv'
<1> USE RomNamesAssumption DEF questionMemo, answer, rests
<1>1. ListInv /\ CatalogueInv /\ PartInv /\ TypeOK
  BY DEF RomInv
<1>2. CASE EditSource \/ UNCHANGED vars
  <2>1. UNCHANGED <<memo, local>>
    BY <1>2 DEF EditSource, Q!Edit, vars
  <2> QED
    BY <1>1, <2>1 DEF local, ListInv, IsListed, IsCatalogue, Held
<1>3. CASE Asks
  BY <1>3 DEF Asks, AskQuestion, ListInv
<1>4. bundles \subseteq Deploys \union {None}
  BY <1>1 DEF TypeOK
<1>5. CASE Begin \/ \E s \in Systems : PlaceNext(s)
  <2>1. Held' = Held /\ UNCHANGED <<question, listed, placed, markers, bundles>>
    BY <1>5 DEF Begin, PlaceNext, BeginPart, Q!Nest, Held
  <2>2. question = "rom_locations" /\ next' = "marker"
    BY <1>1, <1>5 DEF Begin, PlaceNext, BeginPart, PartInv
  <2>3. \/ part' \in Systems
        \/ next = "begin" /\ part' = "systems" /\ part \notin Systems
    BY <1>1, <1>5 DEF Begin, PlaceNext, BeginPart, PartInv
  <2>4. part' = "systems" => listed' = {} /\ placed' = [s \in Systems |-> None]
    BY <1>1, <2>1, <2>2, <2>3 DEF ListInv
  <2> QED
    BY <1>1, <2>1, <2>2, <2>3, <2>4 DEF ListInv, IsListed, IsCatalogue
<1>6. ASSUME NEW systems, Lists(systems), UNCHANGED rests,
             systems # {} => \E m \in markers : ~NotSetUpBy(m) /\ IsListed(RootOf(m), systems)
      PROVE  ListInv'
  <2>1. EndPart /\ part # None /\ part = "systems" /\ listed' = systems
    BY <1>6 DEF Lists, AllQuestions
  <2>2. CASE question = "rom_locations"
    <3>1. Held' = Held /\ next' = "between" /\ part' = None /\ question' = question
      BY <2>1, <2>2, PartOfAListEnds
    <3> QED
      BY <1>6, <2>1, <2>2, <3>1 DEF ListInv, IsListed, IsCatalogue, AllQuestions
  <2>3. CASE question # "rom_locations"
    BY <2>1, <2>3, PartOfAListEnds DEF ListInv, AllQuestions
  <2> QED
    BY <2>2, <2>3
<1>7. ASSUME NEW placement, Places(placement), markers \subseteq markers', UNCHANGED bundles
      PROVE  ListInv'
  <2>1. EndPart /\ part \in Systems /\ part # None /\ listed' = listed
    BY <1>7 DEF Places
  <2>2. CASE question = "rom_locations"
    <3>1. Held' = Held /\ next' = "between" /\ part' = None /\ question' = question
      BY <2>1, <2>2, PartOfAListEnds
    <3> QED
      BY <1>1, <1>7, <2>1, <2>2, <3>1 DEF ListInv, IsListed, IsCatalogue, AllQuestions
  <2>3. CASE question # "rom_locations"
    BY <2>1, <2>3, PartOfAListEnds DEF ListInv, AllQuestions
  <2> QED
    BY <2>2, <2>3
<1>8. CASE MarkerNotSetUp
  <2>1. CASE Lists({})
    <3>1. EndPart /\ part # None /\ listed' = {}
      BY <2>1 DEF Lists, AllQuestions
    <3> QED
      BY <3>1, PartOfAListEnds DEF ListInv, AllQuestions
  <2>2. CASE ~Lists({})
    BY <1>7, <1>8, <2>2 DEF MarkerNotSetUp
  <2> QED
    BY <2>1, <2>2
<1>9. CASE AnswerSystems
  <2>1. IsCatalogue(root, bundle, declared) /\ \E m \in markers : root = RootOf(m) /\ ~NotSetUpBy(m)
    BY <1>1, <1>9 DEF AnswerSystems, CatalogueInv
  <2>2. declared # None => IsListed(root, DOMAIN declared)
    BY <1>1, <2>1 DEF IsListed, TypeOK
  <2>3. CASE declared = None
    BY <1>6, <1>9, <2>3 DEF AnswerSystems
  <2>4. CASE declared # None
    <3>1. Lists(DOMAIN declared) /\ UNCHANGED rests
      BY <1>9, <2>4 DEF AnswerSystems
    <3> QED
      BY <1>6, <2>1, <2>2, <2>4, <3>1
  <2> QED
    BY <2>3, <2>4
<1>10. CASE AnswerNowhere \/ AnswerPlacement
  BY <1>7, <1>10 DEF AnswerNowhere, AnswerPlacement
<1>11. CASE Reads
  <2>1. \A m \in markers : IsListed(RootOf(m), listed) => m \in markers' /\ IsListed(RootOf(m), listed)'
    <3> SUFFICES ASSUME NEW m \in markers, IsListed(RootOf(m), listed)
                 PROVE  m \in markers' /\ IsListed(RootOf(m), listed)'
      OBVIOUS
    <3>1. /\ \A j \in Sources : Held[j] # None => Held'[j] = Held[j]
          /\ bundles \subseteq bundles' /\ markers \subseteq markers' /\ listed' = listed
      BY <1>11, ReadsKeep
    <3>2. RootOf(m) \in Roots
      BY RootOfIsRoot
    <3> DEFINE r == RootOf(m)
    <3>3. r \in Roots /\ IsListed(r, listed)
      BY <3>2
    <3> HIDE DEF r
    <3>4. \E d \in Deploys \union {None} : \E c \in Catalogues :
            IsCatalogue(r, d, c)' /\ listed' = DOMAIN c
      BY <1>4, <3>1, <3>3, HeldKeepsCatalogues DEF IsListed
    <3> QED
      BY <3>1, <3>4 DEF IsListed, IsCatalogue, r, RootOf
  <2> QED
    BY <1>1, <1>11, <2>1, ReadsKeep DEF ListInv, RootOf, NotSetUpBy
<1>12. CASE EndRomLocations
  BY <1>1, <1>12 DEF EndRomLocations, ListInv, PartInv, AllQuestions
<1> QED
  BY <1>2, <1>3, <1>5, <1>8, <1>9, <1>10, <1>11, <1>12 DEF Next, HandleStep, Reads, Looks

(* What rom_locations places goes by the settings held, whatever is edited. *)
LEMMA PlaceStep ==
  ASSUME RomInv, [Next]_vars
  PROVE  PlaceInv'
<1> USE RomNamesAssumption DEF questionMemo, answer, rests
<1>1. PlaceInv /\ ListInv /\ CatalogueInv /\ PartInv /\ TypeOK
  BY DEF RomInv
<1> DEFINE Goes(setting) ==
             /\ \A s \in listed' : placed'[s] \in PlacedBy(setting)
             /\ question' = "rom_locations" /\ (\E s \in listed' : placed'[s] \in BySettings(setting)) =>
                  Held'["settings"] # None /\ Held'["settings"].says = setting
           Placed == \E setting \in SettingsSay : Goes(setting)
<1> SUFFICES ASSUME Agreeing' PROVE Placed
  BY DEF PlaceInv, PlacedBy, BySettings, PlacementBy, Nowhere
<1>2. ASSUME markers \subseteq markers', bundles \subseteq bundles', UNCHANGED <<listed, placed>>,
             \/ question' = None
             \/ question' = question /\ (Held["settings"] # None => Held'["settings"] = Held["settings"])
      PROVE  Placed
  <2>1. PICK setting \in SettingsSay :
      /\ \A s \in listed : placed[s] \in PlacedBy(setting)
      /\ question = "rom_locations" /\ (\E s \in listed : placed[s] \in BySettings(setting)) =>
           Held["settings"] # None /\ Held["settings"].says = setting
    BY <1>1, <1>2 DEF PlaceInv, Agreeing
  <2>2. Goes(setting)
    BY <1>2, <2>1 DEF AllQuestions
  <2> QED
    BY <2>2
<1>3. ASSUME \A s \in listed' : placed'[s] = None PROVE Placed
  <2>1. None \notin BySettings("unset") /\ None \in PlacedBy("unset") /\ "unset" \in SettingsSay
    BY DEF BySettings, PlacedBy, PlacementBy, Placements, Reasons, SettingsSay
  <2>2. Goes("unset")
    BY <1>3, <2>1
  <2> QED
    BY <2>1, <2>2
<1>4. CASE EditSource \/ UNCHANGED vars
  <2>1. UNCHANGED <<memo, local>>
    BY <1>4 DEF EditSource, Q!Edit, vars
  <2> HIDE DEF Placed
  <2> QED
    BY <1>2, <2>1 DEF local, Held
<1> HIDE DEF Placed
<1>5. CASE Asks
  BY <1>3, <1>5 DEF Asks, AskQuestion
<1>6. CASE Begin \/ \E s \in Systems : PlaceNext(s)
  BY <1>2, <1>6 DEF Begin, PlaceNext, BeginPart, Q!Nest, Held
<1>7. ASSUME NEW systems \in SUBSET Systems, Lists(systems) PROVE Placed
  <2>1. placed = [s \in Systems |-> None] /\ placed' = placed /\ listed' = systems
    BY <1>1, <1>7 DEF Lists, ListInv
  <2> QED
    BY <1>3, <2>1
<1>8. ASSUME NEW placement, Places(placement), question # "rom_locations" PROVE Placed
  <2>1. listed = {} /\ listed' = {}
    <3>1. part \in Systems /\ part # None /\ listed' = listed /\ EndPart
      BY <1>8 DEF Places
    <3>2. question = "rom_location"
      <4>1. question # None
        BY <1>1, <3>1 DEF EndPart, Q!Leave, PartInv
      <4>2. question # "systems"
        BY <1>1, <3>1 DEF PartInv
      <4> QED
        BY <1>1, <1>8, <4>1, <4>2, AskedAssumption DEF TypeOK, AllQuestions
    <3> QED
      BY <1>1, <3>1, <3>2 DEF ListInv
  <2> QED
    BY <1>3, <2>1
<1>9. ASSUME NEW placement, Places(placement), question = "rom_locations"
      PROVE  /\ part \in Systems /\ part # None /\ part \in listed
             /\ \E m \in markers : ~NotSetUpBy(m) /\ IsListed(RootOf(m), listed)
             /\ UNCHANGED <<listed, question>>
             /\ Held' = Held
             /\ placed' = [placed EXCEPT ![part] = placement]
  <2>1. EndPart /\ part \in Systems /\ part # None /\ listed' = listed
    BY <1>9 DEF Places
  <2> QED
    BY <1>1, <1>9, <2>1, PartOfAListEnds DEF PartInv, ListInv, Places
<1>10. CASE MarkerNotSetUp
  <2>1. ASSUME Places(Nowhere("not-set-up")), question = "rom_locations" PROVE FALSE
    <3>1. NotSetUpBy(world["marker"]) /\ world["marker"] \in markers' /\ markers \subseteq markers'
      BY <1>10 DEF MarkerNotSetUp, NotSetUp, NotSetUpBy
    <3> QED
      BY <1>9, <2>1, <3>1 DEF Agreeing
  <2> QED
    BY <1>7, <1>8, <1>10, <2>1 DEF MarkerNotSetUp
<1>11. CASE AnswerSystems
  <2>1. (IF declared = None THEN {} ELSE DOMAIN declared) \in SUBSET Systems
    BY <1>1, CatalogueIsTyped DEF TypeOK
  <2> QED
    BY <1>7, <1>11, <2>1 DEF AnswerSystems
(* A system that is listed and goes by the list's catalogue is declared. *)
<1>12. ASSUME NEW placement, Places(placement), question = "rom_locations", UNCHANGED rests,
              next \in {"answer", "settings"}
       PROVE  declared # None /\ part \in DOMAIN declared
  <2>1. IsCatalogue(root, bundle, declared) /\ \E m \in markers : root = RootOf(m)
    BY <1>1, <1>12 DEF CatalogueInv
  <2>2. /\ part \in listed
        /\ \E m \in markers : IsListed(RootOf(m), listed)
    BY <1>9, <1>12
  <2>3. Agreeing
    BY <1>12 DEF Agreeing
  <2>4. IsListed(root, listed)
    BY <2>1, <2>2, <2>3 DEF Agreeing
  <2>5. PICK d \in Deploys \union {None}, c \in Catalogues : IsCatalogue(root, d, c) /\ listed = DOMAIN c
    BY <2>4 DEF IsListed
  <2>6. declared = c
    BY <2>1, <2>3, <2>5, OneCatalogue
  <2> QED
    BY <2>2, <2>5, <2>6, CatalogueIsTyped
(* One more system is placed, and the rest stay where they are. *)
<1>13. ASSUME NEW placement, Places(placement), question = "rom_locations", UNCHANGED rests,
              NEW setting \in SettingsSay, placement \in PlacedBy(setting),
              \A s \in listed : placed[s] \in PlacedBy(setting),
              (\E s \in listed : placed[s] \in BySettings(setting)) \/ placement \in BySettings(setting) =>
                Held["settings"] # None /\ Held["settings"].says = setting
       PROVE  Placed
  <2>1. /\ part \in Systems /\ part \in listed /\ UNCHANGED <<listed, question>> /\ Held' = Held
        /\ placed' = [placed EXCEPT ![part] = placement]
    BY <1>9, <1>13
  <2>2. \A s \in listed : placed'[s] = IF s = part THEN placement ELSE placed[s]
    BY <1>1, <2>1 DEF TypeOK
  <2>3. Goes(setting)
    BY <1>13, <2>1, <2>2
  <2> QED
    BY <2>3 DEF Placed
<1>14. ASSUME UNCHANGED rests
       PROVE  \E setting \in SettingsSay :
                /\ \A s \in listed : placed[s] \in PlacedBy(setting)
                /\ question = "rom_locations" /\ (\E s \in listed : placed[s] \in BySettings(setting)) =>
                     Held["settings"] # None /\ Held["settings"].says = setting
  BY <1>1, <1>14 DEF PlaceInv, Agreeing
<1>15. \A setting : Nowhere("pathless") \in PlacedBy(setting) /\ Nowhere("pathless") \notin BySettings(setting)
  BY DEF PlacedBy, BySettings, PlacementBy, Nowhere
<1> HIDE DEF Goes
<1>16. CASE AnswerNowhere
  <2>1. ASSUME question = "rom_locations" PROVE Placed
    <3>1. UNCHANGED rests /\ next = "answer"
      BY <1>16 DEF AnswerNowhere
    <3>2. Places(Nowhere("pathless"))
      BY <1>16, <1>12, <2>1, <3>1 DEF AnswerNowhere
    <3>3. PICK setting \in SettingsSay :
            /\ \A s \in listed : placed[s] \in PlacedBy(setting)
            /\ question = "rom_locations" /\ (\E s \in listed : placed[s] \in BySettings(setting)) =>
                 Held["settings"] # None /\ Held["settings"].says = setting
      BY <1>14, <3>1
    <3> QED
      BY <1>13, <1>15, <2>1, <3>1, <3>2, <3>3
  <2> QED
    BY <1>8, <1>16, <2>1 DEF AnswerNowhere
<1>17. CASE AnswerPlacement
  <2> DEFINE held == Held["settings"].says
             path == declared[part]
  <2>1. Places(PlacementBy(path, held)) /\ UNCHANGED rests /\ next = "settings"
    BY <1>17 DEF AnswerPlacement, Held
  <2>2. CASE question = "rom_locations"
    <3>1. Held["settings"] # None /\ declared # None /\ part \in DOMAIN declared /\ path # "pathless"
      BY <1>1, <2>1 DEF CatalogueInv
    <3>2. path \in {"rompath", "literal"}
      BY <1>1, <3>1, CatalogueIsTyped DEF TypeOK, Paths
    <3>3. Held # None
      BY <2>1 DEF Places, EndPart, Q!Leave, RomInv, QP!QInv, QP!NoMemoLeftBehind, Held, Me
    <3>4. held \in SettingsSay
      <4>1. Held["settings"] \in RomSettings
        BY <3>1, <3>3, SourcesAreTyped DEF RomInv, MemoTyped, Held
      <4> QED
        BY <4>1, LayersAssumption DEF RomSettings
    <3>5. PlacementBy(path, held) \in BySettings(held) /\ BySettings(held) \subseteq PlacedBy(held)
      BY <3>2 DEF BySettings, PlacedBy
    <3>6. \A s \in listed : placed[s] \in PlacedBy(held)
      <4>1. PICK setting \in SettingsSay :
              /\ \A s \in listed : placed[s] \in PlacedBy(setting)
              /\ question = "rom_locations" /\ (\E s \in listed : placed[s] \in BySettings(setting)) =>
                   Held["settings"] # None /\ Held["settings"].says = setting
        BY <1>14, <2>1
      <4>2. CASE \E s \in listed : placed[s] \in BySettings(setting)
        BY <2>2, <4>1, <4>2
      <4>3. CASE ~\E s \in listed : placed[s] \in BySettings(setting)
        BY <4>1, <4>3 DEF PlacedBy
      <4> QED
        BY <4>2, <4>3
    <3> HIDE DEF held, path
    <3>7. Held["settings"] # None /\ Held["settings"].says = held
      BY <3>1 DEF held
    <3>8. PlacementBy(path, held) \in PlacedBy(held)
      BY <3>5
    <3> QED
      BY <1>13, <2>1, <2>2, <3>4, <3>6, <3>7, <3>8
  <2> QED
    BY <1>8, <2>1, <2>2
<1>18. CASE Reads
  BY <1>2, <1>18, ReadsKeep, SourcesAreTyped
<1>19. CASE EndRomLocations
  BY <1>2, <1>19 DEF EndRomLocations
<1> QED
  BY <1>4, <1>5, <1>6, <1>10, <1>11, <1>16, <1>17, <1>18, <1>19 DEF Next, HandleStep, Reads, Looks

(* Every reachable state satisfies the invariant. *)
LEMMA RomAlways == Spec => []RomInv
<1>1. Init => RomInv
  <2> SUFFICES ASSUME Init PROVE RomInv
    OBVIOUS
  <2>1. QP!QInv /\ Q!QuestionInit
    BY MemoInit, RomInit
  <2>2. TypeOK /\ MemoTyped
    BY <2>1, AskedAssumption DEF Init, Q!QuestionInit, Q!NoQuestionYet, TypeOK, MemoTyped
  <2>3. IsFiniteSet(markers) /\ IsFiniteSet(bundles)
    BY FS_EmptySet DEF Init
  <2>4. PartInv /\ CatalogueInv /\ ListInv /\ PlaceInv
    BY RomNamesAssumption
       DEF Init, Q!NoQuestionYet, PartInv, CatalogueInv, ListInv, PlaceInv, AllQuestions, SettingsSay
  <2> QED
    BY <2>1, <2>2, <2>3, <2>4 DEF RomInv
<1>2. RomInv /\ [Next]_vars => RomInv'
  <2> SUFFICES ASSUME RomInv, [Next]_vars PROVE RomInv'
    OBVIOUS
  <2>1. LookInv
    BY RootOfIsRoot DEF RomInv, CatalogueInv, LookInv
  <2>2. QP!QInv'
    BY <2>1, MemoStep DEF RomInv
  <2> QED
    BY <2>2, TypeStep, PartStep, CatalogueStep, ListStep, PlaceStep DEF RomInv
<1> QED
  BY <1>1, <1>2, PTL DEF Spec

(* A set of at most one element has no two. *)
LEMMA OneOrNone ==
  ASSUME NEW few, IsFiniteSet(few), Cardinality(few) <= 1
  PROVE  \A m, n \in few : m = n
<1> SUFFICES ASSUME NEW m \in few, NEW n \in few, m # n PROVE FALSE
  OBVIOUS
<1>1. IsFiniteSet({m, n}) /\ Cardinality({m, n}) = 2
  <2>1. IsFiniteSet({m}) /\ Cardinality({m}) = 1
    BY FS_Singleton
  <2>2. {m, n} = {m} \union {n} /\ n \notin {m}
    OBVIOUS
  <2> QED
    BY <2>1, <2>2, FS_AddElement
<1>2. Cardinality({m, n}) <= Cardinality(few)
  BY FS_Subset
<1>3. Cardinality(few) \in Nat
  BY FS_CardinalityType
<1> QED
  BY <1>1, <1>2, <1>3

(* Where the parts agree, what is placed goes by one reading of the settings. *)
LEMMA PlacedByOneReading ==
  ASSUME RomInv, PartsAgree
  PROVE  \E setting \in SettingsSay : \A s \in listed : placed[s] \in PlacedBy(setting)
<1>1. Agreeing
  BY OneOrNone DEF RomInv, PartsAgree, Agreeing
<1> QED
  BY <1>1 DEF RomInv, PlaceInv

(* The questions, their reads and their answers stay of their types.        *)
THEOREM RomTypes == Spec => []TypeOK
<1>1. RomInv => TypeOK
  BY DEF RomInv
<1> QED
  BY <1>1, RomAlways, PTL

(* A system that rom_locations lists is never placed as one the catalogue   *)
(* does not declare or could not be read for, as long as its parts agree on *)
(* the marker and on the deploy: one revision of the layers serves the list *)
(* and every placement.                                                     *)
THEOREM ListedArePlaced == Spec => []ListedSystemsArePlaced
<1>1. RomInv => ListedSystemsArePlaced
  <2> SUFFICES ASSUME RomInv, PartsAgree, NEW s \in listed, placed[s] # None
               PROVE  placed[s].why \notin {"not-set-up", "catalogue-unread", "undeclared"}
    BY DEF ListedSystemsArePlaced
  <2>1. PICK setting \in SettingsSay : placed[s] \in PlacedBy(setting)
    BY PlacedByOneReading
  <2> QED
    BY <2>1 DEF PlacedBy, BySettings, PlacementBy, Nowhere, SettingsSay
<1> QED
  BY <1>1, RomAlways, PTL

(* Every listed system with a <path> is placed, or all are refused for one  *)
(* reason, and %ROMPATH% is one root in one answer, as long as its parts    *)
(* agree on the marker and on the deploy.                                   *)
THEOREM OneRootForAll == Spec => []OneRomRoot
<1>1. RomInv => OneRomRoot
  <2> SUFFICES ASSUME RomInv, PartsAgree, NEW s \in listed, NEW t \in listed,
                      placed[s] # None, placed[t] # None,
                      placed[s].why # "pathless", placed[t].why # "pathless"
               PROVE  /\ placed[s].why = placed[t].why
                      /\ \/ placed[s].under = placed[t].under
                         \/ "literal" \in {placed[s].under, placed[t].under}
    BY DEF OneRomRoot
  <2>1. PICK setting \in SettingsSay : \A x \in listed : placed[x] \in PlacedBy(setting)
    BY PlacedByOneReading
  <2>2. placed[s] \in BySettings(setting) /\ placed[t] \in BySettings(setting)
    BY <2>1 DEF PlacedBy, Nowhere
  <2> QED
    BY <2>2 DEF BySettings, PlacementBy, Nowhere
<1> QED
  BY <1>1, RomAlways, PTL
=============================================================================
