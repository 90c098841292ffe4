---------------------------- MODULE LaunchLookup ----------------------------
(***************************************************************************)
(* Whether ES-DE finds what a catalogue entry launches: launch.LaunchLookup *)
(* over the find rules _FindRulesFiles.layered composed.  The answer is a   *)
(* claim about another program that looks for itself, made from paths some  *)
(* of which atlas cannot see and layers some of which it cannot read; the   *)
(* lookup stops at the first of them.  What is not looked at stays open:    *)
(* the properties speak of every machine that agrees with what was seen.    *)
(* A rule entry's place is what its expansion comes to; where that cannot   *)
(* be told, the place cannot be either.                                    *)
(***************************************************************************)
EXTENDS Naturals, SequencesExt, Absent

CONSTANTS
  Words,         \* the directories, entries and programs that places are made of
  Layers,        \* the rules a find-rules file can hold
  Commands,      \* what a catalogue entry launches
  Answers,       \* the sequences of commands one answer resolves
  RelativeWords, \* the first words ES-DE resolves against its working directory
  Assumed,       \* the environment the view states for the frontend
  Environments   \* the environments the frontend may run in

(* A layer names, per token, its entries in the order ES-DE tries them. *)
NoLayer == [emulators |-> <<>>, cores |-> <<>>]
Empty(rules) == rules.system = <<>> /\ rules.static = <<>>

(* A place is a path of words; a core is looked for below a directory of its *)
(* own, or below a place that was found.                                     *)
AllPlaces == Seq(Words \union {"core"})
AllRules == [system : Seq(Words), static : Seq(Words)]
AllDirs == Seq(Words \union {"%EMUPATH%"})
AllEnvironments == [path : Seq(Words), directory : Words]

ASSUME EnvironmentAssumption == Assumed \in Environments /\ Environments \subseteq AllEnvironments
ASSUME LayersAssumption ==
  \A layer \in Layers :
    /\ \A t \in DOMAIN layer.emulators : layer.emulators[t] \in AllRules
    /\ \A c \in DOMAIN layer.cores : layer.cores[c] \in AllDirs
ASSUME CommandsAssumption == \A c \in Commands : c.emulator = None => c.program \in Words
ASSUME AnswersAssumption == Answers \subseteq Seq(Commands) \ {<<>>}
ASSUME AbsentAssumption ==
  None \notin AllPlaces /\ None \notin AllRules /\ None \notin AllDirs /\ None # "rules-missing"

VARIABLES
  step,        \* the next step of the answer
  pathKnown,   \* the view reads the environment rather than assuming it
  custom,      \* the custom layer
  lower,       \* the bundled layer or its shadow, None where unread
  commands,    \* the commands left, the one in hand first
  seeking,     \* what of it is looked for
  candidates,  \* the places left to look in
  probed,      \* what the view said of each place
  located,     \* where each thing looked for was found
  verdicts     \* what was answered

lookupVars ==
  <<step, pathKnown, custom, lower, commands, seeking, candidates, probed, located, verdicts>>

Command == Head(commands)
Launching(command) == IF command.emulator = None THEN "program" ELSE "emulator"

(* merge_find_rules: the first definition of a name wins whole. *)
FirstWins(high, low) ==
  [k \in DOMAIN high \union DOMAIN low |-> IF k \in DOMAIN high THEN high[k] ELSE low[k]]
Merged(high, low) ==
  [emulators |-> FirstWins(high.emulators, low.emulators),
   cores |-> FirstWins(high.cores, low.cores)]

Rules == Merged(custom, IF lower = None THEN NoLayer ELSE lower)

(* systempath entries over the PATH, then staticpath entries. *)
SystemPlaces(entries, path) ==
  [i \in 1 .. Len(entries) * Len(path) |->
     <<path[1 + ((i - 1) % Len(path))], entries[1 + ((i - 1) \div Len(path))]>>]
StaticPlaces(entries) == [e \in 1 .. Len(entries) |-> <<entries[e]>>]
RulePlaces(rules, env) ==
  SystemPlaces(rules.system, env.path) \o StaticPlaces(rules.static)

(* The second method: the first word as a file, then on the PATH. *)
WordPlaces(word, env) ==
  <<IF word \in RelativeWords THEN <<env.directory, word>> ELSE <<word>> >>
    \o [d \in 1 .. Len(env.path) |-> <<env.path[d], word>>]

(* A corepath can be relative to where the emulator was found. *)
CorePlaces(dirs, emulator) ==
  [d \in 1 .. Len(dirs) |->
     IF dirs[d] = "%EMUPATH%" THEN <<"core">> \o emulator ELSE <<"core", dirs[d]>>]

(* Whether the search so far went through what the view may assume. *)
Key == Command[seeking]
WordAssumed ==
  seeking = "program" /\ (Key \in RelativeWords \/ Len(candidates) <= Len(Assumed.path))

Found(place) == [end |-> "found", at |-> place, assumed |-> WordAssumed]
Ended(why) == [end |-> why, at |-> None, assumed |-> WordAssumed]

(* Tokens and programs are remembered apart; a pre-command is a token. *)
Memo(kind) == <<IF kind \in {"precommand", "emulator"} THEN "token" ELSE kind, Command[kind]>>
With(f, key, value) ==
  [k \in DOMAIN f \union {key} |-> IF k = key THEN value ELSE f[k]]

Kinds == {"precommand", "emulator", "program", "core"}
-----------------------------------------------------------------------------
LookupInit ==
  /\ step = "idle"
  /\ pathKnown = TRUE
  /\ custom = NoLayer
  /\ lower = None
  /\ commands = <<>>
  /\ seeking = None
  /\ candidates = <<>>
  /\ probed = <<>>
  /\ located = <<>>
  /\ verdicts = <<>>

OpenAnswer ==
  /\ step = "idle"
  /\ pathKnown' \in BOOLEAN
  /\ commands' \in Answers
  /\ step' = "custom"
  /\ UNCHANGED <<custom, lower, seeking, candidates, probed, located, verdicts>>

(* The custom layer; one that is missing, unread or unparsed holds nothing. *)
ReadCustom ==
  /\ step = "custom"
  /\ custom' \in Layers \union {NoLayer}
  /\ step' = "shadow"
  /\ UNCHANGED <<pathKnown, lower, commands, seeking, candidates, probed, located, verdicts>>

(* The bundled layer is read only where nothing shadows it. *)
FindShadow ==
  /\ step = "shadow"
  /\ step' \in {"read shadow", "read bundled"}
  /\ UNCHANGED <<pathKnown, custom, lower, commands, seeking, candidates, probed, located, verdicts>>

BeginCommands ==
  /\ step' = "command"
  /\ UNCHANGED <<pathKnown, custom, commands, seeking, candidates, probed, located, verdicts>>

(* A shadow that is unread or unparsed is no layer, nor is one that was      *)
(* removed since its kind was asked.                                        *)
ReadShadow ==
  /\ step = "read shadow"
  /\ lower' \in Layers \union {None}
  /\ BeginCommands

ReadBundled ==
  /\ step = "read bundled"
  /\ lower' \in Layers \union {None}
  /\ BeginCommands

-----------------------------------------------------------------------------
(* Where in the search a kind's environment came in (_through_path). *)
ThroughPath(token) ==
  /\ token \in DOMAIN custom.emulators \/ lower # None
  /\ token \in DOMAIN Rules.emulators
  /\ Rules.emulators[token].system # <<>>

(* Mutant: the pre-command's search is forgotten. *)
SearchedLast == {Command.emulator}

(* _searched: a refused pre-command stops the searching. *)
Searched ==
  IF Command.precommand = None THEN {Command.emulator}
  ELSE IF located[Memo("precommand")].end # "found" THEN {Command.precommand}
  ELSE {Command.precommand, Command.emulator}

(* _command_notes *)
NotesAssumed(unsupported) ==
  /\ ~pathKnown
  /\ ~unsupported
  /\ IF Command.emulator # None
     THEN \E token \in Searched : ThroughPath(token)
     ELSE located[Memo("program")].assumed

Answer(availability, why, launcher, core, unsupported) ==
  /\ verdicts' = Append(verdicts,
       [command |-> Command, says |-> availability, why |-> why, launcher |-> launcher,
        core |-> core, seeking |-> seeking, assumed |-> NotesAssumed(unsupported)])
  /\ commands' = Tail(commands)
  /\ step' = IF Len(commands) = 1 THEN "answered" ELSE "command"
  /\ seeking' = None
  /\ UNCHANGED <<pathKnown, custom, lower, candidates, probed>>

Unestablished(why) == Answer("unestablished", why, None, None, FALSE)

(* _evaluate: what of the command is looked for first, if anything. *)
Unsupported ==
  \/ Command.emupath
  \/ Command.emulator = None /\ Command.precommand # None

RefuseCommand ==
  /\ step = "command"
  /\ Unsupported
  /\ Answer("unestablished", "unsupported", None, None, TRUE)
  /\ UNCHANGED located

Seek(kind) ==
  /\ seeking' = kind
  /\ step' = "seek"
  /\ UNCHANGED <<pathKnown, custom, lower, commands, candidates, probed, verdicts>>

TakeCommand ==
  /\ step = "command"
  /\ ~Unsupported
  /\ Seek(IF Command.emulator = None THEN "program"
          ELSE IF Command.precommand # None THEN "precommand"
          ELSE "emulator")
  /\ UNCHANGED located

Locate(result) ==
  /\ located' = With(located, Memo(seeking), result)
  /\ candidates' = <<>>
  /\ step' = "located"
  /\ UNCHANGED <<pathKnown, custom, lower, commands, seeking, verdicts>>

Searching(places) ==
  /\ candidates' = places
  /\ step' = "search"
  /\ UNCHANGED <<pathKnown, custom, lower, commands, seeking, located, verdicts>>

(* Mutant: an unread layer stops every name. *)
SeekByRulesOfBoth(defined, inCustom, empty, places) ==
  IF lower = None THEN Locate(Ended("unread"))
  ELSE IF ~defined \/ empty THEN Locate(Ended("rules-missing"))
  ELSE Searching(places)

(* _emulator_rules and _find_core: why there may be nothing to search. *)
SeekByRules(defined, inCustom, empty, places) ==
  IF lower = None /\ ~inCustom THEN Locate(Ended("unread"))
  ELSE IF ~defined \/ empty THEN Locate(Ended("rules-missing"))
  ELSE Searching(places)

(* Each token and each program is searched once an answer. *)
Remembered ==
  /\ step = "seek"
  /\ seeking # "core"
  /\ Memo(seeking) \in DOMAIN located
  /\ step' = "located"
  /\ UNCHANGED <<pathKnown, custom, lower, commands, seeking, candidates, probed, located, verdicts>>

SeekToken ==
  LET defined == Key \in DOMAIN Rules.emulators
  IN  /\ step = "seek"
      /\ seeking \in {"precommand", "emulator"}
      /\ Memo(seeking) \notin DOMAIN located
      /\ SeekByRules(defined, Key \in DOMAIN custom.emulators,
                     defined /\ Empty(Rules.emulators[Key]),
                     IF defined THEN RulePlaces(Rules.emulators[Key], Assumed) ELSE <<>>)
      /\ UNCHANGED probed

SeekProgram ==
  /\ step = "seek"
  /\ seeking = "program"
  /\ Memo(seeking) \notin DOMAIN located
  /\ Searching(WordPlaces(Key, Assumed))
  /\ UNCHANGED probed

SeekCore ==
  LET defined == Key \in DOMAIN Rules.cores
  IN  /\ step = "seek"
      /\ seeking = "core"
      /\ SeekByRules(defined, Key \in DOMAIN custom.cores,
                     defined /\ Rules.cores[Key] = <<>>,
                     IF defined
                     THEN CorePlaces(Rules.cores[Key],
                            located[Memo(Launching(Command))].at)
                     ELSE <<>>)
      /\ UNCHANGED probed

(* Mutant: what cannot be told is passed over. *)
ProbeOn ==
  LET place == Head(candidates)
  IN  /\ step = "search"
      /\ candidates # <<>>
      /\ \E sees \in {"hit", "miss", "unknown"} :
           /\ place \in DOMAIN probed => sees = probed[place]
           /\ probed' = With(probed, place, sees)
           /\ \/ sees = "hit" /\ Locate(Found(place))
              \/ sees # "hit" /\ Searching(Tail(candidates))

(* One probe of the view: it finds the file, finds none, or cannot tell. *)
Probe ==
  LET place == Head(candidates)
  IN  /\ step = "search"
      /\ candidates # <<>>
      /\ \E sees \in {"hit", "miss", "unknown"} :
           /\ place \in DOMAIN probed => sees = probed[place]
           /\ probed' = With(probed, place, sees)
           /\ \/ sees = "hit" /\ Locate(Found(place))
              \/ sees = "unknown" /\ Locate(Ended("stopped"))
              \/ sees = "miss" /\ Searching(Tail(candidates))

(* Mutant: a search that runs out has found its last place. *)
ExhaustedFound ==
  /\ step = "search"
  /\ candidates = <<>>
  /\ Locate(Found(None))
  /\ UNCHANGED probed

Exhausted ==
  /\ step = "search"
  /\ candidates = <<>>
  /\ Locate(Ended("not-found"))
  /\ UNCHANGED probed

Forgetting(key) == [k \in DOMAIN located \ {key} |-> located[k]]

(* What a search that found nothing comes to. *)
EndCommand ==
  LET end == located[Memo(seeking)].end
  IN  /\ step = "located"
      /\ end # "found"
      /\ IF end = "not-found" THEN Answer("not-installed", end, None, None, FALSE)
         ELSE Unestablished(end)
      /\ located' = IF seeking = "core" THEN Forgetting(Memo(seeking))
                    ELSE located

AfterPrecommand ==
  /\ step = "located"
  /\ seeking = "precommand"
  /\ located[Memo(seeking)].end = "found"
  /\ Seek("emulator")
  /\ UNCHANGED located

(* _with_core: the emulator is found, and the core the command names. *)
AfterEmulator ==
  /\ step = "located"
  /\ seeking \in {"emulator", "program"}
  /\ located[Memo(seeking)].end = "found"
  /\ \/ Command.core # None /\ Seek("core") /\ UNCHANGED located
     \/ /\ Command.core = None
        /\ IF Command.loadsCore THEN Unestablished("unsupported")
           ELSE Answer("startable", None, located[Memo(seeking)].at, None, FALSE)
        /\ UNCHANGED located

(* A core is searched again for the next command. *)
AfterCore ==
  /\ step = "located"
  /\ seeking = "core"
  /\ located[Memo(seeking)].end = "found"
  /\ Answer("startable", None, located[Memo(Launching(Command))].at, located[Memo(seeking)].at, FALSE)
  /\ located' = Forgetting(Memo(seeking))

NextAnswer ==
  /\ step = "answered"
  /\ step' = "idle"
  /\ pathKnown' = TRUE
  /\ custom' = NoLayer
  /\ lower' = None
  /\ commands' = <<>>
  /\ probed' = <<>>
  /\ located' = <<>>
  /\ verdicts' = <<>>
  /\ UNCHANGED <<seeking, candidates>>

LookupNext ==
  \/ OpenAnswer \/ ReadCustom \/ FindShadow \/ ReadShadow \/ ReadBundled
  \/ RefuseCommand \/ TakeCommand \/ Remembered \/ SeekToken \/ SeekProgram \/ SeekCore
  \/ Probe \/ Exhausted \/ EndCommand \/ AfterPrecommand \/ AfterEmulator \/ AfterCore
  \/ NextAnswer

LookupSpec == LookupInit /\ [][LookupNext]_lookupVars
-----------------------------------------------------------------------------
(* ES-DE: findEmulator's loops over the layers it loads, on a machine where   *)
(* exactly the places of hits hold a file it takes.                          *)
First(S) == CHOOSE i \in S : \A j \in S : i <= j

FrontendTakes(places, hits) ==
  LET taken == {i \in DOMAIN places : places[i] \in hits}
  IN  IF taken = {} THEN None ELSE places[First(taken)]

(* The first layer that defines a name. *)
FrontendRules(name, high, low) ==
  IF name \in DOMAIN high THEN high[name] ELSE IF name \in DOMAIN low THEN low[name] ELSE None

EmulatorRules(token, layers) == FrontendRules(token, layers[1].emulators, layers[2].emulators)
CoreRules(core, layers) == FrontendRules(core, layers[1].cores, layers[2].cores)

FrontendTakesRule(rules, env, hits) ==
  LET taken(e) == {d \in DOMAIN env.path : <<env.path[d], rules.system[e]>> \in hits}
      onPath == {e \in DOMAIN rules.system : taken(e) # {}}
      entry == First(onPath)
  IN  IF onPath # {} THEN <<env.path[First(taken(entry))], rules.system[entry]>>
      ELSE FrontendTakes(StaticPlaces(rules.static), hits)

FrontendFindsToken(token, env, layers, hits) ==
  LET rules == EmulatorRules(token, layers)
  IN  IF rules = None THEN None ELSE FrontendTakesRule(rules, env, hits)

FrontendFinds(command, kind, env, layers, hits) ==
  IF kind = "program" THEN FrontendTakes(WordPlaces(command.program, env), hits)
  ELSE FrontendFindsToken(command[kind], env, layers, hits)

FrontendFindsCore(core, emulator, layers, hits) ==
  LET dirs == CoreRules(core, layers)
  IN  IF dirs = None THEN None ELSE FrontendTakes(CorePlaces(dirs, emulator), hits)

Refuses == [launcher |-> None, core |-> None]

Frontend(command, env, layers, hits) ==
  LET kind == Launching(command)
      emulator == FrontendFinds(command, kind, env, layers, hits)
      core == FrontendFindsCore(command.core, emulator, layers, hits)
  IN  IF \/ /\ command.precommand # None
            /\ FrontendFinds(command, "precommand", env, layers, hits) = None
         \/ emulator = None
         \/ command.core # None /\ core = None
      THEN Refuses
      ELSE [launcher |-> emulator, core |-> IF command.core = None THEN None ELSE core]

(* The layers, custom first, and the files that agree with what atlas has seen. *)
PossibleLayers ==
  {<<custom, low>> : low \in IF lower = None THEN Layers \union {NoLayer} ELSE {lower}}

PlacesOf(command, env, layers) ==
  LET token(t) == LET rules == EmulatorRules(t, layers)
                  IN  IF rules = None THEN <<>> ELSE RulePlaces(rules, env)
      programs == IF command.emulator # None THEN token(command.emulator)
                  ELSE WordPlaces(command.program, env)
      dirs == CoreRules(command.core, layers)
      cores == IF dirs = None THEN {}
               ELSE UNION {ToSet(CorePlaces(dirs, programs[i])) : i \in DOMAIN programs}
  IN  ToSet(programs) \union ToSet(token(command.precommand)) \union cores

PossibleFiles(places) ==
  LET told(sees) == {p \in DOMAIN probed : probed[p] = sees}
  IN  {told("hit") \union files : files \in SUBSET (places \ (told("hit") \union told("miss")))}
-----------------------------------------------------------------------------
LookupTypeOK ==
  /\ step \in {"idle", "custom", "shadow", "read shadow", "read bundled", "command",
               "seek", "search", "located", "answered"}
  /\ custom \in Layers \union {NoLayer}
  /\ lower \in Layers \union {None}
  /\ seeking \in Kinds \union {None}
  /\ \A p \in DOMAIN probed : probed[p] \in {"hit", "miss", "unknown"}
  /\ \A k \in DOMAIN located :
       located[k].end \in {"found", "stopped", "not-found", "rules-missing", "unread"}
  /\ \A i \in DOMAIN verdicts :
       /\ verdicts[i].says \in {"startable", "not-installed", "unestablished"}
       /\ verdicts[i].says = "startable" <=> verdicts[i].launcher # None

(* What a verdict says of the frontend: that it starts this, or refuses. *)
SaysOf(v, outcome) ==
  /\ v.says = "startable" => outcome = [launcher |-> v.launcher, core |-> v.core]
  /\ v.says = "not-installed" \/ v.why = "rules-missing" => outcome = Refuses

HoldsIn(environments, v) ==
  \A env \in environments, layers \in PossibleLayers :
    \A files \in PossibleFiles(PlacesOf(v.command, env, layers)) :
      SaysOf(v, Frontend(v.command, env, layers, files))

Definite(v) == v.says # "unestablished" \/ v.why = "rules-missing"

(* What is answered holds whatever stands at the places atlas could not see   *)
(* or did not look at, and whatever the layers say that it could not read:    *)
(* ES-DE starts exactly the launcher and the core of a startable entry, and   *)
(* refuses one that is not installed or has no rules ("never a guessed hit    *)
(* or miss", launch.py), in an answer of several entries that share searches. *)
VerdictIsTheFrontends ==
  \A i \in DOMAIN verdicts : Definite(verdicts[i]) => HoldsIn({Assumed}, verdicts[i])

(* An answer without launch-path-assumed holds for whatever PATH and working  *)
(* directory the frontend was started with (LaunchLookup._command_notes).     *)
AssumptionsAreNoted ==
  \A i \in DOMAIN verdicts :
    Definite(verdicts[i]) /\ ~pathKnown /\ ~verdicts[i].assumed =>
      HoldsIn(Environments, verdicts[i])

(* A search is given up only where it is open: of the machines that agree     *)
(* with what was seen, two make ES-DE find different files for what was       *)
(* looked for.  An unread bundled layer stops no name the custom one defines. *)
DoubtIsReal ==
  \A i \in DOMAIN verdicts : verdicts[i].why \in {"stopped", "unread"} =>
    LET v == verdicts[i]
        finds(layers, files) ==
          IF v.seeking # "core"
          THEN FrontendFinds(v.command, v.seeking, Assumed, layers, files)
          ELSE FrontendFindsCore(v.command.core,
                 FrontendFinds(v.command, Launching(v.command), Assumed, layers, files),
                 layers, files)
    IN  \E one, two \in PossibleLayers :
          \E f \in PossibleFiles(PlacesOf(v.command, Assumed, one)),
             g \in PossibleFiles(PlacesOf(v.command, Assumed, two)) :
            finds(one, f) # finds(two, g)
=============================================================================
