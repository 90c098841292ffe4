------------------------------ MODULE CoreProbe ------------------------------
(***************************************************************************)
(* RealMachine.read_core: what a libretro core says of itself, read by      *)
(* loading it in a child process that may print an answer, crash or hang,   *)
(* and remembered under the file's (mtime, size).  Each asker is a thread   *)
(* of the host; each runs a child of its own; they share the memory.        *)
(***************************************************************************)
EXTENDS Naturals, FiniteSets

CONSTANTS
  Askers,      \* threads that share one RealMachine
  Revisions,   \* the builds that can stand at the core's path
  KeyOf,       \* KeyOf[r]: the (mtime, size) stat reports for build r
  Running,     \* what sys.executable is: an interpreter that "runs", or None
  MaxChanges,  \* bound on how often the machine or the host changes
  Gone,        \* no file at the core's path
  None         \* Python's None

Keys == {KeyOf[r] : r \in Revisions}

ASSUME ChangesAssumption == MaxChanges \in Nat
ASSUME RunningAssumption == Running \in {"runs", None}

VARIABLES
  file,        \* the build at the core's path
  libraries,   \* whether the host libraries the core links are installed
  registered,  \* the interpreter slot
  past,        \* every build that has stood at the path
  changes,     \* how often anything of that has changed
  memo,        \* _core_cache: memo[k] is the reading kept under key k
  killed,      \* the keys under which a run had to be killed
  pc,          \* pc[a]: the next step of asker a's read_core
  key,         \* key[a]: the key a took
  child,       \* child[a]: the probe process a started, and its last line
  result,      \* result[a]: what a's probe read, and whether it was killed
  seen,        \* seen[a]: what has stood at the path since a asked
  answer       \* answer[a]: the last reading a was given

machine == <<file, libraries, registered, past, changes>>
vars == <<machine, memo, killed, pc, key, child, result, seen, answer>>

(* The last line a probe printed: the loader's refusal, the core's own      *)
(* word for itself, or the same with its options.  Each comes of a file.    *)
Lines == [says : {"unloadable", "base", "full"}, of : Revisions \union {Gone}]
Endings == {"timed-out", "crashed", "unusable"}
Unasked == {"binary-inaccessible", "no-interpreter", "not-started"}
Statuses == {"answered", "unloadable"} \union Endings \union Unasked
Readings == [status : Statuses, line : Lines \union {None}]
Results == [reading : Readings, killed : BOOLEAN]
Alive == {"started", "refused", "loaded", "captured"}
Children == [state : Alive \union {"exited", "crashed"}, line : Lines \union {None}]

ASSUME CoreNamesAssumption ==
  /\ Gone \notin Revisions
  /\ None \notin Revisions \union {Gone}
  /\ None \notin Keys
  /\ None \notin {"runs", "broken"}
  /\ None \notin Lines \union Children \union Readings

NoReading(status) == [status |-> status, line |-> None]

(* Mutant: only a run that ended by itself is listened to. *)
ParseIfItEnded(line, ended) ==
  IF line = None \/ ended # "unusable" THEN NoReading(ended)
  ELSE [status |-> IF line.says = "unloadable" THEN "unloadable" ELSE "answered", line |-> line]

(* _parse_probe_output: what was printed is the reading, however it ended.  *)
Parse(line, ended) ==
  [status |-> IF line = None THEN ended
              ELSE IF line.says = "unloadable" THEN "unloadable"
              ELSE "answered",
   line |-> line]

Interpreter == IF registered # None THEN registered ELSE Running

-----------------------------------------------------------------------------
Init ==
  /\ file \in Revisions \union {Gone}
  /\ libraries \in BOOLEAN
  /\ registered = None
  /\ past = {file} \ {Gone}
  /\ changes = 0
  /\ memo = [k \in Keys |-> None]
  /\ killed = {}
  /\ pc = [a \in Askers |-> "idle"]
  /\ key = [a \in Askers |-> None]
  /\ child = [a \in Askers |-> None]
  /\ result = [a \in Askers |-> None]
  /\ seen = [a \in Askers |-> {}]
  /\ answer = [a \in Askers |-> None]

(* The machine and the host program, on their own. *)
Changes ==
  /\ changes < MaxChanges
  /\ changes' = changes + 1
  /\ UNCHANGED <<memo, killed, pc, key, child, result, answer>>

Stands(f) ==
  /\ file' = f
  /\ past' = past \union ({f} \ {Gone})
  /\ seen' = [a \in Askers |-> IF pc[a] = "idle" THEN {} ELSE seen[a] \union {f}]
  /\ UNCHANGED <<libraries, registered>>

Deploy == Changes /\ \E r \in Revisions \ past : Stands(r)

RemoveCore == Changes /\ file # Gone /\ Stands(Gone)

LibrariesChange ==
  /\ Changes
  /\ libraries' = ~libraries
  /\ UNCHANGED <<file, registered, past, seen>>

RegisterInterpreter ==
  /\ Changes
  /\ \E i \in {"runs", "broken", None} \ {registered} : registered' = i
  /\ UNCHANGED <<file, libraries, past, seen>>

(* The probe process, main of _core_probe.py.  It loads what is at the path *)
(* when it gets there, and it may stop anywhere.                            *)
ProbeRuns(a, states) == pc[a] = "wait" /\ child[a].state \in states

ChildBecomes(a, state, line) ==
  /\ child' = [child EXCEPT ![a] = [state |-> state, line |-> line]]
  /\ UNCHANGED <<machine, memo, killed, pc, key, result, seen, answer>>

Refuse(a) ==
  /\ ProbeRuns(a, {"started"})
  /\ file = Gone \/ ~libraries
  /\ ChildBecomes(a, "refused", [says |-> "unloadable", of |-> file])

PrintBase(a) ==
  /\ ProbeRuns(a, {"started"})
  /\ file # Gone /\ libraries
  /\ ChildBecomes(a, "loaded", [says |-> "base", of |-> file])

PrintOptions(a) ==
  /\ ProbeRuns(a, {"loaded"})
  /\ ChildBecomes(a, "captured", [child[a].line EXCEPT !.says = "full"])

Exit(a) == ProbeRuns(a, Alive) /\ ChildBecomes(a, "exited", child[a].line)

Crash(a) == ProbeRuns(a, Alive) /\ ChildBecomes(a, "crashed", child[a].line)

ChildStep(a) ==
  Refuse(a) \/ PrintBase(a) \/ PrintOptions(a) \/ Exit(a) \/ Crash(a)

(* read_core itself. *)
AskCore(a) ==
  /\ pc[a] = "idle"
  /\ pc' = [pc EXCEPT ![a] = "stat"]
  /\ seen' = [seen EXCEPT ![a] = {file}]
  /\ answer' = [answer EXCEPT ![a] = None]
  /\ UNCHANGED <<machine, memo, killed, key, child, result>>

Return(a, reading) ==
  /\ answer' = [answer EXCEPT ![a] = reading]
  /\ pc' = [pc EXCEPT ![a] = "idle"]
  /\ key' = [key EXCEPT ![a] = None]
  /\ child' = [child EXCEPT ![a] = None]
  /\ result' = [result EXCEPT ![a] = None]
  /\ seen' = [seen EXCEPT ![a] = {}]
  /\ UNCHANGED machine

Inaccessible(a) ==
  /\ pc[a] = "stat"
  /\ file = Gone
  /\ Return(a, NoReading("binary-inaccessible"))
  /\ UNCHANGED <<memo, killed>>

StatCore(a) ==
  /\ pc[a] = "stat"
  /\ file # Gone
  /\ key' = [key EXCEPT ![a] = KeyOf[file]]
  /\ pc' = [pc EXCEPT ![a] = "lookup"]
  /\ UNCHANGED <<machine, memo, killed, child, result, seen, answer>>

Remembered(a) ==
  /\ pc[a] = "lookup"
  /\ memo[key[a]] # None
  /\ Return(a, memo[key[a]])
  /\ UNCHANGED <<memo, killed>>

(* Mutant: the memory is not consulted before a probe. *)
ProbeAnyway(a) ==
  /\ pc[a] = "lookup"
  /\ pc' = [pc EXCEPT ![a] = "probe"]
  /\ UNCHANGED <<machine, memo, killed, key, child, result, seen, answer>>

MustProbe(a) ==
  /\ pc[a] = "lookup"
  /\ memo[key[a]] = None
  /\ pc' = [pc EXCEPT ![a] = "probe"]
  /\ UNCHANGED <<machine, memo, killed, key, child, result, seen, answer>>

ProbeRead(a, reading, wasKilled) ==
  /\ result' = [result EXCEPT ![a] = [reading |-> reading, killed |-> wasKilled]]
  /\ killed' = IF wasKilled THEN killed \union {key[a]} ELSE killed
  /\ pc' = [pc EXCEPT ![a] = "keep"]
  /\ UNCHANGED <<machine, memo, key, child, seen, answer>>

(* Mutant: a probe that cannot start reads as None and not as a CoreReading. *)
CannotStartIsNone(a) ==
  /\ pc[a] = "probe"
  /\ Interpreter # "runs"
  /\ ProbeRead(a, None, FALSE)

CannotStart(a) ==
  /\ pc[a] = "probe"
  /\ Interpreter # "runs"
  /\ ProbeRead(a, NoReading(IF Interpreter = None THEN "no-interpreter" ELSE "not-started"),
               FALSE)

Spawn(a) ==
  /\ pc[a] = "probe"
  /\ Interpreter = "runs"
  /\ child' = [child EXCEPT ![a] = [state |-> "started", line |-> None]]
  /\ pc' = [pc EXCEPT ![a] = "wait"]
  /\ UNCHANGED <<machine, memo, killed, key, result, seen, answer>>

Collect(a) ==
  /\ ProbeRuns(a, {"exited", "crashed"})
  /\ ProbeRead(a,
               Parse(child[a].line, IF child[a].state = "crashed" THEN "crashed" ELSE "unusable"),
               FALSE)

(* Mutant: the clock starts once the core is loaded. *)
TimeOutLoaded(a) ==
  /\ ProbeRuns(a, Alive \ {"started"})
  /\ ProbeRead(a, Parse(child[a].line, "timed-out"), TRUE)

(* Fifteen seconds are over and the child has not ended: hung, or just slow. *)
TimeOut(a) ==
  /\ ProbeRuns(a, Alive)
  /\ ProbeRead(a, Parse(child[a].line, "timed-out"), TRUE)

(* Mutants: the reading is kept under the file's stamp after the probe; every *)
(* reading is kept; a killed run's is not.                                    *)
KeepUnder(a, keeps, k) ==
  /\ pc[a] = "keep"
  /\ memo' = IF keeps THEN [memo EXCEPT ![k] = result[a].reading] ELSE memo
  /\ Return(a, result[a].reading)
  /\ UNCHANGED killed

KeepLateKey(a) ==
  LET keeps == file # Gone /\ (result[a].reading.status = "answered" \/ result[a].killed)
  IN  KeepUnder(a, keeps, IF file = Gone THEN key[a] ELSE KeyOf[file])

KeepEverything(a) == KeepUnder(a, TRUE, key[a])

KeepAnswers(a) == KeepUnder(a, result[a].reading.status = "answered", key[a])

Keep(a) ==
  /\ pc[a] = "keep"
  /\ memo' = IF result[a].reading.status = "answered" \/ result[a].killed
             THEN [memo EXCEPT ![key[a]] = result[a].reading]
             ELSE memo
  /\ Return(a, result[a].reading)
  /\ UNCHANGED killed

AskerStep(a) ==
  \/ Inaccessible(a) \/ StatCore(a) \/ Remembered(a) \/ MustProbe(a)
  \/ CannotStart(a) \/ Spawn(a) \/ Collect(a) \/ TimeOut(a) \/ Keep(a)

Next ==
  \/ Deploy \/ RemoveCore \/ LibrariesChange \/ RegisterInterpreter
  \/ \E a \in Askers : AskCore(a) \/ AskerStep(a) \/ ChildStep(a)

(* Threads and the timer run; nothing is assumed of a child. *)
Spec ==
  /\ Init
  /\ [][Next]_vars
  /\ \A a \in Askers : WF_vars(AskerStep(a))
-----------------------------------------------------------------------------
TypeOK ==
  /\ file \in Revisions \union {Gone}
  /\ libraries \in BOOLEAN
  /\ registered \in {"runs", "broken", None}
  /\ past \subseteq Revisions
  /\ changes \in 0 .. MaxChanges
  /\ memo \in [Keys -> Readings \union {None}]
  /\ killed \subseteq Keys
  /\ pc \in [Askers -> {"idle", "stat", "lookup", "probe", "wait", "keep"}]
  /\ key \in [Askers -> Keys \union {None}]
  /\ \A a \in Askers : pc[a] \in {"lookup", "probe", "wait", "keep"} => key[a] \in Keys
  /\ child \in [Askers -> Children \union {None}]
  /\ \A a \in Askers : pc[a] = "wait" => child[a] \in Children
  /\ \A a \in Askers : pc[a] = "wait" /\ child[a].state = "loaded" => child[a].line \in Lines
  /\ result \in [Askers -> Results \union {None}]
  /\ \A a \in Askers : pc[a] = "keep" => result[a] \in Results
  /\ seen \in [Askers -> SUBSET (Revisions \union {Gone})]
  /\ answer \in [Askers -> Readings \union {None}]

(* A remembered reading speaks of a build that stood at the path at some    *)
(* moment of the question it answers, never of one replaced before it was   *)
(* asked: the key is taken before the probe runs, and the core can be       *)
(* updated between the two (read_core).                                     *)
MemoIsLive ==
  \A a \in Askers :
    LET reading == memo[key[a]]
    IN  pc[a] = "lookup" /\ reading # None /\ reading.line # None => reading.line.of \in seen[a]

(* A question that could have been answered differently once a host library *)
(* or an interpreter was there is asked again: only a run that had to be    *)
(* killed is remembered without an answer (the memoization rule in          *)
(* read_core).                                                              *)
OnlyAKilledRunIsRememberedUnanswered ==
  \A k \in Keys : memo[k] # None /\ memo[k].status # "answered" => k \in killed

(* What the core said before its process crashed or was killed is its       *)
(* answer, options or none, and a refusal printed is a refusal: how the run *)
(* ended is never what overrides a read that succeeded (_probe).             *)
PrintedAnswerStands ==
  \A a \in Askers : pc[a] = "keep" /\ child[a] # None /\ child[a].line # None =>
    /\ result[a].reading.line = child[a].line
    /\ result[a].reading.status =
         IF child[a].line.says = "unloadable" THEN "unloadable" ELSE "answered"

(* "An answer is memoized": a core that answered is not un-answered by a    *)
(* later run (read_core).                                                   *)
AnAnswerIsMemoized ==
  [][\A k \in Keys : memo[k] # None /\ memo[k].status = "answered"
       => memo'[k] # None /\ memo'[k].status = "answered"]_vars

(* A core that hangs costs its question a wait, and never the answer: the   *)
(* timeout ends every probe (_CORE_PROBE_TIMEOUT_SECONDS).                   *)
EveryQuestionEnds == \A a \in Askers : pc[a] # "idle" ~> pc[a] = "idle"

(* The wait for a hung core is paid once: a build under whose key a run had *)
(* to be killed is not probed again.  Of one thread: two that ask at once    *)
(* both wait (read_core, "asking that one again would pay the timeout").     *)
TheTimeoutIsPaidOnce == \A a \in Askers : pc[a] = "wait" => key[a] \notin killed
=============================================================================
