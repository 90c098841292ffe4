------------------------------ MODULE HeldReads ------------------------------
(***************************************************************************)
(* The readings an installation handle keeps between its questions, each   *)
(* under the stat identity of the file it was read from:                   *)
(*   "rules"     a find-rules file's parse        _FindRulesFiles.read     *)
(*   "embedded"  a find-rules parse in an AppImage  .in_appimage           *)
(*   "blob"      a file's git blob hash            _BlobHashes.hash        *)
(*   "build"     the ES-DE build an AppImage states                        *)
(*                                       EmuDeck._deployed_esde_build_read *)
(* Each lookup stats the file, compares, reads where it must and keeps     *)
(* what it read: four steps, and the file can change between any two of    *)
(* them.  Threads share the handle.                                        *)
(***************************************************************************)
EXTENDS Naturals, FiniteSets

CONSTANTS
  Askers,      \* threads asking through one handle
  Holds,       \* which memories are asked, a subset of AllHolds
  Revisions,   \* the files that can stand at the path, one after another
  StampOf,     \* StampOf[r]: the FileStamp stat reports for revision r
  Events,      \* what may happen to the machine, a subset of AllEvents
  MaxChanges,  \* bound on how often the machine changes
  Gone,        \* no file at the path
  None         \* Python's None: no stamp, nothing held, nothing asked

AllHolds == {"rules", "embedded", "blob", "build"}
AllEvents ==
  {"replace",   \* a new file takes the path: an update, a rewrite
   "rollback",  \* an earlier file takes it again, its stat identity with it
   "remove",    \* the path is emptied
   "hide",      \* a folder above it can no longer be searched, or can again
   "chmod",     \* the file's own permission to be read changes
   "codec",     \* a host registers a zstd provider
   "forget"}    \* ... or takes it back

ASSUME HoldsAssumption == Holds \subseteq AllHolds
ASSUME EventsAssumption == Events \subseteq AllEvents
ASSUME BoundAssumption == MaxChanges \in Nat
ASSUME NamesAssumption ==
  /\ Gone \notin Revisions
  /\ None \notin Revisions
  /\ None \notin AllHolds
  /\ \A r \in Revisions : StampOf[r] # None

VARIABLES
  world,    \* the machine: the file at the path, its access, the codec
  past,     \* every revision that has stood at the path
  changes,  \* how often the machine has changed
  asked,    \* asked[a]: the memory asker a is consulting
  pc,       \* pc[a]: the next step of a's lookup
  stamp,    \* stamp[a]: the stamp a took
  got,      \* got[a]: what a read
  held,     \* held[h]: the stamp and the reading memory h holds
  seen,     \* seen[a]: what a plain read would have said since a asked
  answer    \* answer[a]: the last answer a was given

vars == <<world, past, changes, asked, pc, stamp, got, held, seen, answer>>

Accesses == {"open", "unreadable", "hidden"}
Worlds == [rev : Revisions \union {Gone}, access : Accesses, codec : BOOLEAN]
Statuses == {"ok", "missing", "unreadable", "capability-missing", "no-digest"}
Readings == [status : Statuses, rev : Revisions \union {None}]

Failed(status) == [status |-> status, rev |-> None]

(* What the machine's plain read answers.  A digest has one failure for    *)
(* every reason; only what lies inside an image needs the codec.           *)
PlainRead(h, w) ==
  LET failure(status) == Failed(IF h = "blob" THEN "no-digest" ELSE status)
  IN  IF w.access = "hidden" THEN failure("unreadable")
      ELSE IF w.rev = Gone THEN failure("missing")
      ELSE IF w.access = "unreadable" THEN failure("unreadable")
      ELSE IF h \in {"embedded", "build"} /\ ~w.codec THEN failure("capability-missing")
      ELSE [status |-> "ok", rev |-> w.rev]

(* RealMachine.file_stamp: None where the path cannot be stat'ed. *)
FileStamp(w) ==
  IF w.rev = Gone \/ w.access = "hidden" THEN None ELSE StampOf[w.rev]

(* Mutant: what is held is served without comparing stamps. *)
HitByPath(a) == stamp[a] # None /\ held[asked[a]] # None

Hit(a) ==
  /\ stamp[a] # None
  /\ held[asked[a]] # None
  /\ held[asked[a]].stamp = stamp[a]

-----------------------------------------------------------------------------
Init ==
  /\ world \in [rev : Revisions, access : {"open"}, codec : BOOLEAN]
  /\ past = {world.rev}
  /\ changes = 0
  /\ asked = [a \in Askers |-> None]
  /\ pc = [a \in Askers |-> "idle"]
  /\ stamp = [a \in Askers |-> None]
  /\ got = [a \in Askers |-> None]
  /\ held = [h \in Holds |-> None]
  /\ seen = [a \in Askers |-> {}]
  /\ answer = [a \in Askers |-> None]

(* One thing happens to the machine, and the open questions see it. *)
MachineBecomes(event, w) ==
  /\ event \in Events
  /\ w # world
  /\ world' = w
  /\ past' = past \union ({w.rev} \ {Gone})
  /\ seen' = [a \in Askers |->
                IF asked[a] = None THEN {} ELSE seen[a] \union {PlainRead(asked[a], w)}]

Replace ==
  \E r \in Revisions \ past : MachineBecomes("replace", [world EXCEPT !.rev = r])

Rollback == \E r \in past : MachineBecomes("rollback", [world EXCEPT !.rev = r])

Remove == MachineBecomes("remove", [world EXCEPT !.rev = Gone])

Hide == \E c \in {"open", "hidden"} : MachineBecomes("hide", [world EXCEPT !.access = c])

Chmod == \E c \in {"open", "unreadable"} : MachineBecomes("chmod", [world EXCEPT !.access = c])

RegisterCodec == MachineBecomes("codec", [world EXCEPT !.codec = TRUE])

ForgetCodec == MachineBecomes("forget", [world EXCEPT !.codec = FALSE])

Ask(a, h) ==
  /\ pc[a] = "idle"
  /\ asked' = [asked EXCEPT ![a] = h]
  /\ pc' = [pc EXCEPT ![a] = "stat"]
  /\ seen' = [seen EXCEPT ![a] = {PlainRead(h, world)}]
  /\ answer' = [answer EXCEPT ![a] = None]
  /\ UNCHANGED <<world, past, changes, stamp, got, held>>

Stat(a) ==
  /\ pc[a] = "stat"
  /\ stamp' = [stamp EXCEPT ![a] = FileStamp(world)]
  /\ pc' = [pc EXCEPT ![a] = "lookup"]
  /\ UNCHANGED <<world, past, changes, asked, got, held, seen, answer>>

(* Hand reading r to asker a: the question is over. *)
Return(a, r) ==
  /\ answer' = [answer EXCEPT ![a] = r]
  /\ asked' = [asked EXCEPT ![a] = None]
  /\ pc' = [pc EXCEPT ![a] = "idle"]
  /\ stamp' = [stamp EXCEPT ![a] = None]
  /\ got' = [got EXCEPT ![a] = None]
  /\ seen' = [seen EXCEPT ![a] = {}]

ServeHeld(a) ==
  /\ pc[a] = "lookup"
  /\ Hit(a)
  /\ Return(a, held[asked[a]].reading)
  /\ UNCHANGED <<world, past, changes, held>>

Miss(a) ==
  /\ pc[a] = "lookup"
  /\ ~Hit(a)
  /\ pc' = [pc EXCEPT ![a] = "read"]
  /\ UNCHANGED <<world, past, changes, asked, stamp, got, held, seen, answer>>

ReadFile(a) ==
  /\ pc[a] = "read"
  /\ got' = [got EXCEPT ![a] = PlainRead(asked[a], world)]
  /\ pc' = [pc EXCEPT ![a] = "keep"]
  /\ UNCHANGED <<world, past, changes, asked, stamp, held, seen, answer>>

Kept(a) == [stamp |-> stamp[a], reading |-> got[a]]

(* Mutants: a parse kept without a stamp; one kept whatever it came to. *)
KeepParseIf(a, keeps) ==
  /\ pc[a] = "keep"
  /\ asked[a] \in {"rules", "embedded"}
  /\ held' = [held EXCEPT ![asked[a]] = IF keeps THEN Kept(a) ELSE None]
  /\ Return(a, got[a])
  /\ UNCHANGED <<world, past, changes>>

KeepUnstamped(a) == KeepParseIf(a, got[a].status = "ok")

KeepWhatever(a) == KeepParseIf(a, stamp[a] # None)

(* A parse is kept; any other outcome drops what was held. *)
KeepParse(a) ==
  /\ pc[a] = "keep"
  /\ asked[a] \in {"rules", "embedded"}
  /\ held' = [held EXCEPT ![asked[a]] =
                IF stamp[a] # None /\ got[a].status = "ok" THEN Kept(a) ELSE None]
  /\ Return(a, got[a])
  /\ UNCHANGED <<world, past, changes>>

(* A digest is kept whatever it came to, if there is a stamp to keep it under. *)
KeepDigest(a) ==
  /\ pc[a] = "keep"
  /\ asked[a] = "blob"
  /\ held' = IF stamp[a] = None THEN held ELSE [held EXCEPT !["blob"] = Kept(a)]
  /\ Return(a, got[a])
  /\ UNCHANGED <<world, past, changes>>

(* Mutant: what could not be stamped is not handed back. *)
KeepBuildOrNothing(a) ==
  /\ pc[a] = "keep" /\ stamp[a] # None
  /\ asked[a] = "build"
  /\ held' = [held EXCEPT !["build"] = Kept(a)]
  /\ Return(a, got[a])
  /\ UNCHANGED <<world, past, changes>>

(* A build read replaces what was held, whatever it came to. *)
KeepBuild(a) ==
  /\ pc[a] = "keep"
  /\ asked[a] = "build"
  /\ held' = [held EXCEPT !["build"] = IF stamp[a] = None THEN None ELSE Kept(a)]
  /\ Return(a, got[a])
  /\ UNCHANGED <<world, past, changes>>

AskerStep(a) ==
  \/ Stat(a) \/ ServeHeld(a) \/ Miss(a) \/ ReadFile(a)
  \/ KeepParse(a) \/ KeepDigest(a) \/ KeepBuild(a)

ChangeMachine ==
  /\ changes < MaxChanges
  /\ changes' = changes + 1
  /\ Replace \/ Rollback \/ Remove \/ Hide \/ Chmod \/ RegisterCodec \/ ForgetCodec
  /\ UNCHANGED <<asked, pc, stamp, got, held, answer>>

Next ==
  \/ ChangeMachine
  \/ \E a \in Askers : AskerStep(a) \/ \E h \in Holds : Ask(a, h)

Spec ==
  /\ Init
  /\ [][Next]_vars
  /\ \A a \in Askers : WF_vars(AskerStep(a))
-----------------------------------------------------------------------------
TypeOK ==
  /\ world \in Worlds
  /\ past \subseteq Revisions
  /\ changes \in 0 .. MaxChanges
  /\ asked \in [Askers -> Holds \union {None}]
  /\ pc \in [Askers -> {"idle", "stat", "lookup", "read", "keep"}]
  /\ \A a \in Askers : pc[a] = "idle" <=> asked[a] = None
  /\ stamp \in [Askers -> {StampOf[r] : r \in Revisions} \union {None}]
  /\ got \in [Askers -> Readings \union {None}]
  /\ \A a \in Askers : pc[a] = "keep" => got[a] \in Readings
  /\ held \in [Holds -> [stamp : {StampOf[r] : r \in Revisions}, reading : Readings]
                          \union {None}]
  /\ seen \in [Askers -> SUBSET Readings]
  /\ answer \in [Askers -> Readings \union {None}]

(* A reading served from memory is one the machine would have given at    *)
(* some moment of the very question it answers: a memory never takes a    *)
(* question back to a file that was gone before it was asked.  The         *)
(* lookup-then-keep of _FindRulesFiles and its siblings.                   *)
HitsAreLive ==
  \A a \in Askers : pc[a] = "lookup" /\ Hit(a) => held[asked[a]].reading \in seen[a]

(* A failure is never served from memory: what could not be read is asked *)
(* of the machine again (_FindRulesFiles._keep; _BlobHashes claims the    *)
(* same rule).                                                             *)
FailuresAreReadAfresh ==
  \A a \in Askers : pc[a] = "lookup" /\ Hit(a) => held[asked[a]].reading.status = "ok"

Live == INSTANCE LiveReads
          WITH Questions <- Holds, Reading <- PlainRead,
               NoQuestion <- None, NoReading <- None

(* A handle that keeps readings answers as one that keeps nothing does:    *)
(* its steps are steps of LiveReads ...                                    *)
AnswersAsIfNothingKept == Live!LiveInit /\ [][Live!LiveNext]_(Live!liveVars)

(* ... and every question that is asked is answered.                      *)
AnswersLive == Live!LiveSpec
=============================================================================
