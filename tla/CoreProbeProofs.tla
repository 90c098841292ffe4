--------------------------- MODULE CoreProbeProofs ---------------------------
(***************************************************************************)
(* For any number of threads and builds: what read_core remembers is served *)
(* only to questions during which the core it speaks of stood at the path,   *)
(* as long as no two builds share their (mtime, size); and an empty reading  *)
(* is remembered only of a run that had to be killed.                        *)
(***************************************************************************)
EXTENDS CoreProbe, TLAPS

Distinct == \A r, s \in Revisions : KeyOf[r] = KeyOf[s] => r = s

(* Every key anyone holds is that of a build that has stood at the path. *)
KeyInv ==
  /\ file # Gone => file \in past
  /\ \A a \in Askers : key[a] # None => \E r \in past : key[a] = KeyOf[r]
  /\ \A k \in Keys : memo[k] # None => \E r \in past : k = KeyOf[r]

(* The line asker a's probe has printed so far, as far as anyone knows. *)
HasLine(a) == pc[a] \in {"wait", "keep"} /\ child[a] # None /\ child[a].line # None

(* Under the key of the build now at the path, only that build speaks. *)
CurrentInv ==
  file # Gone =>
    /\ \A a \in Askers : HasLine(a) /\ key[a] = KeyOf[file] => child[a].line.of = file
    /\ memo[KeyOf[file]] # None /\ memo[KeyOf[file]].line # None
         => memo[KeyOf[file]].line.of = file

(* What is about to be kept is what the probe printed; a probe not run has *)
(* printed nothing.                                                         *)
ResultInv ==
  \A a \in Askers :
    /\ pc[a] \notin {"wait", "keep"} => child[a] = None
    /\ pc[a] = "keep" /\ result[a].reading.line # None
         => child[a] # None /\ child[a].line = result[a].reading.line

SeenNow == \A a \in Askers : pc[a] # "idle" => file \in seen[a]

(* What one asker's probe says under the key another has just taken. *)
RaceInv ==
  \A a, b \in Askers :
    pc[a] = "lookup" /\ HasLine(b) /\ key[a] = key[b] => child[b].line.of \in seen[a]

PInv ==
  TypeOK /\ KeyInv /\ CurrentInv /\ ResultInv /\ SeenNow /\ RaceInv /\ MemoIsLive
-----------------------------------------------------------------------------
(* The reading of any build is a reading. *)
LEMMA ParseType ==
  ASSUME NEW line \in Lines \union {None}, NEW ended \in Endings
  PROVE  Parse(line, ended) \in Readings /\ Parse(line, ended).line = line
BY DEF Parse, Readings, Statuses

(* Types hold at the start ... *)
LEMMA ProbeTypeInit == Init => TypeOK
<1> SUFFICES ASSUME Init PROVE TypeOK
  OBVIOUS
<1>1. changes \in 0 .. MaxChanges
  BY ChangesAssumption DEF Init
<1> QED
  BY <1>1 DEF Init, TypeOK

(* ... and after every step of asker, child or machine. *)
LEMMA ProbeTypeStep == TypeOK /\ [Next]_vars => TypeOK'
<1> SUFFICES ASSUME TypeOK, [Next]_vars PROVE TypeOK'
  OBVIOUS
<1> USE CoreNamesAssumption DEF machine
<1>1. ASSUME Changes PROVE changes' \in 0 .. MaxChanges
  BY <1>1, ChangesAssumption DEF Changes, TypeOK
<1>2. CASE Deploy
  BY <1>1, <1>2 DEF Deploy, Changes, Stands, TypeOK
<1>3. CASE RemoveCore
  BY <1>1, <1>3 DEF RemoveCore, Changes, Stands, TypeOK
<1>4. CASE LibrariesChange
  BY <1>1, <1>4 DEF LibrariesChange, Changes, TypeOK
<1>5. CASE RegisterInterpreter
  BY <1>1, <1>5 DEF RegisterInterpreter, Changes, TypeOK
<1>6. ASSUME NEW a \in Askers, AskCore(a)
      PROVE  TypeOK'
  BY <1>6 DEF AskCore, TypeOK
<1>7. ASSUME NEW a \in Askers, ChildStep(a)
      PROVE  TypeOK'
  <2>1. child[a] \in Children /\ pc[a] = "wait"
    BY <1>7 DEF ChildStep, Refuse, PrintBase, PrintOptions, Exit, Crash, ProbeRuns, TypeOK
  <2>2. ASSUME NEW state \in Alive \union {"exited", "crashed"}, NEW line \in Lines \union {None},
               state = "loaded" => line \in Lines, ChildBecomes(a, state, line)
        PROVE  TypeOK'
    <3>1. /\ child' \in [Askers -> Children \union {None}]
          /\ child'[a] \in Children
          /\ child'[a].state = "loaded" => child'[a].line \in Lines
      BY <2>2 DEF ChildBecomes, TypeOK, Children
    <3> QED
      BY <2>2, <3>1 DEF ChildBecomes, TypeOK
  <2>3. CASE Refuse(a)
    <3>1. [says |-> "unloadable", of |-> file] \in Lines
      BY DEF TypeOK, Lines
    <3> QED
      BY <2>2, <2>3, <3>1 DEF Refuse, Alive
  <2>4. CASE PrintBase(a)
    <3>1. [says |-> "base", of |-> file] \in Lines
      BY DEF TypeOK, Lines
    <3> QED
      BY <2>2, <2>4, <3>1 DEF PrintBase, Alive
  <2>5. CASE PrintOptions(a)
    <3>1. child[a].line \in Lines
      BY <2>1, <2>5 DEF PrintOptions, ProbeRuns, TypeOK
    <3>2. [child[a].line EXCEPT !.says = "full"] \in Lines
      BY <3>1 DEF Lines
    <3> QED
      BY <2>2, <2>5, <3>2 DEF PrintOptions, Alive
  <2>6. CASE Exit(a) \/ Crash(a)
    BY <2>1, <2>2, <2>6 DEF Exit, Crash, Children
  <2> QED
    BY <1>7, <2>3, <2>4, <2>5, <2>6 DEF ChildStep
<1>8. ASSUME NEW a \in Askers, AskerStep(a)
      PROVE  TypeOK'
  <2>1. ASSUME NEW r \in Readings, Return(a, r), UNCHANGED killed,
               memo' \in [Keys -> Readings \union {None}]
        PROVE  TypeOK'
    BY <2>1 DEF Return, TypeOK
  <2>2. CASE Inaccessible(a)
    <3>1. NoReading("binary-inaccessible") \in Readings
      BY DEF NoReading, Readings, Statuses, Unasked
    <3> QED
      BY <2>1, <2>2, <3>1 DEF Inaccessible, TypeOK
  <2>3. CASE StatCore(a)
    <3>1. KeyOf[file] \in Keys
      BY <2>3 DEF StatCore, TypeOK, Keys
    <3> QED
      BY <2>3, <3>1 DEF StatCore, TypeOK
  <2>4. CASE Remembered(a)
    BY <2>1, <2>4 DEF Remembered, TypeOK
  <2>5. CASE MustProbe(a)
    BY <2>5 DEF MustProbe, TypeOK
  <2>6. ASSUME NEW r \in Readings, NEW k \in BOOLEAN, ProbeRead(a, r, k),
               pc[a] \in {"probe", "wait"}
        PROVE  TypeOK'
    BY <2>6 DEF ProbeRead, TypeOK, Results
  <2>7. CASE CannotStart(a)
    <3>1. NoReading("no-interpreter") \in Readings /\ NoReading("not-started") \in Readings
      BY DEF NoReading, Readings, Statuses, Unasked
    <3> QED
      BY <2>6, <2>7, <3>1 DEF CannotStart
  <2>8. CASE Spawn(a)
    <3>1. [state |-> "started", line |-> None] \in Children
      BY DEF Children, Alive
    <3> QED
      BY <2>8, <3>1 DEF Spawn, TypeOK
  <2>9. ASSUME pc[a] = "wait" PROVE child[a].line \in Lines \union {None}
    BY <2>9 DEF TypeOK, Children
  <2>10. CASE Collect(a)
    <3>1. \A e \in Endings : Parse(child[a].line, e) \in Readings
      BY <2>9, <2>10, ParseType DEF Collect, ProbeRuns
    <3> QED
      BY <2>6, <2>10, <3>1 DEF Collect, ProbeRuns, Endings
  <2>11. CASE TimeOut(a)
    <3>1. \A e \in Endings : Parse(child[a].line, e) \in Readings
      BY <2>9, <2>11, ParseType DEF TimeOut, ProbeRuns
    <3> QED
      BY <2>6, <2>11, <3>1 DEF TimeOut, ProbeRuns, Endings
  <2>12. CASE Keep(a)
    <3>1. result[a].reading \in Readings /\ key[a] \in Keys
      BY <2>12 DEF Keep, TypeOK, Results
    <3>2. memo' \in [Keys -> Readings \union {None}]
      BY <2>12, <3>1 DEF Keep, TypeOK
    <3> QED
      BY <2>1, <2>12, <3>1, <3>2 DEF Keep
  <2> QED
    BY <1>8, <2>2, <2>3, <2>4, <2>5, <2>7, <2>8, <2>10, <2>11, <2>12 DEF AskerStep
<1>9. CASE UNCHANGED vars
  BY <1>9 DEF vars, TypeOK
<1> QED
  BY <1>2, <1>3, <1>4, <1>5, <1>6, <1>7, <1>8, <1>9 DEF Next

(* The type invariant of CoreProbe. *)
THEOREM ProbeTypeCorrect == Spec => []TypeOK
BY ProbeTypeInit, ProbeTypeStep, PTL DEF Spec
-----------------------------------------------------------------------------
(* What is remembered speaks of a build of the question's own time.         *)
LEMMA ProbeInit == Init => PInv
<1> SUFFICES ASSUME Init PROVE PInv
  OBVIOUS
<1>1. TypeOK
  BY ProbeTypeInit
<1>2. \A k \in Keys : memo[k] = None
  BY DEF Init
<1>3. file # Gone => KeyOf[file] \in Keys
  BY DEF Init, Keys
<1> QED
  BY <1>1, <1>2, <1>3 DEF Init, PInv, KeyInv, CurrentInv, HasLine, ResultInv, SeenNow, RaceInv,
     MemoIsLive

(* The core is replaced or removed: a new build's key nobody holds yet. *)
LEMMA StandsKeeps ==
  ASSUME Distinct, PInv, TypeOK', NEW f, f = Gone \/ f \in Revisions \ past, Stands(f),
         UNCHANGED <<memo, killed, pc, key, child, result, answer>>
  PROVE  PInv'
<1> USE CoreNamesAssumption
<1>1. TypeOK /\ KeyInv /\ CurrentInv /\ ResultInv /\ SeenNow /\ RaceInv /\ MemoIsLive
  BY DEF PInv
<1>2. file' = f /\ past' = past \union ({f} \ {Gone})
  BY DEF Stands
<1>3. \A a \in Askers : pc[a] # "idle" => seen'[a] = seen[a] \union {f}
  BY <1>1 DEF Stands, TypeOK
<1>4. KeyInv'
  BY <1>1, <1>2 DEF KeyInv
<1>5. ASSUME f # Gone, NEW r \in past PROVE KeyOf[r] # KeyOf[f]
  BY <1>1, <1>5 DEF Distinct, TypeOK
<1>6. CurrentInv'
  <2> SUFFICES ASSUME f # Gone
               PROVE  /\ \A a \in Askers : HasLine(a) => key[a] # KeyOf[f]
                      /\ memo[KeyOf[f]] = None
    BY <1>2 DEF CurrentInv, HasLine
  <2>1. \A a \in Askers : HasLine(a) => key[a] # None
    BY <1>1 DEF HasLine, TypeOK
  <2>2. KeyOf[f] \in Keys
    BY <1>2 DEF Keys
  <2> QED
    BY <1>1, <1>5, <2>1, <2>2 DEF KeyInv
<1>7. ResultInv'
  BY <1>1 DEF ResultInv
<1>8. SeenNow'
  BY <1>2, <1>3 DEF SeenNow
<1>9. RaceInv' /\ MemoIsLive'
  BY <1>1, <1>3 DEF RaceInv, MemoIsLive, HasLine
<1> QED
  BY <1>4, <1>6, <1>7, <1>8, <1>9 DEF PInv

(* The child prints what it loads: the core now at the path. *)
LEMMA ChildKeeps ==
  ASSUME Distinct, PInv, TypeOK', NEW a \in Askers, ChildStep(a)
  PROVE  PInv'
<1> USE CoreNamesAssumption DEF machine
<1>1. TypeOK /\ KeyInv /\ CurrentInv /\ ResultInv /\ SeenNow /\ RaceInv /\ MemoIsLive
  BY DEF PInv
<1>2. PICK state, line :
        /\ ChildBecomes(a, state, line)
        /\ pc[a] = "wait"
        /\ line # None => \/ line.of = file
                          \/ child[a].line # None /\ line.of = child[a].line.of
  <2>1. CASE Refuse(a)
    BY <2>1 DEF Refuse, ProbeRuns
  <2>2. CASE PrintBase(a)
    BY <2>2 DEF PrintBase, ProbeRuns
  <2>3. CASE PrintOptions(a)
    <3>1. child[a].line \in Lines
      BY <1>1, <2>3 DEF PrintOptions, ProbeRuns, TypeOK
    <3>2. [child[a].line EXCEPT !.says = "full"].of = child[a].line.of
      BY <3>1 DEF Lines
    <3>3. child[a].line # None
      BY <2>3, <3>1 DEF PrintOptions, ProbeRuns
    <3> QED
      BY <2>3, <3>2, <3>3 DEF PrintOptions, ProbeRuns
  <2>4. CASE Exit(a) \/ Crash(a)
    BY <2>4 DEF Exit, Crash, ProbeRuns
  <2> QED
    BY <2>1, <2>2, <2>3, <2>4 DEF ChildStep
<1>3. /\ child' = [child EXCEPT ![a] = [state |-> state, line |-> line]]
      /\ UNCHANGED <<machine, memo, killed, pc, key, result, seen, answer>>
  BY <1>2 DEF ChildBecomes
<1>4. child[a] \in Children
  BY <1>1, <1>2 DEF TypeOK
<1>5. KeyInv' /\ SeenNow' /\ MemoIsLive'
  BY <1>1, <1>3 DEF KeyInv, SeenNow, MemoIsLive
<1>6. ResultInv'
  BY <1>1, <1>2, <1>3 DEF ResultInv, TypeOK
<1>7. CurrentInv'
  BY <1>1, <1>2, <1>3, <1>4 DEF CurrentInv, HasLine, TypeOK
<1>8. RaceInv'
  BY <1>1, <1>2, <1>3, <1>4 DEF RaceInv, SeenNow, HasLine, TypeOK
<1> QED
  BY <1>5, <1>6, <1>7, <1>8 DEF PInv

(* No step of an asker breaks the invariant. *)
LEMMA AskerKeeps ==
  ASSUME Distinct, PInv, TypeOK', NEW a \in Askers, AskCore(a) \/ AskerStep(a)
  PROVE  PInv'
<1> USE CoreNamesAssumption DEF machine
<1>1. TypeOK /\ KeyInv /\ CurrentInv /\ ResultInv /\ SeenNow /\ RaceInv /\ MemoIsLive
  BY DEF PInv
<1>2. CASE AskCore(a)
  BY <1>1, <1>2 DEF AskCore, PInv, TypeOK, KeyInv, CurrentInv, ResultInv, SeenNow, RaceInv,
     MemoIsLive, HasLine
<1>3. ASSUME NEW r, Return(a, r), memo' = memo
      PROVE  PInv'
  BY <1>1, <1>3 DEF Return, PInv, TypeOK, KeyInv, CurrentInv, ResultInv, SeenNow, RaceInv,
     MemoIsLive, HasLine
<1>4. CASE Inaccessible(a) \/ Remembered(a)
  BY <1>3, <1>4 DEF Inaccessible, Remembered
<1>5. CASE StatCore(a)
  <2>1. /\ pc' = [pc EXCEPT ![a] = "lookup"] /\ key' = [key EXCEPT ![a] = KeyOf[file]]
        /\ pc[a] = "stat" /\ file # Gone
        /\ UNCHANGED <<machine, memo, killed, child, result, seen, answer>>
    BY <1>5 DEF StatCore
  <2>2. file \in past /\ file \in seen[a]
    BY <1>1, <2>1 DEF KeyInv, SeenNow
  <2>3. KeyInv'
    BY <1>1, <2>1, <2>2 DEF KeyInv, TypeOK
  <2>4. CurrentInv' /\ ResultInv' /\ SeenNow'
    BY <1>1, <2>1 DEF CurrentInv, ResultInv, SeenNow, HasLine, TypeOK
  <2>5. RaceInv'
    BY <1>1, <2>1, <2>2 DEF CurrentInv, RaceInv, HasLine, TypeOK
  <2>6. MemoIsLive'
    BY <1>1, <2>1, <2>2 DEF CurrentInv, MemoIsLive, TypeOK
  <2> QED
    BY <2>3, <2>4, <2>5, <2>6 DEF PInv
<1>6. CASE MustProbe(a)
  BY <1>1, <1>6 DEF MustProbe, PInv, TypeOK, KeyInv, CurrentInv, ResultInv, SeenNow, RaceInv,
     MemoIsLive, HasLine
<1>7. CASE Spawn(a)
  BY <1>1, <1>7 DEF Spawn, PInv, TypeOK, KeyInv, CurrentInv, ResultInv, SeenNow, RaceInv,
     MemoIsLive, HasLine
<1>8. ASSUME NEW r, NEW k \in BOOLEAN, ProbeRead(a, r, k),
             pc[a] = "wait" \/ (pc[a] = "probe" /\ child[a] = None),
             r.line # None => child[a] # None /\ child[a].line = r.line
      PROVE  PInv'
  <2>1. /\ result' = [result EXCEPT ![a] = [reading |-> r, killed |-> k]]
        /\ pc' = [pc EXCEPT ![a] = "keep"]
        /\ UNCHANGED <<machine, memo, key, child, seen, answer>>
    BY <1>8 DEF ProbeRead
  <2>2. result'[a].reading = r /\ pc'[a] = "keep"
    BY <1>1, <2>1 DEF TypeOK
  <2>3. \A b \in Askers : b # a => result'[b] = result[b] /\ pc'[b] = pc[b]
    BY <1>1, <2>1 DEF TypeOK
  <2>4. \A b \in Askers : HasLine(b)' => HasLine(b)
    BY <1>8, <2>1, <2>3 DEF HasLine
  <2>5. KeyInv' /\ CurrentInv'
    BY <1>1, <2>1, <2>4 DEF KeyInv, CurrentInv
  <2>6. ResultInv'
    BY <1>1, <1>8, <2>1, <2>2, <2>3 DEF ResultInv
  <2>7. pc[a] # "idle"
    BY <1>8
  <2>8. SeenNow' /\ RaceInv' /\ MemoIsLive'
    BY <1>1, <2>1, <2>2, <2>3, <2>4, <2>7 DEF SeenNow, RaceInv, MemoIsLive
  <2> QED
    BY <2>5, <2>6, <2>8 DEF PInv
<1>9. CASE CannotStart(a)
  <2>1. pc[a] = "probe" /\ child[a] = None
    BY <1>1, <1>9 DEF CannotStart, ResultInv
  <2>2. NoReading("no-interpreter").line = None /\ NoReading("not-started").line = None
    BY DEF NoReading
  <2> QED
    BY <1>8, <1>9, <2>1, <2>2 DEF CannotStart
<1>10. CASE Collect(a) \/ TimeOut(a)
  <2>1. pc[a] = "wait"
    BY <1>10 DEF Collect, TimeOut, ProbeRuns
  <2>2. child[a] # None
    BY <1>1, <2>1 DEF TypeOK
  <2>3. ASSUME NEW e, NEW q \in BOOLEAN, ProbeRead(a, Parse(child[a].line, e), q)
        PROVE  PInv'
    <3>1. Parse(child[a].line, e).line # None
             => child[a] # None /\ child[a].line = Parse(child[a].line, e).line
      BY <2>2 DEF Parse
    <3>2. pc[a] = "wait" \/ (pc[a] = "probe" /\ child[a] = None)
      BY <2>1
    <3> QED
      BY <1>8, <2>3, <3>1, <3>2
  <2>4. CASE Collect(a)
    BY <2>3, <2>4 DEF Collect
  <2>5. CASE TimeOut(a)
    BY <2>3, <2>5 DEF TimeOut
  <2> QED
    BY <1>10, <2>4, <2>5
<1>11. CASE Keep(a)
  <2> DEFINE reading == result[a].reading
  <2>1. /\ pc[a] = "keep" /\ key[a] \in Keys
        /\ pc' = [pc EXCEPT ![a] = "idle"] /\ key' = [key EXCEPT ![a] = None]
        /\ child' = [child EXCEPT ![a] = None] /\ result' = [result EXCEPT ![a] = None]
        /\ seen' = [seen EXCEPT ![a] = {}]
        /\ UNCHANGED machine
        /\ memo' \in {memo, [memo EXCEPT ![key[a]] = reading]}
    BY <1>1, <1>11 DEF Keep, Return, TypeOK
  <2>2. reading.line # None => HasLine(a) /\ child[a].line = reading.line
    BY <1>1, <2>1 DEF ResultInv, HasLine
  <2> HIDE DEF reading
  <2>3. KeyInv'
    BY <1>1, <2>1 DEF KeyInv, TypeOK
  <2>4. \A b \in Askers : HasLine(b)' => b # a /\ HasLine(b)
    BY <1>1, <2>1 DEF HasLine, TypeOK
  <2>5. CurrentInv'
    BY <1>1, <2>1, <2>2, <2>4 DEF CurrentInv, TypeOK, Keys
  <2>6. ResultInv' /\ SeenNow'
    BY <1>1, <2>1 DEF ResultInv, SeenNow, TypeOK
  <2>7. RaceInv'
    BY <1>1, <2>1, <2>4 DEF RaceInv, TypeOK
  <2>8. MemoIsLive'
    BY <1>1, <2>1, <2>2 DEF MemoIsLive, RaceInv, TypeOK
  <2> QED
    BY <2>3, <2>5, <2>6, <2>7, <2>8 DEF PInv
<1> QED
  BY <1>2, <1>4, <1>5, <1>6, <1>7, <1>9, <1>10, <1>11 DEF AskerStep

(* No step of anyone does. *)
LEMMA ProbeStep == Distinct /\ PInv /\ [Next]_vars => PInv'
<1> SUFFICES ASSUME Distinct, PInv, [Next]_vars PROVE PInv'
  OBVIOUS
<1>1. TypeOK /\ TypeOK'
  BY ProbeTypeStep DEF PInv
<1>2. CASE Deploy
  <2>1. PICK r \in Revisions \ past : Stands(r)
    BY <1>2 DEF Deploy
  <2> QED
    BY <1>1, <1>2, <2>1, StandsKeeps DEF Deploy, Changes
<1>3. CASE RemoveCore
  BY <1>1, <1>3, StandsKeeps DEF RemoveCore, Changes
<1>4. CASE LibrariesChange \/ RegisterInterpreter
  BY <1>1, <1>4 DEF LibrariesChange, RegisterInterpreter, Changes, PInv, KeyInv, CurrentInv,
     ResultInv, SeenNow, RaceInv, MemoIsLive, HasLine
<1>5. CASE UNCHANGED vars
  BY <1>1, <1>5 DEF vars, machine, PInv, KeyInv, CurrentInv, ResultInv, SeenNow, RaceInv,
     MemoIsLive, HasLine
<1> QED
  BY <1>1, <1>2, <1>3, <1>4, <1>5, ChildKeeps, AskerKeeps DEF Next

(* A remembered reading is never of a core replaced before the question.    *)
THEOREM RememberedIsLive ==
  ASSUME Distinct
  PROVE  Spec => []MemoIsLive
<1>1. Init => PInv
  BY ProbeInit
<1>2. PInv /\ [Next]_vars => PInv'
  BY ProbeStep
<1>3. PInv => MemoIsLive
  BY DEF PInv
<1> QED
  BY <1>1, <1>2, <1>3, PTL DEF Spec
-----------------------------------------------------------------------------
(* An empty reading is remembered of a killed run only. *)
KilledInv ==
  /\ OnlyAKilledRunIsRememberedUnanswered
  /\ \A a \in Askers : pc[a] = "keep" /\ result[a].killed => key[a] \in killed

(* Nobody has killed a child at the start ... *)
LEMMA KilledInit == Init => KilledInv
BY DEF Init, KilledInv, OnlyAKilledRunIsRememberedUnanswered

(* ... and a step remembers an unanswered run only of a killed child. *)
LEMMA KilledStep == TypeOK /\ KilledInv /\ [Next]_vars => KilledInv'
<1> SUFFICES ASSUME TypeOK, KilledInv, [Next]_vars PROVE KilledInv'
  OBVIOUS
<1> USE DEF machine, OnlyAKilledRunIsRememberedUnanswered
<1>1. CASE Deploy \/ RemoveCore \/ LibrariesChange \/ RegisterInterpreter
  BY <1>1 DEF Deploy, RemoveCore, LibrariesChange, RegisterInterpreter, Changes, KilledInv
<1>2. ASSUME NEW a \in Askers, AskCore(a) \/ ChildStep(a)
      PROVE  KilledInv'
  BY <1>2 DEF AskCore, ChildStep, Refuse, PrintBase, PrintOptions, Exit, Crash, ChildBecomes,
              KilledInv, TypeOK
<1>3. ASSUME NEW a \in Askers, AskerStep(a)
      PROVE  KilledInv'
  <2>1. CASE Inaccessible(a) \/ StatCore(a) \/ Remembered(a) \/ MustProbe(a) \/ Spawn(a)
    BY <2>1 DEF Inaccessible, StatCore, Remembered, MustProbe, Spawn, Return, KilledInv, TypeOK
  <2>2. ASSUME NEW r, NEW k \in BOOLEAN, ProbeRead(a, r, k)
        PROVE  KilledInv'
    <3>1. /\ result' = [result EXCEPT ![a] = [reading |-> r, killed |-> k]]
          /\ pc' = [pc EXCEPT ![a] = "keep"]
          /\ killed' = IF k THEN killed \union {key[a]} ELSE killed
          /\ UNCHANGED <<memo, key>>
      BY <2>2 DEF ProbeRead
    <3>2. result'[a].killed = k
      BY <3>1 DEF TypeOK
    <3>3. \A b \in Askers : b # a => result'[b] = result[b] /\ pc'[b] = pc[b]
      BY <3>1 DEF TypeOK
    <3> QED
      BY <3>1, <3>2, <3>3 DEF KilledInv
  <2>3. CASE CannotStart(a) \/ Collect(a) \/ TimeOut(a)
    BY <2>2, <2>3 DEF CannotStart, Collect, TimeOut
  <2>4. CASE Keep(a)
    <3>1. /\ pc[a] = "keep" /\ key[a] \in Keys /\ killed' = killed
          /\ pc' = [pc EXCEPT ![a] = "idle"] /\ key' = [key EXCEPT ![a] = None]
          /\ result' = [result EXCEPT ![a] = None]
          /\ \/ memo' = memo
             \/ /\ memo' = [memo EXCEPT ![key[a]] = result[a].reading]
                /\ result[a].reading.status = "answered" \/ result[a].killed
      BY <2>4 DEF Keep, Return, TypeOK
    <3> QED
      BY <3>1 DEF KilledInv, TypeOK
  <2> QED
    BY <1>3, <2>1, <2>3, <2>4 DEF AskerStep
<1>4. CASE UNCHANGED vars
  BY <1>4 DEF vars, KilledInv
<1> QED
  BY <1>1, <1>2, <1>3, <1>4 DEF Next

(* What could be different by the next question is asked again (read_core). *)
THEOREM AskedAgain == Spec => []OnlyAKilledRunIsRememberedUnanswered
<1>1. KilledInv => OnlyAKilledRunIsRememberedUnanswered
  BY DEF KilledInv
<1> QED
  BY <1>1, KilledInit, KilledStep, ProbeTypeCorrect, PTL DEF Spec
-----------------------------------------------------------------------------
(* A probe has a child while it runs and until its reading is kept, and the *)
(* reading is what that child printed.                                      *)
PrintedInv ==
  /\ \A a \in Askers : pc[a] \notin {"wait", "keep"} => child[a] = None
  /\ PrintedAnswerStands

LEMMA PrintedStep == TypeOK /\ PrintedInv /\ [Next]_vars => PrintedInv'
<1> SUFFICES ASSUME TypeOK, PrintedInv, [Next]_vars PROVE PrintedInv'
  OBVIOUS
<1> USE DEF machine, PrintedInv, PrintedAnswerStands
<1>1. CASE Deploy \/ RemoveCore \/ LibrariesChange \/ RegisterInterpreter
  BY <1>1 DEF Deploy, RemoveCore, LibrariesChange, RegisterInterpreter, Changes
<1>2. ASSUME NEW a \in Askers, AskCore(a) \/ ChildStep(a)
      PROVE  PrintedInv'
  <2>1. CASE AskCore(a)
    BY <2>1 DEF AskCore, TypeOK
  <2>2. ASSUME NEW state, NEW line, pc[a] = "wait", ChildBecomes(a, state, line)
        PROVE  PrintedInv'
    BY <2>2 DEF ChildBecomes, TypeOK
  <2>3. CASE ChildStep(a)
    BY <2>2, <2>3 DEF ChildStep, Refuse, PrintBase, PrintOptions, Exit, Crash, ProbeRuns
  <2> QED
    BY <1>2, <2>1, <2>3
<1>3. ASSUME NEW a \in Askers, AskerStep(a)
      PROVE  PrintedInv'
  <2>1. CASE Inaccessible(a) \/ StatCore(a) \/ Remembered(a) \/ MustProbe(a) \/ Spawn(a) \/ Keep(a)
    BY <2>1 DEF Inaccessible, StatCore, Remembered, MustProbe, Spawn, Keep, Return, TypeOK
  <2>2. CASE CannotStart(a)
    BY <2>2 DEF CannotStart, ProbeRead, TypeOK
  <2>3. ASSUME NEW ended, NEW k, pc[a] = "wait", ProbeRead(a, Parse(child[a].line, ended), k)
        PROVE  PrintedInv'
    <3>1. /\ pc' = [pc EXCEPT ![a] = "keep"]
          /\ result' = [result EXCEPT ![a] = [reading |-> Parse(child[a].line, ended), killed |-> k]]
          /\ child' = child
      BY <2>3 DEF ProbeRead
    <3>2. result'[a].reading = Parse(child[a].line, ended)
      BY <3>1 DEF TypeOK
    <3>3. \A b \in Askers : b # a => result'[b] = result[b] /\ pc'[b] = pc[b]
      BY <3>1 DEF TypeOK
    <3>4. pc'[a] = "keep"
      BY <3>1 DEF TypeOK
    <3> QED
      BY <2>3, <3>1, <3>2, <3>3, <3>4 DEF Parse
  <2>4. CASE Collect(a) \/ TimeOut(a)
    BY <2>3, <2>4 DEF Collect, TimeOut, ProbeRuns
  <2> QED
    BY <1>3, <2>1, <2>2, <2>4 DEF AskerStep
<1>4. CASE UNCHANGED vars
  BY <1>4 DEF vars
<1> QED
  BY <1>1, <1>2, <1>3, <1>4 DEF Next

(* What a core printed before it crashed, hung or exited is what read_core  *)
(* answers, for any number of threads and builds, colliding keys included.  *)
THEOREM PrintedStands == Spec => []PrintedAnswerStands
<1>1. Init => PrintedInv
  BY DEF Init, PrintedInv, PrintedAnswerStands
<1>2. PrintedInv => PrintedAnswerStands
  BY DEF PrintedInv
<1> QED
  BY <1>1, <1>2, PrintedStep, ProbeTypeCorrect, PTL DEF Spec
-----------------------------------------------------------------------------
(* One thread asks: nothing is remembered under a key while its probe runs. *)
Alone == \A a, b \in Askers : a = b

Pending(k) == \E a \in Askers : pc[a] = "keep" /\ key[a] = k /\ result[a].killed

AloneInv ==
  /\ \A a \in Askers : pc[a] \in {"probe", "wait", "keep"} => memo[key[a]] = None
  /\ \A k \in killed : memo[k] # None \/ Pending(k)

LEMMA AloneStep ==
  ASSUME Alone, TypeOK, AloneInv, [Next]_vars
  PROVE  /\ AloneInv'
         /\ [\A k \in Keys : memo[k] # None /\ memo[k].status = "answered"
               => memo'[k] # None /\ memo'[k].status = "answered"]_vars
<1> DEFINE Stays == \A k \in Keys : memo[k] # None /\ memo[k].status = "answered"
                      => memo'[k] # None /\ memo'[k].status = "answered"
<1> USE DEF machine, AloneInv, Pending
<1>1. CASE Deploy \/ RemoveCore \/ LibrariesChange \/ RegisterInterpreter
  BY <1>1 DEF Deploy, RemoveCore, LibrariesChange, RegisterInterpreter, Changes
<1>2. ASSUME NEW a \in Askers, AskCore(a) \/ ChildStep(a)
      PROVE  AloneInv' /\ Stays
  BY <1>2 DEF AskCore, ChildStep, Refuse, PrintBase, PrintOptions, Exit, Crash, ChildBecomes, TypeOK
<1>3. ASSUME NEW a \in Askers, AskerStep(a)
      PROVE  AloneInv' /\ Stays
  <2> \A b \in Askers : b = a
    BY DEF Alone
  <2>1. CASE Inaccessible(a) \/ StatCore(a) \/ Remembered(a) \/ MustProbe(a) \/ Spawn(a)
    BY <2>1 DEF Inaccessible, StatCore, Remembered, MustProbe, Spawn, Return, TypeOK
  <2>2. ASSUME NEW r, NEW k \in BOOLEAN, pc[a] \in {"probe", "wait"}, ProbeRead(a, r, k)
        PROVE  AloneInv' /\ Stays
    <3>1. /\ result' = [result EXCEPT ![a] = [reading |-> r, killed |-> k]]
          /\ pc' = [pc EXCEPT ![a] = "keep"]
          /\ killed' = IF k THEN killed \union {key[a]} ELSE killed
          /\ UNCHANGED <<memo, key>>
      BY <2>2 DEF ProbeRead
    <3>2. pc'[a] = "keep" /\ result'[a].killed = k
      BY <3>1 DEF TypeOK
    <3>3. \A j \in killed : memo[j] # None
      BY <2>2
    <3> QED
      BY <2>2, <3>1, <3>2, <3>3
  <2>3. CASE CannotStart(a) \/ Collect(a) \/ TimeOut(a)
    BY <2>2, <2>3 DEF CannotStart, Collect, TimeOut, ProbeRuns
  <2>4. CASE Keep(a)
    <3>1. /\ pc[a] = "keep" /\ key[a] \in Keys /\ killed' = killed
          /\ pc' = [pc EXCEPT ![a] = "idle"]
          /\ memo' = IF result[a].reading.status = "answered" \/ result[a].killed
                     THEN [memo EXCEPT ![key[a]] = result[a].reading]
                     ELSE memo
      BY <2>4 DEF Keep, Return, TypeOK
    <3>2. memo[key[a]] = None
      BY <3>1
    <3>3. result[a].reading # None
      BY <3>1, CoreNamesAssumption DEF TypeOK, Results
    <3>4. pc'[a] = "idle"
      BY <3>1 DEF TypeOK
    <3>5. \A k \in Keys : memo[k] # None => memo'[k] = memo[k]
      BY <3>1, <3>2 DEF TypeOK
    <3>6. result[a].killed => memo'[key[a]] # None
      BY <3>1, <3>3 DEF TypeOK
    <3>7. killed \subseteq Keys
      BY DEF TypeOK
    <3> QED
      BY <3>1, <3>4, <3>5, <3>6, <3>7
  <2> QED
    BY <1>3, <2>1, <2>3, <2>4 DEF AskerStep
<1>4. CASE UNCHANGED vars
  BY <1>4 DEF vars
<1> QED
  BY <1>1, <1>2, <1>3, <1>4 DEF Next

LEMMA AloneInit == Init => AloneInv
BY DEF Init, AloneInv

(* With one thread the wait for a hung core is paid once: a key under which *)
(* a run was killed is never probed again (read_core).                      *)
THEOREM PaidOnce ==
  ASSUME Alone
  PROVE  Spec => []TheTimeoutIsPaidOnce
<1>1. TypeOK /\ AloneInv => TheTimeoutIsPaidOnce
  BY DEF Alone, TypeOK, AloneInv, Pending, TheTimeoutIsPaidOnce
<1>2. TypeOK /\ AloneInv /\ [Next]_vars => AloneInv'
  BY AloneStep
<1> QED
  BY <1>1, <1>2, AloneInit, ProbeTypeCorrect, PTL DEF Spec

(* ... and a core that has answered stays answered.                         *)
THEOREM AnswersKept ==
  ASSUME Alone
  PROVE  Spec => AnAnswerIsMemoized
<1>1. TypeOK /\ AloneInv /\ [Next]_vars => AloneInv'
  BY AloneStep
<1>2. TypeOK /\ AloneInv /\ [Next]_vars =>
        [\A k \in Keys : memo[k] # None /\ memo[k].status = "answered"
           => memo'[k] # None /\ memo'[k].status = "answered"]_vars
  BY AloneStep
<1> QED
  BY <1>1, <1>2, AloneInit, ProbeTypeCorrect, PTL DEF Spec, AnAnswerIsMemoized
=============================================================================
