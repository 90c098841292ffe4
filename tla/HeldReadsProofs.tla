--------------------------- MODULE HeldReadsProofs ---------------------------
(***************************************************************************)
(* For any number of threads and files: a handle's find-rules memories     *)
(* answer as if nothing were kept, as long as no two files share a stat    *)
(* identity and no earlier file takes the path again.                      *)
(***************************************************************************)
EXTENDS HeldReads, TLAPS

(* The condition the memories are sound under. *)
Sound ==
  /\ Holds \subseteq {"rules", "embedded"}
  /\ Events \subseteq {"replace", "remove", "hide", "codec"}
  /\ \A r, s \in Revisions : StampOf[r] = StampOf[s] => r = s

Ok(r) == [status |-> "ok", rev |-> r]

(* The machine as those events leave it. *)
WorldInv ==
  /\ world.access \in {"open", "hidden"}
  /\ world.rev # Gone => world.rev \in past

(* Every stamp anyone holds is that of a file that has stood at the path. *)
StampInv ==
  /\ \A a \in Askers : stamp[a] # None => \E r \in past : stamp[a] = StampOf[r]
  /\ \A h \in Holds : held[h] # None => \E r \in past : held[h].stamp = StampOf[r]

(* What is held under the stamp of the file now at the path is its reading. *)
HeldInv ==
  \A h \in Holds : held[h] # None =>
    /\ held[h].reading.status = "ok"
    /\ h = "embedded" => world.codec
    /\ world.rev # Gone /\ held[h].stamp = StampOf[world.rev] => held[h].reading = Ok(world.rev)

(* ... and so is what an asker read under that stamp and has yet to keep. *)
GotInv ==
  \A a \in Askers : pc[a] = "keep" =>
    /\ got[a] \in seen[a]
    /\ got[a].status = "ok" =>
         /\ asked[a] = "embedded" => world.codec
         /\ world.rev # Gone /\ stamp[a] = StampOf[world.rev] => got[a] = Ok(world.rev)

SeenInv == \A a \in Askers : asked[a] # None => PlainRead(asked[a], world) \in seen[a]

(* What one asker is about to keep under the stamp another has just taken. *)
RaceInv ==
  \A a, b \in Askers :
    /\ pc[a] = "lookup"
    /\ pc[b] = "keep"
    /\ asked[a] = asked[b]
    /\ stamp[a] # None
    /\ stamp[a] = stamp[b]
    /\ got[b].status = "ok"
    => got[b] \in seen[a]

IInv ==
  TypeOK /\ WorldInv /\ StampInv /\ HeldInv /\ GotInv /\ SeenInv /\ RaceInv /\ HitsAreLive
-----------------------------------------------------------------------------
(* A plain read comes to one of the readings. *)
LEMMA PlainReadType ==
  ASSUME NEW h \in Holds, NEW w \in Worlds
  PROVE  PlainRead(h, w) \in Readings
BY DEF PlainRead, Failed, Readings, Statuses, Worlds

(* A read that came to something read the file then at the path. *)
LEMMA PlainReadOk ==
  ASSUME NEW h, NEW w \in Worlds, PlainRead(h, w).status = "ok"
  PROVE  w.rev # Gone /\ PlainRead(h, w) = Ok(w.rev) /\ (h = "embedded" => w.codec)
BY DEF PlainRead, Failed, Worlds, Ok

(* A file with a stamp is read, where the codec is not what lacks. *)
LEMMA StampedReads ==
  ASSUME NEW h \in {"rules", "embedded"}, NEW w \in Worlds,
         w.access \in {"open", "hidden"}, FileStamp(w) # None,
         h = "embedded" => w.codec
  PROVE  w.rev # Gone /\ FileStamp(w) = StampOf[w.rev] /\ PlainRead(h, w) = Ok(w.rev)
BY DEF PlainRead, FileStamp, Failed, Worlds, Ok

(* What the machine can become. *)
LEMMA NextWorld ==
  ASSUME Sound, TypeOK, WorldInv, ChangeMachine
  PROVE  /\ world' \in Worlds
         /\ world'.access \in {"open", "hidden"}
         /\ world'.rev \in {world.rev, Gone} \/ world'.rev \in Revisions \ past
         /\ world.codec => world'.codec
<1>1. world \in Worlds
  BY DEF TypeOK
<1>2. CASE Replace
  BY <1>1, <1>2 DEF Replace, MachineBecomes, Worlds, WorldInv, Accesses
<1>3. CASE Remove
  BY <1>1, <1>3 DEF Remove, MachineBecomes, Worlds, WorldInv, Accesses
<1>4. CASE Hide
  BY <1>1, <1>4 DEF Hide, MachineBecomes, Worlds, WorldInv, Accesses
<1>5. CASE RegisterCodec
  BY <1>1, <1>5 DEF RegisterCodec, MachineBecomes, Worlds, WorldInv, Accesses
<1>6. ~(Rollback \/ Chmod \/ ForgetCodec)
  BY DEF Sound, Rollback, Chmod, ForgetCodec, MachineBecomes
<1> QED
  BY <1>2, <1>3, <1>4, <1>5, <1>6 DEF ChangeMachine
-----------------------------------------------------------------------------
(* Type correctness, whatever is held and whatever happens. *)
LEMMA TypeInit == Init => TypeOK
<1> SUFFICES ASSUME Init PROVE TypeOK
  OBVIOUS
<1>1. world \in Worlds /\ past \subseteq Revisions
  BY DEF Init, Worlds, Accesses
<1>2. changes \in 0 .. MaxChanges
  BY BoundAssumption DEF Init
<1> QED
  BY <1>1, <1>2 DEF Init, TypeOK

(* Every step of an asker or of the machine keeps the types. *)
LEMMA TypeStep == TypeOK /\ [Next]_vars => TypeOK'
<1> SUFFICES ASSUME TypeOK, [Next]_vars PROVE TypeOK'
  OBVIOUS
<1> USE NamesAssumption, HoldsAssumption
<1> DEFINE Stamps == {StampOf[r] : r \in Revisions}
<1>1. \A h \in Holds, w \in Worlds : PlainRead(h, w) \in Readings
  BY PlainReadType
<1>2. ASSUME ChangeMachine, NEW event, NEW w \in Worlds, MachineBecomes(event, w)
      PROVE  TypeOK'
  <2>1. world' \in Worlds /\ past' \subseteq Revisions
    BY <1>2 DEF MachineBecomes, TypeOK, Worlds
  <2>2. changes' \in 0 .. MaxChanges
    BY <1>2, BoundAssumption DEF ChangeMachine, TypeOK
  <2>3. seen' \in [Askers -> SUBSET Readings]
    BY <1>1, <1>2 DEF MachineBecomes, TypeOK
  <2>4. UNCHANGED <<asked, pc, stamp, got, held, answer>>
    BY <1>2 DEF ChangeMachine
  <2> QED
    BY <2>1, <2>2, <2>3, <2>4 DEF TypeOK
<1>3. CASE ChangeMachine
  <2>1. world \in Worlds /\ past \subseteq Revisions
    BY DEF TypeOK
  <2>2. CASE Replace
    BY <1>2, <1>3, <2>1, <2>2 DEF Replace, Worlds
  <2>3. CASE Rollback
    BY <1>2, <1>3, <2>1, <2>3 DEF Rollback, Worlds
  <2>4. CASE Remove
    BY <1>2, <1>3, <2>1, <2>4 DEF Remove, Worlds
  <2>5. CASE Hide
    BY <1>2, <1>3, <2>1, <2>5 DEF Hide, Worlds, Accesses
  <2>6. CASE Chmod
    BY <1>2, <1>3, <2>1, <2>6 DEF Chmod, Worlds, Accesses
  <2>7. CASE RegisterCodec
    BY <1>2, <1>3, <2>1, <2>7 DEF RegisterCodec, Worlds
  <2>8. CASE ForgetCodec
    BY <1>2, <1>3, <2>1, <2>8 DEF ForgetCodec, Worlds
  <2> QED
    BY <1>3, <2>2, <2>3, <2>4, <2>5, <2>6, <2>7, <2>8 DEF ChangeMachine
<1>4. ASSUME NEW a \in Askers, NEW h \in Holds, Ask(a, h)
      PROVE  TypeOK'
  <2>1. PlainRead(h, world) \in Readings
    BY <1>1 DEF TypeOK
  <2> QED
    BY <1>4, <2>1 DEF Ask, TypeOK
<1>5. ASSUME NEW a \in Askers, AskerStep(a)
      PROVE  TypeOK'
  <2>1. CASE Stat(a)
    <3>1. FileStamp(world) \in Stamps \union {None}
      BY DEF FileStamp, TypeOK, Worlds
    <3> QED
      BY <2>1, <3>1 DEF Stat, TypeOK
  <2>2. ASSUME NEW r \in Readings, Return(a, r), held' = held, UNCHANGED <<world, past, changes>>
        PROVE  TypeOK'
    BY <2>2 DEF Return, TypeOK
  <2>3. CASE ServeHeld(a)
    BY <2>2, <2>3 DEF ServeHeld, Hit, TypeOK
  <2>4. CASE Miss(a)
    BY <2>4 DEF Miss, TypeOK
  <2>5. CASE ReadFile(a)
    <3>1. PlainRead(asked[a], world) \in Readings
      BY <1>1, <2>5 DEF ReadFile, TypeOK
    <3> QED
      BY <2>5, <3>1 DEF ReadFile, TypeOK
  <2>6. ASSUME pc[a] = "keep", Return(a, got[a]), UNCHANGED <<world, past, changes>>,
               held' \in [Holds -> [stamp : Stamps, reading : Readings] \union {None}]
        PROVE  TypeOK'
    BY <2>6 DEF Return, TypeOK
  <2>7. ASSUME pc[a] = "keep", stamp[a] # None
        PROVE  Kept(a) \in [stamp : Stamps, reading : Readings]
    BY <2>7 DEF Kept, TypeOK
  <2>8. CASE KeepParse(a)
    BY <2>6, <2>7, <2>8 DEF KeepParse, TypeOK
  <2>9. CASE KeepDigest(a)
    BY <2>6, <2>7, <2>9 DEF KeepDigest, TypeOK
  <2>10. CASE KeepBuild(a)
    BY <2>6, <2>7, <2>10 DEF KeepBuild, TypeOK
  <2> QED
    BY <1>5, <2>1, <2>3, <2>4, <2>5, <2>8, <2>9, <2>10 DEF AskerStep
<1>6. CASE UNCHANGED vars
  BY <1>6 DEF vars, TypeOK
<1> QED
  BY <1>3, <1>4, <1>5, <1>6 DEF Next

(* Every state is one the program can be in: the type invariant of HeldReads. *)
THEOREM TypeCorrect == Spec => []TypeOK
BY TypeInit, TypeStep, PTL DEF Spec
-----------------------------------------------------------------------------
(* The inductive invariant. *)
LEMMA IInvInit == Init => IInv
<1> SUFFICES ASSUME Init PROVE IInv
  OBVIOUS
<1>1. TypeOK
  BY TypeInit
<1>2. world.access = "open" /\ past = {world.rev}
  BY DEF Init
<1> QED
  BY <1>1, <1>2 DEF Init, IInv, WorldInv, StampInv, HeldInv, GotInv, SeenInv, RaceInv, HitsAreLive

(* The machine changes: a file new to the path has a stamp nobody holds. *)
LEMMA ChangeKeepsIInv ==
  ASSUME Sound, IInv, ChangeMachine
  PROVE  IInv'
<1> USE NamesAssumption
<1>1. TypeOK /\ WorldInv /\ StampInv /\ HeldInv /\ GotInv /\ SeenInv /\ RaceInv /\ HitsAreLive
  BY DEF IInv
<1>2. /\ world' \in Worlds
      /\ world'.access \in {"open", "hidden"}
      /\ world'.rev \in {world.rev, Gone} \/ world'.rev \in Revisions \ past
      /\ world.codec => world'.codec
  BY <1>1, NextWorld
<1>3. /\ past' = past \union ({world'.rev} \ {Gone})
      /\ seen' = [a \in Askers |->
                    IF asked[a] = None THEN {} ELSE seen[a] \union {PlainRead(asked[a], world')}]
      /\ UNCHANGED <<asked, pc, stamp, got, held, answer>>
  BY DEF ChangeMachine, Replace, Rollback, Remove, Hide, Chmod, RegisterCodec, ForgetCodec,
         MachineBecomes
<1>4. TypeOK'
  BY <1>1, TypeStep DEF Next
<1>5. WorldInv'
  BY <1>1, <1>2, <1>3 DEF WorldInv
<1>6. StampInv'
  BY <1>1, <1>3 DEF StampInv
<1>7. ASSUME NEW r \in past, world'.rev # Gone, StampOf[r] = StampOf[world'.rev]
      PROVE  world'.rev = world.rev
  BY <1>1, <1>2, <1>7 DEF Sound, TypeOK, Worlds
<1>8. HeldInv'
  BY <1>1, <1>2, <1>3, <1>7 DEF HeldInv, StampInv
<1>9. \A a \in Askers : asked[a] # None => seen[a] \subseteq seen'[a]
  BY <1>1, <1>3 DEF TypeOK
<1>10. \A a \in Askers : pc[a] # "idle" => asked[a] # None
  BY <1>1 DEF TypeOK
<1>11. GotInv'
  <2> SUFFICES ASSUME NEW a \in Askers, pc[a] = "keep"
               PROVE  /\ got[a] \in seen'[a]
                      /\ got[a].status = "ok" =>
                           /\ asked[a] = "embedded" => world'.codec
                           /\ world'.rev # Gone /\ stamp[a] = StampOf[world'.rev]
                                => got[a] = Ok(world'.rev)
    BY <1>3 DEF GotInv
  <2>1. got[a] \in seen'[a]
    BY <1>1, <1>9, <1>10 DEF GotInv
  <2>2. ASSUME got[a].status = "ok", world'.rev # Gone, stamp[a] = StampOf[world'.rev]
        PROVE  got[a] = Ok(world'.rev)
    <3>1. stamp[a] # None
      BY <1>2, <2>2 DEF Worlds
    <3>2. PICK r \in past : stamp[a] = StampOf[r]
      BY <1>1, <3>1 DEF StampInv
    <3>3. world'.rev = world.rev
      BY <1>7, <2>2, <3>2
    <3> QED
      BY <1>1, <2>2, <3>3 DEF GotInv
  <2> QED
    BY <1>1, <1>2, <2>1, <2>2 DEF GotInv
<1>12. SeenInv'
  BY <1>1, <1>3 DEF SeenInv, TypeOK
<1>13. RaceInv'
  BY <1>1, <1>3, <1>9, <1>10 DEF RaceInv
<1>14. HitsAreLive'
  BY <1>1, <1>3, <1>9, <1>10 DEF HitsAreLive, Hit
<1> QED
  BY <1>4, <1>5, <1>6, <1>8, <1>11, <1>12, <1>13, <1>14 DEF IInv

(* Asking for a file keeps the invariant. *)
LEMMA AskKeepsIInv ==
  ASSUME IInv, NEW a \in Askers, NEW h \in Holds, Ask(a, h)
  PROVE  IInv'
<1>1. TypeOK /\ WorldInv /\ StampInv /\ HeldInv /\ GotInv /\ SeenInv /\ RaceInv /\ HitsAreLive
  BY DEF IInv
<1>2. TypeOK'
  BY <1>1, TypeStep DEF Next
<1> QED
  BY <1>1, <1>2 DEF IInv, Ask, TypeOK, WorldInv, StampInv, HeldInv, GotInv, SeenInv, RaceInv,
                    HitsAreLive, Hit

(* The stamp an asker takes is that of the file at the path, and whatever  *)
(* is held or about to be kept under it is that file's reading.            *)
LEMMA StatKeepsIInv ==
  ASSUME Sound, IInv, NEW a \in Askers, Stat(a)
  PROVE  IInv'
<1> USE NamesAssumption
<1>1. TypeOK /\ WorldInv /\ StampInv /\ HeldInv /\ GotInv /\ SeenInv /\ RaceInv /\ HitsAreLive
  BY DEF IInv
<1>2. TypeOK'
  BY <1>1, TypeStep DEF Next, AskerStep
<1>3. UNCHANGED <<world, past, changes, asked, got, held, seen, answer>>
  BY DEF Stat
<1>4. /\ pc' = [pc EXCEPT ![a] = "lookup"]
      /\ stamp' = [stamp EXCEPT ![a] = FileStamp(world)]
      /\ pc[a] = "stat"
  BY DEF Stat
<1>5. WorldInv' /\ HeldInv' /\ SeenInv'
  BY <1>1, <1>3 DEF WorldInv, HeldInv, SeenInv
<1>6. ASSUME FileStamp(world) # None
      PROVE  world.rev # Gone /\ world.rev \in past /\ FileStamp(world) = StampOf[world.rev]
  BY <1>1, <1>6 DEF FileStamp, WorldInv
<1>7. StampInv'
  BY <1>1, <1>3, <1>4, <1>6 DEF StampInv, TypeOK
<1>8. GotInv'
  BY <1>1, <1>3, <1>4 DEF GotInv, TypeOK
<1>9. asked[a] \in {"rules", "embedded"}
  BY <1>1, <1>4 DEF Sound, TypeOK
<1>10. ASSUME FileStamp(world) # None, asked[a] = "embedded" => world.codec
       PROVE  Ok(world.rev) \in seen[a]
  <2>1. PlainRead(asked[a], world) = Ok(world.rev)
    BY <1>1, <1>9, <1>10, StampedReads DEF WorldInv, TypeOK
  <2>2. asked[a] # None
    BY <1>1, <1>4 DEF TypeOK
  <2> QED
    BY <1>1, <2>1, <2>2 DEF SeenInv
<1>11. HitsAreLive'
  <2> SUFFICES ASSUME NEW b \in Askers, pc'[b] = "lookup", Hit(b)'
               PROVE  held[asked[b]].reading \in seen[b]
    BY <1>3 DEF HitsAreLive
  <2>1. CASE b = a
    <3>1. FileStamp(world) # None /\ held[asked[a]] # None /\ held[asked[a]].stamp = FileStamp(world)
      BY <1>1, <1>3, <1>4, <2>1 DEF Hit, TypeOK
    <3>2. asked[a] \in Holds
      BY <1>1, <1>4 DEF TypeOK
    <3>3. held[asked[a]].reading = Ok(world.rev) /\ (asked[a] = "embedded" => world.codec)
      BY <1>1, <1>6, <3>1, <3>2 DEF HeldInv
    <3> QED
      BY <1>10, <2>1, <3>1, <3>3
  <2>2. CASE b # a
    BY <1>1, <1>3, <1>4, <2>2 DEF HitsAreLive, Hit, TypeOK
  <2> QED
    BY <2>1, <2>2
<1>12. RaceInv'
  <2> SUFFICES ASSUME NEW c \in Askers, NEW b \in Askers, pc'[c] = "lookup", pc'[b] = "keep",
                      asked[c] = asked[b], stamp'[c] # None, stamp'[c] = stamp'[b],
                      got[b].status = "ok"
               PROVE  got[b] \in seen[c]
    BY <1>3 DEF RaceInv
  <2>1. b # a /\ pc[b] = "keep" /\ stamp'[b] = stamp[b]
    BY <1>1, <1>4 DEF TypeOK
  <2>2. CASE c = a
    <3>1. stamp[b] = FileStamp(world) /\ FileStamp(world) # None
      BY <1>1, <1>4, <2>1, <2>2 DEF TypeOK
    <3>2. got[b] = Ok(world.rev) /\ (asked[a] = "embedded" => world.codec)
      BY <1>1, <1>6, <2>1, <2>2, <3>1 DEF GotInv
    <3> QED
      BY <1>10, <2>2, <3>1, <3>2
  <2>3. CASE c # a
    BY <1>1, <1>4, <2>1, <2>3 DEF RaceInv, TypeOK
  <2> QED
    BY <2>2, <2>3
<1> QED
  BY <1>2, <1>5, <1>7, <1>8, <1>11, <1>12 DEF IInv

(* A question that ends without changing what is held. *)
LEMMA ReturnKeepsIInv ==
  ASSUME IInv, TypeOK', NEW a \in Askers, NEW r \in Readings, Return(a, r),
         UNCHANGED <<world, past, changes, held>>
  PROVE  IInv'
<1>1. TypeOK /\ WorldInv /\ StampInv /\ HeldInv /\ GotInv /\ SeenInv /\ RaceInv /\ HitsAreLive
  BY DEF IInv
<1>2. WorldInv' /\ HeldInv'
  BY <1>1 DEF WorldInv, HeldInv
<1>3. StampInv'
  BY <1>1 DEF StampInv, Return, TypeOK
<1>4. GotInv'
  BY <1>1 DEF GotInv, Return, TypeOK
<1>5. SeenInv'
  BY <1>1 DEF SeenInv, Return, TypeOK
<1>6. RaceInv'
  BY <1>1 DEF RaceInv, Return, TypeOK
<1>7. HitsAreLive'
  BY <1>1 DEF HitsAreLive, Hit, Return, TypeOK
<1> QED
  BY <1>2, <1>3, <1>4, <1>5, <1>6, <1>7 DEF IInv

(* Keeping a parse, under a stamp taken before it was read, does too. *)
LEMMA KeepKeepsIInv ==
  ASSUME Sound, IInv, NEW a \in Askers, KeepParse(a)
  PROVE  IInv'
<1> USE NamesAssumption
<1>1. TypeOK /\ WorldInv /\ StampInv /\ HeldInv /\ GotInv /\ SeenInv /\ RaceInv /\ HitsAreLive
  BY DEF IInv
<1>2. TypeOK'
  BY <1>1, TypeStep DEF Next, AskerStep
<1>3. /\ pc[a] = "keep" /\ asked[a] \in Holds
      /\ UNCHANGED <<world, past, changes>>
      /\ Return(a, got[a])
      /\ held' = [held EXCEPT ![asked[a]] =
                     IF stamp[a] # None /\ got[a].status = "ok" THEN Kept(a) ELSE None]
  BY <1>1 DEF KeepParse, TypeOK
<1>4. WorldInv'
  BY <1>1, <1>3 DEF WorldInv
<1>5. StampInv'
  BY <1>1, <1>3 DEF StampInv, Return, Kept, TypeOK
<1>6. HeldInv'
  BY <1>1, <1>3 DEF HeldInv, GotInv, Kept, TypeOK
<1>7. GotInv'
  BY <1>1, <1>3 DEF GotInv, Return, TypeOK
<1>8. SeenInv'
  BY <1>1, <1>3 DEF SeenInv, Return, TypeOK
<1>9. RaceInv'
  BY <1>1, <1>3 DEF RaceInv, Return, TypeOK
<1>10. HitsAreLive'
  <2> SUFFICES ASSUME NEW b \in Askers, pc'[b] = "lookup", Hit(b)'
               PROVE  held'[asked'[b]].reading \in seen'[b]
    BY DEF HitsAreLive
  <2>1. /\ b # a /\ pc[b] = "lookup" /\ asked'[b] = asked[b] /\ stamp'[b] = stamp[b]
        /\ seen'[b] = seen[b] /\ asked[b] \in Holds
    BY <1>1, <1>3 DEF Return, TypeOK
  <2>2. CASE asked[b] = asked[a]
    <3>1. /\ stamp[a] # None /\ got[a].status = "ok" /\ stamp[b] = stamp[a]
          /\ held'[asked[b]].reading = got[a]
      BY <1>1, <1>3, <2>1, <2>2 DEF Hit, Kept, TypeOK
    <3> QED
      BY <1>1, <1>3, <2>1, <2>2, <3>1 DEF RaceInv
  <2>3. CASE asked[b] # asked[a]
    <3>1. held'[asked[b]] = held[asked[b]]
      BY <1>1, <1>3, <2>1, <2>3 DEF TypeOK
    <3> QED
      BY <1>1, <2>1, <3>1 DEF HitsAreLive, Hit
  <2> QED
    BY <2>2, <2>3
<1> QED
  BY <1>2, <1>4, <1>5, <1>6, <1>7, <1>8, <1>9, <1>10 DEF IInv

(* What a read comes to is what the asker is about to be answered, and     *)
(* what anyone racing it for the same memory may be answered too.          *)
LEMMA ReadKeepsIInv ==
  ASSUME Sound, IInv, NEW a \in Askers, ReadFile(a)
  PROVE  IInv'
<1> USE NamesAssumption
<1>1. TypeOK /\ WorldInv /\ StampInv /\ HeldInv /\ GotInv /\ SeenInv /\ RaceInv /\ HitsAreLive
  BY DEF IInv
<1>2. TypeOK'
  BY <1>1, TypeStep DEF Next, AskerStep
<1>3. UNCHANGED <<world, past, changes, asked, stamp, held, seen, answer>>
  BY DEF ReadFile
<1> DEFINE r == PlainRead(asked[a], world)
<1>4. pc[a] = "read" /\ pc' = [pc EXCEPT ![a] = "keep"] /\ got' = [got EXCEPT ![a] = r]
  BY DEF ReadFile
<1>5. asked[a] # None /\ world \in Worlds
  BY <1>1, <1>4 DEF TypeOK
<1>6. r \in seen[a]
  BY <1>1, <1>5 DEF SeenInv
<1>7. ASSUME r.status = "ok"
      PROVE  r = Ok(world.rev) /\ (asked[a] = "embedded" => world.codec)
  BY <1>5, <1>7, PlainReadOk
<1> HIDE DEF r
<1>8. WorldInv' /\ StampInv' /\ HeldInv' /\ SeenInv'
  BY <1>1, <1>3 DEF WorldInv, StampInv, HeldInv, SeenInv
<1>9. GotInv'
  <2> SUFFICES ASSUME NEW b \in Askers, pc'[b] = "keep"
               PROVE  /\ got'[b] \in seen[b]
                      /\ got'[b].status = "ok" =>
                           /\ asked[b] = "embedded" => world.codec
                           /\ world.rev # Gone /\ stamp[b] = StampOf[world.rev]
                                => got'[b] = Ok(world.rev)
    BY <1>3 DEF GotInv
  <2>1. CASE b = a
    BY <1>1, <1>4, <1>6, <1>7, <2>1 DEF TypeOK
  <2>2. CASE b # a
    BY <1>1, <1>4, <2>2 DEF GotInv, TypeOK
  <2> QED
    BY <2>1, <2>2
<1>10. RaceInv'
  <2> SUFFICES ASSUME NEW c \in Askers, NEW b \in Askers, pc'[c] = "lookup", pc'[b] = "keep",
                      asked[c] = asked[b], stamp[c] # None, stamp[c] = stamp[b],
                      got'[b].status = "ok"
               PROVE  got'[b] \in seen[c]
    BY <1>3 DEF RaceInv
  <2>1. c # a /\ pc[c] = "lookup"
    BY <1>1, <1>4 DEF TypeOK
  <2>2. CASE b = a
    <3>1. got'[b] = r /\ r.status = "ok"
      BY <1>1, <1>4, <2>2 DEF TypeOK
    <3>2. asked[c] # None
      BY <1>5, <2>2
    <3>3. PlainRead(asked[c], world) \in seen[c]
      BY <1>1, <3>2 DEF SeenInv
    <3> QED
      BY <2>2, <3>1, <3>3 DEF r
  <2>3. CASE b # a
    BY <1>1, <1>4, <2>1, <2>3 DEF RaceInv, TypeOK
  <2> QED
    BY <2>2, <2>3
<1>11. HitsAreLive'
  BY <1>1, <1>3, <1>4 DEF HitsAreLive, Hit, TypeOK
<1> QED
  BY <1>2, <1>8, <1>9, <1>10, <1>11 DEF IInv

(* Only the find-rules memories are asked, so only they keep anything. *)
LEMMA OnlyParsesKept ==
  ASSUME Sound, TypeOK, NEW a \in Askers
  PROVE  ~KeepDigest(a) /\ ~KeepBuild(a)
BY NamesAssumption, HoldsAssumption DEF Sound, TypeOK, KeepDigest, KeepBuild, AllHolds

(* So does every step. *)
LEMMA StepKeepsIInv == Sound /\ IInv /\ [Next]_vars => IInv'
<1> SUFFICES ASSUME Sound, IInv, [Next]_vars PROVE IInv'
  OBVIOUS
<1>1. TypeOK /\ WorldInv /\ StampInv /\ HeldInv /\ GotInv /\ SeenInv /\ RaceInv /\ HitsAreLive
  BY DEF IInv
<1>2. TypeOK'
  BY <1>1, TypeStep
<1>3. CASE ChangeMachine
  BY <1>3, ChangeKeepsIInv
<1>4. ASSUME NEW a \in Askers, NEW h \in Holds, Ask(a, h)
      PROVE  IInv'
  BY <1>4, AskKeepsIInv
<1>5. ASSUME NEW a \in Askers, AskerStep(a)
      PROVE  IInv'
  <2>1. CASE Stat(a)
    BY <2>1, StatKeepsIInv
  <2>2. CASE ServeHeld(a)
    <3>1. held[asked[a]].reading \in Readings
      BY <1>1, <2>2 DEF ServeHeld, Hit, TypeOK
    <3> QED
      BY <1>2, <2>2, <3>1, ReturnKeepsIInv DEF ServeHeld
  <2>3. CASE Miss(a)
    BY <1>1, <1>2, <2>3 DEF Miss, IInv, TypeOK, WorldInv, StampInv, HeldInv, GotInv, SeenInv,
                            RaceInv, HitsAreLive, Hit
  <2>4. CASE ReadFile(a)
    BY <2>4, ReadKeepsIInv
  <2>5. CASE KeepParse(a)
    BY <2>5, KeepKeepsIInv
  <2> QED
    BY <1>1, <1>5, <2>1, <2>2, <2>3, <2>4, <2>5, OnlyParsesKept DEF AskerStep
<1>6. CASE UNCHANGED vars
  BY <1>1, <1>6 DEF vars, IInv, TypeOK, WorldInv, StampInv, HeldInv, GotInv, SeenInv, RaceInv,
                    HitsAreLive, Hit
<1> QED
  BY <1>3, <1>4, <1>5, <1>6 DEF Next

(* Hence the invariant holds throughout. *)
LEMMA Inductive ==
  ASSUME Sound
  PROVE  Spec => []IInv
<1>1. Init => IInv
  BY IInvInit
<1>2. IInv /\ [Next]_vars => IInv'
  BY StepKeepsIInv
<1> QED
  BY <1>1, <1>2, PTL DEF Spec

(* What a find-rules memory serves, the machine would have answered at     *)
(* some moment of the question (the keeping rule of _FindRulesFiles).      *)
THEOREM HitsLive ==
  ASSUME Sound
  PROVE  Spec => []HitsAreLive
<1>1. IInv => HitsAreLive
  BY DEF IInv
<1> QED
  BY <1>1, Inductive, PTL
-----------------------------------------------------------------------------
(* The refinement: serving or keeping a reading answers the question, the  *)
(* steps between are stuttering.                                           *)
LEMMA InitAnswers == Init => Live!LiveInit
BY DEF Init, Live!LiveInit, Worlds, Accesses

(* Each step answers as a reading afresh would, or changes nothing visible. *)
LEMMA StepAnswers == Sound /\ IInv /\ [Next]_vars => [Live!LiveNext]_(Live!liveVars)
<1> SUFFICES ASSUME Sound, IInv, [Next]_vars PROVE [Live!LiveNext]_(Live!liveVars)
  OBVIOUS
<1>1. TypeOK /\ WorldInv /\ GotInv /\ HitsAreLive
  BY DEF IInv
<1>2. CASE ChangeMachine
  <2>1. world' \in Worlds
    BY <1>1, <1>2, NextWorld
  <2>2. /\ UNCHANGED <<asked, answer>>
        /\ seen' = [a \in Askers |-> IF asked[a] = None THEN {}
                                     ELSE seen[a] \union {PlainRead(asked[a], world')}]
    BY <1>2 DEF ChangeMachine, Replace, Rollback, Remove, Hide, Chmod, RegisterCodec, ForgetCodec,
                MachineBecomes
  <2>3. Live!Change
    BY <2>1, <2>2 DEF Live!Change, Live!SeenIn
  <2> QED
    BY <2>3 DEF Live!LiveNext
<1>3. ASSUME NEW a \in Askers, NEW h \in Holds, Ask(a, h)
      PROVE  Live!LiveNext
  <2>1. asked[a] = None
    BY <1>1, <1>3 DEF Ask, TypeOK
  <2>2. Live!LiveAsk(a, h)
    BY <1>3, <2>1 DEF Ask, Live!LiveAsk
  <2> QED
    BY <2>2 DEF Live!LiveNext
<1>4. ASSUME NEW a \in Askers, NEW r, r \in seen[a], pc[a] # "idle", Return(a, r), world' = world
      PROVE  Live!LiveNext
  <2>1. asked[a] # None
    BY <1>1, <1>4 DEF TypeOK
  <2>2. Live!LiveAnswer(a)
    BY <1>4, <2>1 DEF Return, Live!LiveAnswer
  <2> QED
    BY <2>2 DEF Live!LiveNext
<1>5. ASSUME NEW a \in Askers, AskerStep(a)
      PROVE  [Live!LiveNext]_(Live!liveVars)
  <2>1. CASE Stat(a) \/ Miss(a) \/ ReadFile(a)
    BY <2>1 DEF Stat, Miss, ReadFile, Live!liveVars
  <2>2. CASE ServeHeld(a)
    BY <1>1, <1>4, <2>2 DEF ServeHeld, HitsAreLive
  <2>3. CASE KeepParse(a)
    BY <1>1, <1>4, <2>3 DEF KeepParse, GotInv
  <2> QED
    BY <1>1, <1>5, <2>1, <2>2, <2>3, OnlyParsesKept DEF AskerStep
<1>6. CASE UNCHANGED vars
  BY <1>6 DEF vars, Live!liveVars
<1> QED
  BY <1>2, <1>3, <1>5, <1>6 DEF Next

(* A handle that keeps find-rules parses is indistinguishable, in its      *)
(* answers, from one that reads everything afresh.                         *)
THEOREM KeepsNothingVisible ==
  ASSUME Sound
  PROVE  Spec => AnswersAsIfNothingKept
<1>1. Init => Live!LiveInit
  BY InitAnswers
<1>2. IInv /\ [Next]_vars => [Live!LiveNext]_(Live!liveVars)
  BY StepAnswers
<1> QED
  BY <1>1, <1>2, Inductive, PTL DEF Spec, AnswersAsIfNothingKept
-----------------------------------------------------------------------------
(* Which memories never keep a failure, whatever happens to the machine:   *)
(* the two that ask for a parse before they keep.                          *)
ParsesAlone == Holds \subseteq {"rules", "embedded"}

ParsesKept == \A h \in Holds : held[h] # None => held[h].reading.status = "ok"

(* Only a parse is put in, and what fails empties its place. *)
LEMMA ParsesKeptStep ==
  ASSUME ParsesAlone, TypeOK, ParsesKept, [Next]_vars
  PROVE  ParsesKept'
<1>1. CASE ChangeMachine
  <2>1. UNCHANGED held
    BY <1>1 DEF ChangeMachine
  <2> QED
    BY <2>1 DEF ParsesKept
<1>2. ASSUME NEW a \in Askers, NEW h \in Holds, Ask(a, h)
      PROVE  ParsesKept'
  BY <1>2 DEF Ask, ParsesKept
<1>3. ASSUME NEW a \in Askers, AskerStep(a)
      PROVE  ParsesKept'
  <2>1. CASE Stat(a) \/ ServeHeld(a) \/ Miss(a) \/ ReadFile(a)
    BY <2>1 DEF Stat, ServeHeld, Miss, ReadFile, ParsesKept
  <2>2. CASE KeepParse(a)
    BY <2>2 DEF KeepParse, Kept, TypeOK, ParsesKept
  <2>3. pc[a] = "keep" => asked[a] \in Holds
    BY DEF TypeOK
  <2>4. ~(KeepDigest(a) \/ KeepBuild(a))
    BY <2>3 DEF KeepDigest, KeepBuild, ParsesAlone
  <2> QED
    BY <1>3, <2>1, <2>2, <2>4 DEF AskerStep
<1>4. CASE UNCHANGED vars
  BY <1>4 DEF vars, ParsesKept
<1> QED
  BY <1>1, <1>2, <1>3, <1>4 DEF Next

(* A find-rules file that could not be read is asked of the machine again: *)
(* _FindRulesFiles._keep, under every event and every stamp, colliding     *)
(* ones included.                                                          *)
THEOREM NoFailureServed ==
  ASSUME ParsesAlone
  PROVE  Spec => []FailuresAreReadAfresh
<1>1. Init => TypeOK /\ ParsesKept
  BY TypeInit DEF Init, ParsesKept
<1>2. TypeOK /\ ParsesKept /\ [Next]_vars => (TypeOK /\ ParsesKept)'
  BY TypeStep, ParsesKeptStep
<1>3. TypeOK /\ ParsesKept => FailuresAreReadAfresh
  BY NamesAssumption DEF TypeOK, ParsesKept, FailuresAreReadAfresh, Hit
<1> QED
  BY <1>1, <1>2, <1>3, PTL DEF Spec
=============================================================================
