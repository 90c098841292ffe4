--------------------------- MODULE LinkWalksProofs ---------------------------
(***************************************************************************)
(* For every file tree, every declared name, every root and any number of   *)
(* hops: resolve_links lands where the kernel does; a destination is refused *)
(* only where the kernel leaves the root or gets nowhere, and leads out only *)
(* through a link in a folder inside; what a path's beginning settles stands. *)
(* The view of a directory is a fold over a path, and stays with TLC.  Of a  *)
(* sandbox's walks, which are made of the same steps, the types are shown.   *)
(***************************************************************************)
EXTENDS LinkWalks, SandboxView, SequenceTheorems, TLAPS

(* The walks are records of their fields throughout. *)
USE HopsAssumption

(* A question that is walked has a root and names a file. *)
QueryInv ==
  stage \in Walks =>
    /\ query \in AllQueries
    /\ query.kind \in {"file", "folder"}
    /\ query.root # None
    /\ ~NamesNoFile(query.name)

(* The kernel is where resolve_links is, or it has stopped before: alone, in *)
(* a place that is no directory, or together, out of hops.                   *)
LockStep ==
  stage \in Walks =>
    /\ kernel.end = None => kernel = walk
    /\ kernel.end = Loops => walk.end = Loops

(* resolve_links asks for no directories. *)
NeverNotDir == walk.end # NotDir /\ \A w \in Walks : settled[w] # NotDir

(* The walks are made in order. *)
Reached ==
  /\ stage \in {"composed", "directory"} => opened["root"] # None
  /\ stage = "directory" => opened["composed"] # None

(* An answer is what its walks settled on. *)
AnswerInv ==
  destination.path # None \/ destination.refusal \in {"escapes", "unresolvable"} =>
    /\ stage = "answered"
    /\ destination = DestinationOf(settled["root"], settled["composed"], settled["directory"])
    /\ opened["root"] # None
    /\ opened["composed"] # None

WalkInv ==
  /\ WalksTypeOK
  /\ QueryInv
  /\ LockStep
  /\ NeverNotDir
  /\ Reached
  /\ LandsWithTheKernel
  /\ AnswerInv

(* Climbing from a place ends in a place. *)
LEMMA AboveIsAPlace == ASSUME NEW p \in Places PROVE Above(p) \in Places
<1>1. CASE p = <<>>
  BY <1>1 DEF Above
<1>2. CASE p # <<>>
  <2>1. Len(p) \in Nat \ {0} /\ \A i \in 1 .. Len(p) - 1 : p[i] \in Names
    BY <1>2, EmptySeq, ElementOfSeq DEF Places
  <2>2. SubSeq(p, 1, Len(p) - 1) \in Seq(Names)
    BY <2>1, SubSeqProperties
  <2> QED
    BY <1>2, <2>2 DEF Above, Front, Places
<1> QED
  BY <1>1, <1>2

(* A walk starts typed. *)
LEMMA StartIsTyped == ASSUME NEW p \in Seq(Segments) PROVE StartAt(p) \in WalkRecords
<1>1. <<>> \in Places
  BY EmptySeq DEF Places
<1> QED
  BY <1>1 DEF StartAt, WalkRecords

(* One step onto a place, or through a link, stays typed. *)
LEMMA StepIsTyped ==
  ASSUME WalksTypeOK, NEW w \in WalkRecords, w.parts # <<>>, w.end = None
  PROVE  /\ ResolveLinks(w) \in WalkRecords
         /\ ResolveLinks(w).end \in {None, Loops}
         /\ KernelWalk(w) \in WalkRecords
<1> DEFINE first == Head(w.parts)
           candidate == Append(w.at, first)
<1>1. w.parts \in Seq(Segments) /\ w.at \in Places /\ w.hops \in 0 .. MaxHops
  BY DEF WalkRecords
<1>2. first \in Segments /\ Tail(w.parts) \in Seq(Segments)
  BY <1>1, HeadTailProperties
<1>3. \A p \in Places : Stepped(w, p) \in WalkRecords /\ Stepped(w, p).end = None
  BY <1>1, <1>2 DEF Stepped, WalkRecords
<1>4. first # Up => candidate \in Places
  BY <1>1, <1>2, AppendProperties DEF Segments, Places
<1>5. Above(w.at) \in Places
  BY <1>1, AboveIsAPlace
<1>6. ASSUME IsLink(candidate), w.hops # MaxHops
      PROVE  Followed(w, tree[candidate]) \in WalkRecords /\ Followed(w, tree[candidate]).end = None
  <2>1. tree[candidate] \in [kind : {"link"}, absolute : BOOLEAN, to : Seq(Segments)]
    BY <1>6 DEF IsLink, WalksTypeOK, Nodes
  <2>2. tree[candidate].to \o Tail(w.parts) \in Seq(Segments)
    BY <1>2, <2>1, ConcatProperties
  <2>3. <<>> \in Places /\ w.hops + 1 \in 0 .. MaxHops
    BY <1>1, <1>6, EmptySeq DEF Places
  <2> QED
    BY <1>1, <2>2, <2>3 DEF Followed, WalkRecords
<1>7. \A e \in {Loops, NotDir} : [w EXCEPT !.end = e] \in WalkRecords
  BY DEF WalkRecords
<1>8. w \in [parts : Seq(Segments), at : Places, hops : 0 .. MaxHops, end : {None, Loops, NotDir}]
  BY DEF WalkRecords
<1> HIDE DEF first, candidate
<1>9. ResolveLinks(w) \in WalkRecords /\ ResolveLinks(w).end \in {None, Loops}
  <2>1. CASE first = Up
    BY <1>3, <1>5, <2>1 DEF ResolveLinks, first, candidate
  <2>2. CASE first # Up /\ ~IsLink(candidate)
    BY <1>3, <1>4, <2>2 DEF ResolveLinks, first, candidate
  <2>3. CASE first # Up /\ IsLink(candidate) /\ w.hops = MaxHops
    <3>1. ResolveLinks(w) = [w EXCEPT !.end = Loops]
      BY <2>3 DEF ResolveLinks, first, candidate
    <3> QED
      BY <1>7, <1>8, <3>1
  <2>4. CASE first # Up /\ IsLink(candidate) /\ w.hops # MaxHops
    BY <1>6, <2>4 DEF ResolveLinks, first, candidate
  <2> QED
    BY <2>1, <2>2, <2>3, <2>4
<1>10. KernelWalk(w) \in WalkRecords
  <2>1. CASE ~IsDirectory(w.at)
    BY <1>7, <2>1 DEF KernelWalk
  <2>2. CASE IsDirectory(w.at) /\ first = Up
    BY <1>3, <1>5, <2>2 DEF KernelWalk, first
  <2>3. CASE IsDirectory(w.at) /\ first # Up /\ ~IsLink(candidate)
    BY <1>3, <1>4, <2>3 DEF KernelWalk, first, candidate
  <2>4. CASE IsDirectory(w.at) /\ first # Up /\ IsLink(candidate) /\ w.hops + 1 > MaxHops
    <3>1. KernelWalk(w) = [w EXCEPT !.end = Loops]
      BY <2>4 DEF KernelWalk, first, candidate
    <3> QED
      BY <1>7, <3>1
  <2>5. CASE IsDirectory(w.at) /\ first # Up /\ IsLink(candidate) /\ ~(w.hops + 1 > MaxHops)
    <3>1. KernelWalk(w) = Followed(w, tree[candidate])
      BY <2>5 DEF KernelWalk, first, candidate
    <3>2. w.hops # MaxHops
      BY <1>1, <2>5
    <3> QED
      BY <1>6, <2>5, <3>1, <3>2
  <2> QED
    BY <2>1, <2>2, <2>3, <2>4, <2>5
<1> QED
  BY <1>9, <1>10

(* Nothing has been asked at the start. *)
LEMMA WInit == LinkInit => WalkInv
<1> SUFFICES ASSUME LinkInit PROVE WalkInv
  OBVIOUS
<1>1. NoWalk \in WalkRecords /\ NoWalk.end = None
  BY StartIsTyped, EmptySeq DEF NoWalk, StartAt
<1>2. NoEnds \in [Walks -> Ends] /\ \A w \in Walks : NoEnds[w] = None
  BY DEF NoEnds, Ends
<1>3. NoDestination.path = None /\ NoDestination.refusal = None
  BY DEF NoDestination
<1>4. WalksTypeOK
  <2>1. DOMAIN <<>> = {} /\ <<>> \in [DOMAIN <<>> -> Nodes]
    OBVIOUS
  <2>2. NoDestination \in [path : Places \union {None},
                          refusal : {"root-unusable", "names-no-file", "unresolvable",
                                     "escapes", None},
                          link : Places \union {None}]
    BY DEF NoDestination
  <2> QED
    BY <1>1, <1>2, <2>1, <2>2 DEF LinkInit, WalksTypeOK, Stages
<1> QED
  BY <1>1, <1>2, <1>3, <1>4, EndsAssumption
     DEF LinkInit, WalkInv, QueryInv, LockStep, NeverNotDir, Reached, LandsWithTheKernel,
         AnswerInv, Walks

(* A declared place is refused, or its root is walked first. *)
LEMMA AskDestinationKeeps == ASSUME WalkInv, AskDestination PROVE WalkInv'
<1>1. PICK q \in Queries :
        /\ q.kind \in {"file", "folder"}
        /\ query' = q
        /\ IF q.root = None THEN AnswerDestination(Refused("root-unusable")) /\ UNCHANGED walk
           ELSE IF NamesNoFile(q.name)
           THEN AnswerDestination(Refused("names-no-file")) /\ UNCHANGED walk
           ELSE /\ stage' = "root"
                /\ walk' = StartAt(q.root)
                /\ UNCHANGED destination
  BY DEF AskDestination
<1>2. /\ tree' \in Trees /\ kernel' = walk' /\ UNCHANGED <<settled, opened>>
  BY DEF AskDestination
<1>3. query' \in AllQueries
  BY <1>1, QueriesAssumption
<1>4. stage = "idle"
  BY DEF AskDestination
<1>5. ASSUME q.root # None PROVE q.root \in Seq(Segments)
  BY <1>1, <1>3, <1>5 DEF AllQueries
<1>6. walk' \in WalkRecords /\ walk'.end # NotDir
  <2>1. CASE walk' = walk
    BY <2>1 DEF WalkInv, WalksTypeOK, NeverNotDir
  <2>2. CASE q.root # None /\ walk' = StartAt(q.root)
    BY <1>5, <2>2, StartIsTyped, EndsAssumption DEF StartAt
  <2> QED
    BY <1>1, <2>1, <2>2
<1>7. \/ /\ destination' \in {Refused("root-unusable"), Refused("names-no-file")}
         /\ stage' = "answered"
      \/ /\ destination' = destination
         /\ stage' = "root"
         /\ ~NamesNoFile(q.name)
         /\ q.root # None
  BY <1>1 DEF AnswerDestination
<1>8. WalksTypeOK'
  <2>1. DOMAIN tree' \subseteq Places /\ tree' \in [DOMAIN tree' -> Nodes]
    BY <1>2, TreesAssumption
  <2>2. destination' \in [path : Places \union {None},
                          refusal : {"root-unusable", "names-no-file", "unresolvable",
                                     "escapes", None},
                          link : Places \union {None}]
    BY <1>7 DEF WalkInv, WalksTypeOK, Refused
  <2> QED
    BY <1>2, <1>3, <1>6, <1>7, <2>1, <2>2 DEF WalkInv, WalksTypeOK, Stages, Walks
<1>9. QueryInv'
  BY <1>1, <1>3, <1>7 DEF QueryInv, NamesNoFile, Walks
<1>10. LockStep' /\ NeverNotDir' /\ Reached' /\ LandsWithTheKernel'
  <2>1. stage' \notin {"composed", "directory"}
    BY <1>7
  <2>2. kernel'.end = Loops => walk'.end = Loops
    BY <1>2
  <2> QED
    BY <1>2, <1>6, <2>1, <2>2
       DEF WalkInv, LockStep, NeverNotDir, Reached, LandsWithTheKernel
<1>11. AnswerInv'
  <2>1. destination.path = None /\ destination.refusal \notin {"escapes", "unresolvable"}
    BY <1>4 DEF WalkInv, AnswerInv
  <2> QED
    BY <1>7, <2>1, EndsAssumption DEF AnswerInv, Refused
<1> QED
  BY <1>8, <1>9, <1>10, <1>11 DEF WalkInv

(* One segment: the kernel stops, or takes the same step. *)
LEMMA SameStep ==
  ASSUME NEW w \in WalkRecords, w.parts # <<>>, w.end = None
  PROVE  /\ KernelWalk(w).end = None => KernelWalk(w) = ResolveLinks(w)
         /\ KernelWalk(w).end = Loops => ResolveLinks(w).end = Loops
<1> DEFINE candidate == Append(w.at, Head(w.parts))
<1>1. w.hops \in 0 .. MaxHops /\ (w.hops + 1 > MaxHops <=> w.hops = MaxHops)
  BY DEF WalkRecords
<1>2. /\ [w EXCEPT !.end = Loops].end = Loops
      /\ [w EXCEPT !.end = NotDir].end = NotDir
  BY DEF WalkRecords
<1>3. \A p : Stepped(w, p).end = None
  BY DEF Stepped, WalkRecords
<1> HIDE DEF candidate
<1>4. CASE ~IsDirectory(w.at)
  <2>1. KernelWalk(w) = [w EXCEPT !.end = NotDir]
    BY <1>4 DEF KernelWalk
  <2> QED
    BY <1>2, <2>1, EndsAssumption
<1>5. CASE IsDirectory(w.at) /\ (Head(w.parts) = Up \/ ~IsLink(candidate))
  <2>1. KernelWalk(w) = ResolveLinks(w)
    BY <1>5 DEF KernelWalk, ResolveLinks, candidate
  <2> QED
    BY <2>1
<1>6. CASE IsDirectory(w.at) /\ Head(w.parts) # Up /\ IsLink(candidate)
  <2>1. KernelWalk(w) = ResolveLinks(w)
    BY <1>1, <1>6 DEF KernelWalk, ResolveLinks, candidate
  <2> QED
    BY <2>1
<1> QED
  BY <1>4, <1>5, <1>6

(* A walk that has ended stays where it is. *)
LEMMA WalkKeeps == ASSUME WalkInv, Walk PROVE WalkInv'
<1>1. /\ stage \in Walks /\ ~Done(walk)
      /\ walk' = ResolveLinks(walk) /\ kernel' = KernelWalk(kernel)
      /\ UNCHANGED <<tree, query, stage, settled, opened, destination>>
  BY DEF Walk
<1>2. walk.parts # <<>> /\ walk.end = None
  BY <1>1 DEF Done
<1>3. WalksTypeOK /\ walk \in WalkRecords /\ kernel \in WalkRecords
  BY DEF WalkInv, WalksTypeOK
<1>4. walk' \in WalkRecords /\ walk'.end \in {None, Loops}
  BY <1>1, <1>2, <1>3, StepIsTyped
<1>5. AnswerInv' /\ QueryInv' /\ NeverNotDir' /\ Reached' /\ LandsWithTheKernel'
  <2>1. AnswerInv'
    BY <1>1 DEF WalkInv, AnswerInv, DestinationOf
  <2>2. QueryInv' /\ Reached' /\ LandsWithTheKernel'
    BY <1>1 DEF WalkInv, QueryInv, Reached, LandsWithTheKernel, NamesNoFile
  <2>3. NeverNotDir'
    BY <1>1, <1>4, EndsAssumption DEF WalkInv, NeverNotDir
  <2> QED
    BY <2>1, <2>2, <2>3
<1>6. CASE kernel.end = None
  <2>1. kernel = walk
    BY <1>1, <1>6 DEF WalkInv, LockStep
  <2>2. kernel' \in WalkRecords
    BY <1>1, <1>2, <1>3, <2>1, StepIsTyped
  <2>3. LockStep'
    BY <1>1, <1>2, <1>3, <2>1, SameStep DEF LockStep
  <2> QED
    <3>1. WalksTypeOK'
      BY <1>1, <1>3, <1>4, <2>2 DEF WalksTypeOK
    <3> QED
      BY <1>5, <2>3, <3>1 DEF WalkInv
<1>7. CASE kernel.end # None
  <2>1. kernel' = kernel
    BY <1>1, <1>7 DEF KernelWalk
  <2>2. LockStep'
    <3>1. kernel.end # Loops
      BY <1>1, <1>2, EndsAssumption DEF WalkInv, LockStep
    <3> QED
      BY <1>7, <2>1, <3>1 DEF LockStep
  <2> QED
    <3>1. WalksTypeOK'
      BY <1>1, <1>3, <1>4, <2>1 DEF WalksTypeOK
    <3> QED
      BY <1>5, <2>2, <3>1 DEF WalkInv
<1> QED
  BY <1>6, <1>7

(* What a question names, typed. *)
LEMMA NamesAreTyped ==
  ASSUME WalkInv, stage \in Walks
  PROVE  /\ \A w \in Walks : PathOf(w) \in Seq(Segments)
         /\ Last(query.name) \in Names
<1>1. query.root \in Seq(Segments) /\ query.name \in Seq(Segments)
  <2>1. /\ query \in AllQueries /\ query.kind \in {"file", "folder"} /\ query.root # None
    BY DEF WalkInv, QueryInv
  <2>2. query \notin [kind : {"view"}, name : Seq(Segments)]
    BY <2>1
  <2>3. query \in [kind : {"file", "folder"}, root : Seq(Segments) \union {None},
                  name : Seq(Segments)]
    BY <2>1, <2>2 DEF AllQueries
  <2> QED
    BY <2>1, <2>3
<1> DEFINE composed == query.root \o query.name
<1>2. composed \in Seq(Segments)
  BY <1>1, ConcatProperties
<1>3. Front(composed) \in Seq(Segments)
  <2> HIDE DEF composed
  <2>1. Len(composed) \in Nat /\ \A i \in 1 .. Len(composed) - 1 : composed[i] \in Segments
    <3>1. Len(composed) \in Nat
      BY <1>2, LenProperties
    <3>2. \A i \in 1 .. Len(composed) : composed[i] \in Segments
      BY <1>2, ElementOfSeq
    <3> QED
      BY <3>1, <3>2
  <2>2. SubSeq(composed, 1, Len(composed) - 1) \in Seq(Segments)
    BY <2>1, SubSeqProperties
  <2> QED
    BY <2>2 DEF Front
<1>4. query.name # <<>> /\ Last(query.name) # Up
  BY DEF WalkInv, QueryInv, NamesNoFile
<1>5. Last(query.name) \in Segments
  <2>1. Len(query.name) \in 1 .. Len(query.name)
    BY <1>1, <1>4, EmptySeq
  <2> QED
    BY <1>1, <2>1, ElementOfSeq DEF Last
<1> QED
  BY <1>1, <1>2, <1>3, <1>4, <1>5 DEF PathOf, Segments

(* Where the walks end: somewhere, and at the same place unless the kernel   *)
(* met what is no directory.                                                *)
LEMMA EndsAgree ==
  ASSUME WalkInv, stage \in Walks, Done(walk)
  PROVE  /\ EndOf(walk) \in Places \union {Loops}
         /\ EndOf(walk) # NotDir
         /\ EndOf(kernel) \in Ends \ {None}
         /\ EndOf(kernel) # NotDir => EndOf(walk) = EndOf(kernel)
<1>1. /\ walk.at \in Places /\ walk.end \in {None, Loops}
      /\ kernel.at \in Places /\ kernel.end \in {None, Loops, NotDir}
  BY DEF WalkInv, WalksTypeOK, WalkRecords, NeverNotDir
<1>2. \A p \in Places : p # None /\ p # NotDir
  <2>1. \A p \in Places : p \in Seq(Segments)
    BY SeqMonotonic DEF Places, Segments
  <2> QED
    BY <2>1, EndsAssumption
<1>3. /\ kernel.end = None => kernel = walk
      /\ kernel.end = Loops => walk.end = Loops
  BY DEF WalkInv, LockStep
<1> QED
  BY <1>1, <1>2, <1>3, EndsAssumption DEF EndOf, Ends

(* What DestinationOf answers, typed. *)
LEMMA DestinationIsTyped ==
  ASSUME WalkInv, stage \in Walks,
         NEW r \in Ends, NEW c \in Ends \ {NotDir}, NEW d \in Ends \ {NotDir}
  PROVE  DestinationOf(r, c, d) \in [path : Places \union {None},
                                     refusal : {"root-unusable", "names-no-file",
                                                "unresolvable", "escapes", None},
                                     link : Places \union {None}]
<1>1. CASE Loops \in {r, c}
  BY <1>1 DEF DestinationOf, Refused
<1>2. CASE Loops \notin {r, c} /\ IsPrefix(r, c)
  BY <1>2 DEF DestinationOf, Lands, Ends
<1>3. CASE Loops \notin {r, c} /\ ~IsPrefix(r, c) /\ d \notin {None, Loops} /\ IsPrefix(r, d)
  <2>1. d \in Places /\ c \in Places \union {None}
    BY <1>3 DEF Ends
  <2>2. Append(d, Last(query.name)) \in Places
    BY <2>1, NamesAreTyped, AppendProperties DEF Places
  <2>3. DestinationOf(r, c, d) = LandsThrough(Append(d, Last(query.name)), c)
    BY <1>3 DEF DestinationOf
  <2> QED
    BY <2>1, <2>2, <2>3 DEF LandsThrough
<1>4. CASE Loops \notin {r, c} /\ ~IsPrefix(r, c) /\ ~(d \notin {None, Loops} /\ IsPrefix(r, d))
  BY <1>4 DEF DestinationOf, Refused
<1> QED
  BY <1>1, <1>2, <1>3, <1>4

(* A walk settles: the next one starts, or the destination is answered. *)
LEMMA SettleKeeps == ASSUME WalkInv, Settle PROVE WalkInv'
<1> DEFINE ends == [settled EXCEPT ![stage] = EndOf(walk)]
<1>1. /\ stage \in Walks /\ Done(walk)
      /\ settled' = ends
      /\ opened' = [opened EXCEPT ![stage] = EndOf(kernel)]
      /\ UNCHANGED <<tree, query>>
  BY DEF Settle
<1>2. \/ stage = "root" /\ WalkOn("composed")
      \/ stage = "composed" /\ WalkOn("directory")
      \/ /\ stage \in {"composed", "directory"}
         /\ EndWalks(DestinationOf(ends["root"], ends["composed"], ends["directory"]))
  BY <1>1 DEF Settle, Walks
<1>3. /\ settled \in [Walks -> Ends] /\ opened \in [Walks -> Ends]
      /\ \A w \in Walks : settled[w] # NotDir
  BY DEF WalkInv, WalksTypeOK, NeverNotDir
<1>4. /\ ends \in [Walks -> Ends]
      /\ \A w \in Walks : ends[w] # NotDir
      /\ opened' \in [Walks -> Ends]
      /\ \A w \in Walks : opened[w] # None => opened'[w] # None
      /\ opened'[stage] # None
  BY <1>1, <1>3, EndsAgree DEF Ends
<1>5. LandsWithTheKernel'
  <2>1. \A w \in Walks : opened[w] \notin {None, NotDir} => settled[w] = opened[w]
    BY DEF WalkInv, LandsWithTheKernel
  <2> QED
    BY <1>1, <1>3, <2>1, EndsAgree DEF LandsWithTheKernel
<1> HIDE DEF ends
<1>6. destination.path = None /\ destination.refusal \notin {"escapes", "unresolvable"}
  BY <1>1 DEF WalkInv, AnswerInv, Walks
<1>7. ASSUME NEW next \in {"composed", "directory"}, WalkOn(next),
             next = "composed" => stage = "root", next = "directory" => stage = "composed"
      PROVE  WalkInv'
  <2>1. /\ stage' = next /\ walk' = StartAt(PathOf(next)) /\ kernel' = walk'
        /\ destination' = destination
    BY <1>7 DEF WalkOn
  <2>2. walk' \in WalkRecords
    BY <1>1, <2>1, NamesAreTyped, StartIsTyped DEF Walks
  <2>3. walk'.end = None
    BY <2>1 DEF StartAt
  <2>4. WalksTypeOK'
    BY <1>1, <1>4, <2>1, <2>2 DEF WalkInv, WalksTypeOK, Stages, Walks
  <2>5. QueryInv' /\ AnswerInv'
    <3>1. QueryInv'
      BY <1>1, <2>1 DEF WalkInv, QueryInv, NamesNoFile
    <3>2. AnswerInv'
      BY <1>6, <2>1 DEF AnswerInv
    <3> QED
      BY <3>1, <3>2
  <2>6. LockStep' /\ NeverNotDir'
    BY <1>1, <1>4, <2>1, <2>3, EndsAssumption DEF LockStep, NeverNotDir
  <2>7. Reached'
    BY <1>4, <1>7, <2>1 DEF WalkInv, Reached, Walks
  <2> QED
    BY <1>5, <2>4, <2>5, <2>6, <2>7 DEF WalkInv
<1>8. ASSUME stage \in {"composed", "directory"},
             EndWalks(DestinationOf(ends["root"], ends["composed"], ends["directory"]))
      PROVE  WalkInv'
  <2>1. /\ destination' = DestinationOf(ends["root"], ends["composed"], ends["directory"])
        /\ stage' = "answered" /\ walk' = NoWalk /\ kernel' = NoWalk
    BY <1>8 DEF EndWalks, AnswerDestination
  <2>2. NoWalk \in WalkRecords /\ NoWalk.end = None
    BY StartIsTyped, EmptySeq DEF NoWalk, StartAt
  <2>3. destination' \in [path : Places \union {None},
                          refusal : {"root-unusable", "names-no-file", "unresolvable",
                                     "escapes", None},
                          link : Places \union {None}]
    BY <1>1, <1>4, <2>1, DestinationIsTyped DEF Walks
  <2>4. WalksTypeOK'
    BY <1>1, <1>4, <2>1, <2>2, <2>3 DEF WalkInv, WalksTypeOK, Stages
  <2>5. QueryInv' /\ LockStep' /\ NeverNotDir' /\ Reached'
    BY <1>1, <1>4, <2>1, <2>2, EndsAssumption
       DEF QueryInv, LockStep, NeverNotDir, Reached, Walks
  <2>6. AnswerInv'
    <3>1. opened'["root"] # None /\ opened'["composed"] # None
      BY <1>4, <1>8 DEF WalkInv, Reached, Walks
    <3> QED
      BY <1>1, <2>1, <3>1 DEF AnswerInv, DestinationOf
  <2> QED
    BY <1>5, <2>4, <2>5, <2>6 DEF WalkInv
<1> QED
  BY <1>2, <1>7, <1>8

(* The kernel's walk of a directory's links disturbs nothing here. *)
LEMMA ViewStepsKeep ==
  ASSUME WalkInv, AskLinkView \/ OpenDirectory \/ SpliceFirstLink \/ AnswerLinkView
  PROVE  WalkInv'
<1>1. /\ stage \notin Walks /\ stage' \notin Walks /\ stage' \in Stages
      /\ stage # "answered"
      /\ UNCHANGED <<walk, settled, opened, destination>>
  BY DEF AskLinkView, OpenDirectory, SpliceFirstLink, AnswerLinkView, Walks, Stages, WalkInv, WalksTypeOK
<1>2. tree' \in Trees \/ tree' = tree
  BY DEF AskLinkView, OpenDirectory, SpliceFirstLink, AnswerLinkView
<1>3. query' \in AllQueries \/ query' = query
  BY QueriesAssumption DEF AskLinkView, OpenDirectory, SpliceFirstLink, AnswerLinkView
<1>4. kernel' \in WalkRecords
  <2>1. CASE AskLinkView
    <3>1. PICK q \in Queries : q.kind = "view" /\ kernel' = StartAt(q.name)
      BY <2>1 DEF AskLinkView
    <3>2. q.name \in Seq(Segments)
      <4>1. q \notin [kind : {"file", "folder"}, root : Seq(Segments) \union {None},
                     name : Seq(Segments)]
        BY <3>1
      <4>2. q \in [kind : {"view"}, name : Seq(Segments)]
        BY <4>1, QueriesAssumption DEF AllQueries
      <4> QED
        BY <4>2
    <3> QED
      BY <3>1, <3>2, StartIsTyped
  <2>2. CASE OpenDirectory
    <3>1. kernel' = KernelWalk(kernel) /\ kernel \in WalkRecords
      BY <2>2 DEF OpenDirectory, WalkInv, WalksTypeOK
    <3>2. CASE kernel.end # None \/ kernel.parts = <<>>
      BY <3>1, <3>2 DEF KernelWalk
    <3>3. CASE kernel.end = None /\ kernel.parts # <<>>
      BY <3>1, <3>3, StepIsTyped DEF WalkInv
    <3> QED
      BY <3>2, <3>3
  <2>3. CASE SpliceFirstLink \/ AnswerLinkView
    BY <2>3 DEF SpliceFirstLink, AnswerLinkView, WalkInv, WalksTypeOK
  <2> QED
    BY <2>1, <2>2, <2>3
<1>5. WalksTypeOK'
  BY <1>1, <1>2, <1>3, <1>4, TreesAssumption DEF WalkInv, WalksTypeOK
<1>6. QueryInv' /\ LockStep' /\ Reached'
  BY <1>1 DEF QueryInv, LockStep, Reached, Walks
<1>7. NeverNotDir' /\ LandsWithTheKernel'
  BY <1>1 DEF WalkInv, NeverNotDir, LandsWithTheKernel
<1>8. AnswerInv'
  BY <1>1 DEF WalkInv, AnswerInv
<1> QED
  BY <1>5, <1>6, <1>7, <1>8 DEF WalkInv

(* The next question starts from nothing. *)
LEMMA NextQuestionKeeps == ASSUME WalkInv, NextLinkQuestion PROVE WalkInv'
<1>1. NoWalk \in WalkRecords /\ NoWalk.end = None
  BY StartIsTyped, EmptySeq DEF NoWalk, StartAt
<1>2. NoEnds \in [Walks -> Ends] /\ \A w \in Walks : NoEnds[w] = None
  BY DEF NoEnds, Ends
<1>3. NoDestination.path = None /\ NoDestination.refusal = None
  BY DEF NoDestination
<1>4. /\ tree' = <<>> /\ query' = None /\ stage' = "idle" /\ walk' = NoWalk /\ kernel' = NoWalk
      /\ settled' = NoEnds /\ opened' = NoEnds /\ destination' = NoDestination
  BY DEF NextLinkQuestion
<1>5. WalksTypeOK'
  <2>1. DOMAIN <<>> = {} /\ <<>> \in [DOMAIN <<>> -> Nodes]
    OBVIOUS
  <2>2. NoDestination \in [path : Places \union {None},
                          refusal : {"root-unusable", "names-no-file", "unresolvable",
                                     "escapes", None},
                          link : Places \union {None}]
    BY DEF NoDestination
  <2> QED
    BY <1>1, <1>2, <1>4, <2>1, <2>2 DEF WalksTypeOK, Stages
<1> QED
  BY <1>1, <1>2, <1>3, <1>4, <1>5, EndsAssumption
     DEF WalkInv, QueryInv, LockStep, NeverNotDir, Reached, LandsWithTheKernel, AnswerInv, Walks

(* Every step keeps the invariant. *)
LEMMA WStep == WalkInv /\ [LinkNext]_linkVars => WalkInv'
<1> SUFFICES ASSUME WalkInv, [LinkNext]_linkVars PROVE WalkInv'
  OBVIOUS
<1>1. CASE UNCHANGED linkVars
  BY <1>1 DEF linkVars, WalkInv, WalksTypeOK, QueryInv, LockStep, NeverNotDir, Reached,
              LandsWithTheKernel, AnswerInv, DestinationOf, NamesNoFile
<1> QED
  BY <1>1, AskDestinationKeeps, WalkKeeps, SettleKeeps, ViewStepsKeep, NextQuestionKeeps
     DEF LinkNext

(* Every reachable state satisfies it. *)
LEMMA WAlways == LinkSpec => []WalkInv
BY WInit, WStep, PTL DEF LinkSpec

-----------------------------------------------------------------------------
(* One walk beside another: the way every walk of a question has come, so    *)
(* that the walk of a path can be held against that of a part of it.         *)
Longer(w, rest) == [w EXCEPT !.parts = w.parts \o rest]

(* The steps resolve_links takes in this tree. *)
Steps == {s \in WalkRecords \X WalkRecords : ~Done(s[1]) /\ s[2] = ResolveLinks(s[1])}

IsTrail(steps, t, n, path, w) ==
  /\ t \in [0 .. n -> WalkRecords]
  /\ t[0] = StartAt(path)
  /\ t[n] = w
  /\ \A i \in 0 .. n - 1 : <<t[i], t[i + 1]>> \in steps

Trailed(steps, path, w) ==
  \E n \in Nat : \E t \in [0 .. n -> WalkRecords] : IsTrail(steps, t, n, path, w)

(* It walks as a walk of root did that met its limit, with name yet to come. *)
LostLike(steps, root, name, w) ==
  \E n \in Nat : \E t \in [0 .. n -> WalkRecords] :
    /\ IsTrail(steps, t, n, root, t[n])
    /\ t[n].end = Loops
    /\ \E m \in 0 .. n : w = Longer(t[m], name)

(* It walks as a walk of path did that ended in end, short of the last name. *)
ShortOf(steps, path, last, end, w) ==
  \E n \in Nat : \E t \in [0 .. n -> WalkRecords] :
    /\ IsTrail(steps, t, n, path, t[n])
    /\ Done(t[n]) /\ EndOf(t[n]) = end
    /\ \E m \in 0 .. n : t[m] = Longer(w, <<last>>)

TrailInv ==
  /\ stage \in {"idle", "view", "chain", "root"} => settled = NoEnds
  /\ stage = "composed" =>
       /\ settled["root"] \in Places \union {Loops}
       /\ settled["composed"] = None /\ settled["directory"] = None
  /\ stage = "directory" =>
       /\ settled["root"] \in Places /\ settled["composed"] \in Places
       /\ settled["directory"] = None /\ LedOut(settled["root"], settled["composed"])
  /\ stage \in {"root", "composed"} => Trailed(Steps, PathOf(stage), walk)
  /\ stage = "composed" /\ settled["root"] = Loops =>
       LostLike(Steps, query.root, query.name, walk)
  /\ stage = "directory" =>
       ShortOf(Steps, PathOf("composed"), Last(query.name), settled["composed"], walk)
  /\ APrefixSettles
  /\ OnlyAFileLeadsOut

(* What comes first of a path comes first of a longer one. *)
LEMMA HeadOfLonger ==
  ASSUME NEW s \in Seq(Segments), NEW rest \in Seq(Segments), s # <<>>
  PROVE  /\ s \o rest # <<>>
         /\ Head(s \o rest) = Head(s)
         /\ Tail(s \o rest) = Tail(s) \o rest
<1>1. /\ s \o rest \in Seq(Segments)
      /\ Len(s \o rest) = Len(s) + Len(rest)
      /\ \A i \in 1 .. Len(s) + Len(rest) :
           (s \o rest)[i] = IF i <= Len(s) THEN s[i] ELSE rest[i - Len(s)]
  BY ConcatProperties
<1>2. Len(s) \in Nat \ {0} /\ Len(rest) \in Nat
  BY EmptySeq, LenProperties
<1>3. s \o rest # <<>>
  BY <1>1, <1>2, EmptySeq
<1>4. /\ Tail(s) \in Seq(Segments) /\ Len(Tail(s)) = Len(s) - 1
      /\ \A i \in 1 .. Len(Tail(s)) : Tail(s)[i] = s[i + 1]
  BY HeadTailProperties
<1>5. /\ Tail(s \o rest) \in Seq(Segments) /\ Len(Tail(s \o rest)) = Len(s \o rest) - 1
      /\ \A i \in 1 .. Len(Tail(s \o rest)) : Tail(s \o rest)[i] = (s \o rest)[i + 1]
  BY <1>1, <1>3, HeadTailProperties
<1>6. /\ Tail(s) \o rest \in Seq(Segments)
      /\ Len(Tail(s) \o rest) = Len(Tail(s)) + Len(rest)
      /\ \A i \in 1 .. Len(Tail(s)) + Len(rest) :
           (Tail(s) \o rest)[i] = IF i <= Len(Tail(s)) THEN Tail(s)[i] ELSE rest[i - Len(Tail(s))]
  BY <1>4, ConcatProperties
<1>7. Tail(s \o rest) = Tail(s) \o rest
  <2> DEFINE a == Tail(s \o rest)
             b == Tail(s) \o rest
  <2>1. Len(a) = Len(b) /\ a \in Seq(Segments) /\ b \in Seq(Segments)
    BY <1>1, <1>2, <1>4, <1>5, <1>6
  <2>2. ASSUME NEW i \in 1 .. Len(a) PROVE a[i] = b[i]
    <3>1. a[i] = IF i + 1 <= Len(s) THEN s[i + 1] ELSE rest[i + 1 - Len(s)]
      BY <1>1, <1>2, <1>5
    <3>2. b[i] = IF i <= Len(s) - 1 THEN s[i + 1] ELSE rest[i - (Len(s) - 1)]
      BY <1>1, <1>2, <1>4, <1>5, <1>6
    <3>3. i + 1 - Len(s) = i - (Len(s) - 1) /\ (i + 1 <= Len(s) <=> i <= Len(s) - 1)
      BY <1>1, <1>2, <1>5
    <3> QED
      BY <3>1, <3>2, <3>3
  <2> HIDE DEF a, b
  <2>3. a = b
    BY <2>1, <2>2, SeqEqual
  <2> QED
    BY <2>3 DEF a, b
<1>8. Head(s \o rest) = Head(s)
  BY <1>1, <1>2
<1> QED
  BY <1>3, <1>7, <1>8

(* A walk is its fields. *)
LEMMA WalksAreEqual ==
  ASSUME NEW v \in WalkRecords, NEW w \in WalkRecords,
         v.parts = w.parts, v.at = w.at, v.hops = w.hops, v.end = w.end
  PROVE  v = w
BY DEF WalkRecords

LEMMA LongerIsAWalk ==
  ASSUME NEW w \in WalkRecords, NEW rest \in Seq(Segments)
  PROVE  /\ Longer(w, rest) \in WalkRecords
         /\ Longer(w, rest).parts = w.parts \o rest
         /\ Longer(w, rest).at = w.at /\ Longer(w, rest).hops = w.hops
         /\ Longer(w, rest).end = w.end
<1>1. w.parts \o rest \in Seq(Segments)
  BY ConcatProperties DEF WalkRecords
<1> QED
  BY <1>1 DEF Longer, WalkRecords

(* The walk of a longer path takes the same step. *)
LEMMA LongerStep ==
  ASSUME WalksTypeOK, NEW w \in WalkRecords, NEW rest \in Seq(Segments), ~Done(w)
  PROVE  ResolveLinks(Longer(w, rest)) = Longer(ResolveLinks(w), rest)
<1> DEFINE first == Head(w.parts)
           candidate == Append(w.at, first)
           l == Longer(w, rest)
<1>1. w.parts # <<>> /\ w.end = None /\ w.parts \in Seq(Segments) /\ w.at \in Places
  BY DEF Done, WalkRecords
<1>2. /\ l \in WalkRecords /\ l.parts = w.parts \o rest
      /\ l.at = w.at /\ l.hops = w.hops /\ l.end = w.end
  BY LongerIsAWalk
<1>3. /\ l.parts # <<>> /\ Head(l.parts) = first /\ Tail(l.parts) = Tail(w.parts) \o rest
  BY <1>1, <1>2, HeadOfLonger
<1>4. Tail(w.parts) \in Seq(Segments)
  BY <1>1, HeadTailProperties
<1>5. /\ ResolveLinks(w) \in WalkRecords /\ ResolveLinks(l) \in WalkRecords
  BY <1>1, <1>2, <1>3, StepIsTyped
<1>6. /\ Longer(ResolveLinks(w), rest) \in WalkRecords
      /\ Longer(ResolveLinks(w), rest).parts = ResolveLinks(w).parts \o rest
      /\ Longer(ResolveLinks(w), rest).at = ResolveLinks(w).at
      /\ Longer(ResolveLinks(w), rest).hops = ResolveLinks(w).hops
      /\ Longer(ResolveLinks(w), rest).end = ResolveLinks(w).end
  BY <1>5, LongerIsAWalk
<1> HIDE DEF l, first, candidate
<1>7. \A v \in WalkRecords : \A p :
        /\ Stepped(v, p).parts = Tail(v.parts) /\ Stepped(v, p).at = p
        /\ Stepped(v, p).hops = v.hops /\ Stepped(v, p).end = v.end
  BY DEF Stepped, WalkRecords
<1>8. \A v \in WalkRecords : \A k :
        /\ Followed(v, k).parts = k.to \o Tail(v.parts)
        /\ Followed(v, k).at = (IF k.absolute THEN <<>> ELSE v.at)
        /\ Followed(v, k).hops = v.hops + 1 /\ Followed(v, k).end = v.end
  BY DEF Followed, WalkRecords
<1>9. \A v \in WalkRecords :
        /\ [v EXCEPT !.end = Loops].parts = v.parts /\ [v EXCEPT !.end = Loops].at = v.at
        /\ [v EXCEPT !.end = Loops].hops = v.hops /\ [v EXCEPT !.end = Loops].end = Loops
  BY DEF WalkRecords
<1>10. /\ ResolveLinks(l).parts = ResolveLinks(w).parts \o rest
       /\ ResolveLinks(l).at = ResolveLinks(w).at
       /\ ResolveLinks(l).hops = ResolveLinks(w).hops
       /\ ResolveLinks(l).end = ResolveLinks(w).end
  <2>1. CASE first = Up
    <3>1. ResolveLinks(w) = Stepped(w, Above(w.at)) /\ ResolveLinks(l) = Stepped(l, Above(w.at))
      BY <1>2, <1>3, <2>1 DEF ResolveLinks, first
    <3>2. /\ Stepped(w, Above(w.at)).parts = Tail(w.parts) /\ Stepped(w, Above(w.at)).at = Above(w.at)
          /\ Stepped(w, Above(w.at)).hops = w.hops /\ Stepped(w, Above(w.at)).end = w.end
      BY <1>7
    <3>3. /\ Stepped(l, Above(w.at)).parts = Tail(l.parts) /\ Stepped(l, Above(w.at)).at = Above(w.at)
          /\ Stepped(l, Above(w.at)).hops = l.hops /\ Stepped(l, Above(w.at)).end = l.end
      BY <1>2, <1>7
    <3> QED
      BY <1>2, <1>3, <3>1, <3>2, <3>3
  <2>2. CASE first # Up /\ ~IsLink(candidate)
    <3>1. ResolveLinks(w) = Stepped(w, candidate) /\ ResolveLinks(l) = Stepped(l, candidate)
      BY <1>2, <1>3, <2>2 DEF ResolveLinks, first, candidate
    <3>2. /\ Stepped(w, candidate).parts = Tail(w.parts) /\ Stepped(w, candidate).at = candidate
          /\ Stepped(w, candidate).hops = w.hops /\ Stepped(w, candidate).end = w.end
      BY <1>7
    <3>3. /\ Stepped(l, candidate).parts = Tail(l.parts) /\ Stepped(l, candidate).at = candidate
          /\ Stepped(l, candidate).hops = l.hops /\ Stepped(l, candidate).end = l.end
      BY <1>2, <1>7
    <3> QED
      BY <1>2, <1>3, <3>1, <3>2, <3>3
  <2>3. CASE first # Up /\ IsLink(candidate) /\ w.hops = MaxHops
    <3>1. ResolveLinks(w) = [w EXCEPT !.end = Loops] /\ ResolveLinks(l) = [l EXCEPT !.end = Loops]
      BY <1>2, <1>3, <2>3 DEF ResolveLinks, first, candidate
    <3> QED
      BY <1>2, <1>9, <3>1
  <2>4. CASE first # Up /\ IsLink(candidate) /\ w.hops # MaxHops
    <3>1. ResolveLinks(w) = Followed(w, tree[candidate]) /\ ResolveLinks(l) = Followed(l, tree[candidate])
      BY <1>2, <1>3, <2>4 DEF ResolveLinks, first, candidate
    <3>2. tree[candidate].to \in Seq(Segments)
      <4>1. tree[candidate] \in [kind : {"link"}, absolute : BOOLEAN, to : Seq(Segments)]
        BY <2>4 DEF IsLink, WalksTypeOK, Nodes
      <4> QED
        BY <4>1
    <3> DEFINE k == tree[candidate]
    <3>3. \A to, rem \in Seq(Segments) : to \o (rem \o rest) = (to \o rem) \o rest
      BY ConcatAssociative
    <3>4. k.to \o (Tail(w.parts) \o rest) = (k.to \o Tail(w.parts)) \o rest
      BY <1>4, <3>2, <3>3
    <3> HIDE DEF k
    <3>5. /\ Followed(w, k).parts = k.to \o Tail(w.parts)
          /\ Followed(w, k).at = (IF k.absolute THEN <<>> ELSE w.at)
          /\ Followed(w, k).hops = w.hops + 1 /\ Followed(w, k).end = w.end
      BY <1>8
    <3>6. /\ Followed(l, k).parts = k.to \o Tail(l.parts)
          /\ Followed(l, k).at = (IF k.absolute THEN <<>> ELSE l.at)
          /\ Followed(l, k).hops = l.hops + 1 /\ Followed(l, k).end = l.end
      BY <1>2, <1>8
    <3>7. ResolveLinks(w) = Followed(w, k) /\ ResolveLinks(l) = Followed(l, k)
      BY <3>1 DEF k
    <3> QED
      BY <1>2, <1>3, <3>4, <3>5, <3>6, <3>7
  <2> QED
    BY <2>1, <2>2, <2>3, <2>4
<1> QED
  BY <1>5, <1>6, <1>10, WalksAreEqual DEF l

(* Following a trail one step more. *)
LEMMA StepsOfATrail ==
  \A v, w : <<v, w>> \in Steps <=>
              v \in WalkRecords /\ w \in WalkRecords /\ ~Done(v) /\ w = ResolveLinks(v)
BY DEF Steps

LEMMA TrailStarts ==
  ASSUME NEW steps, NEW path \in Seq(Segments)
  PROVE  \E t \in [0 .. 0 -> WalkRecords] : IsTrail(steps, t, 0, path, StartAt(path))
<1> DEFINE t == [i \in 0 .. 0 |-> StartAt(path)]
<1>1. StartAt(path) \in WalkRecords
  BY StartIsTyped
<1>2. t \in [0 .. 0 -> WalkRecords] /\ t[0] = StartAt(path) /\ 0 .. 0 - 1 = {}
  BY <1>1
<1> QED
  BY <1>2 DEF IsTrail

LEMMA TrailGrows ==
  ASSUME NEW path, NEW w \in WalkRecords, Trailed(Steps, path, w), ~Done(w),
         ResolveLinks(w) \in WalkRecords
  PROVE  Trailed(Steps, path, ResolveLinks(w))
<1>1. PICK n \in Nat : \E t \in [0 .. n -> WalkRecords] : IsTrail(Steps, t, n, path, w)
  BY DEF Trailed
<1>2. PICK t \in [0 .. n -> WalkRecords] : IsTrail(Steps, t, n, path, w)
  BY <1>1
<1> DEFINE u == [i \in 0 .. n + 1 |-> IF i = n + 1 THEN ResolveLinks(w) ELSE t[i]]
<1>3. u \in [0 .. n + 1 -> WalkRecords]
  BY <1>2
<1>4. \A i \in 0 .. n : u[i] = t[i]
  OBVIOUS
<1>5. u[n + 1] = ResolveLinks(w)
  OBVIOUS
<1>6. \A i \in 0 .. n : <<u[i], u[i + 1]>> \in Steps
  <2> SUFFICES ASSUME NEW i \in 0 .. n PROVE <<u[i], u[i + 1]>> \in Steps
    OBVIOUS
  <2> HIDE DEF u
  <2>1. CASE i = n
    BY <1>2, <1>4, <1>5, <2>1, StepsOfATrail DEF IsTrail
  <2>2. CASE i # n
    <3>1. i \in 0 .. n - 1 /\ i + 1 \in 0 .. n
      BY <2>2
    <3> QED
      BY <1>2, <1>4, <3>1 DEF IsTrail
  <2> QED
    BY <2>1, <2>2
<1> HIDE DEF u
<1>7. IsTrail(Steps, u, n + 1, path, ResolveLinks(w))
  <2>1. u[0] = StartAt(path)
    BY <1>2, <1>4 DEF IsTrail
  <2>2. (n + 1) - 1 = n
    OBVIOUS
  <2> QED
    BY <1>3, <1>5, <1>6, <2>1, <2>2 DEF IsTrail
<1>8. n + 1 \in Nat
  OBVIOUS
<1> QED
  BY <1>3, <1>7, <1>8 DEF Trailed

(* What lies under a folder lies under what the folder lies under. *)
LEMMA PrefixOfAppend ==
  ASSUME NEW d \in Places, NEW x \in Names
  PROVE  /\ Above(Append(d, x)) = d
         /\ \A r \in Places : IsPrefix(r, d) => IsPrefix(r, Append(d, x))
<1> DEFINE a == Append(d, x)
<1>1. /\ a \in Seq(Names) /\ a # <<>> /\ Len(a) = Len(d) + 1 /\ Len(d) \in Nat
      /\ \A i \in 1 .. Len(d) : a[i] = d[i]
  BY AppendProperties, LenProperties DEF Places
<1>2. \A i \in 1 .. Len(d) : d[i] \in Names
  BY ElementOfSeq DEF Places
<1> HIDE DEF a
<1>3. \A k \in 0 .. Len(d) : SubSeq(a, 1, k) = SubSeq(d, 1, k)
  <2> SUFFICES ASSUME NEW k \in 0 .. Len(d) PROVE SubSeq(a, 1, k) = SubSeq(d, 1, k)
    OBVIOUS
  <2>1. \A i \in 1 .. k : a[i] \in Names /\ d[i] \in Names /\ a[i] = d[i]
    BY <1>1, <1>2
  <2>2. /\ SubSeq(a, 1, k) \in Seq(Names) /\ Len(SubSeq(a, 1, k)) = k
        /\ \A i \in 1 .. k : SubSeq(a, 1, k)[i] = a[i]
    BY <1>1, <2>1, SubSeqProperties
  <2>3. /\ SubSeq(d, 1, k) \in Seq(Names) /\ Len(SubSeq(d, 1, k)) = k
        /\ \A i \in 1 .. k : SubSeq(d, 1, k)[i] = d[i]
    BY <1>1, <2>1, SubSeqProperties
  <2> QED
    BY <2>1, <2>2, <2>3, SeqEqual
<1>4. Above(a) = d
  <2>1. Above(a) = SubSeq(d, 1, Len(d))
    BY <1>1, <1>3 DEF Above, Front
  <2> QED
    BY <2>1, SubSeqFull DEF Places
<1>5. ASSUME NEW r \in Places, IsPrefix(r, d) PROVE IsPrefix(r, a)
  <2>1. Len(r) \in 0 .. Len(d) /\ SubSeq(r, 1, Len(r)) = SubSeq(d, 1, Len(r))
    BY <1>1, <1>5, LenProperties DEF IsPrefix, Places
  <2> QED
    BY <1>1, <1>3, <2>1 DEF IsPrefix
<1> QED
  BY <1>4, <1>5 DEF a

(* A declared place is its directory, and its last name. *)
LEMMA DirectoryAndName ==
  ASSUME WalkInv, stage \in Walks
  PROVE  /\ PathOf("composed") = PathOf("root") \o query.name
         /\ PathOf("composed") = PathOf("directory") \o <<Last(query.name)>>
         /\ query.name \in Seq(Segments) \ {<<>>}
         /\ <<Last(query.name)>> \in Seq(Segments)
<1>1. query.root \in Seq(Segments) /\ query.name \in Seq(Segments) /\ query.name # <<>>
  <2>1. /\ query \in AllQueries /\ query.kind \in {"file", "folder"} /\ query.root # None
        /\ query.name # <<>>
    BY DEF WalkInv, QueryInv, NamesNoFile
  <2>2. query \notin [kind : {"view"}, name : Seq(Segments)]
    BY <2>1
  <2>3. query \in [kind : {"file", "folder"}, root : Seq(Segments) \union {None},
                  name : Seq(Segments)]
    BY <2>1, <2>2 DEF AllQueries
  <2> QED
    BY <2>1, <2>3
<1> DEFINE c == query.root \o query.name
<1>2. /\ c \in Seq(Segments) /\ Len(c) = Len(query.root) + Len(query.name)
      /\ \A i \in 1 .. Len(query.root) + Len(query.name) :
           c[i] = IF i <= Len(query.root) THEN query.root[i] ELSE query.name[i - Len(query.root)]
  BY <1>1, ConcatProperties
<1>3. Len(query.root) \in Nat /\ Len(query.name) \in Nat \ {0}
  BY <1>1, EmptySeq, LenProperties
<1> HIDE DEF c
<1>7. /\ Len(c) \in 1 .. Len(query.root) + Len(query.name) /\ ~(Len(c) <= Len(query.root))
      /\ Len(c) - Len(query.root) = Len(query.name)
      /\ 1 \in 1 .. Len(c) /\ Len(c) \in 1 .. Len(c)
  <2>1. \A k, m, n \in Nat : k = m + n /\ n # 0 =>
          k \in 1 .. m + n /\ ~(k <= m) /\ k - m = n /\ 1 \in 1 .. k /\ k \in 1 .. k
    OBVIOUS
  <2>2. Len(c) = Len(query.root) + Len(query.name) /\ Len(c) \in Nat
    BY <1>2, LenProperties
  <2> QED
    BY <1>3, <2>1, <2>2
<1>4. c[Len(c)] = Last(query.name)
  BY <1>2, <1>7 DEF Last
<1>5. c = SubSeq(c, 1, Len(c) - 1) \o <<c[Len(c)]>>
  <2>1. SubSeq(c, 1, Len(c)) = SubSeq(c, 1, Len(c) - 1) \o <<c[Len(c)]>>
    BY <1>2, <1>7, SubSeqRecursiveSecond
  <2> QED
    BY <1>2, <2>1, SubSeqFull
<1>6. <<Last(query.name)>> \in Seq(Segments)
  BY NamesAreTyped DEF Segments
<1> QED
  BY <1>1, <1>4, <1>5, <1>6 DEF PathOf, Front, c

(* The start of a longer walk. *)
LEMMA LongerStart ==
  ASSUME NEW path \in Seq(Segments), NEW rest \in Seq(Segments)
  PROVE  Longer(StartAt(path), rest) = StartAt(path \o rest)
<1>1. path \o rest \in Seq(Segments)
  BY ConcatProperties
<1>2. StartAt(path) \in WalkRecords /\ StartAt(path \o rest) \in WalkRecords
  BY <1>1, StartIsTyped
<1>3. \A p : /\ StartAt(p).parts = p /\ StartAt(p).at = <<>>
              /\ StartAt(p).hops = 0 /\ StartAt(p).end = None
  BY DEF StartAt
<1>4. /\ Longer(StartAt(path), rest) \in WalkRecords
      /\ Longer(StartAt(path), rest).parts = StartAt(path).parts \o rest
      /\ Longer(StartAt(path), rest).at = StartAt(path).at
      /\ Longer(StartAt(path), rest).hops = StartAt(path).hops
      /\ Longer(StartAt(path), rest).end = StartAt(path).end
  BY <1>2, LongerIsAWalk
<1> DEFINE v == Longer(StartAt(path), rest)
           w == StartAt(path \o rest)
<1>5. v.parts = w.parts /\ v.at = w.at /\ v.hops = w.hops /\ v.end = w.end
  BY <1>3, <1>4
<1>6. v \in WalkRecords /\ w \in WalkRecords
  BY <1>2, <1>4
<1> HIDE DEF v, w
<1>7. v = w
  BY <1>5, <1>6, WalksAreEqual
<1> QED
  BY <1>7 DEF v, w

(* A walk beside one that met its limit goes on beside it, or ends with it. *)
LEMMA LostStep ==
  ASSUME WalksTypeOK, NEW root, NEW name \in Seq(Segments) \ {<<>>}, NEW w \in WalkRecords,
         LostLike(Steps, root, name, w)
  PROVE  /\ ~Done(w) => LostLike(Steps, root, name, ResolveLinks(w))
         /\ Done(w) => w.end = Loops
<1>1. PICK n \in Nat : \E t \in [0 .. n -> WalkRecords] :
        /\ IsTrail(Steps, t, n, root, t[n])
        /\ t[n].end = Loops
        /\ \E m \in 0 .. n : w = Longer(t[m], name)
  BY DEF LostLike
<1>2. PICK t \in [0 .. n -> WalkRecords] :
        /\ IsTrail(Steps, t, n, root, t[n])
        /\ t[n].end = Loops
        /\ \E m \in 0 .. n : w = Longer(t[m], name)
  BY <1>1
<1>3. PICK m \in 0 .. n : w = Longer(t[m], name)
  BY <1>2
<1>4. t[m] \in WalkRecords /\ w.end = t[m].end /\ w.parts = t[m].parts \o name
  BY <1>3, LongerIsAWalk
<1>5. ASSUME m # n
      PROVE  m + 1 \in 0 .. n /\ ~Done(t[m]) /\ t[m + 1] = ResolveLinks(t[m])
  <2>1. m \in 0 .. n - 1
    BY <1>5
  <2> QED
    BY <1>2, <2>1, StepsOfATrail DEF IsTrail
<1>6. ~Done(w) => LostLike(Steps, root, name, ResolveLinks(w))
  <2> SUFFICES ASSUME ~Done(w) PROVE LostLike(Steps, root, name, ResolveLinks(w))
    OBVIOUS
  <2>1. m # n
    BY <1>2, <1>4, EndsAssumption DEF Done
  <2>2. ResolveLinks(w) = Longer(t[m + 1], name)
    BY <1>3, <1>4, <1>5, <2>1, LongerStep
  <2> QED
    BY <1>2, <1>5, <2>1, <2>2 DEF LostLike
<1>7. Done(w) => w.end = Loops
  <2> SUFFICES ASSUME Done(w) PROVE w.end = Loops
    OBVIOUS
  <2>1. w.parts # <<>>
    <3>1. t[m].parts \in Seq(Segments)
      BY <1>4 DEF WalkRecords
    <3> QED
      BY <1>4, <3>1, ConcatEqualIffEmpty
  <2>2. w.end # None
    BY <2>1 DEF Done
  <2>3. m = n
    BY <1>4, <1>5, <2>2 DEF Done
  <2> QED
    BY <1>2, <1>4, <2>3
<1> QED
  BY <1>6, <1>7

(* A walk of the directory follows that of the file, which never loops ...   *)
LEMMA ShortStep ==
  ASSUME WalksTypeOK, NEW path, NEW last \in Names, NEW end \in Places, NEW w \in WalkRecords,
         ShortOf(Steps, path, last, end, w)
  PROVE  /\ ~Done(w) => ShortOf(Steps, path, last, end, ResolveLinks(w))
         /\ w.end = None
         /\ Done(w) => IsLink(Append(w.at, last)) \/ end = Append(w.at, last)
<1>1. PICK n \in Nat : \E t \in [0 .. n -> WalkRecords] :
        /\ IsTrail(Steps, t, n, path, t[n])
        /\ Done(t[n]) /\ EndOf(t[n]) = end
        /\ \E m \in 0 .. n : t[m] = Longer(w, <<last>>)
  BY DEF ShortOf
<1>2. PICK t \in [0 .. n -> WalkRecords] :
        /\ IsTrail(Steps, t, n, path, t[n])
        /\ Done(t[n]) /\ EndOf(t[n]) = end
        /\ \E m \in 0 .. n : t[m] = Longer(w, <<last>>)
  BY <1>1
<1>3. PICK m \in 0 .. n : t[m] = Longer(w, <<last>>)
  BY <1>2
<1>4. last \in Segments /\ last # Up /\ <<last>> \in Seq(Segments) \ {<<>>}
  BY SegmentAssumption DEF Segments
<1>5. /\ t[m] \in WalkRecords /\ t[m].end = w.end /\ t[m].parts = w.parts \o <<last>>
      /\ t[m].at = w.at /\ t[m].hops = w.hops
  BY <1>3, <1>4, LongerIsAWalk
<1>6. w.parts \in Seq(Segments) /\ w.at \in Places
  BY DEF WalkRecords
<1>7. t[m].parts # <<>>
  BY <1>4, <1>5, <1>6, ConcatEqualIffEmpty
<1>8. \A i \in 0 .. n - 1 : t[i].end = None
  BY <1>2, StepsOfATrail DEF IsTrail, Done
<1>9. t[n].end = None
  <2>1. \A p \in Places : p \in Seq(Segments)
    BY SeqMonotonic DEF Places, Segments
  <2>2. end \notin {Loops, NotDir}
    BY <2>1, EndsAssumption
  <2> QED
    BY <1>2, <2>2 DEF EndOf, WalkRecords
<1>10. t[m].end = None
  BY <1>8, <1>9
<1>11. m \in 0 .. n - 1 /\ m + 1 \in 0 .. n
  BY <1>2, <1>7, <1>10 DEF Done
<1>12. t[m + 1] = ResolveLinks(t[m])
  BY <1>2, <1>11, StepsOfATrail DEF IsTrail
<1>13. ASSUME ~Done(w) PROVE ShortOf(Steps, path, last, end, ResolveLinks(w))
  <2>1. t[m + 1] = Longer(ResolveLinks(w), <<last>>)
    BY <1>3, <1>4, <1>12, <1>13, LongerStep
  <2> QED
    BY <1>2, <1>11, <2>1 DEF ShortOf
<1>14. ASSUME Done(w), ~IsLink(Append(w.at, last)) PROVE end = Append(w.at, last)
  <2>1. w.parts = <<>>
    BY <1>5, <1>10, <1>14 DEF Done
  <2>2. t[m].parts = <<last>>
    BY <1>4, <1>5, <2>1, ConcatEmptySeq
  <2>3. Head(t[m].parts) = last /\ Tail(t[m].parts) = <<>>
    BY <2>2
  <2>4. t[m + 1] = Stepped(t[m], Append(w.at, last))
    BY <1>4, <1>5, <1>12, <1>14, <2>3 DEF ResolveLinks
  <2>5. t[m + 1].parts = <<>> /\ t[m + 1].end = None /\ t[m + 1].at = Append(w.at, last)
    BY <1>5, <1>10, <2>3, <2>4 DEF Stepped, WalkRecords
  <2>6. Done(t[m + 1])
    BY <2>5 DEF Done
  <2>7. m + 1 = n
    <3>1. CASE m + 1 \in 0 .. n - 1
      BY <1>2, <2>6, <3>1, StepsOfATrail DEF IsTrail
    <3> QED
      BY <1>11, <3>1
  <2> QED
    BY <1>2, <2>5, <2>7 DEF EndOf
<1> QED
  BY <1>5, <1>10, <1>13, <1>14

(* The same links and the same question: the same steps, and the same paths. *)
LEMMA Carried ==
  ASSUME UNCHANGED <<tree, query>>
  PROVE  Steps' = Steps /\ \A w \in Walks : PathOf(w)' = PathOf(w)
BY DEF Steps, ResolveLinks, IsLink, PathOf

(* Nothing is led anywhere before the answer. *)
LEMMA NothingLands ==
  /\ destination.path = None => OnlyAFileLeadsOut
  /\ settled = NoEnds => APrefixSettles
  /\ WalkInv /\ stage # "answered" => destination.path = None
<1>1. destination.path = None => OnlyAFileLeadsOut
  BY DEF OnlyAFileLeadsOut
<1>2. settled = NoEnds => APrefixSettles
  BY EndsAssumption DEF APrefixSettles, NoEnds, Walks
<1>3. WalkInv /\ stage # "answered" => destination.path = None
  BY DEF WalkInv, AnswerInv
<1> QED
  BY <1>1, <1>2, <1>3

LEMMA AskTrails ==
  ASSUME WalkInv, WalkInv', TrailInv, AskDestination PROVE TrailInv'
<1>1. /\ stage = "idle" /\ settled' = settled
      /\ stage' \in {"root", "answered"} /\ destination'.path = None
      /\ stage' = "root" => walk' = StartAt(query'.root)
  <2>1. destination.path = None
    BY NothingLands DEF AskDestination
  <2> QED
    BY <2>1 DEF AskDestination, AnswerDestination, Refused
<1>2. settled' = NoEnds
  BY <1>1 DEF TrailInv
<1>3. APrefixSettles' /\ OnlyAFileLeadsOut'
  <2>1. APrefixSettles'
    BY <1>2, EndsAssumption DEF APrefixSettles, NoEnds, Walks
  <2>2. OnlyAFileLeadsOut'
    BY <1>1 DEF OnlyAFileLeadsOut
  <2> QED
    BY <2>1, <2>2
<1>4. ASSUME stage' = "root"
      PROVE  Trailed(Steps', PathOf("root")', walk')
  <2>1. PathOf("root")' = query'.root
    BY DEF PathOf
  <2>2. query'.root \in Seq(Segments)
    <3>1. query' \in AllQueries /\ query'.kind \in {"file", "folder"} /\ query'.root # None
      BY <1>4 DEF WalkInv, QueryInv, Walks
    <3>2. query' \notin [kind : {"view"}, name : Seq(Segments)]
      BY <3>1
    <3>3. query' \in [kind : {"file", "folder"}, root : Seq(Segments) \union {None},
                     name : Seq(Segments)]
      BY <3>1, <3>2 DEF AllQueries
    <3> QED
      BY <3>1, <3>3
  <2>3. \E t \in [0 .. 0 -> WalkRecords] : IsTrail(Steps', t, 0, query'.root, StartAt(query'.root))
    BY <2>2, TrailStarts
  <2> QED
    BY <1>1, <1>4, <2>1, <2>3 DEF Trailed
<1>5. stage' = "root" => Trailed(Steps, PathOf(stage), walk)'
  BY <1>4
<1> QED
  BY <1>1, <1>2, <1>3, <1>5 DEF TrailInv

LEMMA WalkTrails ==
  ASSUME WalkInv, WalkInv', TrailInv, Walk PROVE TrailInv'
<1>1. /\ stage \in Walks /\ ~Done(walk) /\ walk' = ResolveLinks(walk)
      /\ UNCHANGED <<tree, query, stage, settled, opened, destination>>
  BY DEF Walk
<1>2. walk \in WalkRecords /\ walk' \in WalkRecords /\ WalksTypeOK
  BY DEF WalkInv, WalksTypeOK
<1>3. Steps' = Steps /\ \A w \in Walks : PathOf(w)' = PathOf(w)
  BY <1>1, Carried
<1>4. /\ query.name \in Seq(Segments) \ {<<>>} /\ Last(query.name) \in Names
  BY <1>1, DirectoryAndName, NamesAreTyped
<1>5. stage \in {"root", "composed"} => Trailed(Steps, PathOf(stage), walk')
  BY <1>1, <1>2, TrailGrows DEF TrailInv
<1>6. stage = "composed" /\ settled["root"] = Loops =>
        LostLike(Steps, query.root, query.name, walk')
  BY <1>1, <1>2, <1>4, LostStep DEF TrailInv
<1>7. stage = "directory" =>
        ShortOf(Steps, PathOf("composed"), Last(query.name), settled["composed"], walk')
  BY <1>1, <1>2, <1>4, ShortStep DEF TrailInv
<1>8. PathOf(stage)' = PathOf(stage) /\ PathOf("composed")' = PathOf("composed")
  BY <1>1 DEF PathOf
<1>9. /\ stage' \in {"root", "composed"} => Trailed(Steps, PathOf(stage), walk)'
      /\ stage' = "composed" /\ settled'["root"] = Loops =>
           LostLike(Steps, query.root, query.name, walk)'
      /\ stage' = "directory" =>
           ShortOf(Steps, PathOf("composed"), Last(query.name), settled["composed"], walk)'
  <2>1. stage' \in {"root", "composed"} => Trailed(Steps, PathOf(stage), walk)'
    BY <1>1, <1>3, <1>5, <1>8
  <2>2. stage' = "composed" /\ settled'["root"] = Loops =>
           LostLike(Steps, query.root, query.name, walk)'
    BY <1>1, <1>3, <1>6
  <2>3. stage' = "directory" =>
           ShortOf(Steps, PathOf("composed"), Last(query.name), settled["composed"], walk)'
    BY <1>1, <1>3, <1>7, <1>8 DEF Last
  <2> QED
    BY <2>1, <2>2, <2>3
<1>10. APrefixSettles' /\ OnlyAFileLeadsOut'
  <2>1. destination'.path = None
    BY <1>1, NothingLands DEF Walks
  <2> QED
    BY <1>1, <2>1 DEF TrailInv, APrefixSettles, OnlyAFileLeadsOut
<1> QED
  BY <1>1, <1>9, <1>10 DEF TrailInv, Walks, LedOut

(* The root has been walked: its trail is that of the place under it.        *)
LEMMA RootSettles ==
  ASSUME WalkInv, WalkInv', TrailInv, Settle, stage = "root" PROVE TrailInv'
<1>1. /\ Done(walk) /\ settled' = [settled EXCEPT !["root"] = EndOf(walk)]
      /\ stage' = "composed" /\ walk' = StartAt(PathOf("composed"))
      /\ UNCHANGED <<tree, query, destination>>
  BY DEF Settle, WalkOn
<1>2. settled = NoEnds /\ Trailed(Steps, PathOf("root"), walk)
  BY DEF TrailInv
<1>3. /\ settled'["root"] = EndOf(walk)
      /\ settled'["composed"] = None /\ settled'["directory"] = None
  BY <1>1, <1>2 DEF NoEnds, Walks
<1>4. EndOf(walk) \in Places \union {Loops}
  BY <1>1, EndsAgree DEF Walks
<1>5. Steps' = Steps /\ query' = query /\ PathOf("composed")' = PathOf("composed")
  BY <1>1, Carried DEF Walks
<1>6. /\ PathOf("composed") \in Seq(Segments) /\ PathOf("root") \in Seq(Segments)
      /\ PathOf("composed") = PathOf("root") \o query.name
      /\ query.name \in Seq(Segments) /\ PathOf("root") = query.root
  BY NamesAreTyped, DirectoryAndName DEF Walks, PathOf
<1>7. Trailed(Steps, PathOf("composed"), walk')
  BY <1>1, <1>6, TrailStarts DEF Trailed
<1>8. ASSUME EndOf(walk) = Loops PROVE LostLike(Steps, query.root, query.name, walk')
  <2>1. walk.end = Loops
    <3>1. walk.at \in Places /\ \A q \in Places : q \in Seq(Segments)
      BY SeqMonotonic DEF WalkInv, WalksTypeOK, WalkRecords, Places, Segments
    <3> QED
      BY <1>8, <3>1, EndsAssumption DEF EndOf
  <2>2. PICK n \in Nat : \E t \in [0 .. n -> WalkRecords] : IsTrail(Steps, t, n, query.root, walk)
    BY <1>2, <1>6 DEF Trailed
  <2>3. PICK t \in [0 .. n -> WalkRecords] : IsTrail(Steps, t, n, query.root, walk)
    BY <2>2
  <2>4. t[n] = walk /\ t[0] = StartAt(query.root) /\ 0 \in 0 .. n
    BY <2>3 DEF IsTrail
  <2>5. walk' = Longer(t[0], query.name)
    BY <1>1, <1>6, <2>4, LongerStart
  <2> QED
    BY <2>1, <2>3, <2>4, <2>5 DEF LostLike
<1>9. APrefixSettles' /\ OnlyAFileLeadsOut'
  <2>1. destination'.path = None
    BY <1>1, NothingLands
  <2>2. settled'["directory"] # Loops /\ settled'["composed"] = None
    BY <1>3, EndsAssumption
  <2> QED
    BY <2>1, <2>2 DEF APrefixSettles, OnlyAFileLeadsOut
<1>10. /\ Trailed(Steps, PathOf(stage), walk)'
       /\ settled'["root"] = Loops => LostLike(Steps, query.root, query.name, walk)'
  <2>1. Trailed(Steps, PathOf(stage), walk)'
    BY <1>1, <1>5, <1>7
  <2>2. settled'["root"] = Loops => LostLike(Steps, query.root, query.name, walk)'
    BY <1>3, <1>5, <1>8
  <2> QED
    BY <2>1, <2>2
<1> QED
  BY <1>1, <1>3, <1>4, <1>9, <1>10 DEF TrailInv

(* The place has been walked: a root with too many links is met in it too.   *)
LEMMA ComposedSettles ==
  ASSUME WalkInv, WalkInv', TrailInv, Settle, stage = "composed" PROVE TrailInv'
<1> DEFINE r == settled["root"]
           c == EndOf(walk)
<1>1. /\ Done(walk) /\ settled' = [settled EXCEPT !["composed"] = c]
      /\ UNCHANGED <<tree, query>>
  BY DEF Settle
<1>2. /\ settled \in [Walks -> Ends] /\ r \in Places \union {Loops}
      /\ settled["composed"] = None /\ settled["directory"] = None
      /\ Trailed(Steps, PathOf("composed"), walk) /\ walk \in WalkRecords /\ WalksTypeOK
  BY DEF TrailInv, WalkInv, WalksTypeOK
<1>3. settled'["root"] = r /\ settled'["composed"] = c /\ settled'["directory"] = None
  BY <1>1, <1>2 DEF Walks
<1>4. c \in Places \union {Loops}
  BY <1>1, EndsAgree DEF Walks
<1>5. /\ PathOf("composed") \in Seq(Segments) /\ PathOf("directory") \in Seq(Segments)
      /\ PathOf("composed") = PathOf("directory") \o <<Last(query.name)>>
      /\ <<Last(query.name)>> \in Seq(Segments)
      /\ query.name \in Seq(Segments) \ {<<>>}
  BY NamesAreTyped, DirectoryAndName DEF Walks
<1>6. r = Loops => c = Loops
  <2> SUFFICES ASSUME r = Loops PROVE c = Loops
    OBVIOUS
  <2>1. LostLike(Steps, query.root, query.name, walk)
    BY DEF TrailInv
  <2>2. walk.end = Loops
    BY <1>1, <1>2, <1>5, <2>1, LostStep
  <2> QED
    BY <2>2, EndsAssumption DEF EndOf
<1>7. APrefixSettles'
  BY <1>3, <1>6, EndsAssumption DEF APrefixSettles
<1>8. Steps' = Steps /\ PathOf("composed")' = PathOf("composed") /\ query' = query
  BY <1>1, Carried DEF Walks
<1> HIDE DEF c
<1>9. CASE LedOut(r, c)
  <2>1. /\ stage' = "directory" /\ walk' = StartAt(PathOf("directory"))
        /\ destination' = destination
    BY <1>1, <1>2, <1>3, <1>9 DEF Settle, WalkOn, Walks
  <2>2. r \in Places /\ c \in Places
    BY <1>2, <1>4, <1>9 DEF LedOut
  <2>4. ShortOf(Steps, PathOf("composed"), Last(query.name), c, walk')
    <3>1. PICK n \in Nat : \E t \in [0 .. n -> WalkRecords] :
                             IsTrail(Steps, t, n, PathOf("composed"), walk)
      BY <1>2 DEF Trailed
    <3>2. PICK t \in [0 .. n -> WalkRecords] : IsTrail(Steps, t, n, PathOf("composed"), walk)
      BY <3>1
    <3>3. t[n] = walk /\ t[0] = StartAt(PathOf("composed")) /\ 0 \in 0 .. n
      BY <3>2 DEF IsTrail
    <3>4. t[0] = Longer(walk', <<Last(query.name)>>)
      BY <1>5, <2>1, <3>3, LongerStart
    <3> QED
      BY <1>1, <3>2, <3>3, <3>4 DEF ShortOf, c
  <2>5. ShortOf(Steps, PathOf("composed"), Last(query.name), settled["composed"], walk)'
    BY <1>3, <1>8, <2>4 DEF Last
  <2>6. OnlyAFileLeadsOut'
    BY <2>1, NothingLands DEF OnlyAFileLeadsOut
  <2>7. LedOut(settled["root"], settled["composed"])'
    BY <1>1, <1>3, <1>9 DEF LedOut
  <2> QED
    BY <1>3, <1>7, <2>1, <2>2, <2>5, <2>6, <2>7 DEF TrailInv
<1>10. CASE ~LedOut(r, c)
  <2>1. stage' = "answered" /\ destination' = DestinationOf(r, c, None)
    BY <1>1, <1>2, <1>3, <1>10 DEF Settle, EndWalks, AnswerDestination, Walks
  <2>2. ASSUME destination'.path # None
        PROVE  destination'.path = c /\ IsPrefix(r, c)
    BY <2>1, <2>2 DEF DestinationOf, Lands, LandsThrough, Refused
  <2>3. destination'.path # None => opened'["composed"] \in {c, NotDir}
    <3>1. destination'.path # None => opened'["composed"] # None
      BY DEF WalkInv, AnswerInv
    <3> QED
      BY <1>3, <3>1 DEF WalkInv, LandsWithTheKernel, Walks
  <2>4. OnlyAFileLeadsOut'
    BY <1>3, <2>2, <2>3 DEF OnlyAFileLeadsOut
  <2> QED
    BY <1>7, <2>1, <2>4 DEF TrailInv
<1> QED
  BY <1>9, <1>10

(* The directory has been walked: what the file's walk met next is a link.   *)
LEMMA DirectorySettles ==
  ASSUME WalkInv, WalkInv', TrailInv, Settle, stage = "directory" PROVE TrailInv'
<1> DEFINE r == settled["root"]
           c == settled["composed"]
           d == EndOf(walk)
           name == Last(query.name)
<1>1. /\ Done(walk) /\ settled' = [settled EXCEPT !["directory"] = d]
      /\ UNCHANGED <<tree, query>>
      /\ stage' = "answered"
      /\ destination' = DestinationOf(settled'["root"], settled'["composed"], settled'["directory"])
  BY DEF Settle, EndWalks, AnswerDestination
<1>2. /\ settled \in [Walks -> Ends] /\ r \in Places /\ c \in Places /\ LedOut(r, c)
      /\ ShortOf(Steps, PathOf("composed"), name, c, walk)
      /\ walk \in WalkRecords /\ WalksTypeOK
  BY DEF TrailInv, WalkInv, WalksTypeOK
<1>3. settled'["root"] = r /\ settled'["composed"] = c /\ settled'["directory"] = d
  BY <1>1, <1>2 DEF Walks
<1>4. name \in Names
  BY NamesAreTyped DEF Walks
<1>5. walk.end = None /\ (IsLink(Append(walk.at, name)) \/ c = Append(walk.at, name))
  BY <1>1, <1>2, <1>4, ShortStep
<1>6. d = walk.at /\ d \in Places
  BY <1>2, <1>5 DEF EndOf, WalkRecords
<1>7. \A q \in Places : q # Loops /\ q # None
  <2>1. \A q \in Places : q \in Seq(Segments)
    BY SeqMonotonic DEF Places, Segments
  <2> QED
    BY <2>1, EndsAssumption
<1>8. APrefixSettles'
  BY <1>2, <1>3, <1>6, <1>7 DEF APrefixSettles
<1> HIDE DEF r, c, d, name
<1>9. ~IsPrefix(r, c) /\ query.kind = "file"
  BY <1>2 DEF LedOut
<1>10. IsPrefix(r, d) => IsLink(Append(d, name))
  BY <1>2, <1>4, <1>5, <1>6, <1>9, PrefixOfAppend
<1>11. OnlyAFileLeadsOut'
  <2> SUFFICES ASSUME destination'.path # None PROVE OnlyAFileLeadsOut'
    BY DEF OnlyAFileLeadsOut
  <2>1. destination' = DestinationOf(r, c, d) /\ Loops \notin {r, c}
    BY <1>1, <1>2, <1>3, <1>7
  <2>2. IsPrefix(r, d) /\ destination' = LandsThrough(Append(d, name), c)
    BY <1>9, <2>1 DEF DestinationOf, Refused, name
  <2>3. destination'.path = c /\ destination'.link = Append(d, name)
    BY <2>2 DEF LandsThrough
  <2>4. opened'["composed"] \in {c, NotDir}
    <3>1. opened'["composed"] # None
      BY DEF WalkInv, AnswerInv
    <3> QED
      BY <1>3, <3>1 DEF WalkInv, LandsWithTheKernel, Walks
  <2>5. Above(destination'.link) = d /\ destination'.link \in Places
    BY <1>4, <1>6, <2>3, PrefixOfAppend, AppendProperties DEF Places
  <2>6. IsLink(destination.link)'
    <3>1. IsLink(Append(d, name))
      BY <1>10, <2>2
    <3>2. tree' = tree
      BY <1>1
    <3> QED
      BY <2>3, <3>1, <3>2 DEF IsLink
  <2>7. destination'.link # None
    BY <1>7, <2>5
  <2>8. query'.kind = "file" /\ settled'["root"] = r
    BY <1>1, <1>3, <1>9
  <2> QED
    BY <2>2, <2>3, <2>4, <2>5, <2>6, <2>7, <2>8 DEF OnlyAFileLeadsOut
<1> QED
  BY <1>1, <1>8, <1>11 DEF TrailInv

(* Every step keeps the trails. *)
LEMMA TrailStep ==
  ASSUME WalkInv, WalkInv', TrailInv, [LinkNext]_linkVars PROVE TrailInv'
<1>1. CASE AskLinkView \/ OpenDirectory \/ SpliceFirstLink \/ AnswerLinkView
  <2>1. /\ stage \in {"idle", "view", "chain"} /\ stage' \in {"view", "chain", "answered"}
        /\ UNCHANGED <<settled, destination>>
    BY <1>1 DEF AskLinkView, OpenDirectory, SpliceFirstLink, AnswerLinkView
  <2>2. settled' = NoEnds /\ destination'.path = None
    BY <2>1, NothingLands DEF TrailInv
  <2>3. APrefixSettles' /\ OnlyAFileLeadsOut'
    BY <2>2, EndsAssumption DEF APrefixSettles, OnlyAFileLeadsOut, NoEnds, Walks
  <2> QED
    BY <2>1, <2>2, <2>3 DEF TrailInv
<1>2. CASE NextLinkQuestion
  <2>1. stage' = "idle" /\ settled' = NoEnds /\ destination'.path = None
    BY <1>2 DEF NextLinkQuestion, NoDestination
  <2>2. APrefixSettles' /\ OnlyAFileLeadsOut'
    BY <2>1, EndsAssumption DEF APrefixSettles, OnlyAFileLeadsOut, NoEnds, Walks
  <2> QED
    BY <2>1, <2>2 DEF TrailInv
<1>3. CASE UNCHANGED linkVars
  <2>1. UNCHANGED <<tree, query, stage, walk, settled, opened, destination>>
    BY <1>3 DEF linkVars
  <2>2. Steps' = Steps /\ PathOf(stage)' = PathOf(stage) /\ PathOf("composed")' = PathOf("composed")
    BY <2>1, Carried DEF Walks, PathOf
  <2>3. APrefixSettles' /\ OnlyAFileLeadsOut'
    BY <2>1 DEF TrailInv, APrefixSettles, OnlyAFileLeadsOut, IsLink
  <2>4. LedOut(settled["root"], settled["composed"])' = LedOut(settled["root"], settled["composed"])
    BY <2>1 DEF LedOut
  <2>5. /\ Trailed(Steps, PathOf(stage), walk)' = Trailed(Steps, PathOf(stage), walk)
        /\ LostLike(Steps, query.root, query.name, walk)' = LostLike(Steps, query.root, query.name, walk)
        /\ ShortOf(Steps, PathOf("composed"), Last(query.name), settled["composed"], walk)'
             = ShortOf(Steps, PathOf("composed"), Last(query.name), settled["composed"], walk)
    BY <2>1, <2>2 DEF Last
  <2> QED
    BY <2>1, <2>3, <2>4, <2>5 DEF TrailInv
<1>4. CASE Settle
  BY <1>4, RootSettles, ComposedSettles, DirectorySettles DEF Settle, Walks
<1> QED
  BY <1>1, <1>2, <1>3, <1>4, AskTrails, WalkTrails DEF LinkNext

LEMMA TrailAlways == LinkSpec => []TrailInv
<1>1. LinkInit => TrailInv
  <2> SUFFICES ASSUME LinkInit PROVE TrailInv
    OBVIOUS
  <2>1. stage = "idle" /\ settled = NoEnds /\ destination.path = None
    BY DEF LinkInit, NoDestination
  <2> QED
    BY <2>1, NothingLands DEF TrailInv
<1>2. WalkInv /\ WalkInv' /\ TrailInv /\ [LinkNext]_linkVars => TrailInv'
  BY TrailStep
<1> QED
  BY <1>1, <1>2, WAlways, PTL DEF LinkSpec
-----------------------------------------------------------------------------
(* The walks and the destination are typed. *)
THEOREM WalksTyped == LinkSpec => []WalksTypeOK
<1>1. WalkInv => WalksTypeOK
  BY DEF WalkInv
<1> QED
  BY <1>1, WAlways, PTL

(* In every tree, under every limit: resolve_links lands where the kernel    *)
(* does, and gives up on the links exactly where the kernel does.            *)
THEOREM ResolvesAsTheKernel == LinkSpec => []LandsWithTheKernel
<1>1. WalkInv => LandsWithTheKernel
  BY DEF WalkInv
<1> QED
  BY <1>1, WAlways, PTL

(* In every tree, under every root: a declared place is refused only where   *)
(* the kernel leaves the root, or gets nowhere.                              *)
THEOREM RefusalsAreTheKernels == LinkSpec => []NothingInsideIsRefused
<1>1. WalkInv => NothingInsideIsRefused
  <2> SUFFICES ASSUME WalkInv PROVE NothingInsideIsRefused
    OBVIOUS
  <2> DEFINE within(end) == end \notin {None, Loops, NotDir} /\ IsPrefix(opened["root"], end)
             r == settled["root"]
             c == settled["composed"]
             d == settled["directory"]
  <2>1. \A w \in Walks : opened[w] \notin {None, NotDir} => settled[w] = opened[w]
    BY DEF WalkInv, LandsWithTheKernel
  <2>2. destination.refusal \in {"escapes", "unresolvable"} =>
          /\ destination = DestinationOf(r, c, d)
          /\ opened["root"] # None /\ opened["composed"] # None
    BY DEF WalkInv, AnswerInv
  <2>3. ASSUME destination.refusal = "escapes", opened["root"] # NotDir
        PROVE  /\ ~within(opened["composed"])
               /\ query.kind = "file" => ~within(opened["directory"])
    <3>1. /\ Loops \notin {r, c} /\ ~IsPrefix(r, c)
          /\ ~(d \notin {None, Loops} /\ IsPrefix(r, d))
      BY <2>2, <2>3, EndsAssumption DEF DestinationOf, Refused, Lands, LandsThrough
    <3>2. opened["root"] = r
      BY <2>1, <2>2, <2>3 DEF Walks
    <3> QED
      BY <2>1, <3>1, <3>2 DEF Walks
  <2>4. ASSUME destination.refusal = "unresolvable"
        PROVE  {opened["root"], opened["composed"]} \cap {Loops, NotDir} # {}
    <3>1. Loops \in {r, c}
      BY <2>2, <2>4, EndsAssumption DEF DestinationOf, Refused, Lands, LandsThrough
    <3> QED
      BY <2>1, <2>2, <2>4, <3>1 DEF Walks
  <2> QED
    BY <2>3, <2>4 DEF NothingInsideIsRefused
<1> QED
  BY <1>1, WAlways, PTL

(* In every tree, under every root and every limit: a destination is the     *)
(* place the kernel opens, and leaves the root by a link in a directory      *)
(* under it or not at all.                                                  *)
THEOREM OnlyFilesLeadOut == LinkSpec => []OnlyAFileLeadsOut
<1>1. TrailInv => OnlyAFileLeadsOut
  BY DEF TrailInv
<1> QED
  BY <1>1, TrailAlways, PTL

(* The directory of a place that resolves does, and so does its root.        *)
THEOREM PrefixesSettle == LinkSpec => []APrefixSettles
<1>1. TrailInv => APrefixSettles
  BY DEF TrailInv
<1> QED
  BY <1>1, TrailAlways, PTL
-----------------------------------------------------------------------------
(* The walks of a sandbox's path: the view's, and the kernel's in it.        *)
SeenEnds == {None, "hidden", "unknown"}
InsideEnds == {None, "no folder", "loop"}
IsWalk(w, ends) ==
  w \in [parts : {w.parts}, at : {w.at}, hops : 0 .. MaxHops, end : ends]

SandboxWalks ==
  /\ IsWalk(seeing, SeenEnds)
  /\ IsWalk(inside, InsideEnds)
  /\ told \in {None, "hit", "miss", "unknown"}

(* A walk that starts, steps, follows a link below the limit, or ends.       *)
LEMMA WalksStart == ASSUME NEW path, NEW ends, None \in ends PROVE IsWalk(StartAt(path), ends)
BY HopsAssumption DEF IsWalk, StartAt

LEMMA WalksGoOn ==
  ASSUME NEW w, NEW ends, IsWalk(w, ends)
  PROVE  /\ \A place : IsWalk(Stepped(w, place), ends)
         /\ \A link : w.hops # MaxHops => IsWalk(Followed(w, link), ends)
         /\ \A e \in ends : IsWalk([w EXCEPT !.end = e], ends)
<1>1. w.hops # MaxHops => w.hops + 1 \in 0 .. MaxHops
  BY HopsAssumption DEF IsWalk
<1>2. \A place : IsWalk(Stepped(w, place), ends)
  BY DEF Stepped, IsWalk
<1>3. \A link : w.hops # MaxHops => IsWalk(Followed(w, link), ends)
  BY <1>1 DEF Followed, IsWalk
<1>4. \A e \in ends : IsWalk([w EXCEPT !.end = e], ends)
  BY DEF IsWalk
<1> QED
  BY <1>2, <1>3, <1>4

(* A place is read on the host, or why not is one of two.                    *)
LEMMA WhyNotRead == ASSUME NEW p PROVE HostOf(p).says \in {"path", "hidden", "unknown"}
<1>1. OwnTree(p) = NotOwn \/ OwnTree(p).says \in {"path", "hidden", "unknown"}
  BY DEF OwnTree, InTree, ReadAt, Unknown
<1>2. GrantedOrMasked(p) = NotOwn \/ GrantedOrMasked(p).says \in {"path", "hidden", "unknown"}
  BY DEF GrantedOrMasked, ReadAt, Unknown, Hidden
<1> QED
  BY <1>1, <1>2 DEF HostOf, ReadAt, Unknown

(* One turn of the view's walk, and one of the kernel's.                     *)
LEMMA ViewsTurn ==
  ASSUME NEW w, IsWalk(w, SeenEnds)
  PROVE  IsWalk(Resolve(w), SeenEnds)
<1> DEFINE place == Append(w.at, Head(w.parts))
<1>1. HostOf(place).says = "path" \/ HostOf(place).says \in SeenEnds
  BY WhyNotRead DEF SeenEnds
<1>2. "hidden" \in SeenEnds
  BY DEF SeenEnds
<1> HIDE DEF place
<1> QED
  BY <1>1, <1>2, WalksGoOn DEF Resolve, place

LEMMA KernelsTurn ==
  ASSUME NEW w, IsWalk(w, InsideEnds)
  PROVE  IsWalk(Enter(w), InsideEnds)
<1> DEFINE place == Append(w.at, Head(w.parts))
           node == InSandbox(place)
<1>1. "no folder" \in InsideEnds /\ "loop" \in InsideEnds
  BY DEF InsideEnds
<1> HIDE DEF place, node
<1> QED
  BY <1>1, WalksGoOn DEF Enter, place, node

(* Both walks stay walks, however many links a host holds, and the answer is *)
(* one of the three.                                                         *)
THEOREM SandboxTypes == SandboxSpec => []SandboxTypeOK
<1>1. SandboxInit => SandboxWalks
  BY WalksStart DEF SandboxInit, SandboxWalks, SeenEnds, InsideEnds
<1>2. SandboxWalks /\ [SandboxNext]_sandboxVars => SandboxWalks'
  <2> SUFFICES ASSUME SandboxWalks, [SandboxNext]_sandboxVars PROVE SandboxWalks'
    OBVIOUS
  <2>1. CASE AskSandbox \/ NextProbe
    <3>1. \E path : seeing' = StartAt(path) /\ inside' = StartAt(path)
      BY <2>1 DEF AskSandbox, NextProbe
    <3>2. told' \in {told, None}
      BY <2>1 DEF AskSandbox, NextProbe
    <3> QED
      BY <3>1, <3>2, WalksStart DEF SandboxWalks, SeenEnds, InsideEnds
  <2>2. CASE StartSandbox \/ UNCHANGED sandboxVars
    BY <2>2 DEF StartSandbox, sandboxVars, SandboxWalks, IsWalk
  <2>3. CASE SeeAndEnter
    <3>1. seeing' \in {seeing, Resolve(seeing)} /\ inside' \in {inside, Enter(inside)} /\ told' = told
      BY <2>3 DEF SeeAndEnter
    <3> QED
      BY <3>1, ViewsTurn, KernelsTurn DEF SandboxWalks
  <2>4. CASE TellProbe
    BY <2>4 DEF TellProbe, Told, SandboxWalks
  <2> QED
    BY <2>1, <2>2, <2>3, <2>4 DEF SandboxNext
<1>3. SandboxWalks => SandboxTypeOK
  BY DEF SandboxWalks, SandboxTypeOK, IsWalk, SeenEnds, InsideEnds
<1> QED
  BY <1>1, <1>2, <1>3, PTL DEF SandboxSpec
=============================================================================
