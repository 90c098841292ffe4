------------------------------ MODULE LinkWalks ------------------------------
(***************************************************************************)
(* Following links as the kernel does, three times over.  A declared        *)
(* firmware file is resolved against its root by firmware.resolve_links     *)
(* (destination_under); a directory an answer names is resolved by          *)
(* _resolve_symlink_chain, which also counts the links (_link_view); and    *)
(* FixtureMachine._resolve is the kernel's own walk, the one an emulator's  *)
(* open() makes, which both are held against.  Nothing moves while one      *)
(* question is answered.                                                   *)
(***************************************************************************)
EXTENDS PathWalks

CONSTANTS
  Names,     \* the names a folder's entries have
  Trees,     \* the file trees a question may meet
  Queries,   \* the questions asked
  Loops,     \* where a walk with too many links ends
  NotDir     \* where the kernel ends that would step through no directory

Segments == Names \union {Up}
Places == Seq(Names)
Nodes == [kind : {"file", "dir"}]
           \union [kind : {"link"}, absolute : BOOLEAN, to : Seq(Segments)]
AllQueries ==
  [kind : {"file", "folder"}, root : Seq(Segments) \union {None}, name : Seq(Segments)]
    \union [kind : {"view"}, name : Seq(Segments)]

ASSUME SegmentAssumption == Up \notin Names
ASSUME TreesAssumption ==
  \A t \in Trees : DOMAIN t \subseteq Places /\ t \in [DOMAIN t -> Nodes]
ASSUME QueriesAssumption == Queries \subseteq AllQueries
ASSUME EndsAssumption ==
  /\ Loops # NotDir /\ Loops # None /\ NotDir # None
  /\ None \notin {"escapes", "unresolvable"}
  /\ \A e \in {Loops, NotDir, None} : e \notin Seq(Segments)

VARIABLES
  tree,         \* what stands where, and the links: a function from places
  query,        \* the question: a declared name under a root, or a directory
  stage,        \* which walk is on
  walk,         \* resolve_links' walk
  kernel,       \* the kernel's walk of the same path
  settled,      \* where resolve_links took each of the paths asked for
  opened,       \* where the kernel took it
  chain,        \* _resolve_symlink_chain: the path so far, the links traversed
  destination,  \* the Destination answered
  linkView      \* the link view answered

linkVars ==
  <<tree, query, stage, walk, kernel, settled, opened, chain, destination, linkView>>

Walks == {"root", "composed", "directory"}
Stages == Walks \union {"idle", "view", "chain", "answered"}

IsLink(p) == p \in DOMAIN tree /\ tree[p].kind = "link"
IsDirectory(p) == p = <<>> \/ (p \in DOMAIN tree /\ tree[p].kind = "dir")

(* The path of each walk.  _join_under composes verbatim. *)
PathOf(w) ==
  LET composed == query.root \o query.name
  IN  IF w = "root" THEN query.root
      ELSE IF w = "composed" THEN composed
      ELSE Front(composed)

NoWalk == StartAt(<<>>)

(* Mutant: the limit is met one hop late. *)
ResolveLinksLater(w) ==
  LET candidate == Append(w.at, Head(w.parts))
  IN  IF Head(w.parts) = Up THEN Stepped(w, Above(w.at))
      ELSE IF ~IsLink(candidate) THEN Stepped(w, candidate)
      ELSE IF w.hops = MaxHops + 1 THEN [w EXCEPT !.end = Loops]
      ELSE Followed(w, tree[candidate])

(* One turn of the loop of resolve_links. *)
ResolveLinks(w) ==
  LET candidate == Append(w.at, Head(w.parts))
  IN  IF Head(w.parts) = Up THEN Stepped(w, Above(w.at))
      ELSE IF ~IsLink(candidate) THEN Stepped(w, candidate)
      ELSE IF w.hops = MaxHops THEN [w EXCEPT !.end = Loops]
      ELSE Followed(w, tree[candidate])

(* The kernel's: a place is stepped through only if it is a directory. *)
KernelWalk(k) ==
  LET candidate == Append(k.at, Head(k.parts))
  IN  IF k.end # None \/ k.parts = <<>> THEN k
      ELSE IF ~IsDirectory(k.at) THEN [k EXCEPT !.end = NotDir]
      ELSE IF Head(k.parts) = Up THEN Stepped(k, Above(k.at))
      ELSE IF ~IsLink(candidate) THEN Stepped(k, candidate)
      ELSE IF k.hops + 1 > MaxHops THEN [k EXCEPT !.end = Loops]
      ELSE Followed(k, tree[candidate])

NoEnds == [w \in Walks |-> None]
NoDestination == [path |-> None, refusal |-> None, link |-> None]
Lands(p) == [path |-> p, refusal |-> None, link |-> None]
LandsThrough(l, p) == [path |-> p, refusal |-> None, link |-> l]
Refused(why) == [path |-> None, refusal |-> why, link |-> None]
NoChain == [path |-> <<>>, links |-> 0]
-----------------------------------------------------------------------------
LinkInit ==
  /\ tree = <<>>
  /\ query = None
  /\ stage = "idle"
  /\ walk = NoWalk
  /\ kernel = NoWalk
  /\ settled = NoEnds
  /\ opened = NoEnds
  /\ chain = NoChain
  /\ destination = NoDestination
  /\ linkView = None

AnswerDestination(d) ==
  /\ destination' = d
  /\ stage' = "answered"

(* destination_under and _destination_of refuse, or start walking. *)
NamesNoFile(name) == name = <<>> \/ Last(name) = Up

(* Mutant: a name that ends in a climb is a file like any other. *)
NamesNothing(name) == name = <<>>

AskDestination ==
  /\ stage = "idle"
  /\ tree' \in Trees
  /\ \E q \in Queries :
       /\ q.kind \in {"file", "folder"}
       /\ query' = q
       /\ IF q.root = None THEN AnswerDestination(Refused("root-unusable")) /\ UNCHANGED walk
          ELSE IF NamesNoFile(q.name)
          THEN AnswerDestination(Refused("names-no-file")) /\ UNCHANGED walk
          ELSE /\ stage' = "root"
               /\ walk' = StartAt(q.root)
               /\ UNCHANGED destination
  /\ kernel' = walk'
  /\ UNCHANGED <<settled, opened, chain, linkView>>

(* resolve_links and the kernel take one segment each. *)
Walk ==
  /\ stage \in Walks
  /\ ~Done(walk)
  /\ walk' = ResolveLinks(walk)
  /\ kernel' = KernelWalk(kernel)
  /\ UNCHANGED <<tree, query, stage, settled, opened, chain, destination, linkView>>

(* Whether the declared place is held against its directory part as well. *)
LedOut(root, composed) ==
  /\ Loops \notin {root, composed}
  /\ ~IsPrefix(root, composed)
  /\ query.kind = "file"

(* Mutant: the links of the walk before still count. *)
WalkOnSpent(next) ==
  /\ stage' = next
  /\ walk' = [StartAt(PathOf(next)) EXCEPT !.hops = walk.hops]
  /\ kernel' = StartAt(PathOf(next))
  /\ UNCHANGED destination

WalkOn(next) ==
  /\ stage' = next
  /\ walk' = StartAt(PathOf(next))
  /\ kernel' = walk'
  /\ UNCHANGED destination

EndWalks(d) ==
  /\ AnswerDestination(d)
  /\ walk' = NoWalk
  /\ kernel' = NoWalk

(* Mutants: the directory part is not asked about; nor is the place itself. *)
DestinationOfTheFile(root, composed, directory) ==
  IF Loops \in {root, composed} THEN Refused("unresolvable")
  ELSE IF IsPrefix(root, composed) THEN Lands(composed)
  ELSE Refused("escapes")

DestinationUnbounded(root, composed, directory) ==
  IF Loops \in {root, composed} THEN Refused("unresolvable")
  ELSE Lands(composed)

(* The tail of _destination_of, from where the three walks settled. *)
DestinationOf(root, composed, directory) ==
  IF Loops \in {root, composed} THEN Refused("unresolvable")
  ELSE IF IsPrefix(root, composed) THEN Lands(composed)
  ELSE IF directory \notin {None, Loops} /\ IsPrefix(root, directory)
  THEN LandsThrough(Append(directory, Last(query.name)), composed)
  ELSE Refused("escapes")

Settle ==
  LET ends == [settled EXCEPT ![stage] = EndOf(walk)]
  IN  /\ stage \in Walks
      /\ Done(walk)
      /\ settled' = ends
      /\ opened' = [opened EXCEPT ![stage] = EndOf(kernel)]
      /\ IF stage = "root" THEN WalkOn("composed")
         ELSE IF stage = "composed" /\ LedOut(ends["root"], ends["composed"])
         THEN WalkOn("directory")
         ELSE EndWalks(DestinationOf(ends["root"], ends["composed"], ends["directory"]))
      /\ UNCHANGED <<tree, query, chain, linkView>>

-----------------------------------------------------------------------------
(* The other question: _link_view of a directory.  The kernel first. *)
AskLinkView ==
  /\ stage = "idle"
  /\ tree' \in Trees
  /\ \E q \in Queries :
       /\ q.kind = "view"
       /\ query' = q
       /\ kernel' = StartAt(q.name)
  /\ stage' = "view"
  /\ UNCHANGED <<walk, settled, opened, chain, destination, linkView>>

OpenDirectory ==
  /\ stage = "view"
  /\ kernel' = KernelWalk(kernel)
  /\ IF Done(kernel)
     THEN /\ stage' = "chain"
          /\ chain' = [path |-> query.name, links |-> 0]
     ELSE UNCHANGED <<stage, chain>>
  /\ UNCHANGED <<tree, query, walk, settled, opened, destination, linkView>>

(* Where a path of no links leads, or NotDir. *)
PlainStep(at, segment) ==
  IF at = NotDir \/ ~IsDirectory(at) THEN NotDir
  ELSE IF segment = Up THEN Above(at) ELSE Append(at, segment)
Plain(path) == FoldLeft(PlainStep, <<>>, path)

(* os.path.normpath: the spelling alone. *)
Normal(path) ==
  FoldLeft(LAMBDA at, segment : IF segment = Up THEN Above(at) ELSE Append(at, segment),
           <<>>, path)

(* The prefixes of the path that are links, as readlink finds them. *)
LinksOn(path) == {i \in 1 .. Len(path) :
                    LET p == Plain(SubSeq(path, 1, i))
                    IN  path[i] # Up /\ p # NotDir /\ IsLink(p)}

(* Mutant: a relative target is taken from the root. *)
SplicedAtRoot(path, i) ==
  tree[Plain(SubSeq(path, 1, i))].to \o SubSeq(path, i + 1, Len(path))

(* A relative target is joined to the link's directory and normalised. *)
Spliced(path, i) ==
  LET link == tree[Plain(SubSeq(path, 1, i))]
      target == IF link.absolute THEN link.to
                ELSE Normal(SubSeq(path, 1, i - 1) \o link.to)
  IN  target \o SubSeq(path, i + 1, Len(path))

SpliceFirstLink ==
  LET links == LinksOn(chain.path)
      first == CHOOSE i \in links : \A j \in links : i <= j
  IN  /\ stage = "chain"
      /\ links # {}
      /\ chain.links < MaxHops
      /\ chain' = [path |-> Spliced(chain.path, first), links |-> chain.links + 1]
      /\ UNCHANGED <<tree, query, stage, walk, kernel, settled, opened, destination, linkView>>

AnswerLinkView ==
  LET stands == LET p == Plain(chain.path) IN p = <<>> \/ p \in DOMAIN tree
  IN  /\ stage = "chain"
      /\ LinksOn(chain.path) = {} \/ chain.links = MaxHops
      /\ linkView' = IF LinksOn(chain.path) # {} THEN [says |-> "loop", dir |-> None]
                     ELSE IF chain.links = 0 THEN [says |-> "no-link", dir |-> None]
                     ELSE IF ~stands THEN [says |-> "dead", dir |-> None]
                     ELSE [says |-> "physical", dir |-> chain.path]
      /\ stage' = "answered"
      /\ UNCHANGED <<tree, query, walk, kernel, settled, opened, chain, destination>>

(* The answer has been given: the next question starts from nothing. *)
NextLinkQuestion ==
  /\ stage = "answered"
  /\ tree' = <<>>
  /\ query' = None
  /\ stage' = "idle"
  /\ walk' = NoWalk
  /\ kernel' = NoWalk
  /\ settled' = NoEnds
  /\ opened' = NoEnds
  /\ chain' = NoChain
  /\ destination' = NoDestination
  /\ linkView' = None

LinkNext ==
  \/ AskDestination \/ Walk \/ Settle
  \/ AskLinkView \/ OpenDirectory \/ SpliceFirstLink \/ AnswerLinkView
  \/ NextLinkQuestion

LinkSpec == LinkInit /\ [][LinkNext]_linkVars
-----------------------------------------------------------------------------
WalkRecords ==
  [parts : Seq(Segments), at : Places, hops : 0 .. MaxHops, end : {None, Loops, NotDir}]
Ends == Places \union {None, Loops, NotDir}

WalksTypeOK ==
  /\ DOMAIN tree \subseteq Places /\ tree \in [DOMAIN tree -> Nodes]
  /\ query \in AllQueries \union {None}
  /\ stage \in Stages
  /\ walk \in WalkRecords
  /\ kernel \in WalkRecords
  /\ settled \in [Walks -> Ends]
  /\ opened \in [Walks -> Ends]
  /\ destination \in [path : Places \union {None},
                      refusal : {"root-unusable", "names-no-file", "unresolvable",
                                 "escapes", None},
                      link : Places \union {None}]

LinkTypeOK ==
  /\ WalksTypeOK
  /\ chain \in [path : Seq(Segments), links : 0 .. MaxHops]
  /\ linkView \in [says : {"loop", "no-link", "dead", "physical"},
                   dir : Seq(Segments) \union {None}] \union {None}

(* Where the kernel gets anywhere, resolve_links gets to the same place, and *)
(* it gives up on a chain of links exactly where the kernel does: "the way   *)
(* the kernel would" (resolve_links), "so the boundary cannot drift"         *)
(* (FixtureMachine._resolve).                                                *)
LandsWithTheKernel ==
  \A w \in Walks : opened[w] \notin {None, NotDir} => settled[w] = opened[w]

Answered == destination # NoDestination

(* A destination is the file the core opens.  It lies under the root, or it  *)
(* is led out by the file there alone: a link, in a directory under the root *)
(* (_destination_of).  No folder is answered outside.                        *)
OnlyAFileLeadsOut ==
  destination.path # None =>
    /\ opened["composed"] \in {destination.path, NotDir}
    /\ \/ IsPrefix(settled["root"], destination.path)
       \/ /\ destination.link # None
          /\ query.kind = "file"
          /\ IsLink(destination.link)
          /\ IsPrefix(settled["root"], Above(destination.link))

(* What a core can open in its firmware tree is never refused: a refusal to  *)
(* follow means that the kernel leaves the root, by the file's directory     *)
(* where it is a file; a refusal to resolve, that the kernel gets nowhere.   *)
NothingInsideIsRefused ==
  LET inside(end) == end \notin {None, Loops, NotDir} /\ IsPrefix(opened["root"], end)
  IN  /\ destination.refusal = "escapes" /\ opened["root"] # NotDir =>
           /\ ~inside(opened["composed"])
           /\ query.kind = "file" => ~inside(opened["directory"])
      /\ destination.refusal = "unresolvable" =>
           {opened["root"], opened["composed"]} \cap {Loops, NotDir} # {}

(* "A prefix of a walk that settled settles too" (_destination_of): the      *)
(* directory part of a place that resolved never runs out of hops, and no    *)
(* place under a root that does run out of them resolves.                    *)
APrefixSettles ==
  /\ settled["directory"] # Loops
  /\ settled["root"] = Loops => settled["composed"] \in {None, Loops}

(* The kernel's answer to the directory of a link view. *)
ViewIsTheKernels ==
  LET end == EndOf(kernel)
      stands == end = <<>> \/ end \in DOMAIN tree
  IN  linkView # None =>
        /\ linkView.says = "loop" <=> end = Loops
        /\ linkView.says = "dead" => ~stands
        /\ linkView.says = "physical" => stands /\ Plain(linkView.dir) = end
        /\ linkView.says = "no-link" => end \in {NotDir, Plain(query.name)}

(* A link view names the directory the emulator gets, says "dead" only of    *)
(* one that is not there and "loop" exactly where the kernel does, however   *)
(* the links are chained (_link_view) ...                                    *)
StepsBack(link) ==
  /\ ~link.absolute
  /\ \E i \in 1 .. Len(link.to) - 1 : link.to[i] # Up /\ link.to[i + 1] = Up

LinkViewIsTheKernels ==
  (\A p \in DOMAIN tree : IsLink(p) => ~StepsBack(tree[p])) => ViewIsTheKernels

(* ... "kernel-style" (_resolve_symlink_chain), whatever the targets spell.  *)
LinkViewIsAlwaysTheKernels == ViewIsTheKernels
=============================================================================
