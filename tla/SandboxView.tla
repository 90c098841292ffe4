----------------------------- MODULE SandboxView -----------------------------
(***************************************************************************)
(* Whether a frontend inside a Flatpak sandbox finds a file, answered from  *)
(* outside it: _SandboxLaunchView translates each step of a path to where   *)
(* the host reads it and follows links as the sandbox would.  Beside it     *)
(* runs the kernel's walk over the mounts flatpak makes of the same grants, *)
(* for every set of mounts the grants atlas reads leave open.  The /run/host *)
(* trees, an ostree host's homes, /run/media and directory questions are    *)
(* left out, and a grant names a path with no link in it.                  *)
(***************************************************************************)
EXTENDS PathWalks, FiniteSets

CONSTANTS
  Hosts,    \* what may stand on the host: from places to what is there
  Grants,   \* what the deploy's metadata may grant
  Probes,   \* the paths asked about, and whether the last link is followed
  Strays    \* the paths a grant atlas does not compose may bind

UserHome == <<"home", "deck">>
AppDir == UserHome \o <<".var", "app", "id">>
UserFlatpaks == UserHome \o <<".local", "share", "flatpak">>
Config == AppDir \o <<"config">>

UsrMerged == {"bin", "lib"}                    \* _FLATPAK_USRMERGED
HostHidden == {"var", "run", "boot", "root"}   \* _FLATPAK_HOST_HIDDEN
SandboxOwn == {"etc", "tmp", "dev"}            \* _FLATPAK_SANDBOX_OWN
BuiltDirs == {<<"var">>, <<"run">>}            \* _FLATPAK_BUILT_DIRS
DontMountInRoot == {"app", "usr"} \union UsrMerged \union HostHidden \union SandboxOwn
DontExportIn == {<<"app">>, <<"dev">>, <<"etc">>, <<"usr">>, <<"run", "host">>}

VARIABLES
  host,     \* the host's files, folders and links
  granted,  \* the grants of the sandbox
  mounts,   \* what flatpak has mounted there
  probe,    \* the path asked about
  seeing,   \* the view's walk
  inside,   \* the kernel's walk in the sandbox
  told      \* the probe's answer

sandboxVars == <<host, granted, mounts, probe, seeing, inside, told>>

Under(p, root) == IsPrefix(root, p)
Over(p, q) == p # q /\ p # <<>> /\ IsPrefix(p, q)
After(p, root) == SubSeq(p, Len(root) + 1, Len(p))
Deepest(roots) == CHOOSE r \in roots : \A s \in roots : Len(s) <= Len(r)

KindOn(p) == IF p = <<>> THEN "dir" ELSE IF p \in DOMAIN host THEN host[p].kind ELSE "missing"
IsHostLink(p) == KindOn(p) = "link"

(* _flatpak_refuses: where flatpak exports nothing, whatever is granted. *)
FlatpakRefuses(p) ==
  \/ \E r \in DontExportIn : Under(p, r) \/ Under(r, p)
  \/ \E m \in UsrMerged : Under(p, <<m>>)

Bound == {p \in granted.paths : ~FlatpakRefuses(p)}
Revoked == {p \in granted.revoked : ~FlatpakRefuses(p)}

(* The links in the host's root a host grant exposes, and their targets. *)
RootLinks == {p \in DOMAIN host : Len(p) = 1 /\ IsHostLink(p) /\ p[1] \notin DontMountInRoot}
RootLinkTargets == {t \in {host[p].to : p \in RootLinks} : ~FlatpakRefuses(t)}
-----------------------------------------------------------------------------
(* Where the host reads a path of the sandbox, or why it cannot be said. *)
ReadAt(p) == [says |-> "path", path |-> p]
Hidden == [says |-> "hidden", path |-> None]
Unknown == [says |-> "unknown", path |-> None]
NotOwn == [says |-> "not own", path |-> None]

InTree(p, root, files) == IF files = None THEN Unknown ELSE ReadAt(files \o After(p, root))

OwnTree(p) ==
  IF Under(p, <<"app">>) THEN InTree(p, <<"app">>, granted.deploy)
  ELSE IF Under(p, <<"usr">>) THEN InTree(p, <<"usr">>, granted.runtime)
  ELSE IF Under(p, <<"var", "config">>) THEN InTree(p, <<"var", "config">>, Config)
  ELSE IF Under(p, AppDir) \/ Over(p, AppDir) THEN ReadAt(p)
  ELSE NotOwn

(* The masked and the unbound roots over a path. *)
MaskRoots(p) ==
  {r \in {UserHome \o <<".var", "app">>, UserFlatpaks}
           \union {q \in Revoked : KindOn(q) \in {"dir", "denied"}} : Under(p, r)}
    \union {r \in {<<n>> : n \in HostHidden} :
              /\ granted.host /\ Under(p, r)
              /\ granted.rootListed =>
                   \A t \in RootLinkTargets : ~Under(p, t) /\ ~Over(p, t)}

MaskUnread(mask) ==
  \/ KindOn(mask) = "denied" /\ mask \in Revoked
  \/ mask \in {<<n>> : n \in HostHidden} /\ ~granted.rootListed

(* Mutant: a grant lifts every mask. *)
GrantedOrMaskedAnywhere(p) ==
  LET over == {g \in Bound : Under(p, g)}
      roots == MaskRoots(p)
      masked == roots # {} /\ over = {}
  IN  IF \E g \in Bound : Over(p, g) THEN ReadAt(p)
      ELSE IF masked
      THEN IF MaskUnread(Deepest(roots)) \/ ~granted.host \/ granted.unplaced
           THEN Unknown ELSE Hidden
      ELSE IF over = {} THEN NotOwn ELSE ReadAt(p)

GrantedOrMasked(p) ==
  LET over == {g \in Bound : Under(p, g)}
      roots == MaskRoots(p)
      masked == roots # {} /\ (over = {} \/ ~Under(Deepest(over), Deepest(roots)))
  IN  IF \E g \in Bound : Over(p, g) THEN ReadAt(p)
      ELSE IF masked
      THEN IF MaskUnread(Deepest(roots)) \/ ~granted.host \/ granted.unplaced
           THEN Unknown ELSE Hidden
      ELSE IF over = {} THEN NotOwn ELSE ReadAt(p)

HostOf(p) ==
  IF OwnTree(p) # NotOwn THEN OwnTree(p)
  ELSE IF granted.refiled \/ Under(p, <<"run", "user">>) THEN Unknown
  ELSE IF GrantedOrMasked(p) # NotOwn THEN GrantedOrMasked(p)
  ELSE IF ~granted.host
  THEN IF granted.home /\ Under(p, UserHome) THEN ReadAt(p) ELSE Unknown
  ELSE IF p # <<>> /\ Head(p) \in SandboxOwn THEN Unknown ELSE ReadAt(p)

Link(absolute, to) == [kind |-> "link", absolute |-> absolute, to |-> to]

(* _target: the link a place of the sandbox is, if any. *)
TargetOf(p) ==
  LET there == HostOf(p)
  IN  IF p \in BuiltDirs THEN None
      ELSE IF Len(p) = 1 /\ p[1] \in UsrMerged THEN Link(FALSE, <<"usr", p[1]>>)
      ELSE IF there.says = "path" /\ IsHostLink(there.path) THEN host[there.path]
      ELSE None

(* One turn of _resolve's loop. *)
Resolve(w) ==
  LET place == Append(w.at, Head(w.parts))
      asked == Len(w.parts) > 1 \/ probe.follow
      built == place \in BuiltDirs \/ (Len(place) = 1 /\ place[1] \in UsrMerged)
  IN  IF Head(w.parts) = Up THEN Stepped(w, Above(w.at))
      ELSE IF ~asked THEN Stepped(w, place)
      ELSE IF TargetOf(place) # None
      THEN IF w.hops = MaxHops THEN [w EXCEPT !.end = "hidden"] ELSE Followed(w, TargetOf(place))
      ELSE IF built \/ HostOf(place).says = "path" THEN Stepped(w, place)
      ELSE [w EXCEPT !.end = HostOf(place).says]

(* Mutant: a link's target is read on the host, not in the sandbox. *)
ResolveOnHost(w) ==
  LET place == Append(w.at, Head(w.parts))
      asked == Len(w.parts) > 1 \/ probe.follow
  IN  IF Head(w.parts) = Up THEN Stepped(w, Above(w.at))
      ELSE IF asked /\ IsHostLink(place)
      THEN IF w.hops = MaxHops THEN [w EXCEPT !.end = "hidden"] ELSE Followed(w, host[place])
      ELSE Stepped(w, place)

(* found, and regular_file. *)
Told(w) ==
  LET there == HostOf(w.at)
      kind == KindOn(there.path)
  IN  IF w.end = "hidden" \/ (w.end = None /\ there = Hidden) THEN "miss"
      ELSE IF w.end = "unknown" \/ there = Unknown THEN "unknown"
      ELSE IF ~probe.follow /\ kind = "link" THEN "hit"
      ELSE IF kind = "denied" THEN "unknown"
      ELSE IF kind = "file" THEN "hit" ELSE "miss"
-----------------------------------------------------------------------------
(* Flatpak: what it binds in the sandbox, over a root of its own.  What a     *)
(* grant atlas cannot place binds, and what an overrides file makes of the    *)
(* grants, is any of the Strays.                                             *)
Bind(p, q) == [at |-> p, to |-> q]
Tmpfs(p) == Bind(p, None)

OwnMounts ==
  {Bind(<<"app">>, granted.deploy), Bind(<<"usr">>, granted.runtime),
   Bind(<<"var", "config">>, Config), Bind(AppDir, AppDir), Tmpfs(<<>>)}

(* A directory of the host's root that is revoked is not bound with the rest. *)
HostMounts ==
  LET entries == {p \in DOMAIN host : Len(p) = 1 /\ p[1] \notin DontMountInRoot /\ ~IsHostLink(p)}
  IN  {Bind(p, p) : p \in {q \in entries \union (RootLinkTargets \intersect DOMAIN host) :
                           granted.host /\ q \notin Revoked}}

GrantMounts ==
  {Bind(p, p) : p \in (Bound \union (IF granted.home THEN {UserHome} ELSE {})) \intersect DOMAIN host}
    \union {Tmpfs(p) : p \in {UserHome \o <<".var", "app">>, UserFlatpaks}}
    \union {Tmpfs(p) : p \in {q \in Revoked : KindOn(q) = "dir"}}

Sandboxes ==
  LET more(S) == {Bind(p, p) : p \in {q \in S \intersect DOMAIN host : ~FlatpakRefuses(q)}}
      masks == {p \in Revoked : KindOn(p) = "denied"}
  IN  IF granted.refiled THEN {OwnMounts \union more(S) : S \in SUBSET Strays}
      ELSE IF granted.unplaced
      THEN {OwnMounts \union HostMounts \union GrantMounts \union more({p}) : p \in Strays}
      ELSE {OwnMounts \union HostMounts \union GrantMounts \union {Tmpfs(p) : p \in S} :
              S \in SUBSET masks}

(* The deepest mount holds a path; at one place, a bind beats a tmpfs. *)
Holding(p) ==
  LET over == {m \in mounts : Under(p, m.at)}
      deepest == {m \in over : \A n \in over : Len(n.at) <= Len(m.at)}
  IN  IF \E m \in deepest : m.to # None THEN CHOOSE m \in deepest : m.to # None
      ELSE CHOOSE m \in deepest : TRUE

LeadsToMount(p) == \E m \in mounts : IsPrefix(p, m.at)

InSandbox(p) ==
  LET m == Holding(p)
      read == m.to \o After(p, m.at)
  IN  IF Len(p) = 1 /\ p[1] \in UsrMerged THEN Link(FALSE, <<"usr", p[1]>>)
      ELSE IF granted.host /\ ~granted.refiled /\ p \in RootLinks THEN host[p]
      ELSE IF m.to # None /\ read \in DOMAIN host THEN host[read]
      ELSE [kind |-> IF LeadsToMount(p) THEN "dir" ELSE "missing"]

(* The kernel's turn: it steps only through directories. *)
Enter(w) ==
  LET place == Append(w.at, Head(w.parts))
      node == InSandbox(place)
  IN  IF w.end # None \/ w.parts = <<>> THEN w
      ELSE IF w.at # <<>> /\ InSandbox(w.at).kind # "dir" THEN [w EXCEPT !.end = "no folder"]
      ELSE IF Head(w.parts) = Up THEN Stepped(w, Above(w.at))
      ELSE IF node.kind # "link" \/ (Len(w.parts) = 1 /\ ~probe.follow) THEN Stepped(w, place)
      ELSE IF w.hops = MaxHops THEN [w EXCEPT !.end = "loop"]
      ELSE Followed(w, node)
-----------------------------------------------------------------------------
SandboxInit ==
  /\ host = <<>>
  /\ granted = None
  /\ mounts = {}
  /\ probe = None
  /\ seeing = StartAt(<<>>)
  /\ inside = StartAt(<<>>)
  /\ told = None

AskSandbox ==
  /\ probe = None
  /\ host' \in Hosts
  /\ granted' \in Grants
  /\ probe' \in Probes
  /\ seeing' = StartAt(probe'.path)
  /\ inside' = StartAt(probe'.path)
  /\ mounts' = {}
  /\ UNCHANGED told

(* The sandbox is one the grants leave open. *)
StartSandbox ==
  /\ probe # None
  /\ mounts = {}
  /\ mounts' \in Sandboxes
  /\ UNCHANGED <<host, granted, probe, seeing, inside, told>>

SeeAndEnter ==
  /\ mounts # {}
  /\ ~Done(seeing) \/ ~Done(inside)
  /\ seeing' = IF Done(seeing) THEN seeing ELSE Resolve(seeing)
  /\ inside' = IF Done(inside) THEN inside ELSE Enter(inside)
  /\ UNCHANGED <<host, granted, mounts, probe, told>>

TellProbe ==
  /\ mounts # {}
  /\ Done(seeing) /\ Done(inside)
  /\ told = None
  /\ told' = Told(seeing)
  /\ UNCHANGED <<host, granted, mounts, probe, seeing, inside>>

NextProbe ==
  /\ told # None
  /\ host' = <<>>
  /\ granted' = None
  /\ mounts' = {}
  /\ probe' = None
  /\ seeing' = StartAt(<<>>)
  /\ inside' = StartAt(<<>>)
  /\ told' = None

SandboxNext == AskSandbox \/ StartSandbox \/ SeeAndEnter \/ TellProbe \/ NextProbe

SandboxSpec == SandboxInit /\ [][SandboxNext]_sandboxVars
-----------------------------------------------------------------------------
SandboxTypeOK ==
  /\ seeing.hops \in 0 .. MaxHops /\ inside.hops \in 0 .. MaxHops
  /\ seeing.end \in {None, "hidden", "unknown"}
  /\ inside.end \in {None, "no folder", "loop"}
  /\ told \in {None, "hit", "miss", "unknown"}

(* "Cannot say what is there ... rather than guess a miss"                   *)
(* (_SandboxLaunchView): a hit is a file the launched program finds in the    *)
(* sandbox and a miss one it does not, in every sandbox the grants allow,     *)
(* through links that lead from one tree of it to another.  A path that       *)
(* climbs again below what is no folder, or out of a masked one (an empty     *)
(* folder to the sandbox, nothing to the view), is left out.                *)
KernelFinds ==
  LET node == InSandbox(inside.at)
  IN  /\ inside.end = None
      /\ node.kind = "file" \/ (~probe.follow /\ node.kind = "link")

ClimbsOut ==
  \/ inside.end = "no folder" /\ Up \in ToSet(inside.parts)
  \/ seeing.end = "hidden" /\ Up \in ToSet(seeing.parts)

ProbesAreTheSandboxes ==
  told # None /\ ~ClimbsOut =>
    /\ told = "hit" => KernelFinds
    /\ told = "miss" => ~KernelFinds
=============================================================================
