----------------------------- MODULE MCResolvers -----------------------------
(***************************************************************************)
(* Modules that share nothing, each moving while the others rest: questions  *)
(* and their memo (Question), where links lead (LinkWalks), what ES-DE finds *)
(* (LaunchLookup), what is installed (Arrangements), what a sandbox shows     *)
(* (SandboxView), what is said of firmware (FirmwareVerdict), and a handle's  *)
(* memories (HeldReads).                                                    *)
(***************************************************************************)
EXTENDS
  Question, LinkWalks, LaunchLookup, Arrangements, SandboxView, FirmwareVerdict

CONSTANTS t1, t2, k1, k2, v1, v2, Gone

VARIABLES
  heldWorld, heldPast, heldChanges, heldAsked, heldPc, heldStamp, heldGot, heldNow, heldSeen,
  heldAnswer
heldVars ==
  <<heldWorld, heldPast, heldChanges, heldAsked, heldPc, heldStamp, heldGot, heldNow, heldSeen,
    heldAnswer>>

(* Two threads, two files; a question that asks others, three deep. *)
MCThreads == {t1, t2}
MCKeys == {k1, k2}
MCContentOf(k) == {v1, v2}
-----------------------------------------------------------------------------
(* A folder that holds up to two links, and a second one that may itself be   *)
(* a link, or hold one back to the first.                                    *)
L(abs, to) == [kind |-> "link", absolute |-> abs, to |-> to]
File == [kind |-> "file"]
Dir == [kind |-> "dir"]
Missing == [kind |-> "missing"]
MCNames == {"a", "b", "c"}

Links == {L(TRUE, <<"b">>), L(TRUE, <<"a", "..", "b">>), L(FALSE, <<"..", "b">>),
          L(FALSE, <<"b">>), L(FALSE, <<"a", "..", "b">>), L(TRUE, <<"a", "b">>)}
TopLinks == {L(FALSE, <<"a", "b">>), L(TRUE, <<"a">>), L(FALSE, <<"b">>)}
Present(f) == [p \in {q \in DOMAIN f : f[q] # Missing} |-> f[p]]
MCTrees ==
  {Present((<<"a">> :> Dir) @@ (<<"a", "a">> :> x) @@ (<<"a", "b">> :> y) @@ (<<"b">> :> z)
             @@ IF z = Dir THEN <<"b", "b">> :> w ELSE <<>>) :
     x \in Links \union {File, Dir, Missing}, y \in Links \union {File, Dir, Missing},
     z \in TopLinks \union {File, Dir, Missing}, w \in {File, L(FALSE, <<"..", "a">>)}}

Spelt == {<<"a">>, <<"b">>, <<"a", "b">>, <<"a", "a">>, <<"a", "..", "b">>, <<"..", "b">>}
MCQueries ==
  [kind : {"file", "folder"}, root : {<<"a">>, <<"b">>}, name : Spelt \union {<<"b", "..">>}]
    \union [kind : {"file"}, root : {None, <<"a">>}, name : {<<>>}]
    \union [kind : {"view"},
            name : {<<"a", "b">>, <<"a", "a", "b">>, <<"b", "b">>, <<"b", "..", "b">>}]

(* /a/a -> b/../c beside /a/b -> /b: the kernel goes to /c, and /a/c exists. *)
MCStepsBack ==
  {(<<"a">> :> Dir) @@ (<<"a", "a">> :> L(FALSE, <<"b", "..", "c">>))
     @@ (<<"a", "b">> :> L(TRUE, <<"b">>)) @@ (<<"a", "c">> :> Dir)
     @@ (<<"b">> :> Dir) @@ (<<"c">> :> Dir)}
MCView == [kind : {"view"}, name : {<<"a", "a">>}]
-----------------------------------------------------------------------------
(* Four find-rules layers, and answers of one or two of seven commands. *)
Entries(sys, static) == [system |-> sys, static |-> static]
MCLayers == {
  [emulators |-> [RA |-> Entries(<<"ra">>, <<"flat">>)],
   cores |-> [RACORE |-> <<"%EMUPATH%", "cores">>]],
  [emulators |-> [RA |-> Entries(<<>>, <<"flat", "home">>), WINE |-> Entries(<<"wine">>, <<>>)],
   cores |-> [RACORE |-> <<"cores">>]],
  [emulators |-> [RA |-> Entries(<<>>, <<>>), WINE |-> Entries(<<>>, <<"proton">>)],
   cores |-> [RACORE |-> <<>>]],
  [emulators |-> [WINE |-> Entries(<<"wine">>, <<"proton">>)], cores |-> <<>>]}

C(pre, em, prog, named, loads, emu) ==
  [precommand |-> pre, emulator |-> em, program |-> prog, core |-> named,
   loadsCore |-> loads, emupath |-> emu]
MCCommands == {
  C(None, "RA", None, "RACORE", TRUE, FALSE),
  C(None, "RA", None, None, TRUE, FALSE),
  C("WINE", "RA", None, None, FALSE, FALSE),
  C("WINE", None, "env", None, FALSE, FALSE),
  C(None, "RA", None, None, FALSE, TRUE),
  C(None, None, "env", None, FALSE, FALSE),
  C(None, None, "./env", "RACORE", FALSE, FALSE)}
MCWords == {"ra", "flat", "home", "wine", "proton", "cores", "env", "./env", "local", "usr", "run"}
MCAnswers == {<<c>> : c \in MCCommands} \union {<<c, d>> : c, d \in MCCommands}
MCRelative == {"./env"}
MCAssumed == [path |-> <<"local", "usr">>, directory |-> "home"]
MCEnvironments == {MCAssumed, [path |-> <<"usr">>, directory |-> "run"]}
-----------------------------------------------------------------------------
(* Machines that hold nothing, some arrangements, or every one. *)
R(s, r, v, b, e) == [status |-> s, root |-> r, saves |-> v, bios |-> b, esde |-> e]
Unset(s) == R(s, None, None, None, None)
MCReads == {Unset("missing"), Unset("unreadable"), Unset("invalid"),
            R("misversioned", <<"a">>, None, None, None),
            R("ok", <<"a">>, None, <<"b">>, TRUE), R("ok", <<"b", "a">>, <<"a">>, None, None)}
MCFolders == {<<"a">>, <<"b">>, <<"a", "saves">>}
MCDeckHome == <<"a">>
MCEmulationHome == <<"b">>

Bare(user, system, settings, flatpak, native) ==
  [marker |-> Unset("missing"), userDeploy |-> user, systemDeploy |-> system,
   settings |-> Unset(settings), flatpakCfg |-> flatpak, nativeCfg |-> native,
   esde |-> FALSE, romRoot |-> "read", folders |-> {<<"a">>, <<"a", "saves">>}]
MCMachines == {
  Bare(FALSE, FALSE, "missing", "missing", "missing"),
  Bare(FALSE, TRUE, "missing", "ok", "ok"),
  Bare(TRUE, TRUE, "unreadable", "ok", "missing"),
  [Bare(TRUE, FALSE, "missing", "unreadable", "missing") EXCEPT
     !.marker = R("ok", <<"a">>, None, <<"b">>, TRUE),
     !.settings =  R("ok", <<"b", "a">>, <<"a">>, None, TRUE)]}
-----------------------------------------------------------------------------
(* Hosts whose files lead by links from one tree of the sandbox to another,   *)
(* with one folder that may be unreadable and one that the root links to.     *)
F == [kind |-> "file"]
D == [kind |-> "dir"]
X == [kind |-> "denied"]
MCHosts ==
  {(<<"data">> :> D) @@ (<<"data", "f">> :> f) @@ (<<"data", "x">> :> x)
     @@ (IF x = D THEN (<<"data", "x", "f">> :> F) ELSE <<>>)
     @@ (<<"deploy">> :> D) @@ (<<"deploy", "f">> :> a)
     @@ (<<"runtime">> :> D) @@ (<<"runtime", "bin">> :> D) @@ (<<"runtime", "bin", "f">> :> F)
     @@ (<<"bin">> :> D) @@ (<<"bin", "g">> :> F)
     @@ (<<"var">> :> D) @@ (<<"var", "mnt">> :> D) @@ (<<"var", "mnt", "f">> :> F)
     @@ (<<"mnt">> :> m) @@ (<<"home">> :> D) @@ (UserHome :> D) @@ (UserHome \o <<"f">> :> F)
     @@ (UserHome \o <<".var">> :> D) @@ (UserHome \o <<".var", "app">> :> D)
     @@ (UserHome \o <<".var", "app", "o">> :> F)
     @@ (AppDir :> D) @@ (Config :> D) @@ (Config \o <<"f">> :> c) :
   f \in {F, X, Link(FALSE, <<"x", "f">>), Link(TRUE, <<"app", "f">>)},
   x \in {D, X},
   a \in {F, Link(TRUE, <<"var", "config", "f">>), Link(TRUE, <<"data", "x", "f">>)},
   c \in {F, Link(TRUE, <<"app", "f">>), Link(TRUE, <<"bin", "f">>),
          Link(TRUE, <<"mnt", "f">>)},
   m \in {D, Link(FALSE, <<"var", "mnt">>)}}

Grant(h, o, p, r, u, f, l) ==
  [host |-> h, home |-> o, paths |-> p, revoked |-> r, unplaced |-> u, refiled |-> f,
   rootListed |-> l, deploy |-> <<"deploy">>, runtime |-> <<"runtime">>]
HostButX == Grant(TRUE, FALSE, {<<"data">>}, {<<"data", "x">>}, FALSE, FALSE, TRUE)
MCGrants == {
  Grant(TRUE, FALSE, {}, {}, FALSE, FALSE, TRUE),
  Grant(TRUE, FALSE, {}, {}, FALSE, FALSE, FALSE),
  HostButX, [HostButX EXCEPT !.deploy = None],
  Grant(TRUE, FALSE, {<<"data", "x">>}, {<<"data">>}, FALSE, FALSE, TRUE),
  Grant(FALSE, TRUE, {<<"data", "x">>}, {}, FALSE, FALSE, TRUE),
  Grant(FALSE, FALSE, {<<"var", "mnt">>}, {}, TRUE, FALSE, TRUE),
  Grant(TRUE, FALSE, {<<"var", "mnt", "f">>}, {UserHome}, TRUE, FALSE, TRUE),
  Grant(TRUE, FALSE, {}, {}, FALSE, TRUE, TRUE)}

MCStrays == {<<"data">>, <<"var", "mnt">>, UserHome \o <<".var", "app">>}
MCProbes ==
  [path : {<<"app", "f">>, <<"bin", "f">>, <<"bin", "g">>, <<"data", "f">>, <<"data", "x", "f">>,
           <<"mnt", "f">>, <<"var", "mnt", "f">>, <<"var", "config", "f">>, UserHome \o <<"f">>,
           UserHome \o <<".var", "app", "o">>, Config \o <<"f">>, <<"data", "x", "..", "f">>,
           <<"mnt", "..", "mnt", "f">>, <<"tmp", "f">>},
   follow : BOOLEAN]
-----------------------------------------------------------------------------
(* Emulators of each route, alone or two at once, on two places inside a      *)
(* folder and two outside of it.                                            *)
MCFolderOf == ("d" :> None) @@ ("f" :> None) @@ ("g" :> None) @@ ("x" :> "d") @@ ("y" :> "d")
MCStates ==
  [d |-> {"dir", "closed", "missing"},
   x |-> {"missing", "dir", "locked", "short", "known", "denied", "unlisted", "other"},
   y |-> {"missing", "known", "other"},
   f |-> {"missing", "hidden", "dir", "locked", "short", "known", "other"},
   g |-> {"missing", "known", "other"}]

Wanted(route, at) ==
  [route |-> route, at |-> at, inside |-> IF at = "d" THEN <<"x", "y">> ELSE <<>>, named |-> None,
   pins |-> None, need |-> "required", system |-> "console", regions |-> None]
Pinned(at, pins, need) == [Wanted("file", at) EXCEPT !.pins = pins, !.need = need]
Serving(regions, want) == [want EXCEPT !.regions = regions]
TheUSKey == Serving({"US"}, Wanted("key", "x"))
TheJPKey == Serving({"JP"}, Wanted("key", "f"))
TheSearch == Serving({"JP", "PAL"}, Wanted("search", "d"))

CannotRun(declaration, refused, region, wants) ==
  [declaration |-> declaration, state |-> "cannot-run-without-firmware", needs |-> {"console"},
   refused |-> refused, region |-> region, wants |-> wants]
MayRun(declaration, state, wants) ==
  [declaration |-> declaration, state |-> state, needs |-> {}, refused |-> {}, region |-> None,
   wants |-> wants]
MCCores == {
  MayRun("read", "open", <<Pinned("f", "dump", "required"), Pinned("g", "archive", "required")>>),
  MayRun("unread", None, <<>>),
  CannotRun("read", {}, None, <<Pinned("f", None, "required"), Pinned("g", "dump", "optional")>>),
  CannotRun("read", {"optional"}, None, <<Pinned("f", "dump", "optional")>>),
  CannotRun("read", {}, None, <<Wanted("folder", "d")>>),
  CannotRun("read", {}, None, <<[Wanted("folder", "d") EXCEPT !.named = "x"]>>),
  CannotRun("packaged", {}, None, <<Wanted("search", "d")>>),
  CannotRun("packaged", {}, None, <<TheUSKey, TheJPKey>>),
  CannotRun("packaged", {}, None, <<TheUSKey, TheSearch>>),
  CannotRun("packaged", {}, "US", <<TheUSKey, TheSearch>>),
  CannotRun("packaged", {}, "JP", <<TheUSKey, TheSearch>>)}

(* One region key alone, its image where it should be or not. *)
MCOneKey == {CannotRun("packaged", {}, None, <<TheUSKey>>)}
-----------------------------------------------------------------------------
(* The find-rules parses of a handle, asked by one thread, under everything   *)
(* that can happen to the machine.                                          *)
MCStampOf == [r \in {v1, v2} |-> r]
Memories == INSTANCE HeldReads
  WITH Askers <- {t1}, Holds <- {"rules", "embedded"}, Revisions <- {v1, v2},
       StampOf <- MCStampOf, MaxChanges <- 4,
       Events <- {"replace", "rollback", "remove", "hide", "chmod", "codec", "forget"},
       world <- heldWorld, past <- heldPast, changes <- heldChanges, asked <- heldAsked,
       pc <- heldPc, stamp <- heldStamp, got <- heldGot, held <- heldNow, seen <- heldSeen,
       answer <- heldAnswer

(* No failure of a find-rules read is ever served from memory: what a memory  *)
(* of parses holds under a stamp is a parse (HeldReads).                      *)
FailuresAreReadAfresh == Memories!FailuresAreReadAfresh
-----------------------------------------------------------------------------
(* Everything rests but one module; a machine that rests is as it first was. *)
FilesAsFirst == world = [k \in MCKeys |-> v1]
MachineAsFirst == heldWorld = [rev |-> v1, access |-> "open", codec |-> FALSE]
QuestionRests == NoQuestionYet /\ FilesAsFirst /\ UNCHANGED questionVars
LinksRest == stage = "idle" /\ UNCHANGED linkVars
LookupRests == step = "idle" /\ UNCHANGED lookupVars
InstallRests == probing = "idle" /\ UNCHANGED installVars
SandboxRests == probe = None /\ UNCHANGED sandboxVars
FirmwareRests == look = "idle" /\ UNCHANGED firmwareVars
MemoriesRest == Memories!Init /\ MachineAsFirst /\ UNCHANGED heldVars

PathsRest == LinksRest /\ LookupRests /\ SandboxRests
HandlesRest == QuestionRests /\ MemoriesRest
MachinesRest == InstallRests /\ FirmwareRests

ResolversInit ==
  /\ QuestionInit /\ Memories!Init /\ LinkInit /\ LookupInit /\ SandboxInit
  /\ InstallInit /\ FirmwareInit
  /\ FilesAsFirst \/ MachineAsFirst

ResolversNext ==
  \/ PathsRest /\ MachinesRest /\ MemoriesRest /\ QuestionNext
  \/ PathsRest /\ MachinesRest /\ QuestionRests /\ Memories!Next
  \/ HandlesRest /\ MachinesRest /\ LookupRests /\ SandboxRests /\ LinkNext
  \/ HandlesRest /\ MachinesRest /\ LinksRest /\ SandboxRests /\ LookupNext
  \/ HandlesRest /\ MachinesRest /\ LinksRest /\ LookupRests /\ SandboxNext
  \/ HandlesRest /\ PathsRest /\ FirmwareRests /\ InstallNext
  \/ HandlesRest /\ PathsRest /\ InstallRests /\ FirmwareNext

ResolversSpec ==
  ResolversInit
    /\ [][ResolversNext]_<<questionVars, heldVars, linkVars, lookupVars, sandboxVars, installVars,
                           firmwareVars>>

(* The type invariants of the seven modules. *)
ResolversTypeOK ==
  /\ QuestionTypeOK /\ Memories!TypeOK /\ LinkTypeOK /\ LookupTypeOK /\ SandboxTypeOK
  /\ InstallTypeOK /\ FirmwareTypeOK
=============================================================================
