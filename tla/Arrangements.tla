---------------------------- MODULE Arrangements ----------------------------
(***************************************************************************)
(* Which installations are on a machine, and what their handles say of its  *)
(* folders.  detect() probes one marker after the other, so an installer, a *)
(* first-run setup or an uninstaller may work between two probes; the       *)
(* handles it returns are live, and a question reads its sources one after  *)
(* the other too.  EveryInstallation asks each handle in turn.             *)
(***************************************************************************)
EXTENDS Naturals, SequencesExt, FiniteSetsExt, Absent

CONSTANTS
  Folders,   \* the folders that come and go; a folder is a sequence of names
  Reads,     \* what reading a marker or a settings file can come to
  Machines,  \* what may stand on the machine when a caller turns to it
  MaxMoves,  \* how often the machine moves under one detection or question
  DeckHome, EmulationHome   \* ~/retrodeck and ~/Emulation

(* A marker's read, the folders it names, and whether settings.sh records an  *)
(* ES-DE.  A "misversioned" marker is invalid in its version alone.  EmuDeck's *)
(* root is named by its ROM folder.                                          *)
MarkerStatuses == {"missing", "unreadable", "invalid", "misversioned", "ok"}
Statuses == {"missing", "unreadable", "ok"}
Parts == {"root", "saves", "bios"}

ASSUME ReadsAssumption ==
  \A r \in Reads : /\ r.status \in MarkerStatuses
                   /\ r.status \notin {"ok", "misversioned"} =>
                        \A part \in Parts \union {"esde"} : r[part] = None
ASSUME MovesAssumption == MaxMoves \in Nat

VARIABLES
  disk,      \* what stands on the machine now
  moves,     \* how often it has moved
  probing,   \* the next probe of detect(), or what the caller does
  emudeck,   \* emudeck_present, as it was probed
  handles,   \* the installations found
  stood,     \* what has stood ever since the detection or the question began
  shown,     \* what has stood at some moment of it
  asking,    \* the question put
  todo,      \* the sources it has yet to read
  seen,      \* what it read
  answers    \* one answer per handle asked

installVars ==
  <<disk, moves, probing, emudeck, handles, stood, shown, asking, todo, seen, answers>>

(* Detection triggers on existence: a marker that cannot be read is there. *)
Standing(d) ==
  [evidence |-> {e \in {"marker", "settings"} : d[e].status # "missing"}
                  \union {e \in {"userDeploy", "systemDeploy"} : d[e]}
                  \union {e \in {"flatpakCfg", "nativeCfg"} : d[e] # "missing"},
   folders |-> d.folders]
Nothing == [evidence |-> {}, folders |-> {}]

RetroDeck(byDeploy) == [kind |-> "retrodeck", byDeploy |-> byDeploy]
Handle(kind) == [kind |-> kind, byDeploy |-> FALSE]
KindsOf(h) == {h.kind} \union (IF h.kind = "emudeck" THEN {"bare_retroarch_flatpak"} ELSE {})
-----------------------------------------------------------------------------
InstallInit ==
  /\ disk = None
  /\ moves = 0
  /\ probing = "idle"
  /\ emudeck = FALSE
  /\ handles = <<>>
  /\ stood = Nothing
  /\ shown = Nothing
  /\ asking = None
  /\ todo = <<>>
  /\ seen = <<>>
  /\ answers = <<>>

(* The environment: something is installed, removed, set up or moved. *)
SettingsReads == {r \in Reads : r.status \notin {"invalid", "misversioned"}}
Changes ==
  {[disk EXCEPT !.marker = r] : r \in Reads}
    \union {[disk EXCEPT !.settings = r] : r \in SettingsReads}
    \union {[disk EXCEPT !.userDeploy = ~@], [disk EXCEPT !.systemDeploy = ~@],
            [disk EXCEPT !.esde = ~@]}
    \union {[disk EXCEPT !.flatpakCfg = s] : s \in Statuses}
    \union {[disk EXCEPT !.nativeCfg = s] : s \in Statuses}
    \union {[disk EXCEPT !.romRoot = s] : s \in {"read", "frontend-default", None}}
    \union {[disk EXCEPT !.folders = SymDiff(@, {f})] : f \in Folders}

Move ==
  /\ probing \notin {"idle", "held"}
  /\ moves < MaxMoves
  /\ moves' = moves + 1
  /\ disk' \in Changes \ {disk}
  /\ stood' = [e \in DOMAIN stood |-> stood[e] \intersect Standing(disk')[e]]
  /\ shown' = [e \in DOMAIN shown |-> shown[e] \union Standing(disk')[e]]
  /\ UNCHANGED <<probing, emudeck, handles, asking, todo, seen, answers>>

Begin(phase) ==
  /\ probing' = phase
  /\ moves' = 0
  /\ stood' = Standing(disk')
  /\ shown' = Standing(disk')

TurnTo ==
  /\ probing = "idle"
  /\ disk' \in Machines
  /\ Begin("marker")
  /\ UNCHANGED <<emudeck, handles, asking, todo, seen, answers>>

Unmoved == <<disk, moves, stood, shown, asking, todo, seen, answers>>

ProbeMarker ==
  /\ probing = "marker"
  /\ IF disk.marker.status # "missing"
     THEN handles' = <<RetroDeck(FALSE)>> /\ probing' = "settings"
     ELSE UNCHANGED handles /\ probing' = "userDeploy"
  /\ UNCHANGED emudeck /\ UNCHANGED Unmoved

(* Mutant: the user's installation alone is asked. *)
ProbeUserDeploy ==
  /\ probing \in {"userDeploy", "systemDeploy"}
  /\ IF disk[probing] THEN handles' = <<RetroDeck(TRUE)>> ELSE UNCHANGED handles
  /\ probing' = "settings"
  /\ UNCHANGED emudeck /\ UNCHANGED Unmoved

(* _running_deploy: the user's installation first, then the system's. *)
ProbeDeploy ==
  /\ probing \in {"userDeploy", "systemDeploy"}
  /\ IF disk[probing] THEN handles' = <<RetroDeck(TRUE)>> ELSE UNCHANGED handles
  /\ probing' = IF probing = "userDeploy" /\ ~disk.userDeploy THEN "systemDeploy"
                ELSE "settings"
  /\ UNCHANGED emudeck /\ UNCHANGED Unmoved

FoundIf(present, kind) ==
  handles' = IF present THEN Append(handles, Handle(kind)) ELSE handles

(* Mutant: the Flatpak EmuDeck claims is asked about all the same. *)
ProbeSettingsUnclaimed ==
  /\ probing = "settings"
  /\ emudeck' = (disk.settings.status # "missing")
  /\ FoundIf(emudeck', "emudeck")
  /\ probing' = "flatpakCfg"
  /\ UNCHANGED Unmoved

ProbeSettings ==
  /\ probing = "settings"
  /\ emudeck' = (disk.settings.status # "missing")
  /\ FoundIf(emudeck', "emudeck")
  /\ probing' = IF emudeck' THEN "nativeCfg" ELSE "flatpakCfg"
  /\ UNCHANGED Unmoved

ProbeFlatpakCfg ==
  /\ probing = "flatpakCfg"
  /\ FoundIf(disk.flatpakCfg # "missing", "bare_retroarch_flatpak")
  /\ probing' = "nativeCfg"
  /\ UNCHANGED emudeck /\ UNCHANGED Unmoved

ProbeNativeCfg ==
  /\ probing = "nativeCfg"
  /\ FoundIf(disk.nativeCfg # "missing", "bare_retroarch_native")
  /\ probing' = "held"
  /\ UNCHANGED emudeck /\ UNCHANGED Unmoved
-----------------------------------------------------------------------------
(* The questions of a handle, as the sources they read in their order. *)
MarkerOf(h) ==
  IF h.kind = "retrodeck" THEN "marker"
  ELSE IF h.kind = "emudeck" THEN "settings"
  ELSE IF h.kind = "bare_retroarch_flatpak" THEN "flatpakCfg" ELSE "nativeCfg"

Health(h) ==
  IF h.kind = "retrodeck" THEN <<"marker", "root", "saves", "bios">>
  ELSE IF h.kind = "emudeck" THEN <<"settings", "flatpakCfg", "root", "saves", "bios">>
  ELSE <<MarkerOf(h)>>
Roots(h) ==
  IF h.kind = "retrodeck" THEN <<"marker", "romRoot", "root", "saves", "bios">>
  ELSE <<"settings", "flatpakCfg", "esde", "root", "saves", "bios", "romRoot">>

Put(name, h) ==
  /\ asking' = [name |-> name, of |-> h]
  /\ todo' = IF name = "health" THEN Health(h) ELSE Roots(h)
  /\ seen' = <<>>

(* roots() of one handle, and health() of every one in turn. *)
AskRoots ==
  /\ probing = "held"
  /\ \E i \in DOMAIN handles :
       /\ handles[i].kind \in {"retrodeck", "emudeck"}
       /\ Put("roots", handles[i])
  /\ disk' \in Machines
  /\ Begin("roots")
  /\ UNCHANGED <<emudeck, handles, answers>>

AskEveryHealth ==
  /\ probing = "held"
  /\ handles # <<>>
  /\ Put("health", handles[1])
  /\ disk' \in Machines
  /\ Begin("health")
  /\ UNCHANGED <<emudeck, handles, answers>>

(* _config_path and _setting_path: a folder unset lies under its default. *)
RootsOf(h, marker) ==
  LET set(part, default) == IF marker[part] # None THEN marker[part] ELSE default
      deck == set("root", DeckHome)
  IN  IF h.kind = "retrodeck"
      THEN [root |-> deck, saves |-> set("saves", Append(deck, "saves")),
            bios |-> set("bios", Append(deck, "bios"))]
      ELSE [root |-> Front(set("root", Append(EmulationHome, "roms"))),
            saves |-> set("saves", Append(EmulationHome, "saves")),
            bios |-> set("bios", Append(EmulationHome, "bios"))]

NotSetUp(h, marker) == h.byDeploy /\ marker.status = "missing"

(* What is read is kept beside what was. *)
Noting(source, value) ==
  [s \in DOMAIN seen \union {source} |-> IF s = source THEN value ELSE seen[s]]

(* Mutant: a folder is looked for where the marker puts it now. *)
ReadAfresh ==
  LET h == asking.of
      source == Head(todo)
      marker == disk[MarkerOf(h)]
  IN  /\ todo # <<>>
      /\ seen' = Noting(source, IF source \in Parts THEN RootsOf(h, marker)[source] \in disk.folders
                                ELSE disk[source])
      /\ todo' = IF source = "marker" /\ NotSetUp(h, disk.marker) THEN <<>> ELSE Tail(todo)
      /\ UNCHANGED <<disk, moves, probing, emudeck, handles, stood, shown, asking, answers>>

Read ==
  LET h == asking.of
      source == Head(todo)
      marker == seen[MarkerOf(h)]
  IN  /\ todo # <<>>
      /\ seen' = Noting(source, IF source \in Parts THEN RootsOf(h, marker)[source] \in disk.folders
                                ELSE disk[source])
      /\ todo' = IF source = "marker" /\ NotSetUp(h, disk.marker) THEN <<>> ELSE Tail(todo)
      /\ UNCHANGED <<disk, moves, probing, emudeck, handles, stood, shown, asking, answers>>

(* What a read of the marker, or of a RetroArch's cfg, is found wrong with. *)
MarkerFindings(h, marker) ==
  IF h.kind = "retrodeck" /\ NotSetUp(h, marker) THEN {"not-set-up"}
  ELSE IF marker.status = "missing" THEN {"marker-missing"}
  ELSE IF marker.status = "unreadable" THEN {"marker-unreadable"}
  ELSE IF marker.status \in {"invalid", "misversioned"} THEN {"marker-invalid"}
  ELSE {}
CfgFindings(status) ==
  IF status = "missing" THEN {"marker-missing"}
  ELSE IF status = "unreadable" THEN {"config-unreadable"} ELSE {}

(* _frontend_marker_mismatch: settings.sh's record against the disk. *)
Mismatch(marker, present) == marker.esde # None /\ marker.esde # present

Issues(h) ==
  LET marker == seen[MarkerOf(h)]
  IN  IF h.kind = "retrodeck" THEN MarkerFindings(h, marker)
      ELSE IF h.kind # "emudeck" THEN CfgFindings(marker)
      ELSE MarkerFindings(h, marker)
             \union {c \in {"companion-config-missing"} : seen["flatpakCfg"] # "ok"}
             \union {c \in {"frontend-marker-mismatch"} :
                       asking.name = "roots" /\ Mismatch(marker, seen["esde"])}

FoldersMissing(h) ==
  LET stated == RootsOf(h, seen[MarkerOf(h)])
  IN  {[part |-> p, folder |-> stated[p]] : p \in {q \in Parts \intersect DOMAIN seen : ~seen[q]}}

(* The ROM entry has no path where the handle is not set up, nor, in EmuDeck, *)
(* where no ES-DE is on the disk.                                            *)
Stated(h) ==
  LET stands == "romRoot" \in DOMAIN seen /\ ("esde" \in DOMAIN seen => seen["esde"])
      roots == RootsOf(h, seen[MarkerOf(h)])
  IN  [root |-> roots.root, saves |-> roots.saves, bios |-> roots.bios,
       roms |-> IF stands THEN seen["romRoot"] ELSE None]

AnswerOf(h) ==
  [of |-> h, issues |-> Issues(h), missing |-> FoldersMissing(h),
   roots |-> IF asking.name = "roots" THEN Stated(h) ELSE None]

Idle(phase) ==
  /\ probing' = phase
  /\ disk' = None
  /\ moves' = 0
  /\ stood' = Nothing
  /\ shown' = Nothing
  /\ asking' = None
  /\ todo' = <<>>
  /\ seen' = <<>>

(* EveryInstallation._ask: each handle's answer, labelled with the handle. *)
AnswerOne ==
  LET next == Len(answers) + 2
  IN  /\ probing \in {"health", "roots"}
      /\ todo = <<>>
      /\ asking # None
      /\ answers' = Append(answers, AnswerOf(asking.of))
      /\ IF asking.name = "health" /\ next <= Len(handles)
         THEN /\ Put("health", handles[next])
              /\ UNCHANGED probing
         ELSE /\ probing' = "answered"
              /\ asking' = None
              /\ UNCHANGED <<todo, seen>>
      /\ UNCHANGED <<disk, moves, emudeck, handles, stood, shown>>

(* The caller keeps the handles for another question, or turns away. *)
TakeAnswers ==
  /\ probing = "answered"
  /\ answers' = <<>>
  /\ Idle("held")
  /\ UNCHANGED <<emudeck, handles>>

TurnAway ==
  /\ probing = "held"
  /\ handles' = <<>>
  /\ emudeck' = FALSE
  /\ Idle("idle")
  /\ UNCHANGED answers

InstallNext ==
  \/ Move \/ TurnTo
  \/ ProbeMarker \/ ProbeDeploy \/ ProbeSettings \/ ProbeFlatpakCfg \/ ProbeNativeCfg
  \/ AskRoots \/ AskEveryHealth \/ Read \/ AnswerOne \/ TakeAnswers \/ TurnAway

InstallSpec == InstallInit /\ [][InstallNext]_installVars
-----------------------------------------------------------------------------
InstallTypeOK ==
  /\ moves \in 0 .. MaxMoves
  /\ probing \in {"idle", "marker", "userDeploy", "systemDeploy", "settings", "flatpakCfg",
                  "nativeCfg", "held", "health", "roots", "answered"}
  /\ emudeck \in BOOLEAN
  /\ \A i \in DOMAIN handles :
       handles[i].kind \in {"retrodeck", "emudeck", "bare_retroarch_flatpak",
                           "bare_retroarch_native"}
  /\ Len(handles) <= 3
  /\ Len(answers) <= Len(handles)

(* "No second handle for the same RetroArch" (detect.py): whatever comes and  *)
(* goes between two probes, no arrangement is described by two handles, and   *)
(* they come in one order.                                                   *)
Precedence == [retrodeck |-> 1, emudeck |-> 2, bare_retroarch_flatpak |-> 3,
               bare_retroarch_native |-> 4]
NoRetroArchTwice ==
  \A i, j \in DOMAIN handles : i < j =>
    /\ KindsOf(handles[i]) \intersect KindsOf(handles[j]) = {}
    /\ Precedence[handles[i].kind] < Precedence[handles[j].kind]

(* What stands all through a detection is found, and what is found stood at   *)
(* some moment of it: by its marker, by either deploy, and the RetroArch      *)
(* Flatpak by EmuDeck's handle or its own (detect.py).                       *)
EvidenceOf(h) ==
  IF h.kind = "retrodeck" THEN IF h.byDeploy THEN {"userDeploy", "systemDeploy"} ELSE {"marker"}
  ELSE {MarkerOf(h)}
WhatStandsIsFound ==
  LET found(kinds) == \E i \in DOMAIN handles : KindsOf(handles[i]) \intersect kinds # {}
      beyond(phases) == probing \notin phases \union {"idle", "health", "roots", "answered"}
      detecting == {"marker", "userDeploy", "systemDeploy"}
  IN  /\ probing \in {"marker", "userDeploy", "systemDeploy", "settings", "flatpakCfg", "nativeCfg"} =>
           \A i \in DOMAIN handles : EvidenceOf(handles[i]) \intersect shown.evidence # {}
      /\ stood.evidence \intersect {"marker", "userDeploy", "systemDeploy"} # {} /\ beyond(detecting) =>
           found({"retrodeck"})
      /\ "settings" \in stood.evidence /\ beyond(detecting \union {"settings"}) =>
           found({"emudeck"})
      /\ "flatpakCfg" \in stood.evidence
           /\ beyond(detecting \union {"settings", "flatpakCfg"}) =>
           found({"bare_retroarch_flatpak"})
      /\ "nativeCfg" \in stood.evidence /\ probing = "held" => found({"bare_retroarch_native"})

(* An answer and the findings beside it are of one marker (REVIEW M4, Health): *)
(* a folder is missed only at the place the same answer states, and only if it *)
(* was missing at some moment of the question; one that never was there is     *)
(* missed, unless the handle is not set up, which is then all it says.  A      *)
(* marker there all along is never missed, one never there always.             *)
IsOfTheStatedRoots(a) ==
  LET setUp == "not-set-up" \notin a.issues
      gone == {"not-set-up", "marker-missing"} \intersect a.issues # {}
  IN  /\ \A m \in a.missing : m.folder \notin stood.folders
      /\ a.roots # None =>
           {m.part : m \in a.missing} =
             {p \in Parts : [part |-> p, folder |-> a.roots[p]] \in a.missing}
      /\ a.roots # None /\ setUp =>
           \A p \in Parts : a.roots[p] \notin shown.folders =>
             [part |-> p, folder |-> a.roots[p]] \in a.missing
      /\ ~setUp => /\ a.of.byDeploy
                    /\ a.missing = {}
                    /\ a.roots # None => a.roots.roms = None
      /\ MarkerOf(a.of) \in stood.evidence => ~gone
      /\ MarkerOf(a.of) \notin shown.evidence => gone

(* So is every answer to a health question, roots and findings side by side. *)
FindingsAreOfTheStatedRoots == \A i \in DOMAIN answers : IsOfTheStatedRoots(answers[i])
=============================================================================
