--------------------------- MODULE MovingDiskProofs ---------------------------
(***************************************************************************)
(* Two answers that are put together from many looks at a disk, whatever is  *)
(* installed, removed or moved between any two of them.  detect() describes  *)
(* no arrangement by two handles and misses none that stood all along, and   *)
(* what a handle finds amiss is of the roots it states with it.  What is      *)
(* said of an emulator's firmware is true of the emulator on what stood at   *)
(* its places at one moment of the question.                                 *)
(***************************************************************************)
EXTENDS Arrangements, FirmwareVerdict, SequenceTheorems, WellFoundedInduction, TLAPS

Kinds == {"retrodeck", "emudeck", "bare_retroarch_flatpak", "bare_retroarch_native"}
Handles == [kind : Kinds, byDeploy : BOOLEAN]

Only(kinds) == \A i \in DOMAIN handles : handles[i].kind \in kinds

(* What a probe still to come may add, nothing found so far describes. *)
FoundSoFar ==
  /\ probing \in {"idle", "marker", "userDeploy", "systemDeploy"} => handles = <<>>
  /\ probing \in {"settings", "flatpakCfg"} => Only({"retrodeck"})
  /\ probing = "nativeCfg" => Only({"retrodeck", "emudeck", "bare_retroarch_flatpak"})

HandlesInv == handles \in Seq(Handles) /\ FoundSoFar /\ NoRetroArchTwice
-----------------------------------------------------------------------------
(* A probe adds a kind that comes after, and shares nothing with, the found. *)
LEMMA FoundKeeps ==
  ASSUME NEW present \in BOOLEAN, NEW kind \in Kinds, HandlesInv, FoundIf(present, kind),
         \A i \in DOMAIN handles :
           /\ KindsOf(handles[i]) \intersect KindsOf(Handle(kind)) = {}
           /\ Precedence[handles[i].kind] < Precedence[kind]
  PROVE  /\ handles' \in Seq(Handles) /\ NoRetroArchTwice'
         /\ \A i \in DOMAIN handles' : \/ i \in DOMAIN handles /\ handles'[i] = handles[i]
                                       \/ present /\ handles'[i].kind = kind
<1>1. Handle(kind) \in Handles
  BY DEF Handle, Handles
<1>2. handles \in Seq(Handles) /\ NoRetroArchTwice
  BY DEF HandlesInv
<1>3. CASE ~present
  BY <1>2, <1>3 DEF FoundIf, NoRetroArchTwice
<1>4. CASE present
  <2>1. handles' = Append(handles, Handle(kind))
    BY <1>4 DEF FoundIf
  <2>2. /\ handles' \in Seq(Handles)
        /\ DOMAIN handles' = DOMAIN handles \union {Len(handles) + 1}
        /\ \A i \in DOMAIN handles : handles'[i] = handles[i]
        /\ handles'[Len(handles) + 1] = Handle(kind)
        /\ DOMAIN handles = 1 .. Len(handles)
    BY <1>1, <1>2, <2>1
  <2>3. Handle(kind).kind = kind
    BY DEF Handle
  <2>4. NoRetroArchTwice'
    <3> SUFFICES ASSUME NEW i \in DOMAIN handles', NEW j \in DOMAIN handles', i < j
                 PROVE  /\ KindsOf(handles'[i]) \intersect KindsOf(handles'[j]) = {}
                        /\ Precedence[handles'[i].kind] < Precedence[handles'[j].kind]
      BY DEF NoRetroArchTwice, KindsOf, Precedence
    <3>1. i \in DOMAIN handles
      BY <2>2
    <3>2. CASE j \in DOMAIN handles
      BY <1>2, <2>2, <3>1, <3>2 DEF NoRetroArchTwice
    <3>3. CASE j = Len(handles) + 1
      BY <2>2, <2>3, <3>1, <3>3
    <3> QED
      BY <2>2, <3>2, <3>3
  <2> QED
    BY <1>4, <2>2, <2>3, <2>4
<1> QED
  BY <1>3, <1>4

(* One handle describes nothing twice. *)
LEMMA OneHandle ==
  ASSUME NEW byDeploy \in BOOLEAN, handles' = <<RetroDeck(byDeploy)>>
  PROVE  handles' \in Seq(Handles) /\ NoRetroArchTwice' /\ Only({"retrodeck"})'
<1>1. RetroDeck(byDeploy) \in Handles /\ RetroDeck(byDeploy).kind = "retrodeck"
  BY DEF RetroDeck, Handles, Kinds
<1>2. handles' \in Seq(Handles) /\ DOMAIN handles' = {1} /\ handles'[1] = RetroDeck(byDeploy)
  BY <1>1
<1> QED
  BY <1>1, <1>2 DEF NoRetroArchTwice, Only

(* Every probe, every move of the machine and every question keeps it. *)
LEMMA HandlesStep == HandlesInv /\ [InstallNext]_installVars => HandlesInv'
<1> SUFFICES ASSUME HandlesInv, [InstallNext]_installVars PROVE HandlesInv'
  OBVIOUS
<1>1. handles \in Seq(Handles) /\ FoundSoFar /\ NoRetroArchTwice
  BY DEF HandlesInv
<1>2. ASSUME handles' = handles, FoundSoFar'
      PROVE  HandlesInv'
  BY <1>1, <1>2 DEF HandlesInv, NoRetroArchTwice
<1>3. CASE Move \/ Read
  BY <1>1, <1>2, <1>3 DEF Move, Read, FoundSoFar, Only
<1>4. CASE TurnTo
  BY <1>1, <1>2, <1>4 DEF TurnTo, Begin, FoundSoFar, Only
<1>5. CASE AskRoots \/ AskEveryHealth
  BY <1>1, <1>2, <1>5 DEF AskRoots, AskEveryHealth, Begin, FoundSoFar
<1>6. CASE AnswerOne
  BY <1>1, <1>2, <1>6 DEF AnswerOne, FoundSoFar
<1>7. CASE TakeAnswers
  BY <1>1, <1>2, <1>7 DEF TakeAnswers, Idle, FoundSoFar
<1>8. CASE TurnAway
  <2>1. handles' = <<>> /\ probing' = "idle"
    BY <1>8 DEF TurnAway, Idle
  <2> QED
    BY <2>1 DEF HandlesInv, FoundSoFar, NoRetroArchTwice
<1>9. CASE ProbeMarker
  <2>1. handles = <<>>
    BY <1>1, <1>9 DEF ProbeMarker, FoundSoFar
  <2>2. CASE handles' = <<RetroDeck(FALSE)>> /\ probing' = "settings"
    BY <2>2, OneHandle DEF HandlesInv, FoundSoFar
  <2>3. CASE handles' = handles /\ probing' = "userDeploy"
    BY <1>2, <2>1, <2>3 DEF FoundSoFar
  <2> QED
    BY <1>9, <2>2, <2>3 DEF ProbeMarker
<1>10. CASE ProbeDeploy
  <2>1. handles = <<>> /\ probing' \in {"systemDeploy", "settings"}
    BY <1>1, <1>10 DEF ProbeDeploy, FoundSoFar
  <2>2. CASE disk[probing]
    <3>1. handles' = <<RetroDeck(TRUE)>> /\ probing' = "settings"
      BY <1>10, <2>2 DEF ProbeDeploy
    <3> QED
      BY <3>1, OneHandle DEF HandlesInv, FoundSoFar
  <2>3. CASE ~disk[probing]
    <3>1. handles' = handles
      BY <1>10, <2>3 DEF ProbeDeploy
    <3> QED
      BY <1>2, <2>1, <3>1 DEF FoundSoFar, Only
  <2> QED
    BY <2>2, <2>3
<1>11. CASE ProbeSettings
  <2>1. Only({"retrodeck"})
    BY <1>1, <1>11 DEF ProbeSettings, FoundSoFar
  <2>2. /\ FoundIf(emudeck', "emudeck") /\ emudeck' \in BOOLEAN
        /\ probing' = IF emudeck' THEN "nativeCfg" ELSE "flatpakCfg"
    BY <1>11 DEF ProbeSettings
  <2>3. \A i \in DOMAIN handles :
          /\ KindsOf(handles[i]) \intersect KindsOf(Handle("emudeck")) = {}
          /\ Precedence[handles[i].kind] < Precedence["emudeck"]
    BY <2>1 DEF Only, KindsOf, Handle, Precedence
  <2>4. /\ handles' \in Seq(Handles) /\ NoRetroArchTwice'
        /\ \A i \in DOMAIN handles' : \/ i \in DOMAIN handles /\ handles'[i] = handles[i]
                                      \/ emudeck' /\ handles'[i].kind = "emudeck"
    BY <2>2, <2>3, "emudeck" \in Kinds, FoundKeeps DEF Kinds
  <2> QED
    BY <2>1, <2>2, <2>4 DEF HandlesInv, FoundSoFar, Only
<1>12. CASE ProbeFlatpakCfg
  <2>1. Only({"retrodeck"})
    BY <1>1, <1>12 DEF ProbeFlatpakCfg, FoundSoFar
  <2>2. FoundIf(disk.flatpakCfg # "missing", "bare_retroarch_flatpak") /\ probing' = "nativeCfg"
    BY <1>12 DEF ProbeFlatpakCfg
  <2>3. \A i \in DOMAIN handles :
          /\ KindsOf(handles[i]) \intersect KindsOf(Handle("bare_retroarch_flatpak")) = {}
          /\ Precedence[handles[i].kind] < Precedence["bare_retroarch_flatpak"]
    BY <2>1 DEF Only, KindsOf, Handle, Precedence
  <2>4. /\ handles' \in Seq(Handles) /\ NoRetroArchTwice'
        /\ \A i \in DOMAIN handles' : \/ i \in DOMAIN handles /\ handles'[i] = handles[i]
                                      \/ handles'[i].kind = "bare_retroarch_flatpak"
    BY <2>2, <2>3, "bare_retroarch_flatpak" \in Kinds,
       (disk.flatpakCfg # "missing") \in BOOLEAN, FoundKeeps DEF Kinds
  <2> QED
    BY <2>1, <2>2, <2>4 DEF HandlesInv, FoundSoFar, Only
<1>13. CASE ProbeNativeCfg
  <2>1. Only({"retrodeck", "emudeck", "bare_retroarch_flatpak"})
    BY <1>1, <1>13 DEF ProbeNativeCfg, FoundSoFar
  <2>2. FoundIf(disk.nativeCfg # "missing", "bare_retroarch_native") /\ probing' = "held"
    BY <1>13 DEF ProbeNativeCfg
  <2>3. \A i \in DOMAIN handles :
          /\ KindsOf(handles[i]) \intersect KindsOf(Handle("bare_retroarch_native")) = {}
          /\ Precedence[handles[i].kind] < Precedence["bare_retroarch_native"]
    BY <2>1 DEF Only, KindsOf, Handle, Precedence
  <2>4. handles' \in Seq(Handles) /\ NoRetroArchTwice'
    BY <2>2, <2>3, "bare_retroarch_native" \in Kinds,
       (disk.nativeCfg # "missing") \in BOOLEAN, FoundKeeps DEF Kinds
  <2> QED
    BY <2>2, <2>4 DEF HandlesInv, FoundSoFar
<1>14. CASE UNCHANGED installVars
  BY <1>1, <1>2, <1>14 DEF installVars, FoundSoFar, Only
<1> QED
  BY <1>3, <1>4, <1>5, <1>6, <1>7, <1>8, <1>9, <1>10, <1>11, <1>12, <1>13, <1>14 DEF InstallNext

(* No arrangement is described by two handles (detect.py, "no second handle *)
(* for the same RetroArch"), however often the machine moves between probes. *)
THEOREM DescribedOnce == InstallSpec => []NoRetroArchTwice
<1>1. InstallInit => HandlesInv
  BY DEF InstallInit, HandlesInv, FoundSoFar, NoRetroArchTwice
<1>2. HandlesInv => NoRetroArchTwice
  BY DEF HandlesInv
<1> QED
  BY <1>1, <1>2, HandlesStep, PTL DEF InstallSpec
-----------------------------------------------------------------------------
(* Where a detection stands: what was there all along and has been probed   *)
(* is found, and what is found was there.                                   *)
Probes == {"marker", "userDeploy", "systemDeploy", "settings", "flatpakCfg", "nativeCfg"}
Decks == {"marker", "userDeploy", "systemDeploy"}
Asked == {"health", "roots"}
Has(kinds) == \E i \in DOMAIN handles : KindsOf(handles[i]) \intersect kinds # {}
Past(phases) == probing \in (Probes \union {"held"}) \ phases
Stood(e) == e \in stood.evidence

StandingInv ==
  /\ DOMAIN stood = {"evidence", "folders"} /\ DOMAIN shown = {"evidence", "folders"}
  /\ probing \in Probes \union Asked =>
       /\ stood.evidence \subseteq Standing(disk).evidence
       /\ Standing(disk).evidence \subseteq shown.evidence
       /\ stood.folders \subseteq Standing(disk).folders
       /\ Standing(disk).folders \subseteq shown.folders
  /\ probing \in {"idle", "held", "answered"} \union Probes \union Asked
  /\ todo # <<>> => probing \in Asked

FoundInv ==
  /\ probing \in Probes =>
       \A i \in DOMAIN handles : EvidenceOf(handles[i]) \intersect shown.evidence # {}
  /\ Past({"marker"}) /\ Stood("marker") => Has({"retrodeck"})
  /\ Past({"marker", "userDeploy"}) /\ Stood("userDeploy") => Has({"retrodeck"})
  /\ Past(Decks) /\ Stood("systemDeploy") => Has({"retrodeck"})
  /\ Past(Decks \union {"settings"}) /\ Stood("settings") => Has({"emudeck"})
  /\ Past(Decks \union {"settings", "flatpakCfg"}) /\ Stood("flatpakCfg") =>
       Has({"bare_retroarch_flatpak"})
  /\ probing = "held" /\ Stood("nativeCfg") => Has({"bare_retroarch_native"})

CountInv ==
  /\ probing \in {"settings", "flatpakCfg"} => Len(handles) <= 1
  /\ probing = "nativeCfg" => Len(handles) <= 2
  /\ Len(handles) <= 3
-----------------------------------------------------------------------------
(* What stands on a machine, by its evidence. *)
LEMMA EvidenceStands ==
  \A d : /\ "marker" \in Standing(d).evidence <=> d.marker.status # "missing"
         /\ "settings" \in Standing(d).evidence <=> d.settings.status # "missing"
         /\ "userDeploy" \in Standing(d).evidence <=> d["userDeploy"]
         /\ "systemDeploy" \in Standing(d).evidence <=> d["systemDeploy"]
         /\ "flatpakCfg" \in Standing(d).evidence <=> d.flatpakCfg # "missing"
         /\ "nativeCfg" \in Standing(d).evidence <=> d.nativeCfg # "missing"
         /\ DOMAIN Standing(d) = {"evidence", "folders"}
         /\ Standing(d).folders = d.folders
BY DEF Standing

(* What stood and what showed are kept up with what stands. *)
LEMMA StandingStep == StandingInv /\ [InstallNext]_installVars => StandingInv'
<1> SUFFICES ASSUME StandingInv, [InstallNext]_installVars PROVE StandingInv'
  OBVIOUS
<1> USE DEF StandingInv, Probes, Asked
<1>1. CASE Move
  BY <1>1, EvidenceStands DEF Move
<1>2. CASE TurnTo \/ AskRoots \/ AskEveryHealth
  BY <1>2, EvidenceStands DEF TurnTo, AskRoots, AskEveryHealth, Begin
<1>3. CASE ProbeMarker \/ ProbeDeploy \/ ProbeSettings \/ ProbeFlatpakCfg \/ ProbeNativeCfg
  BY <1>3 DEF ProbeMarker, ProbeDeploy, ProbeSettings, ProbeFlatpakCfg, ProbeNativeCfg, Unmoved
<1>4. CASE Read \/ AnswerOne
  BY <1>4 DEF Read, AnswerOne
<1>5. CASE TakeAnswers \/ TurnAway
  BY <1>5 DEF TakeAnswers, TurnAway, Idle, Nothing
<1>6. CASE UNCHANGED installVars
  BY <1>6 DEF installVars
<1> QED
  BY <1>1, <1>2, <1>3, <1>4, <1>5, <1>6 DEF InstallNext

(* A probe keeps what was found, and finds what is present. *)
LEMMA FoundAdds ==
  ASSUME NEW present \in BOOLEAN, NEW kind \in Kinds, handles \in Seq(Handles),
         FoundIf(present, kind)
  PROVE  /\ \A i \in DOMAIN handles : i \in DOMAIN handles' /\ handles'[i] = handles[i]
         /\ \A i \in DOMAIN handles' : \/ i \in DOMAIN handles /\ handles'[i] = handles[i]
                                       \/ present /\ handles'[i] = Handle(kind)
         /\ present => \E i \in DOMAIN handles' : handles'[i] = Handle(kind)
         /\ handles' \in Seq(Handles)
         /\ Len(handles') = IF present THEN Len(handles) + 1 ELSE Len(handles)
<1>1. Handle(kind) \in Handles
  BY DEF Handle, Handles
<1>2. CASE ~present
  BY <1>2 DEF FoundIf
<1>3. CASE present
  <2>1. handles' = Append(handles, Handle(kind))
    BY <1>3 DEF FoundIf
  <2> QED
    BY <1>1, <1>3, <2>1
<1> QED
  BY <1>2, <1>3

(* So a probe keeps what it found, by any kind asked for. *)
LEMMA HasKept ==
  ASSUME NEW kinds, \A i \in DOMAIN handles : i \in DOMAIN handles' /\ handles'[i] = handles[i]
  PROVE  Has(kinds) => Has(kinds)'
BY DEF Has

(* The kinds and the evidence of each way to install. *)
LEMMA KindsAre ==
  /\ \A byDeploy : KindsOf(RetroDeck(byDeploy)) = {"retrodeck"}
  /\ EvidenceOf(RetroDeck(FALSE)) = {"marker"}
  /\ EvidenceOf(RetroDeck(TRUE)) = {"userDeploy", "systemDeploy"}
  /\ KindsOf(Handle("emudeck")) = {"emudeck", "bare_retroarch_flatpak"}
  /\ EvidenceOf(Handle("emudeck")) = {"settings"}
  /\ KindsOf(Handle("bare_retroarch_flatpak")) = {"bare_retroarch_flatpak"}
  /\ EvidenceOf(Handle("bare_retroarch_flatpak")) = {"flatpakCfg"}
  /\ KindsOf(Handle("bare_retroarch_native")) = {"bare_retroarch_native"}
  /\ EvidenceOf(Handle("bare_retroarch_native")) = {"nativeCfg"}
BY DEF KindsOf, RetroDeck, Handle, EvidenceOf, MarkerOf

(* Every probe finds what has stood until now, and nothing that did not.    *)
LEMMA FoundStep ==
  ASSUME HandlesInv, StandingInv, FoundInv, [InstallNext]_installVars
  PROVE  FoundInv'
<1> USE DEF Probes, Decks, Asked
<1>1. handles \in Seq(Handles) /\ FoundSoFar
  BY DEF HandlesInv
<1>2. \A e \in {"marker", "settings", "userDeploy", "systemDeploy", "flatpakCfg", "nativeCfg"} :
        probing \in Probes => (Stood(e) => e \in Standing(disk).evidence)
                             /\ (e \in Standing(disk).evidence => e \in shown.evidence)
  BY DEF StandingInv, Stood
<1>3. CASE Move
  <2>1. handles' = handles /\ probing' = probing
    BY <1>3 DEF Move
  <2>2. \A e : Stood(e)' => Stood(e)
    BY <1>3 DEF Move, StandingInv, Stood
  <2>3. shown.evidence \subseteq shown'.evidence
    BY <1>3 DEF Move, StandingInv
  <2> QED
    BY <2>1, <2>2, <2>3 DEF FoundInv, Has, Past
<1>4. CASE TurnTo
  <2>1. handles' = <<>> /\ probing' = "marker"
    BY <1>1, <1>4 DEF TurnTo, Begin, FoundSoFar
  <2> QED
    BY <2>1 DEF FoundInv, Past
<1>5. CASE \/ AskRoots \/ AskEveryHealth \/ Read \/ AnswerOne \/ TurnAway
  <2>1. probing' \notin Probes \union {"held"}
    <3>1. CASE Read
      BY <3>1 DEF StandingInv, Read
    <3> QED
      BY <1>5, <3>1 DEF AskRoots, AskEveryHealth, Begin, AnswerOne, TurnAway, Idle
  <2> QED
    BY <2>1 DEF FoundInv, Past
<1>6. CASE TakeAnswers
  BY <1>6 DEF TakeAnswers, Idle, Nothing, FoundInv, Stood
<1>7. CASE ProbeMarker
  <2>1. UNCHANGED <<stood, shown, disk>> /\ probing = "marker" /\ handles = <<>>
    BY <1>1, <1>7 DEF ProbeMarker, Unmoved, FoundSoFar
  <2>2. CASE disk.marker.status # "missing"
    <3>1. handles' = <<RetroDeck(FALSE)>> /\ probing' = "settings"
      BY <1>7, <2>2 DEF ProbeMarker
    <3>2. DOMAIN handles' = {1} /\ handles'[1] = RetroDeck(FALSE)
      BY <3>1
    <3>3. "marker" \in shown'.evidence
      BY <1>2, <2>1, <2>2, EvidenceStands
    <3>4. Has({"retrodeck"})'
      <4>1. KindsOf(handles'[1]) \intersect {"retrodeck"} # {}
        BY <3>2 DEF KindsOf, RetroDeck
      <4> QED
        BY <3>2, <4>1 DEF Has, KindsOf
    <3> QED
      BY <3>1, <3>2, <3>3, <3>4, KindsAre DEF FoundInv, Past
  <2>3. CASE disk.marker.status = "missing"
    <3>1. handles' = handles /\ probing' = "userDeploy"
      BY <1>7, <2>3 DEF ProbeMarker
    <3>2. ~Stood("marker")'
      BY <1>2, <2>1, <2>3, EvidenceStands DEF Stood
    <3> QED
      BY <2>1, <3>1, <3>2 DEF FoundInv, Past
  <2> QED
    BY <2>2, <2>3
<1>8. CASE ProbeDeploy
  <2>1. /\ UNCHANGED <<stood, shown, disk>> /\ handles = <<>>
        /\ probing \in {"userDeploy", "systemDeploy"}
        /\ probing' = IF probing = "userDeploy" /\ ~disk.userDeploy THEN "systemDeploy" ELSE "settings"
    BY <1>1, <1>8 DEF ProbeDeploy, Unmoved, FoundSoFar
  <2>2. ~Stood("marker") /\ (probing = "systemDeploy" => ~Stood("userDeploy"))
    BY <2>1 DEF FoundInv, Past, Has
  <2>3. CASE disk[probing]
    <3>1. handles' = <<RetroDeck(TRUE)>>
      BY <1>8, <2>3 DEF ProbeDeploy
    <3>2. DOMAIN handles' = {1} /\ handles'[1] = RetroDeck(TRUE)
      BY <3>1
    <3>3. probing' = "settings"
      BY <2>1, <2>3
    <3>4. probing \in shown'.evidence
      BY <1>2, <2>1, <2>3, EvidenceStands
    <3>5. Has({"retrodeck"})'
      <4>1. KindsOf(handles'[1]) \intersect {"retrodeck"} # {}
        BY <3>2 DEF KindsOf, RetroDeck
      <4> QED
        BY <3>2, <4>1 DEF Has, KindsOf
    <3> QED
      BY <2>1, <3>2, <3>3, <3>4, <3>5, KindsAre DEF FoundInv, Past
  <2>4. CASE ~disk[probing]
    <3>1. handles' = handles
      BY <1>8, <2>4 DEF ProbeDeploy
    <3>2. ~Stood(probing)
      BY <1>2, <2>1, <2>4, EvidenceStands
    <3>3. probing' = IF probing = "userDeploy" THEN "systemDeploy" ELSE "settings"
      BY <2>1, <2>4
    <3> QED
      BY <2>1, <2>2, <3>1, <3>2, <3>3 DEF FoundInv, Past, Stood
  <2> QED
    BY <2>3, <2>4
<1>9. ASSUME NEW kind \in Kinds, NEW present \in BOOLEAN, FoundIf(present, kind),
             probing \in {"settings", "flatpakCfg", "nativeCfg"},
             UNCHANGED <<stood, shown, disk>>,
             present => EvidenceOf(Handle(kind)) \intersect shown.evidence # {}
      PROVE  /\ Has({"retrodeck"}) => Has({"retrodeck"})'
             /\ Has({"emudeck"}) => Has({"emudeck"})'
             /\ Has({"bare_retroarch_flatpak"}) => Has({"bare_retroarch_flatpak"})'
             /\ present => \A k \in KindsOf(Handle(kind)) : Has({k})'
             /\ \A i \in DOMAIN handles' : EvidenceOf(handles'[i]) \intersect shown'.evidence # {}
             /\ Stood("marker")' \/ Stood("userDeploy")' \/ Stood("systemDeploy")' =>
                  Has({"retrodeck"})'
  <2>1. /\ \A i \in DOMAIN handles : i \in DOMAIN handles' /\ handles'[i] = handles[i]
        /\ \A i \in DOMAIN handles' : \/ i \in DOMAIN handles /\ handles'[i] = handles[i]
                                      \/ present /\ handles'[i] = Handle(kind)
        /\ present => \E i \in DOMAIN handles' : handles'[i] = Handle(kind)
    BY <1>1, <1>9, FoundAdds
  <2>2. present => \A k \in KindsOf(Handle(kind)) : Has({k})'
    BY <2>1 DEF Has
  <2>3. \A kinds : Has(kinds) => Has(kinds)'
    BY <2>1, HasKept
  <2>4. \A i \in DOMAIN handles : EvidenceOf(handles[i]) \intersect shown.evidence # {}
    BY <1>9 DEF FoundInv
  <2>5. \A i \in DOMAIN handles' : EvidenceOf(handles'[i]) \intersect shown'.evidence # {}
    BY <1>9, <2>1, <2>4
  <2>6. Stood("marker") \/ Stood("userDeploy") \/ Stood("systemDeploy") => Has({"retrodeck"})
    BY <1>9 DEF FoundInv, Past
  <2>7. Stood("marker")' \/ Stood("userDeploy")' \/ Stood("systemDeploy")' => Has({"retrodeck"})'
    BY <1>9, <2>3, <2>6 DEF Stood
  <2> QED
    BY <2>2, <2>3, <2>5, <2>7
<1>10. CASE ProbeSettings
  <2>1. /\ UNCHANGED <<stood, shown, disk>> /\ probing = "settings"
        /\ FoundIf(emudeck', "emudeck") /\ emudeck' \in BOOLEAN
        /\ emudeck' = (disk.settings.status # "missing")
        /\ probing' = IF emudeck' THEN "nativeCfg" ELSE "flatpakCfg"
    BY <1>10 DEF ProbeSettings, Unmoved
  <2>2. emudeck' => "settings" \in shown.evidence
    BY <1>2, <2>1, EvidenceStands
  <2>3. ~emudeck' => ~Stood("settings")'
    BY <1>2, <2>1, EvidenceStands DEF Stood
  <2>4. /\ emudeck' => Has({"emudeck"})' /\ Has({"bare_retroarch_flatpak"})'
        /\ \A i \in DOMAIN handles' : EvidenceOf(handles'[i]) \intersect shown'.evidence # {}
        /\ Stood("marker")' \/ Stood("userDeploy")' \/ Stood("systemDeploy")' => Has({"retrodeck"})'
    BY <1>9, <2>1, <2>2, KindsAre, "emudeck" \in Kinds DEF Kinds
  <2> QED
    BY <2>1, <2>3, <2>4 DEF FoundInv, Past
<1>11. CASE ProbeFlatpakCfg
  <2> DEFINE present == disk.flatpakCfg # "missing"
  <2>1. /\ UNCHANGED <<stood, shown, disk>> /\ probing = "flatpakCfg"
        /\ FoundIf(present, "bare_retroarch_flatpak") /\ present \in BOOLEAN
        /\ probing' = "nativeCfg"
    BY <1>11 DEF ProbeFlatpakCfg, Unmoved
  <2>2. present => "flatpakCfg" \in shown.evidence
    BY <1>2, <2>1, EvidenceStands
  <2>3. ~present => ~Stood("flatpakCfg")'
    BY <1>2, <2>1, EvidenceStands DEF Stood
  <2>4. Stood("settings")' => Has({"emudeck"})
    BY <2>1 DEF FoundInv, Past, Stood
  <2> HIDE DEF present
  <2>5. /\ present => Has({"bare_retroarch_flatpak"})'
        /\ Has({"emudeck"}) => Has({"emudeck"})'
        /\ \A i \in DOMAIN handles' : EvidenceOf(handles'[i]) \intersect shown'.evidence # {}
        /\ Stood("marker")' \/ Stood("userDeploy")' \/ Stood("systemDeploy")' => Has({"retrodeck"})'
    BY <1>9, <2>1, <2>2, KindsAre, "bare_retroarch_flatpak" \in Kinds DEF Kinds
  <2> QED
    BY <2>1, <2>3, <2>4, <2>5 DEF FoundInv, Past
<1>12. CASE ProbeNativeCfg
  <2> DEFINE present == disk.nativeCfg # "missing"
  <2>1. /\ UNCHANGED <<stood, shown, disk>> /\ probing = "nativeCfg"
        /\ FoundIf(present, "bare_retroarch_native") /\ present \in BOOLEAN
        /\ probing' = "held"
    BY <1>12 DEF ProbeNativeCfg, Unmoved
  <2>2. present => "nativeCfg" \in shown.evidence
    BY <1>2, <2>1, EvidenceStands
  <2>3. ~present => ~Stood("nativeCfg")'
    BY <1>2, <2>1, EvidenceStands DEF Stood
  <2>4. /\ Stood("settings")' => Has({"emudeck"})
        /\ Stood("flatpakCfg")' => Has({"bare_retroarch_flatpak"})
    BY <2>1 DEF FoundInv, Past, Stood
  <2> HIDE DEF present
  <2>5. /\ present => Has({"bare_retroarch_native"})'
        /\ Has({"emudeck"}) => Has({"emudeck"})'
        /\ Has({"bare_retroarch_flatpak"}) => Has({"bare_retroarch_flatpak"})'
        /\ Stood("marker")' \/ Stood("userDeploy")' \/ Stood("systemDeploy")' => Has({"retrodeck"})'
    BY <1>9, <2>1, <2>2, KindsAre, "bare_retroarch_native" \in Kinds DEF Kinds
  <2> QED
    BY <2>1, <2>3, <2>4, <2>5 DEF FoundInv, Past
<1>13. CASE UNCHANGED installVars
  BY <1>13 DEF installVars, FoundInv, Has, Past, Stood
<1> QED
  BY <1>3, <1>4, <1>5, <1>6, <1>7, <1>8, <1>10, <1>11, <1>12, <1>13 DEF InstallNext

(* No more than three handles, one of a kind. *)
LEMMA CountStep ==
  ASSUME HandlesInv, CountInv, [InstallNext]_installVars
  PROVE  CountInv'
<1>1. handles \in Seq(Handles) /\ FoundSoFar /\ Len(handles) \in Nat
  BY DEF HandlesInv
<1>2. ASSUME handles' = handles, probing' = probing \/ probing' \notin {"settings", "flatpakCfg", "nativeCfg"}
      PROVE  CountInv'
  BY <1>2 DEF CountInv
<1>3. CASE Move \/ TurnTo \/ AskRoots \/ AskEveryHealth \/ Read \/ AnswerOne \/ TakeAnswers
  BY <1>2, <1>3
     DEF Move, TurnTo, AskRoots, AskEveryHealth, Read, AnswerOne, TakeAnswers, Begin, Idle
<1>4. CASE TurnAway
  BY <1>4 DEF TurnAway, Idle, CountInv
<1>5. CASE ProbeMarker
  <2>1. handles = <<>> /\ probing' \in {"settings", "userDeploy"}
    BY <1>1, <1>5 DEF ProbeMarker, FoundSoFar
  <2>2. handles' = handles \/ handles' = <<RetroDeck(FALSE)>>
    BY <1>5 DEF ProbeMarker
  <2>3. Len(handles') <= 1
    <3>1. CASE handles' = handles
      BY <2>1, <3>1
    <3>2. CASE handles' = <<RetroDeck(FALSE)>>
      <4>1. Len(handles') = 1
        BY <3>2
      <4> QED
        BY <4>1
    <3> QED
      BY <2>2, <3>1, <3>2
  <2> QED
    BY <2>1, <2>3 DEF CountInv
<1>6. CASE ProbeDeploy
  <2>1. handles = <<>> /\ probing' \in {"systemDeploy", "settings"}
    BY <1>1, <1>6 DEF ProbeDeploy, FoundSoFar
  <2>2. handles' = handles \/ handles' = <<RetroDeck(TRUE)>>
    BY <1>6 DEF ProbeDeploy
  <2>3. Len(handles') <= 1
    <3>1. CASE handles' = handles
      BY <2>1, <3>1
    <3>2. CASE handles' = <<RetroDeck(TRUE)>>
      <4>1. Len(handles') = 1
        BY <3>2
      <4> QED
        BY <4>1
    <3> QED
      BY <2>2, <3>1, <3>2
  <2> QED
    BY <2>1, <2>3 DEF CountInv
<1>7. CASE ProbeSettings
  <2>1. FoundIf(emudeck', "emudeck") /\ emudeck' \in BOOLEAN /\ probing = "settings"
    BY <1>7 DEF ProbeSettings
  <2>2. Len(handles') = IF emudeck' THEN Len(handles) + 1 ELSE Len(handles)
    BY <1>1, <2>1, FoundAdds DEF Kinds
  <2>3. probing' = IF emudeck' THEN "nativeCfg" ELSE "flatpakCfg"
    BY <1>7 DEF ProbeSettings
  <2> QED
    BY <1>1, <2>1, <2>2, <2>3 DEF CountInv
<1>8. CASE ProbeFlatpakCfg
  <2>1. Len(handles') \in {Len(handles), Len(handles) + 1}
    BY <1>1, <1>8, (disk.flatpakCfg # "missing") \in BOOLEAN, FoundAdds DEF ProbeFlatpakCfg, Kinds
  <2> QED
    BY <1>1, <1>8, <2>1 DEF ProbeFlatpakCfg, CountInv
<1>9. CASE ProbeNativeCfg
  <2>1. Len(handles') \in {Len(handles), Len(handles) + 1}
    BY <1>1, <1>9, (disk.nativeCfg # "missing") \in BOOLEAN, FoundAdds DEF ProbeNativeCfg, Kinds
  <2> QED
    BY <1>1, <1>9, <2>1 DEF ProbeNativeCfg, CountInv
<1>10. CASE UNCHANGED installVars
  BY <1>2, <1>10 DEF installVars
<1> QED
  BY <1>3, <1>4, <1>5, <1>6, <1>7, <1>8, <1>9, <1>10 DEF InstallNext
-----------------------------------------------------------------------------
Names == {"marker", "settings", "flatpakCfg", "nativeCfg", "esde", "romRoot"} \union Parts

(* How far the question put to a handle has read: a handle that is not set  *)
(* up is asked no further than its marker.                                  *)
Sources == IF asking.name = "health" THEN Health(asking.of) ELSE Roots(asking.of)
HasRead(n) ==
  /\ todo = SubSeq(Sources, n + 1, Len(Sources))
  /\ DOMAIN seen = {Sources[i] : i \in 1 .. n}
  /\ n > 0 /\ asking.of.kind = "retrodeck" => ~NotSetUp(asking.of, seen["marker"])
StoppedShort ==
  /\ todo = <<>>
  /\ DOMAIN seen = {"marker"}
  /\ asking.of.kind = "retrodeck"
  /\ NotSetUp(asking.of, seen["marker"])

NotThere(h, marker) ==
  IF h.kind \in {"retrodeck", "emudeck"} THEN marker.status = "missing" ELSE marker = "missing"

AskingInv ==
  probing \in Asked =>
    /\ asking.name = probing
    /\ asking.of \in Handles
    /\ probing = "roots" =>
         asking.of.kind \in {"retrodeck", "emudeck"} /\ Len(answers) = 0 /\ Len(handles) > 0
    /\ probing = "health" => Len(answers) < Len(handles) /\ asking.of = handles[Len(answers) + 1]
    /\ StoppedShort \/ \E n \in 0 .. Len(Sources) : HasRead(n)

(* What it has read was so at a moment of the question.                     *)
SeenInv ==
  probing \in Asked =>
    LET h == asking.of
        marker == seen[MarkerOf(h)]
    IN  /\ MarkerOf(h) \in DOMAIN seen =>
             IF NotThere(h, marker) THEN ~Stood(MarkerOf(h)) ELSE MarkerOf(h) \in shown.evidence
        /\ \A p \in Parts \intersect DOMAIN seen :
             IF seen[p] THEN RootsOf(h, marker)[p] \in shown.folders
             ELSE RootsOf(h, marker)[p] \notin stood.folders

AnswersInv ==
  /\ \E S : answers \in Seq(S)
  /\ probing \notin Asked \union {"answered"} => answers = <<>>
  /\ Len(answers) <= Len(handles)
  /\ FindingsAreOfTheStatedRoots

InstallInv ==
  /\ HandlesInv /\ StandingInv /\ FoundInv /\ CountInv
  /\ AskingInv /\ SeenInv /\ AnswersInv
  /\ moves \in 0 .. MaxMoves /\ emudeck \in BOOLEAN
-----------------------------------------------------------------------------
(* What is yet to be read of a list, after its first n. *)
LEMMA RestOfAList ==
  ASSUME NEW S, NEW list \in Seq(S), NEW n \in 0 .. Len(list)
  PROVE  LET rest == SubSeq(list, n + 1, Len(list))
         IN  /\ rest = <<>> => n = Len(list)
             /\ rest # <<>> => /\ n < Len(list)
                               /\ Head(rest) = list[n + 1]
                               /\ Tail(rest) = SubSeq(list, n + 2, Len(list))
             /\ n = 0 => rest = list
OBVIOUS

(* Every question reads the marker first, and once. *)
LEMMA MarkerComesFirst ==
  ASSUME NEW h \in Handles, NEW list \in {Health(h), Roots(h)},
         list = Roots(h) => h.kind \in {"retrodeck", "emudeck"}
  PROVE  /\ list \in Seq(Names) /\ Len(list) > 0
         /\ list[1] = MarkerOf(h)
         /\ \A i \in 2 .. Len(list) : list[i] \notin {MarkerOf(h), "marker"}
         /\ list = Roots(h) => \A p \in Parts : \E i \in 1 .. Len(list) : list[i] = p
         /\ MarkerOf(h) \notin Parts
         /\ MarkerOf(h) = "marker" <=> h.kind = "retrodeck"
<1>1. h.kind \in Kinds
  BY DEF Handles
<1>2. CASE list = <<"marker", "root", "saves", "bios">> /\ h.kind = "retrodeck"
  BY <1>2 DEF Roots, MarkerOf, Parts, Names
<1>3. CASE list = <<"marker", "romRoot", "root", "saves", "bios">> /\ h.kind = "retrodeck"
  BY <1>3 DEF MarkerOf, Parts, Names
<1>4. CASE list = <<"settings", "flatpakCfg", "root", "saves", "bios">> /\ h.kind = "emudeck"
  BY <1>4 DEF Roots, MarkerOf, Parts, Names
<1>5. CASE /\ list = <<"settings", "flatpakCfg", "esde", "root", "saves", "bios", "romRoot">>
           /\ h.kind = "emudeck"
  BY <1>5 DEF MarkerOf, Parts, Names
<1>6. CASE /\ list = <<MarkerOf(h)>> /\ list # Roots(h)
           /\ h.kind \in {"bare_retroarch_flatpak", "bare_retroarch_native"}
  BY <1>6 DEF MarkerOf, Parts, Names
<1> QED
  BY <1>1, <1>2, <1>3, <1>4, <1>5, <1>6 DEF Kinds, Health, Roots

(* A handle's marker stands on a machine where a read finds it there. *)
LEMMA MarkerStands ==
  ASSUME NEW h \in Handles, NEW d
  PROVE  MarkerOf(h) \in Standing(d).evidence <=> ~NotThere(h, d[MarkerOf(h)])
BY EvidenceStands DEF Handles, Kinds, MarkerOf, NotThere

(* The list a question reads is of its handle, and what is yet to be read    *)
(* follows what was.                                                        *)
LEMMA ReadsInOrder ==
  ASSUME InstallInv, Read
  PROVE  LET h == asking.of
             source == Head(todo)
         IN  /\ probing \in Asked /\ h \in Handles /\ Sources \in Seq(Names)
             /\ \E n \in 0 .. Len(Sources) - 1 :
                  /\ HasRead(n) /\ source = Sources[n + 1]
                  /\ Tail(todo) = SubSeq(Sources, n + 2, Len(Sources))
                  /\ n = 0 <=> source = MarkerOf(h)
                  /\ n > 0 => source # "marker" /\ MarkerOf(h) \in DOMAIN seen
             /\ MarkerOf(h) \notin Parts
             /\ MarkerOf(h) = "marker" <=> h.kind = "retrodeck"
<1>1. probing \in Asked /\ todo # <<>>
  BY DEF Read, InstallInv, StandingInv
<1>2. /\ asking.of \in Handles
      /\ Sources \in {Health(asking.of), Roots(asking.of)}
      /\ Sources = Roots(asking.of) => asking.of.kind \in {"retrodeck", "emudeck"}
  <2>1. /\ asking.of \in Handles /\ asking.name = probing
        /\ probing = "roots" => asking.of.kind \in {"retrodeck", "emudeck"}
    BY <1>1 DEF InstallInv, AskingInv
  <2>2. Sources \in {Health(asking.of), Roots(asking.of)}
    BY DEF Sources
  <2>3. ASSUME asking.name = "health", Health(asking.of) = Roots(asking.of)
        PROVE  asking.of.kind \in {"retrodeck", "emudeck"}
    <3>1. CASE asking.of.kind \in {"bare_retroarch_flatpak", "bare_retroarch_native"}
      <4>1. Len(Health(asking.of)) = 1
        BY <3>1 DEF Health
      <4>2. Len(Roots(asking.of)) = 7
        BY <3>1 DEF Roots
      <4>3. Len(Health(asking.of)) = Len(Roots(asking.of))
        BY <2>3, Zenon
      <4> QED
        BY <4>1, <4>2, <4>3
    <3> QED
      BY <2>1, <3>1 DEF Handles, Kinds
  <2>4. asking.name = "health" \/ probing = "roots"
    BY <1>1, <2>1 DEF Asked
  <2> QED
    BY <2>1, <2>2, <2>3, <2>4 DEF Sources
<1>3. /\ Sources \in Seq(Names) /\ Len(Sources) > 0
      /\ Sources[1] = MarkerOf(asking.of)
      /\ \A i \in 2 .. Len(Sources) : Sources[i] \notin {MarkerOf(asking.of), "marker"}
      /\ MarkerOf(asking.of) \notin Parts
      /\ MarkerOf(asking.of) = "marker" <=> asking.of.kind = "retrodeck"
  BY <1>2, MarkerComesFirst
<1>4. PICK n \in 0 .. Len(Sources) : HasRead(n)
  BY <1>1 DEF InstallInv, AskingInv, StoppedShort
<1>5. /\ n < Len(Sources) /\ Head(todo) = Sources[n + 1]
      /\ Tail(todo) = SubSeq(Sources, n + 2, Len(Sources))
  BY <1>1, <1>3, <1>4, RestOfAList DEF HasRead
<1>6. n > 0 => MarkerOf(asking.of) \in DOMAIN seen
  BY <1>3, <1>4 DEF HasRead
<1>7. n = 0 <=> Sources[n + 1] = MarkerOf(asking.of)
  BY <1>3, <1>5
<1>8. n > 0 => Sources[n + 1] # "marker"
  BY <1>3, <1>5
<1> QED
  BY <1>1, <1>2, <1>3, <1>4, <1>5, <1>6, <1>7, <1>8

(* What a read adds to what was seen. *)
LEMMA ReadNotes ==
  ASSUME Read, asking.of \in Handles
  PROVE  LET h == asking.of
             source == Head(todo)
         IN  /\ DOMAIN seen' = DOMAIN seen \union {source}
             /\ \A s \in DOMAIN seen : s # source => seen'[s] = seen[s]
             /\ source \in Parts =>
                  seen'[source] = (RootsOf(h, seen[MarkerOf(h)])[source] \in disk.folders)
             /\ source \notin Parts => seen'[source] = disk[source]
             /\ todo' = IF source = "marker" /\ NotSetUp(h, disk.marker) THEN <<>> ELSE Tail(todo)
             /\ UNCHANGED <<disk, moves, probing, emudeck, handles, stood, shown, asking, answers>>
BY DEF Read, Noting

(* A question put to a handle has read nothing. *)
LEMMA PutStarts ==
  ASSUME NEW h \in Handles, NEW name \in Asked, Put(name, h),
         name = "roots" => h.kind \in {"retrodeck", "emudeck"}
  PROVE  /\ asking'.name = name /\ asking'.of = h
         /\ 0 \in 0 .. Len(Sources') /\ HasRead(0)'
         /\ DOMAIN seen' = {}
<1>1. asking'.name = name /\ asking'.of = h /\ seen' = <<>>
  BY DEF Put
<1>2. Sources' = (IF name = "health" THEN Health(h) ELSE Roots(h)) /\ todo' = Sources'
  BY <1>1 DEF Put, Sources
<1>3. Sources' \in Seq(Names) /\ Len(Sources') \in Nat
  <2>1. CASE name = "health" /\ Health(h) # Roots(h)
    BY <1>2, <2>1, MarkerComesFirst
  <2>2. CASE name = "roots"
    BY <1>2, <2>2, MarkerComesFirst DEF Asked
  <2>3. CASE name = "health" /\ Health(h) = Roots(h)
    <3>1. CASE h.kind \in {"bare_retroarch_flatpak", "bare_retroarch_native"}
      <4>1. Len(Health(h)) = 1
        BY <3>1 DEF Health
      <4>2. Len(Roots(h)) = 7
        BY <3>1 DEF Roots
      <4>3. Len(Health(h)) = Len(Roots(h))
        BY <2>3, Zenon
      <4> QED
        BY <4>1, <4>2, <4>3
    <3>2. CASE h.kind \in {"retrodeck", "emudeck"}
      BY <1>2, <2>3, <3>2, MarkerComesFirst
    <3> QED
      BY <3>1, <3>2 DEF Handles, Kinds
  <2> QED
    BY <2>1, <2>2, <2>3 DEF Asked
<1>4. SubSeq(Sources', 1, Len(Sources')) = Sources'
  BY <1>3, RestOfAList
<1>5. DOMAIN seen' = {}
  BY <1>1
<1>6. {Sources'[i] : i \in 1 .. 0} = {}
  OBVIOUS
<1> QED
  BY <1>1, <1>2, <1>3, <1>4, <1>5, <1>6 DEF HasRead

(* Where a question stands in its list, and what it has seen, is kept.       *)
LEMMA AskingStep ==
  ASSUME InstallInv, [InstallNext]_installVars
  PROVE  AskingInv' /\ SeenInv'
<1>1. /\ handles \in Seq(Handles) /\ AskingInv /\ SeenInv /\ StandingInv /\ AnswersInv
      /\ Len(handles) \in Nat /\ Len(answers) \in Nat
  BY DEF InstallInv, HandlesInv, AnswersInv
<1>2. ASSUME probing' \notin Asked PROVE AskingInv' /\ SeenInv'
  BY <1>2 DEF AskingInv, SeenInv
<1>3. CASE Move
  <2>1. UNCHANGED <<probing, handles, asking, todo, seen, answers>>
    BY <1>3 DEF Move
  <2>2. /\ stood'.evidence \subseteq stood.evidence /\ stood'.folders \subseteq stood.folders
        /\ shown.evidence \subseteq shown'.evidence /\ shown.folders \subseteq shown'.folders
    BY <1>1, <1>3 DEF Move, StandingInv
  <2>3. AskingInv'
    BY <1>1, <2>1 DEF AskingInv, Sources, HasRead, StoppedShort
  <2>4. SeenInv'
    BY <1>1, <2>1, <2>2 DEF SeenInv, Stood
  <2> QED
    BY <2>3, <2>4
<1>4. ASSUME NEW name \in Asked, NEW h \in Handles, Put(name, h), probing' = name,
             UNCHANGED handles, Len(handles) > 0,
             name = "roots" => h.kind \in {"retrodeck", "emudeck"} /\ Len(answers') = 0,
             name = "health" => Len(answers') < Len(handles) /\ h = handles[Len(answers') + 1]
      PROVE  AskingInv' /\ SeenInv'
  <2>1. /\ asking'.name = name /\ asking'.of = h
        /\ 0 \in 0 .. Len(Sources') /\ HasRead(0)'
        /\ DOMAIN seen' = {}
    BY <1>4, PutStarts
  <2>2. AskingInv'
    BY <1>4, <2>1 DEF AskingInv
  <2>3. SeenInv'
    BY <2>1 DEF SeenInv
  <2> QED
    BY <2>2, <2>3
<1>5. CASE AskRoots
  <2>1. PICK i \in DOMAIN handles :
          handles[i].kind \in {"retrodeck", "emudeck"} /\ Put("roots", handles[i])
    BY <1>5 DEF AskRoots
  <2>2. handles[i] \in Handles /\ Len(handles) > 0
    BY <1>1
  <2>3. answers' = <<>> /\ probing' = "roots" /\ UNCHANGED handles
    BY <1>1, <1>5 DEF AskRoots, Begin, AnswersInv, Asked
  <2>4. Len(answers') = 0
    BY <2>3
  <2> QED
    BY <1>4, <2>1, <2>2, <2>3, <2>4, "roots" \in Asked DEF Asked
<1>6. CASE AskEveryHealth
  <2>1. Put("health", handles[1]) /\ handles # <<>> /\ probing' = "health" /\ UNCHANGED handles
    BY <1>6 DEF AskEveryHealth, Begin
  <2>2. answers' = <<>>
    BY <1>1, <1>6 DEF AskEveryHealth, AnswersInv, Asked
  <2>3. handles[1] \in Handles /\ Len(handles) > 0
    BY <1>1, <2>1
  <2>4. Len(answers') = 0
    BY <2>2
  <2>5. Len(answers') < Len(handles) /\ handles[1] = handles[Len(answers') + 1]
    BY <1>1, <2>3, <2>4
  <2> QED
    BY <1>4, <2>1, <2>3, <2>5, "health" \in Asked DEF Asked
<1>7. CASE AnswerOne
  <2>1. CASE asking.name = "health" /\ Len(answers) + 2 <= Len(handles)
    <3>1. /\ Put("health", handles[Len(answers) + 2]) /\ UNCHANGED <<probing, handles>>
          /\ probing \in Asked
          /\ answers' = Append(answers, AnswerOf(asking.of))
      BY <1>7, <2>1 DEF AnswerOne, Asked
    <3>2. probing = "health"
      BY <1>1, <2>1, <3>1 DEF AskingInv
    <3>3. Len(answers') = Len(answers) + 1
      BY <1>1, <3>1 DEF AnswersInv
    <3>4. handles[Len(answers) + 2] \in Handles
      BY <1>1, <2>1
    <3>5. Len(handles) > 0 /\ Len(answers') < Len(handles)
          /\ handles[Len(answers) + 2] = handles[Len(answers') + 1]
      BY <1>1, <2>1, <3>3
    <3> QED
      BY <1>4, <3>1, <3>2, <3>4, <3>5, "health" \in Asked DEF Asked
  <2>2. CASE ~(asking.name = "health" /\ Len(answers) + 2 <= Len(handles))
    BY <1>2, <1>7, <2>2 DEF AnswerOne, Asked
  <2> QED
    BY <2>1, <2>2
<1>8. CASE Read
  <2> DEFINE h == asking.of
             source == Head(todo)
  <2>1. /\ probing \in Asked /\ h \in Handles /\ Sources \in Seq(Names)
        /\ MarkerOf(h) \notin Parts
        /\ MarkerOf(h) = "marker" <=> h.kind = "retrodeck"
    BY <1>8, ReadsInOrder
  <2>2. PICK n \in 0 .. Len(Sources) - 1 :
          /\ HasRead(n) /\ source = Sources[n + 1]
          /\ Tail(todo) = SubSeq(Sources, n + 2, Len(Sources))
          /\ n = 0 <=> source = MarkerOf(h)
          /\ n > 0 => source # "marker" /\ MarkerOf(h) \in DOMAIN seen
    BY <1>8, ReadsInOrder
  <2>3. /\ DOMAIN seen' = DOMAIN seen \union {source}
        /\ \A s \in DOMAIN seen : s # source => seen'[s] = seen[s]
        /\ source \in Parts => seen'[source] = (RootsOf(h, seen[MarkerOf(h)])[source] \in disk.folders)
        /\ source \notin Parts => seen'[source] = disk[source]
        /\ todo' = IF source = "marker" /\ NotSetUp(h, disk.marker) THEN <<>> ELSE Tail(todo)
        /\ UNCHANGED <<disk, moves, probing, emudeck, handles, stood, shown, asking, answers>>
    BY <1>8, <2>1, ReadNotes
  <2>4. Sources' = Sources /\ Len(Sources) \in Nat
    BY <2>1, <2>3 DEF Sources
  <2> HIDE DEF source
  <2>5. n = 0 => DOMAIN seen = {} /\ seen'[MarkerOf(h)] = disk[MarkerOf(h)]
    BY <2>1, <2>2, <2>3 DEF HasRead
  <2>6. n > 0 => MarkerOf(h) \in DOMAIN seen /\ seen'[MarkerOf(h)] = seen[MarkerOf(h)]
    BY <2>2, <2>3
  <2>7. StoppedShort' \/ \E k \in 0 .. Len(Sources') : HasRead(k)'
    <3>1. CASE source = "marker" /\ NotSetUp(h, disk.marker)
      <4>1. n = 0 /\ h.kind = "retrodeck" /\ MarkerOf(h) = "marker"
        BY <2>1, <2>2, <3>1
      <4>2. DOMAIN seen' = {"marker"} /\ seen'["marker"] = disk.marker /\ todo' = <<>>
        BY <2>3, <2>5, <3>1, <4>1
      <4>3. StoppedShort'
        BY <2>3, <3>1, <4>1, <4>2 DEF StoppedShort
      <4> QED
        BY <4>3
    <3>2. CASE ~(source = "marker" /\ NotSetUp(h, disk.marker))
      <4>1. todo' = SubSeq(Sources, n + 2, Len(Sources))
        BY <2>2, <2>3, <3>2
      <4>2. DOMAIN seen' = {Sources[i] : i \in 1 .. n + 1}
        <5>1. 1 .. n + 1 = (1 .. n) \union {n + 1}
          BY <2>2
        <5> QED
          BY <2>2, <2>3, <5>1 DEF HasRead
      <4>3. h.kind = "retrodeck" => ~NotSetUp(h, seen'["marker"])
        BY <2>1, <2>2, <2>5, <2>6, <3>2 DEF HasRead
      <4>4. n + 1 \in 0 .. Len(Sources) /\ n + 1 + 1 = n + 2
        BY <2>1, <2>2, <2>4
      <4>5. HasRead(n + 1)'
        BY <2>3, <2>4, <4>1, <4>2, <4>3, <4>4 DEF HasRead
      <4> QED
        BY <2>4, <4>4, <4>5
    <3> QED
      BY <3>1, <3>2
  <2>8. AskingInv'
    BY <1>1, <2>1, <2>3, <2>7 DEF AskingInv
  <2>9. SeenInv'
    <3>1. MarkerOf(h) \in DOMAIN seen' /\ h = asking'.of
      BY <2>2, <2>3, <2>6
    <3>2. IF NotThere(h, seen'[MarkerOf(h)]) THEN ~Stood(MarkerOf(h))' ELSE MarkerOf(h) \in shown'.evidence
      <4>1. CASE n = 0
        <5>1. MarkerOf(h) \in Standing(disk).evidence <=> ~NotThere(h, seen'[MarkerOf(h)])
          BY <2>1, <2>5, <4>1, MarkerStands
        <5>2. /\ stood.evidence \subseteq Standing(disk).evidence
              /\ Standing(disk).evidence \subseteq shown.evidence
          BY <1>1, <2>1 DEF StandingInv
        <5> QED
          BY <2>3, <5>1, <5>2 DEF Stood
      <4>2. CASE n > 0
        <5>1. IF NotThere(h, seen[MarkerOf(h)]) THEN ~Stood(MarkerOf(h)) ELSE MarkerOf(h) \in shown.evidence
          BY <1>1, <2>1, <2>6, <4>2 DEF SeenInv
        <5> QED
          BY <2>3, <2>6, <4>2, <5>1 DEF Stood
      <4> QED
        BY <2>2, <4>1, <4>2
    <3>3. ASSUME NEW p \in Parts, p \in DOMAIN seen'
          PROVE  IF seen'[p] THEN RootsOf(h, seen'[MarkerOf(h)])[p] \in shown'.folders
                 ELSE RootsOf(h, seen'[MarkerOf(h)])[p] \notin stood'.folders
      <4>1. n > 0
        BY <2>1, <2>2, <2>3, <2>5, <3>3
      <4>2. CASE p = source
        <5>1. seen'[p] = (RootsOf(h, seen[MarkerOf(h)])[p] \in disk.folders)
          BY <2>3, <3>3, <4>2
        <5>2. /\ stood.folders \subseteq disk.folders
              /\ disk.folders \subseteq shown.folders
          BY <1>1, <2>1, EvidenceStands DEF StandingInv
        <5> QED
          BY <2>3, <2>6, <4>1, <5>1, <5>2
      <4>3. CASE p # source
        <5>1. p \in DOMAIN seen /\ seen'[p] = seen[p]
          BY <2>3, <3>3, <4>3
        <5> QED
          BY <1>1, <2>1, <2>3, <2>6, <3>3, <4>1, <5>1 DEF SeenInv
      <4> QED
        BY <4>2, <4>3
    <3> QED
      BY <3>1, <3>2, <3>3 DEF SeenInv
  <2> QED
    BY <2>8, <2>9
<1>9. CASE UNCHANGED installVars
  <2>1. UNCHANGED <<probing, handles, asking, todo, seen, answers, stood, shown>>
    BY <1>9 DEF installVars
  <2>2. AskingInv'
    BY <1>1, <2>1 DEF AskingInv, Sources, HasRead, StoppedShort
  <2>3. SeenInv'
    BY <1>1, <2>1 DEF SeenInv, Stood
  <2> QED
    BY <2>2, <2>3
<1>10. CASE \/ TurnTo \/ ProbeMarker \/ ProbeDeploy \/ ProbeSettings \/ ProbeFlatpakCfg \/ ProbeNativeCfg
            \/ TakeAnswers \/ TurnAway
  <2>1. probing' \notin Asked
    BY <1>10 DEF TurnTo, ProbeMarker, ProbeDeploy, ProbeSettings, ProbeFlatpakCfg, ProbeNativeCfg,
       TakeAnswers, TurnAway, Begin, Idle, Asked
  <2> QED
    BY <1>2, <2>1
<1> QED
  BY <1>3, <1>5, <1>6, <1>7, <1>8, <1>9, <1>10 DEF InstallNext

(* An answer stays right while the machine moves on: what stood all along   *)
(* only shrinks, what was there at some moment only grows.                  *)
LEMMA AnswersKept ==
  ASSUME NEW a, IsOfTheStatedRoots(a),
         stood'.evidence \subseteq stood.evidence, stood'.folders \subseteq stood.folders,
         shown.evidence \subseteq shown'.evidence, shown.folders \subseteq shown'.folders
  PROVE  IsOfTheStatedRoots(a)'
BY DEF IsOfTheStatedRoots

(* The marker a question read decides whether its findings call it gone. *)
LEMMA GoneByTheMarker ==
  ASSUME NEW h \in Handles
  PROVE  /\ {"not-set-up", "marker-missing"} \intersect Issues(h) # {} <=>
              NotThere(h, seen[MarkerOf(h)])
         /\ "not-set-up" \in Issues(h) <=>
              h.kind = "retrodeck" /\ NotSetUp(h, seen[MarkerOf(h)])
<1> DEFINE marker == seen[MarkerOf(h)]
<1>1. h.kind \in Kinds
  BY DEF Handles
<1>2. CASE h.kind = "retrodeck"
  <2>1. Issues(h) = MarkerFindings(h, marker)
    BY <1>2 DEF Issues
  <2> HIDE DEF marker
  <2> QED
    BY <1>2, <2>1 DEF MarkerFindings, NotSetUp, NotThere, marker
<1>3. CASE h.kind = "emudeck"
  <2> DEFINE others == {c \in {"companion-config-missing"} : seen["flatpakCfg"] # "ok"}
                         \union {c \in {"frontend-marker-mismatch"} :
                                   asking.name = "roots" /\ Mismatch(marker, seen["esde"])}
  <2>1. Issues(h) = MarkerFindings(h, marker) \union others
    BY <1>3 DEF Issues
  <2>2. "not-set-up" \notin others /\ "marker-missing" \notin others
    OBVIOUS
  <2> HIDE DEF others
  <2>3. "not-set-up" \notin MarkerFindings(h, marker)
    BY <1>3 DEF MarkerFindings
  <2>4. "marker-missing" \in MarkerFindings(h, marker) <=> marker.status = "missing"
    BY <1>3 DEF MarkerFindings
  <2> QED
    BY <1>3, <2>1, <2>2, <2>3, <2>4 DEF NotThere
<1>4. CASE h.kind \in {"bare_retroarch_flatpak", "bare_retroarch_native"}
  <2>1. Issues(h) = CfgFindings(marker)
    BY <1>4 DEF Issues
  <2> HIDE DEF marker
  <2> QED
    BY <1>4, <2>1 DEF CfgFindings, NotThere, marker
<1> QED
  BY <1>1, <1>2, <1>3, <1>4 DEF Kinds

(* So a question that has read its list answers by what it saw. *)
LEMMA AnswerIsOfTheStatedRoots ==
  ASSUME InstallInv, probing \in Asked, todo = <<>>
  PROVE  IsOfTheStatedRoots(AnswerOf(asking.of))
<1> DEFINE h == asking.of
           a == AnswerOf(h)
           stated == RootsOf(h, seen[MarkerOf(h)])
<1>1. /\ h \in Handles /\ AskingInv /\ SeenInv /\ asking.name = probing
      /\ probing = "roots" => h.kind \in {"retrodeck", "emudeck"}
  BY DEF InstallInv, AskingInv
<1>2. /\ a.of = h /\ a.issues = Issues(h) /\ a.missing = FoldersMissing(h)
      /\ a.roots # None => a.roots = Stated(h) /\ asking.name = "roots"
  BY DEF AnswerOf
<1>3. \A p \in Parts : a.roots # None => a.roots[p] = stated[p]
  <2> HIDE DEF a, stated, h
  <2>1. /\ Stated(h).root = stated.root /\ Stated(h).saves = stated.saves
        /\ Stated(h).bios = stated.bios
    BY DEF Stated, stated
  <2>2. /\ Stated(h)["root"] = stated["root"] /\ Stated(h)["saves"] = stated["saves"]
        /\ Stated(h)["bios"] = stated["bios"]
    BY <2>1
  <2> QED
    BY <1>2, <2>2 DEF Parts
<1> HIDE DEF a
<1>4. \A m : m \in a.missing <=> \E p \in Parts \intersect DOMAIN seen :
                                 ~seen[p] /\ m = [part |-> p, folder |-> stated[p]]
  BY <1>2 DEF FoldersMissing
<1>5. MarkerOf(h) \in DOMAIN seen
      /\ \/ StoppedShort
         \/ /\ h.kind = "retrodeck" => ~NotSetUp(h, seen["marker"])
            /\ a.roots # None => Parts \subseteq DOMAIN seen
  <2>1. CASE StoppedShort
    <3>1. h.kind = "retrodeck" /\ DOMAIN seen = {"marker"}
      BY <2>1 DEF StoppedShort
    <3>2. MarkerOf(h) = "marker"
      BY <3>1 DEF MarkerOf
    <3> QED
      BY <2>1, <3>1, <3>2
  <2>2. CASE \E n \in 0 .. Len(Sources) : HasRead(n)
    <3>1. PICK n \in 0 .. Len(Sources) : HasRead(n)
      BY <2>2
    <3>2. CASE h.kind \in {"retrodeck", "emudeck"}
      <4>1. Sources \in {Health(h), Roots(h)}
        BY DEF Sources
      <4>2. /\ Sources \in Seq(Names) /\ Len(Sources) > 0 /\ Sources[1] = MarkerOf(h)
            /\ Sources = Roots(h) => \A p \in Parts : \E i \in 1 .. Len(Sources) : Sources[i] = p
        BY <1>1, <3>2, <4>1, MarkerComesFirst
      <4>3. n = Len(Sources)
        BY <3>1, <4>2, RestOfAList DEF HasRead
      <4>4. MarkerOf(h) \in DOMAIN seen /\ (h.kind = "retrodeck" => ~NotSetUp(h, seen["marker"]))
        BY <3>1, <4>2, <4>3 DEF HasRead
      <4>5. a.roots # None => Sources = Roots(h)
        BY <1>2 DEF Sources
      <4>6. a.roots # None => Parts \subseteq DOMAIN seen
        BY <3>1, <4>2, <4>3, <4>5 DEF HasRead
      <4> QED
        BY <4>4, <4>6
    <3>3. CASE h.kind \notin {"retrodeck", "emudeck"}
      <4>1. Sources = Health(h) /\ asking.name = "health"
        BY <1>1, <3>3 DEF Sources, Asked
      <4>2. Sources = <<MarkerOf(h)>>
        BY <3>3, <4>1 DEF Health
      <4>3. Len(Sources) = 1 /\ Sources[1] = MarkerOf(h) /\ Sources \in Seq({MarkerOf(h)})
        BY <4>2
      <4>4. n = Len(Sources)
        BY <3>1, <4>3, RestOfAList DEF HasRead
      <4>5. MarkerOf(h) \in DOMAIN seen
        BY <3>1, <4>3, <4>4 DEF HasRead
      <4> QED
        BY <1>2, <3>3, <4>1, <4>5
    <3> QED
      BY <3>2, <3>3
  <2> QED
    BY <1>1, <2>1, <2>2 DEF AskingInv
<1>6. /\ IF NotThere(h, seen[MarkerOf(h)]) THEN ~Stood(MarkerOf(h)) ELSE MarkerOf(h) \in shown.evidence
      /\ \A p \in Parts \intersect DOMAIN seen :
           IF seen[p] THEN stated[p] \in shown.folders ELSE stated[p] \notin stood.folders
  BY <1>1, <1>5 DEF SeenInv
<1>7. /\ {"not-set-up", "marker-missing"} \intersect a.issues # {} <=> NotThere(h, seen[MarkerOf(h)])
      /\ "not-set-up" \in a.issues <=> h.kind = "retrodeck" /\ NotSetUp(h, seen[MarkerOf(h)])
  BY <1>1, <1>2, GoneByTheMarker
<1> HIDE DEF stated
<1>8. \A m \in a.missing : m.folder \notin stood.folders
  BY <1>4, <1>6
<1>9. a.roots # None =>
        {m.part : m \in a.missing} = {p \in Parts : [part |-> p, folder |-> a.roots[p]] \in a.missing}
  <2> DEFINE parts == {m.part : m \in a.missing}
             there == {p \in Parts : [part |-> p, folder |-> a.roots[p]] \in a.missing}
  <2> SUFFICES ASSUME a.roots # None PROVE parts = there
    OBVIOUS
  <2>1. ASSUME NEW m \in a.missing, NEW p, p = m.part
        PROVE  p \in Parts /\ [part |-> p, folder |-> a.roots[p]] \in a.missing
    <3>1. PICK q \in Parts \intersect DOMAIN seen : m = [part |-> q, folder |-> stated[q]]
      BY <1>4, <2>1
    <3>2. q = p
      BY <2>1, <3>1
    <3> QED
      BY <1>3, <2>1, <3>1, <3>2
  <2>2. parts \subseteq there
    BY <2>1
  <2>3. there \subseteq parts
    <3> SUFFICES ASSUME NEW p \in there PROVE p \in parts
      OBVIOUS
    <3>1. [part |-> p, folder |-> a.roots[p]] \in a.missing
      OBVIOUS
    <3>2. [part |-> p, folder |-> a.roots[p]].part = p
      OBVIOUS
    <3> QED
      BY <3>1, <3>2
  <2> QED
    BY <2>2, <2>3
<1>10. ASSUME a.roots # None, "not-set-up" \notin a.issues, NEW p \in Parts, a.roots[p] \notin shown.folders
       PROVE  [part |-> p, folder |-> a.roots[p]] \in a.missing
  <2>1. ~StoppedShort
    <3>1. StoppedShort => h.kind = "retrodeck" /\ NotSetUp(h, seen["marker"]) /\ MarkerOf(h) = "marker"
      BY DEF StoppedShort, MarkerOf
    <3> QED
      BY <1>7, <1>10, <3>1
  <2>2. p \in DOMAIN seen
    BY <1>5, <1>10, <2>1
  <2>3. a.roots[p] = stated[p]
    BY <1>3, <1>10
  <2>4. ~seen[p]
    BY <1>6, <1>10, <2>2, <2>3
  <2> QED
    BY <1>4, <2>2, <2>3, <2>4
<1>11. ASSUME "not-set-up" \in a.issues
       PROVE  a.of.byDeploy /\ a.missing = {} /\ (a.roots # None => a.roots.roms = None)
  <2>1. h.kind = "retrodeck" /\ NotSetUp(h, seen["marker"])
    BY <1>7, <1>11 DEF MarkerOf
  <2>2. DOMAIN seen = {"marker"}
    BY <1>5, <2>1 DEF StoppedShort
  <2>3. a.missing = {}
    BY <1>4, <2>2 DEF Parts
  <2>4. a.roots # None => a.roots.roms = None
    BY <1>2, <2>2 DEF Stated
  <2> QED
    BY <1>2, <2>1, <2>3, <2>4 DEF NotSetUp
<1>12. /\ MarkerOf(a.of) \in stood.evidence => {"not-set-up", "marker-missing"} \intersect a.issues = {}
       /\ MarkerOf(a.of) \notin shown.evidence => {"not-set-up", "marker-missing"} \intersect a.issues # {}
  BY <1>2, <1>6, <1>7 DEF Stood
<1> QED
  BY <1>8, <1>9, <1>10, <1>11, <1>12 DEF IsOfTheStatedRoots, a

(* Every answer given to the question under way is right. *)
LEMMA AnswersStep ==
  ASSUME InstallInv, [InstallNext]_installVars
  PROVE  AnswersInv'
<1>1. /\ handles \in Seq(Handles) /\ Len(handles) \in Nat /\ FoundSoFar
      /\ AskingInv /\ StandingInv /\ AnswersInv
  BY DEF InstallInv, HandlesInv
<1>2. PICK S : answers \in Seq(S)
  BY <1>1 DEF AnswersInv
<1>3. ASSUME answers' = <<>> PROVE AnswersInv'
  <2>1. Len(answers') = 0 /\ answers' \in Seq({}) /\ DOMAIN answers' = {}
    BY <1>3
  <2>2. Len(handles') >= 0 => AnswersInv'
    BY <1>3, <2>1 DEF AnswersInv, FindingsAreOfTheStatedRoots
  <2>3. HandlesInv'
    BY HandlesStep DEF InstallInv
  <2>4. Len(handles') \in Nat
    BY <2>3 DEF HandlesInv
  <2> QED
    BY <2>2, <2>4
<1>4. CASE Move
  <2>1. UNCHANGED <<probing, handles, answers>>
    BY <1>4 DEF Move
  <2>2. /\ stood'.evidence \subseteq stood.evidence /\ stood'.folders \subseteq stood.folders
        /\ shown.evidence \subseteq shown'.evidence /\ shown.folders \subseteq shown'.folders
    BY <1>1, <1>4 DEF Move, StandingInv
  <2>3. FindingsAreOfTheStatedRoots'
    BY <1>1, <2>1, <2>2, AnswersKept DEF AnswersInv, FindingsAreOfTheStatedRoots
  <2> QED
    BY <1>1, <2>1, <2>3 DEF AnswersInv
<1>5. CASE Read \/ UNCHANGED installVars
  <2>1. UNCHANGED <<probing, handles, answers, stood, shown>>
    BY <1>5 DEF Read, installVars
  <2> QED
    BY <1>1, <2>1 DEF AnswersInv, FindingsAreOfTheStatedRoots, IsOfTheStatedRoots
<1>6. CASE \/ TurnTo \/ AskRoots \/ AskEveryHealth \/ TakeAnswers \/ TurnAway
           \/ ProbeMarker \/ ProbeDeploy \/ ProbeSettings \/ ProbeFlatpakCfg \/ ProbeNativeCfg
  <2>1. answers' = <<>>
    BY <1>1, <1>6 DEF TurnTo, AskRoots, AskEveryHealth, TakeAnswers, TurnAway, ProbeMarker, ProbeDeploy,
       ProbeSettings, ProbeFlatpakCfg, ProbeNativeCfg, Unmoved, AnswersInv, Asked
  <2> QED
    BY <1>3, <2>1
<1>7. CASE AnswerOne
  <2> DEFINE a == AnswerOf(asking.of)
  <2>1. /\ probing \in Asked /\ todo = <<>>
        /\ answers' = Append(answers, a)
        /\ probing' \in Asked \union {"answered"}
        /\ UNCHANGED <<handles, stood, shown>>
    BY <1>7 DEF AnswerOne, Asked
  <2>2. IsOfTheStatedRoots(a)
    BY <2>1, AnswerIsOfTheStatedRoots
  <2> HIDE DEF a
  <2>3. answers \in Seq(S \union {a})
    BY <1>2
  <2>4. /\ answers' \in Seq(S \union {a})
        /\ DOMAIN answers' = DOMAIN answers \union {Len(answers) + 1}
        /\ \A i \in DOMAIN answers : answers'[i] = answers[i]
        /\ answers'[Len(answers) + 1] = a
        /\ Len(answers') = Len(answers) + 1 /\ Len(answers) \in Nat
    BY <2>1, <2>3
  <2>5. \A i \in DOMAIN answers' : IsOfTheStatedRoots(answers'[i])
    BY <1>1, <2>2, <2>4 DEF AnswersInv, FindingsAreOfTheStatedRoots
  <2>6. FindingsAreOfTheStatedRoots'
    BY <2>1, <2>5 DEF FindingsAreOfTheStatedRoots, IsOfTheStatedRoots
  <2>7. Len(answers) < Len(handles)
    BY <1>1, <2>1, <2>4 DEF AskingInv, Asked
  <2> QED
    BY <1>1, <2>1, <2>4, <2>6, <2>7 DEF AnswersInv
<1> QED
  BY <1>4, <1>5, <1>6, <1>7 DEF InstallNext

(* Every reachable state satisfies the invariant. *)
LEMMA InstallAlways == InstallSpec => []InstallInv
<1>1. InstallInit => InstallInv
  <2> SUFFICES ASSUME InstallInit PROVE InstallInv
    OBVIOUS
  <2>1. HandlesInv
    BY DEF InstallInit, HandlesInv, FoundSoFar, NoRetroArchTwice
  <2>2. StandingInv /\ FoundInv
    BY DEF InstallInit, StandingInv, FoundInv, Past, Nothing, Probes, Asked, Decks
  <2>3. Len(handles) = 0 /\ Len(answers) = 0 /\ DOMAIN answers = {} /\ answers \in Seq({})
    BY DEF InstallInit
  <2>4. CountInv /\ AskingInv /\ SeenInv /\ AnswersInv
    BY <2>3 DEF InstallInit, CountInv, AskingInv, SeenInv, AnswersInv, Asked, FindingsAreOfTheStatedRoots
  <2>5. moves \in 0 .. MaxMoves
    BY MovesAssumption DEF InstallInit
  <2>6. emudeck \in BOOLEAN
    BY DEF InstallInit
  <2> QED
    BY <2>1, <2>2, <2>4, <2>5, <2>6 DEF InstallInv
<1>2. InstallInv /\ [InstallNext]_installVars => InstallInv'
  <2> SUFFICES ASSUME InstallInv, [InstallNext]_installVars PROVE InstallInv'
    OBVIOUS
  <2>1. moves \in 0 .. MaxMoves /\ emudeck \in BOOLEAN
    BY DEF InstallInv
  <2>2. \/ moves' = moves
        \/ moves' = 0
        \/ moves < MaxMoves /\ moves' = moves + 1
    <3>1. Move => moves < MaxMoves /\ moves' = moves + 1
      BY DEF Move
    <3>2. TurnTo \/ AskRoots \/ AskEveryHealth \/ TakeAnswers \/ TurnAway => moves' = 0
      BY DEF TurnTo, AskRoots, AskEveryHealth, TakeAnswers, TurnAway, Begin, Idle
    <3>3. ProbeMarker \/ ProbeDeploy \/ ProbeSettings \/ ProbeFlatpakCfg \/ ProbeNativeCfg =>
            moves' = moves
      BY DEF ProbeMarker, ProbeDeploy, ProbeSettings, ProbeFlatpakCfg, ProbeNativeCfg, Unmoved
    <3>4. Read \/ AnswerOne \/ UNCHANGED installVars => moves' = moves
      BY DEF Read, AnswerOne, installVars
    <3> QED
      BY <3>1, <3>2, <3>3, <3>4 DEF InstallNext
  <2>3. moves' \in 0 .. MaxMoves
    BY <2>1, <2>2, MovesAssumption
  <2>4. \/ emudeck' = emudeck \/ emudeck' = FALSE
        \/ emudeck' = (disk.settings.status # "missing")
    BY DEF InstallNext, installVars, Move, TurnTo, ProbeMarker, ProbeDeploy, ProbeSettings,
           ProbeFlatpakCfg, ProbeNativeCfg, AskRoots, AskEveryHealth, Read, AnswerOne, TakeAnswers,
           TurnAway, Unmoved
  <2>5. (disk.settings.status # "missing") \in BOOLEAN
    OBVIOUS
  <2>6. emudeck' \in BOOLEAN
    BY <2>1, <2>4, <2>5
  <2> QED
    BY <2>3, <2>6, HandlesStep, StandingStep, FoundStep, CountStep, AskingStep, AnswersStep DEF InstallInv
<1> QED
  BY <1>1, <1>2, PTL DEF InstallSpec

(* The bookkeeping of a detection and of the questions after it: at most     *)
(* three handles, and no more answers than handles asked.                   *)
THEOREM InstallTypes == InstallSpec => []InstallTypeOK
<1>1. InstallInv => InstallTypeOK
  <2> SUFFICES ASSUME InstallInv PROVE InstallTypeOK
    OBVIOUS
  <2>1. \A i \in DOMAIN handles : handles[i].kind \in Kinds
    <3>1. handles \in Seq(Handles)
      BY DEF InstallInv, HandlesInv
    <3>2. \A i \in DOMAIN handles : handles[i] \in Handles
      BY <3>1
    <3> QED
      BY <3>2 DEF Handles
  <2> QED
    BY <2>1 DEF InstallInv, InstallTypeOK, StandingInv, Probes, Asked, Kinds, CountInv, AnswersInv
<1> QED
  BY <1>1, InstallAlways, PTL

(* However the machine moves between the probes, what stood all through a    *)
(* detection is found, and what is found stood at some moment of it.         *)
THEOREM StandingIsFound == InstallSpec => []WhatStandsIsFound
<1>1. InstallInv => WhatStandsIsFound
  BY DEF InstallInv, StandingInv, FoundInv, WhatStandsIsFound, Probes, Asked, Decks, Past, Has, Stood
<1> QED
  BY <1>1, InstallAlways, PTL

(* However the machine moves between the reads of a question, its findings   *)
(* are of the folders the same answer states.                               *)
THEOREM FindingsOfOneMarker == InstallSpec => []FindingsAreOfTheStatedRoots
<1>1. InstallInv => FindingsAreOfTheStatedRoots
  BY DEF InstallInv, AnswersInv
<1> QED
  BY <1>1, InstallAlways, PTL
-----------------------------------------------------------------------------
(* What a look tells is that a place was in one of a set of states at some   *)
(* time of the question: what has stood, stays so.                           *)
HasStood(st, p, set) == st[p] \intersect set # {}

(* The states that the looks tell apart. *)
Known == {"known", "denied"}
Image == {"known", "unlisted"}
NoBios == {"denied", "other", "short"}
NotOffered == NoBios \union FolderStates \union {"missing"}
NoImage == AllStates \ (Image \union {"locked"})
NoCandidate == AllStates \ (Files \ {"short"})
Amiss(w) == {"missing"} \union IF w.pins = "dump" THEN {"short", "other", "unlisted"} ELSE {}

(* What shows that a want fails, and what shows that it serves: each a state *)
(* that every one of its places has stood in, at times of their own.         *)
NoFolder(st, w) == HasStood(st, w.at, Files \union {"missing"})
NotTaken(st, w) == w.named = None \/ HasStood(st, w.named, NotOffered)

FolderFails(st, w) ==
  /\ NotTaken(st, w)
  /\ \/ NoFolder(st, w)
     \/ /\ HasStood(st, w.at, {"dir"})
        /\ \A p \in ToSet(w.inside) : p # w.named => HasStood(st, p, NoImage)
SearchFails(st, w) ==
  \/ NoFolder(st, w)
  \/ HasStood(st, w.at, {"dir"}) /\ \A p \in ToSet(w.inside) : HasStood(st, p, NoCandidate)

FolderServes(st, w) ==
  /\ NotTaken(st, w)
  /\ HasStood(st, w.at, {"dir"})
  /\ \E p \in ToSet(w.inside) : HasStood(st, p, Image)
PickServes(st, w) ==
  /\ w.named # None
  /\ HasStood(st, w.named, Known)
  /\ ~(st[w.named] \subseteq NoBios)
SearchServes(st, w) ==
  HasStood(st, w.at, {"dir"}) /\ \E p \in ToSet(w.inside) : HasStood(st, p, Known)

(* What a requirement that says no, or yes, rests on. *)
Fails(st, w, r) ==
  \/ w.route = "file" /\ HasStood(st, w.at, Amiss(w))
  \/ w.route = "key" /\ HasStood(st, w.at, {"missing", "short"})
  \/ w.route = "folder" /\ ~r.picked /\ FolderFails(st, w)
  \/ r.picked /\ r.found = "missing"
Serves(st, w, r) ==
  \/ w.route = "file" /\ HasStood(st, w.at, IF w.pins = None THEN Files ELSE Known)
  \/ w.route = "key" /\ (HasStood(st, w.at, Known) \/ (r.found = "file" /\ r.checked = "unknown"))
  \/ w.route = "folder" /\ (IF r.picked THEN PickServes(st, w) ELSE FolderServes(st, w))
  \/ w.route = "search" /\ SearchServes(st, w)

(* A stated requirement is of a want, and says what it has earned. *)
Earned(c, st, r) ==
  /\ r.want \in DOMAIN c.wants
  /\ Satisfied(r) \in Values
  /\ Satisfied(r) = "no" => Fails(st, c.wants[r.want], r)
  /\ Satisfied(r) = "yes" => Serves(st, c.wants[r.want], r)

Demonstrated(c, st, s) ==
  \E i \in DOMAIN c.wants :
    /\ c.wants[i].route = "search" /\ c.wants[i].regions = None /\ c.wants[i].system = s
    /\ SearchFails(st, c.wants[i])

(* What a reading of a file tells of it. *)
ReadTold(st, p, read) ==
  /\ read.digest = "listed" => HasStood(st, p, Known)
  /\ read.header = "bios" => HasStood(st, p, Image)
  /\ read.header = "no bios" => HasStood(st, p, NoBios)
Readings == [digest : {"listed", "unlisted", None}, header : {"bios", "no bios", None}]

ListingLooks == {"sizes", "read", "header", "picked"}
OfferLooks == {"offered", "offered size", "offered header", "still there", "named", "named digest"}

(* Of a listing: a file inside is yet to be sized, kept to be read, or was   *)
(* no candidate; unless the listing stopped short or there was no folder.    *)
Ruled(st, w, p, n, k) ==
  (\E i \in n : w.inside[i] = p) \/ p \in ToSet(k) \/ HasStood(st, p, NoCandidate)

ListingTold(st, w, l, n, k, rs, pt) ==
  /\ n \subseteq DOMAIN w.inside
  /\ k \in Seq(ToSet(w.inside))
  /\ rs \in Seq(Readings)
  /\ Len(rs) <= Len(k)
  /\ \A i \in DOMAIN rs : ReadTold(st, k[i], rs[i])
  /\ pt => n = {} /\ k = <<>>
  /\ (n # {} \/ k # <<>>) => HasStood(st, w.at, {"dir"})
  /\ l # "picked" =>
       \/ pt \/ NoFolder(st, w)
       \/ HasStood(st, w.at, {"dir"}) /\ \A p \in ToSet(w.inside) : Ruled(st, w, p, n, k)
  /\ l = "sizes" => rs = <<>>
  /\ l # "sizes" => n = {} /\ k # <<>>
  /\ l = "header" => rs # <<>> /\ w.route = "folder"
  /\ l = "picked" => w.route = "search" /\ Len(k) = 1 /\ Len(rs) = 1

(* What is behind a look: the route it is of, and what was found before it. *)
LookTold(st, w, l, v) ==
  /\ l = "kind" => w.route # "search"
  /\ l \in {"size", "digest"} => w.route = "file" /\ w.pins # None
  /\ l \in {"gate", "image"} => w.route = "key"
  /\ l \in OfferLooks => w.route = "folder" /\ w.named # None
  /\ l \in {"offered header", "named digest"} => v
  /\ l \in {"still there", "named", "named digest"} /\ v => ~(st[w.named] \subseteq NoBios)
  /\ l \in {"list"} \union ListingLooks => Listed(w) /\ (w.route = "folder" => NotTaken(st, w))

(* The parts of the invariant: the disk and what has stood on it; the want   *)
(* being looked at; what its looks have told; what is stated of those before *)
(* it; and the answer, which is what was stated comes to.                    *)
DiskKept ==
  /\ DOMAIN shelf = WantedPlaces(core)
  /\ DOMAIN stoodAt = WantedPlaces(core)
  /\ \A p \in WantedPlaces(core) :
       shelf[p] \in States[p] /\ stoodAt[p] \subseteq AllStates /\ There(p) \in stoodAt[p]

Answer == [met |-> RequirementsMet, system |-> SystemFirmwareMet]

DiskTold == core \in Cores /\ DiskKept

TurnTold ==
  /\ turn \in 1..(Len(core.wants) + 1)
  /\ (turn <= Len(core.wants)) <=> (look \in LooksOfARoute)

LooksTold ==
  /\ look \in LooksOfARoute => LookTold(stoodAt, Want, look, verify)
  /\ look \in ListingLooks => ListingTold(stoodAt, Want, look, pending, kept, reads, partial)
  /\ look \notin ListingLooks => NoLooks

StatedTold ==
  /\ \A r \in required : r.want < turn /\ Earned(core, stoodAt, r)
  /\ \A q, r \in required : q.want = r.want => q = r
  /\ \A i \in DOMAIN core.wants :
       i < turn /\ core.wants[i].route # "search" => \E r \in required : r.want = i
  /\ \A s \in absent : Demonstrated(core, stoodAt, s)

VerdictTold == verdict = IF look = "answered" THEN Answer ELSE None

AsksTold == DiskTold /\ TurnTold /\ LooksTold /\ StatedTold /\ VerdictTold

FirmwareTold ==
  /\ look \in LooksOfARoute \union {"idle", "weigh", "answered"}
  /\ shifts \in 0..MaxShifts
  /\ verify \in BOOLEAN
  /\ look = "idle" =>
       /\ core = None /\ turn = 1 /\ NoLooks /\ required = {} /\ absent = {} /\ verdict = None
  /\ look # "idle" => AsksTold
-----------------------------------------------------------------------------
Places(w) == {w.at} \union ToSet(w.inside)
Grown(places, st, more) == \A p \in places : st[p] \subseteq more[p]
Named(w) == w.named \in ToSet(w.inside) \union {None}

(* The places of a want are wanted places. *)
LEMMA WantsPlaces ==
  ASSUME NEW c \in Cores, NEW i \in DOMAIN c.wants
  PROVE  Places(c.wants[i]) \subseteq WantedPlaces(c)
BY DEF Places, WantedPlaces

(* What a core wants is typed as assumed. *)
LEMMA WantsTyped ==
  ASSUME NEW c \in Cores, NEW i \in DOMAIN c.wants
  PROVE  /\ Len(c.wants) \in Nat /\ DOMAIN c.wants = 1..Len(c.wants)
         /\ c.wants[i].route \in Routes
         /\ c.wants[i].at \in DOMAIN States
         /\ c.wants[i].pins \in {None, "dump", "archive"}
         /\ c.wants[i].inside \in Seq(DOMAIN States)
         /\ \A p \in ToSet(c.wants[i].inside) : FolderOf[p] = c.wants[i].at
         /\ Named(c.wants[i])
BY CoresAssumption DEF Named

(* What has stood at a place stays so as the record grows. *)
LEMMA StoodStays ==
  ASSUME NEW w, NEW st, NEW more, Grown(Places(w), st, more), Named(w)
  PROVE  /\ \A S : HasStood(st, w.at, S) => HasStood(more, w.at, S)
         /\ \A p \in ToSet(w.inside) : \A S : HasStood(st, p, S) => HasStood(more, p, S)
         /\ w.named # None => \A S : HasStood(st, w.named, S) => HasStood(more, w.named, S)
         /\ w.named # None => \A S : ~(st[w.named] \subseteq S) => ~(more[w.named] \subseteq S)
<1>1. \A q \in Places(w) : st[q] \subseteq more[q]
  BY DEF Grown
<1>2. \A q \in Places(w) : \A S : /\ HasStood(st, q, S) => HasStood(more, q, S)
                                  /\ ~(st[q] \subseteq S) => ~(more[q] \subseteq S)
  BY <1>1 DEF HasStood
<1>3. /\ w.at \in Places(w)
      /\ \A p \in ToSet(w.inside) : p \in Places(w)
      /\ w.named # None => w.named \in Places(w)
  BY DEF Places, Named
<1> QED
  BY <1>2, <1>3

(* What is known of a want's folder stays so. *)
LEMMA FolderFactsStay ==
  ASSUME NEW w, NEW st, NEW more, Grown(Places(w), st, more), Named(w)
  PROVE  /\ NoFolder(st, w) => NoFolder(more, w)
         /\ NotTaken(st, w) => NotTaken(more, w)
         /\ FolderFails(st, w) => FolderFails(more, w)
         /\ SearchFails(st, w) => SearchFails(more, w)
         /\ FolderServes(st, w) => FolderServes(more, w)
         /\ PickServes(st, w) => PickServes(more, w)
         /\ SearchServes(st, w) => SearchServes(more, w)
<1>1. \A S : HasStood(st, w.at, S) => HasStood(more, w.at, S)
  BY StoodStays
<1>2. \A p \in ToSet(w.inside) : \A S : HasStood(st, p, S) => HasStood(more, p, S)
  BY StoodStays
<1>3. w.named # None => \A S : HasStood(st, w.named, S) => HasStood(more, w.named, S)
  BY StoodStays
<1>4. w.named # None => \A S : ~(st[w.named] \subseteq S) => ~(more[w.named] \subseteq S)
  BY StoodStays
<1>5. NoFolder(st, w) => NoFolder(more, w)
  BY <1>1 DEF NoFolder
<1>6. NotTaken(st, w) => NotTaken(more, w)
  BY <1>3, Zenon DEF NotTaken
<1>7. FolderFails(st, w) => FolderFails(more, w)
  BY <1>5, <1>6, <1>1, <1>2, Zenon DEF FolderFails
<1>8. SearchFails(st, w) => SearchFails(more, w)
  BY <1>5, <1>1, <1>2, Zenon DEF SearchFails
<1>9. FolderServes(st, w) => FolderServes(more, w)
  BY <1>6, <1>1, <1>2, Zenon DEF FolderServes
<1>10. PickServes(st, w) => PickServes(more, w)
  BY <1>3, <1>4, Zenon DEF PickServes
<1>11. SearchServes(st, w) => SearchServes(more, w)
  BY <1>1, <1>2, Zenon DEF SearchServes
<1> QED
  BY <1>5, <1>6, <1>7, <1>8, <1>9, <1>10, <1>11

(* So does what a requirement claims of it ... *)
LEMMA ClaimsStay ==
  ASSUME NEW w, NEW st, NEW more, Grown(Places(w), st, more), Named(w), NEW r
  PROVE  /\ Fails(st, w, r) => Fails(more, w, r)
         /\ Serves(st, w, r) => Serves(more, w, r)
<1>1. \A S : HasStood(st, w.at, S) => HasStood(more, w.at, S)
  BY StoodStays
<1>2. Fails(st, w, r) => Fails(more, w, r)
  BY <1>1, FolderFactsStay, Zenon DEF Fails
<1>3. Serves(st, w, r) => Serves(more, w, r)
  BY <1>1, FolderFactsStay DEF Serves
<1> QED
  BY <1>2, <1>3

(* ... what a stated requirement earned ... *)
LEMMA EarnedStays ==
  ASSUME NEW c \in Cores, NEW st, NEW more, Grown(WantedPlaces(c), st, more),
         NEW r, Earned(c, st, r)
  PROVE  Earned(c, more, r)
<1>1. r.want \in DOMAIN c.wants
  BY DEF Earned
<1>2. Grown(Places(c.wants[r.want]), st, more) /\ Named(c.wants[r.want])
  BY <1>1, WantsPlaces, WantsTyped DEF Grown
<1> QED
  BY <1>2, ClaimsStay DEF Earned

(* ... an absence that a search demonstrated ... *)
LEMMA DemonstratedStays ==
  ASSUME NEW c \in Cores, NEW st, NEW more, Grown(WantedPlaces(c), st, more),
         NEW s, Demonstrated(c, st, s)
  PROVE  Demonstrated(c, more, s)
<1>1. \A i \in DOMAIN c.wants : Grown(Places(c.wants[i]), st, more) /\ Named(c.wants[i])
  BY WantsPlaces, WantsTyped DEF Grown
<1>2. \A i \in DOMAIN c.wants : SearchFails(st, c.wants[i]) => SearchFails(more, c.wants[i])
  BY <1>1, FolderFactsStay
<1> QED
  BY <1>2 DEF Demonstrated

(* ... what a look rests on ... *)
LEMMA LookStays ==
  ASSUME NEW w, NEW st, NEW more, Grown(Places(w), st, more), Named(w),
         NEW l, NEW v, LookTold(st, w, l, v)
  PROVE  LookTold(more, w, l, v)
<1>1. l \in {"still there", "named", "named digest"} => w.named # None
  BY DEF LookTold, OfferLooks
<1>2. l \in {"still there", "named", "named digest"} /\ v => ~(more[w.named] \subseteq NoBios)
  BY <1>1, StoodStays DEF LookTold
<1> QED
  BY <1>2, FolderFactsStay DEF LookTold

(* ... and what a listing has come to. *)
LEMMA ListingStays ==
  ASSUME NEW w, NEW st, NEW more, Grown(Places(w), st, more), Named(w),
         NEW l, NEW n, NEW k, NEW rs, NEW pt, ListingTold(st, w, l, n, k, rs, pt)
  PROVE  ListingTold(more, w, l, n, k, rs, pt)
<1>1. \A S : HasStood(st, w.at, S) => HasStood(more, w.at, S)
  BY StoodStays
<1>2. \A p \in ToSet(w.inside) : \A S : HasStood(st, p, S) => HasStood(more, p, S)
  BY StoodStays
<1>3. \A p \in ToSet(w.inside) : Ruled(st, w, p, n, k) => Ruled(more, w, p, n, k)
  BY <1>2, Zenon DEF Ruled
<1>4. \A j \in DOMAIN rs : k[j] \in ToSet(w.inside)
  <2>1. Len(rs) <= Len(k) /\ k \in Seq(ToSet(w.inside)) /\ rs \in Seq(Readings)
    BY DEF ListingTold
  <2> QED
    BY <2>1
<1>5. \A j \in DOMAIN rs : ReadTold(more, k[j], rs[j])
  BY <1>2, <1>4 DEF ListingTold, ReadTold
<1>6. NoFolder(st, w) => NoFolder(more, w)
  BY FolderFactsStay
<1> QED
  BY <1>1, <1>3, <1>5, <1>6 DEF ListingTold
-----------------------------------------------------------------------------
(* A step of the same look at the same want. *)
LEMMA LookGoesOn ==
  ASSUME FirmwareTold, Looking, UNCHANGED <<turn, required, absent>>,
         look \in LooksOfARoute, look' \in LooksOfARoute,
         LookTold(stoodAt, Want, look', verify),
         look' \in ListingLooks =>
           ListingTold(stoodAt, Want, look', pending', kept', reads', partial'),
         look' \notin ListingLooks => NoLooks'
  PROVE  FirmwareTold'
<1>1. look # "idle" /\ look' # "idle" /\ look' # "answered" /\ look # "answered"
  BY DEF LooksOfARoute
<1>2. AsksTold
  BY <1>1 DEF FirmwareTold
<1>3. DiskTold'
  BY <1>2 DEF AsksTold, DiskTold, DiskKept, Looking, There, Stands, WantedPlaces
<1>4. TurnTold'
  BY <1>2 DEF AsksTold, TurnTold, Looking
<1>5. LooksTold'
  BY DEF LooksTold, Looking, Want
<1>6. StatedTold'
  BY <1>2 DEF AsksTold, StatedTold, Looking
<1>7. VerdictTold'
  BY <1>1, <1>2 DEF AsksTold, VerdictTold, Looking
<1> QED
  BY <1>1, <1>3, <1>4, <1>5, <1>6, <1>7 DEF FirmwareTold, AsksTold, Looking

(* A step that is done with a want. *)
LEMMA LookPasses ==
  ASSUME FirmwareTold, Looking, Pass, look \in LooksOfARoute,
         required \subseteq required',
         \A r \in required' \ required : r.want = turn /\ Earned(core, stoodAt, r),
         \A q, r \in required' \ required : q = r,
         Want.route = "search" \/ \E r \in required' : r.want = turn,
         \A s \in absent' \ absent : Demonstrated(core, stoodAt, s)
  PROVE  FirmwareTold'
<1>1. look # "idle" /\ look # "answered"
  BY DEF LooksOfARoute
<1>2. AsksTold
  BY <1>1 DEF FirmwareTold
<1>3. DiskTold'
  BY <1>2 DEF AsksTold, DiskTold, DiskKept, Looking, There, Stands, WantedPlaces
<1>4. /\ core \in Cores /\ core' = core /\ stoodAt' = stoodAt /\ verify' = verify
      /\ Len(core.wants) \in Nat /\ DOMAIN core.wants = 1..Len(core.wants)
      /\ turn \in 1..Len(core.wants)
      /\ turn' = turn + 1
  BY <1>2, CoresAssumption DEF AsksTold, DiskTold, TurnTold, Looking, Pass
<1>5. look' = FirstLook(core, turn')
  BY <1>4 DEF Pass
<1>6. /\ turn' > Len(core.wants) => look' = "weigh"
      /\ turn' <= Len(core.wants) =>
           /\ core.wants[turn'].route = "search" => look' = "list"
           /\ core.wants[turn'].route # "search" => look' = "kind"
  BY <1>4, <1>5 DEF FirstLook
<1>7. look' \in {"weigh", "list", "kind"}
  BY <1>4, <1>6
<1>8. TurnTold'
  <2>1. turn' \in 1..(Len(core.wants) + 1)
    BY <1>4
  <2>2. turn' <= Len(core.wants) \/ turn' > Len(core.wants)
    BY <1>4
  <2>3. CASE turn' <= Len(core.wants)
    BY <2>1, <2>3, <1>4, <1>6 DEF TurnTold, LooksOfARoute
  <2>4. CASE turn' > Len(core.wants)
    <3>1. look' = "weigh" /\ ~(turn' <= Len(core.wants))
      BY <2>4, <1>4, <1>6
    <3> QED
      BY <3>1, <2>1, <1>4 DEF TurnTold, LooksOfARoute
  <2> QED
    BY <2>2, <2>3, <2>4
<1>9. NoLooks'
  BY DEF Pass, NoLooks
<1>10. LooksTold'
  <2>1. look' \notin ListingLooks
    BY <1>7 DEF ListingLooks
  <2>2. ASSUME look' \in LooksOfARoute
        PROVE  LookTold(stoodAt, core.wants[turn'], look', verify)
    <3>1. turn' <= Len(core.wants)
      BY <1>4, <2>2, <1>8 DEF TurnTold
    <3> QED
      BY <3>1, <1>6 DEF LookTold, OfferLooks, ListingLooks, Listed
  <2> QED
    BY <1>4, <1>9, <2>1, <2>2 DEF LooksTold, Want
<1>11. StatedTold'
  <2>1. StatedTold
    BY <1>2 DEF AsksTold
  <2>2. \A r \in required : r.want < turn /\ Earned(core, stoodAt, r)
    BY <2>1 DEF StatedTold
  <2>3. \A r \in required' : r.want < turn' /\ Earned(core', stoodAt', r)
    <3> SUFFICES ASSUME NEW r \in required' PROVE r.want < turn' /\ Earned(core, stoodAt, r)
      BY <1>4
    <3>1. CASE r \in required
      <4>1. r.want \in DOMAIN core.wants
        BY <3>1, <2>2 DEF Earned
      <4> QED
        BY <3>1, <4>1, <2>2, <1>4
    <3>2. CASE r \notin required
      BY <3>2, <1>4
    <3> QED BY <3>1, <3>2
  <2>4. \A q, r \in required' : q.want = r.want => q = r
    <3> SUFFICES ASSUME NEW q \in required', NEW r \in required', q.want = r.want PROVE q = r
      OBVIOUS
    <3>1. \A x \in required : x.want # turn
      <4> SUFFICES ASSUME NEW x \in required PROVE x.want # turn
        OBVIOUS
      <4>1. x.want < turn /\ x.want \in DOMAIN core.wants
        BY <2>2 DEF Earned
      <4> QED BY <4>1, <1>4
    <3>2. CASE q \in required /\ r \in required
      BY <3>2, <2>1 DEF StatedTold
    <3>3. CASE q \notin required /\ r \notin required
      BY <3>3
    <3>4. CASE q \in required /\ r \notin required
      BY <3>1, <3>4
    <3>5. CASE q \notin required /\ r \in required
      BY <3>1, <3>5
    <3> QED BY <3>2, <3>3, <3>4, <3>5
  <2>5. \A i \in DOMAIN core'.wants :
          i < turn' /\ core'.wants[i].route # "search" => \E r \in required' : r.want = i
    <3> SUFFICES ASSUME NEW i \in DOMAIN core.wants, i < turn', core.wants[i].route # "search"
                 PROVE  \E r \in required' : r.want = i
      BY <1>4
    <3>1. CASE i = turn
      BY <3>1 DEF Want
    <3>2. CASE i # turn
      <4>1. i < turn
        BY <3>2, <1>4
      <4>2. PICK r \in required : r.want = i
        BY <4>1, <2>1 DEF StatedTold
      <4> QED BY <4>2
    <3> QED BY <3>1, <3>2
  <2>6. \A s \in absent' : Demonstrated(core', stoodAt', s)
    BY <1>4, <2>1 DEF StatedTold
  <2> QED
    BY <2>3, <2>4, <2>5, <2>6 DEF StatedTold
<1>12. VerdictTold'
  BY <1>1, <1>2, <1>7 DEF AsksTold, VerdictTold, Looking
<1> QED
  BY <1>3, <1>7, <1>8, <1>10, <1>11, <1>12 DEF FirmwareTold, AsksTold, Looking, LooksOfARoute

(* A step that states a requirement. *)
LEMMA StatesOne ==
  ASSUME FirmwareTold, Looking, look \in LooksOfARoute, NEW r, State(r), r.want = turn,
         Earned(core, stoodAt, r)
  PROVE  FirmwareTold'
<1>1. Pass /\ required' = required \union {r} /\ absent' = absent
  BY DEF State
<1> QED
  BY <1>1, LookPasses
-----------------------------------------------------------------------------
(* While a want is looked at, it is one of the core's, and its places are on   *)
(* the disk, each with the state it is in among those it has stood in.        *)
LEMMA AtAWant ==
  ASSUME FirmwareTold, look \in LooksOfARoute
  PROVE  /\ core \in Cores
         /\ turn \in DOMAIN core.wants
         /\ Want = core.wants[turn]
         /\ Want.route \in Routes
         /\ Want.pins \in {None, "dump", "archive"}
         /\ Want.inside \in Seq(DOMAIN States)
         /\ Named(Want)
         /\ LookTold(stoodAt, Want, look, verify)
         /\ look \in ListingLooks =>
              ListingTold(stoodAt, Want, look, pending, kept, reads, partial)
         /\ look \notin ListingLooks => NoLooks
         /\ \A p \in Places(Want) : There(p) \in stoodAt[p] /\ There(p) \in AllStates
<1>1. AsksTold
  BY DEF FirmwareTold, LooksOfARoute
<1>2. core \in Cores /\ turn \in DOMAIN core.wants
  BY <1>1, CoresAssumption DEF AsksTold, DiskTold, TurnTold
<1>3. \A p \in WantedPlaces(core) : There(p) \in stoodAt[p] /\ There(p) \in AllStates
  BY <1>1 DEF AsksTold, DiskTold, DiskKept
<1>4. Places(Want) \subseteq WantedPlaces(core)
  BY <1>2, WantsPlaces DEF Want
<1>5. LooksTold
  BY <1>1 DEF AsksTold
<1> QED
  BY <1>2, <1>3, <1>4, <1>5, WantsTyped DEF LooksTold, Want

(* What stands at a place of the want has stood there. *)
LEMMA ThereStands ==
  ASSUME FirmwareTold, look \in LooksOfARoute
  PROVE  /\ \A S : There(Want.at) \in S => HasStood(stoodAt, Want.at, S)
         /\ \A p \in ToSet(Want.inside) : \A S : There(p) \in S => HasStood(stoodAt, p, S)
         /\ Want.named # None => \A S : There(Want.named) \in S => HasStood(stoodAt, Want.named, S)
         /\ There(Want.at) \in AllStates
         /\ Want.named # None => There(Want.named) \in stoodAt[Want.named] /\ There(Want.named) \in AllStates
<1>1. \A p \in Places(Want) : There(p) \in stoodAt[p] /\ There(p) \in AllStates
  BY AtAWant
<1>2. \A p \in Places(Want) : \A S : There(p) \in S => HasStood(stoodAt, p, S)
  BY <1>1 DEF HasStood
<1>3. /\ Want.at \in Places(Want)
      /\ \A p \in ToSet(Want.inside) : p \in Places(Want)
      /\ Want.named # None => Want.named \in Places(Want)
  BY AtAWant DEF Places, Named
<1> QED
  BY <1>1, <1>2, <1>3

(* The steps that conclude, each by what it has to have earned. *)
LEMMA Concludes ==
  ASSUME FirmwareTold, Looking, look \in LooksOfARoute, NEW found, NEW checked,
         Conclude(found, checked),
         LET r == Looked(found, checked)
         IN  /\ Satisfied(r) = "no" => Fails(stoodAt, Want, r)
             /\ Satisfied(r) = "yes" => Serves(stoodAt, Want, r)
  PROVE  FirmwareTold'
<1> DEFINE r == Looked(found, checked)
<1>1. r.want = turn /\ r.contents = "open"
  BY DEF Looked
<1>2. Satisfied(r) \in Values
  BY <1>1 DEF Satisfied, Values
<1>3. Earned(core, stoodAt, r)
  BY <1>1, <1>2, AtAWant DEF Earned
<1> QED
  BY <1>1, <1>3, StatesOne DEF Conclude

(* So for a listed folder ... *)
LEMMA ConcludesFolder ==
  ASSUME FirmwareTold, Looking, look \in LooksOfARoute, NEW found, NEW contents \in Values,
         ConcludeFolder(found, contents),
         LET r == [Looked(found, "unknown") EXCEPT !.lists = TRUE, !.contents = contents]
         IN  /\ Satisfied(r) = "no" => Fails(stoodAt, Want, r)
             /\ Satisfied(r) = "yes" => Serves(stoodAt, Want, r)
  PROVE  FirmwareTold'
<1> DEFINE r == [Looked(found, "unknown") EXCEPT !.lists = TRUE, !.contents = contents]
<1>1. r.want = turn /\ r.contents \in Values
  BY DEF Looked
<1>2. Satisfied(r) \in Values
  BY <1>1 DEF Satisfied, Values
<1>3. Earned(core, stoodAt, r)
  BY <1>1, <1>2, AtAWant DEF Earned
<1> QED
  BY <1>1, <1>3, StatesOne DEF ConcludeFolder

(* ... and for a picked file. *)
LEMMA ConcludesPick ==
  ASSUME FirmwareTold, Looking, look \in LooksOfARoute, NEW found, NEW checked,
         ConcludePick(found, checked),
         LET r == [Looked(found, checked) EXCEPT !.picked = TRUE]
         IN  /\ Satisfied(r) = "no" => Fails(stoodAt, Want, r)
             /\ Satisfied(r) = "yes" => Serves(stoodAt, Want, r)
  PROVE  FirmwareTold'
<1> DEFINE r == [Looked(found, checked) EXCEPT !.picked = TRUE]
<1>1. r.want = turn /\ r.contents = "open"
  BY DEF Looked
<1>2. Satisfied(r) \in Values
  BY <1>1 DEF Satisfied, Values
<1>3. Earned(core, stoodAt, r)
  BY <1>1, <1>2, AtAWant DEF Earned
<1> QED
  BY <1>1, <1>3, StatesOne DEF ConcludePick

(* A step within the looks before a listing. *)
LEMMA GoesOn ==
  ASSUME FirmwareTold, Looking, look \in LooksOfARoute \ ListingLooks, NEW next, GoOn(next),
         next \in LooksOfARoute \ ListingLooks, LookTold(stoodAt, Want, next, verify)
  PROVE  FirmwareTold'
<1>1. NoLooks
  BY AtAWant
<1>2. NoLooks' /\ look' = next /\ UNCHANGED <<turn, required, absent>>
  BY <1>1 DEF NoLooks, GoOn
<1> QED
  BY <1>2, LookGoesOn
-----------------------------------------------------------------------------
(* What stands at the place: a folder that is none fails, and takes what is  *)
(* named in it along; a file nobody has to read serves.                      *)
LEMMA ObserveKindStep ==
  ASSUME FirmwareTold, ObserveKind
  PROVE  FirmwareTold'
<1> DEFINE s == There(Want.at)
           kind == Kind(s)
<1>1. /\ look = "kind" /\ look \in LooksOfARoute \ ListingLooks /\ Looking
      /\ Want.route # "search"
      /\ Want.route \in Routes
  BY AtAWant DEF ObserveKind, LooksOfARoute, ListingLooks, LookTold
<1>2. /\ s \in AllStates
      /\ \A S : s \in S => HasStood(stoodAt, Want.at, S)
  BY <1>1, ThereStands
<1>3. /\ kind = "file" => s \in Files
      /\ kind = "missing" => s = "missing"
      /\ kind \in {"file", "dir", "missing", "hidden"}
      /\ kind = "dir" <=> s \in FolderStates
  BY <1>2 DEF Kind, AllStates, Files, FolderStates
<1> HIDE DEF kind, s
<1>4. CASE Want.route = "folder" /\ kind # "dir"
  <2> DEFINE r == [Looked(kind, "unknown") EXCEPT !.lists = TRUE, !.contents = "open"]
  <2>1. ConcludeFolder(kind, "open")
    BY <1>4 DEF ObserveKind, kind, s
  <2>2. r.found = kind /\ r.lists /\ r.contents = "open" /\ r.picked = FALSE
    BY DEF Looked
  <2>3. Satisfied(r) # "yes"
    BY <2>2 DEF Satisfied
  <2>4. Satisfied(r) = "no" => kind \in {"missing", "file"}
    BY <2>2, <1>3, <1>4 DEF Satisfied
  <2>5. ASSUME kind \in {"missing", "file"} PROVE FolderFails(stoodAt, Want)
    <3>1. s \in Files \union {"missing"}
      BY <2>5, <1>3
    <3>2. NoFolder(stoodAt, Want)
      BY <3>1, <1>2 DEF NoFolder
    <3>3. ASSUME Want.named # None PROVE HasStood(stoodAt, Want.named, NotOffered)
      <4>1. There(Want.named) = "missing"
        <5>1. FolderOf[Want.named] = Want.at /\ Want.at \in DOMAIN States /\ Want.named \in DOMAIN States
          BY <3>3, <1>1, AtAWant, WantsTyped DEF Named, ToSet
        <5>2. FolderOf[Want.at] = None /\ FolderOf[Want.named] # None
          BY <5>1, StatesAssumption
        <5>3. s = shelf[Want.at]
          BY <5>2 DEF s, There, Stands
        <5> QED
          BY <5>1, <5>2, <5>3, <3>1 DEF There, Stands, Files, FolderStates
      <4> QED
        BY <4>1, <3>3, <1>1, ThereStands DEF NotOffered
    <3> QED
      BY <3>2, <3>3, Zenon DEF FolderFails, NotTaken
  <2>6. Satisfied(r) = "no" => Fails(stoodAt, Want, r)
    BY <2>2, <2>4, <2>5, <1>4 DEF Fails
  <2> QED
    BY <2>1, <2>3, <2>6, <1>1, ConcludesFolder DEF Values
<1>5. CASE Want.route = "folder" /\ kind = "dir"
  <2>1. PICK next \in {"list", "offered"} :
          GoOn(next) /\ (next = "list" => Want.named = None) /\ (next = "offered" => Want.named # None)
    BY <1>5 DEF ObserveKind, kind, s
  <2>2. LookTold(stoodAt, Want, next, verify)
    BY <2>1, <1>5 DEF LookTold, OfferLooks, ListingLooks, Listed, NotTaken
  <2> QED
    BY <2>1, <2>2, <1>1, GoesOn DEF LooksOfARoute, ListingLooks
<1>6. CASE Want.route # "folder" /\ kind # "file"
  <2> DEFINE r == Looked(kind, None)
  <2>1. Conclude(kind, None)
    BY <1>6 DEF ObserveKind, kind, s
  <2>2. r.found = kind /\ r.contents = "open" /\ r.picked = FALSE
    BY DEF Looked
  <2>3. Satisfied(r) # "yes" /\ (Satisfied(r) = "no" => kind = "missing")
    BY <2>2, <1>3, <1>6 DEF Satisfied
  <2>4. kind = "missing" => HasStood(stoodAt, Want.at, Amiss(Want)) /\ HasStood(stoodAt, Want.at, {"missing", "short"})
    BY <1>2, <1>3 DEF Amiss
  <2>5. Want.route \in {"file", "key"}
    BY <1>1, <1>6 DEF Routes
  <2>6. Satisfied(r) = "no" => Fails(stoodAt, Want, r)
    BY <2>3, <2>4, <2>5 DEF Fails
  <2> QED
    BY <2>1, <2>3, <2>6, <1>1, Concludes
<1>7. CASE Want.route = "key" /\ kind = "file"
  <2>1. GoOn("gate")
    BY <1>7 DEF ObserveKind, kind, s
  <2>2. LookTold(stoodAt, Want, "gate", verify)
    BY <1>7 DEF LookTold, OfferLooks, ListingLooks
  <2> QED
    BY <2>1, <2>2, <1>1, GoesOn DEF LooksOfARoute, ListingLooks
<1>8. CASE Want.route = "file" /\ kind = "file"
  <2>1. CASE Want.pins = None
    <3> DEFINE r == Looked("file", "unknown")
    <3>1. Conclude("file", "unknown")
      BY <1>8, <2>1 DEF ObserveKind, kind, s
    <3>2. r.found = "file" /\ r.checked = "unknown" /\ r.lists = FALSE
      BY DEF Looked
    <3>3. Satisfied(r) = "yes"
      BY <3>2 DEF Satisfied
    <3>4. Serves(stoodAt, Want, r)
      BY <1>2, <1>3, <1>8, <2>1 DEF Serves
    <3> QED
      BY <3>1, <3>3, <3>4, <1>1, Concludes
  <2>2. CASE Want.pins # None /\ ~verify
    <3> DEFINE r == Looked("file", "unchecked")
    <3>1. Conclude("file", "unchecked")
      BY <1>8, <2>2 DEF ObserveKind, kind, s
    <3>2. r.found = "file" /\ r.checked = "unchecked" /\ r.lists = FALSE
      BY DEF Looked
    <3>3. Satisfied(r) = "open"
      BY <3>2 DEF Satisfied
    <3> QED
      BY <3>1, <3>3, <1>1, Concludes
  <2>3. CASE Want.pins # None /\ verify
    <3>1. GoOn("size")
      BY <1>8, <2>3 DEF ObserveKind, kind, s
    <3>2. LookTold(stoodAt, Want, "size", verify)
      BY <1>8, <2>3 DEF LookTold, OfferLooks, ListingLooks
    <3> QED
      BY <3>1, <3>2, <1>1, GoesOn DEF LooksOfARoute, ListingLooks
  <2> QED
    BY <2>1, <2>2, <2>3
<1> QED
  BY <1>1, <1>4, <1>5, <1>6, <1>7, <1>8 DEF Routes

(* What a comparison came to says something of the bytes. *)
LEMMA BytesTell ==
  ASSUME NEW s \in AllStates
  PROVE  /\ Digest(s) = "listed" => s \in Known
         /\ Digest(s) \notin {None, "listed"} => s \in {"unlisted", "other", "short"}
         /\ Header(s) = "bios" => s \in Image
         /\ Header(s) = "no bios" => s \in NoBios
         /\ Header(s) # "no bios" => s \notin NoBios
         /\ Digest(s) \in {"listed", "unlisted", None}
         /\ Header(s) \in {"bios", "no bios", None}
BY StatesAssumption DEF Digest, Header, Known, Image, NoBios, AllStates, Files

(* A recognised file is one whose bytes the table lists. *)
LEMMA RecognisedTells ==
  ASSUME NEW d \in {"listed", "unlisted", None}
  PROVE  /\ Recognised(d) = "verified" => d = "listed"
         /\ Recognised(d) \in {"unread", "verified", "unrecognised"}
BY DEF Recognised

(* A mismatch is not said of an archive. *)
LEMMA DiffersTells ==
  Differs \in {"mismatch", "not-comparable"} /\ (Differs = "mismatch" => Want.pins # "archive")
BY DEF Differs

(* A file of no accepted size is amiss, unless it is an archive. *)
LEMMA ObserveSizeStep ==
  ASSUME FirmwareTold, ObserveSize
  PROVE  FirmwareTold'
<1>1. /\ look = "size" /\ look \in LooksOfARoute \ ListingLooks /\ Looking
      /\ Want.route = "file" /\ Want.pins \in {"dump", "archive"} /\ Want.pins # None
  BY AtAWant DEF ObserveSize, LooksOfARoute, ListingLooks, LookTold
<1>2. CASE There(Want.at) = "short"
  <2> DEFINE r == Looked("file", Differs)
  <2>1. Conclude("file", Differs)
    BY <1>2 DEF ObserveSize
  <2>2. r.found = "file" /\ r.checked = Differs /\ r.lists = FALSE
    BY DEF Looked
  <2>3. Satisfied(r) # "yes" /\ (Satisfied(r) = "no" => Differs = "mismatch")
    BY <2>2, DiffersTells DEF Satisfied
  <2>4. Differs = "mismatch" => HasStood(stoodAt, Want.at, Amiss(Want))
    BY <1>1, <1>2, ThereStands, DiffersTells DEF Amiss
  <2>5. Satisfied(r) = "no" => Fails(stoodAt, Want, r)
    BY <2>3, <2>4, <1>1 DEF Fails
  <2> QED
    BY <2>1, <2>3, <2>5, <1>1, Concludes
<1>3. CASE There(Want.at) # "short"
  <2>1. GoOn("digest")
    BY <1>3 DEF ObserveSize
  <2>2. LookTold(stoodAt, Want, "digest", verify)
    BY <1>1 DEF LookTold, OfferLooks, ListingLooks, Listed
  <2> QED
    BY <2>1, <2>2, <1>1, GoesOn DEF LooksOfARoute, ListingLooks
<1> QED BY <1>2, <1>3

(* Bytes the table lists are right, others amiss. *)
LEMMA ObserveDigestStep ==
  ASSUME FirmwareTold, ObserveDigest
  PROVE  FirmwareTold'
<1> DEFINE digest == Digest(There(Want.at))
           checked == IF digest = None THEN "unread" ELSE IF digest = "listed" THEN "verified" ELSE Differs
           r == Looked("file", checked)
<1>1. /\ look = "digest" /\ look \in LooksOfARoute \ ListingLooks /\ Looking
      /\ Want.route = "file" /\ Want.pins \in {"dump", "archive"} /\ Want.pins # None
  BY AtAWant DEF ObserveDigest, LooksOfARoute, ListingLooks, LookTold
<1>2. There(Want.at) \in AllStates
  BY <1>1, ThereStands
<1>3. Conclude("file", checked)
  BY DEF ObserveDigest
<1>4. /\ digest = "listed" => There(Want.at) \in Known
      /\ digest \notin {None, "listed"} => There(Want.at) \in {"unlisted", "other", "short"}
  BY <1>2, BytesTell
<1>5. /\ checked = "verified" => digest = "listed"
      /\ checked = "mismatch" => digest \notin {None, "listed"} /\ Want.pins # "archive"
      /\ checked \in {"unread", "verified", "mismatch", "not-comparable"}
  BY DiffersTells
<1> HIDE DEF digest, checked
<1>6. r.found = "file" /\ r.checked = checked /\ r.lists = FALSE
  BY DEF Looked
<1>7. /\ Satisfied(r) = "yes" => checked = "verified"
      /\ Satisfied(r) = "no" => checked = "mismatch"
  BY <1>5, <1>6 DEF Satisfied
<1>8. checked = "verified" => HasStood(stoodAt, Want.at, Known)
  BY <1>1, <1>4, <1>5, ThereStands
<1>9. checked = "mismatch" => HasStood(stoodAt, Want.at, Amiss(Want))
  BY <1>1, <1>4, <1>5, ThereStands DEF Amiss
<1>10. Satisfied(r) = "no" => Fails(stoodAt, Want, r)
  BY <1>1, <1>7, <1>9 DEF Fails
<1>11. Satisfied(r) = "yes" => Serves(stoodAt, Want, r)
  BY <1>1, <1>7, <1>8 DEF Serves
<1> QED
  BY <1>1, <1>3, <1>10, <1>11, Concludes
-----------------------------------------------------------------------------
(* A key's file of no accepted size fails. *)
LEMMA ImageGateStep ==
  ASSUME FirmwareTold, ImageGate
  PROVE  FirmwareTold'
<1> DEFINE s == There(Want.at)
<1>1. /\ look = "gate" /\ look \in LooksOfARoute \ ListingLooks /\ Looking
      /\ Want.route = "key"
  BY AtAWant DEF ImageGate, LooksOfARoute, ListingLooks, LookTold
<1>2. CASE s = "short"
  <2> DEFINE r == Looked("file", "refused")
  <2>1. Conclude("file", "refused")
    BY <1>2 DEF ImageGate
  <2>2. r.found = "file" /\ r.checked = "refused" /\ r.lists = FALSE
    BY DEF Looked
  <2>3. Satisfied(r) = "no"
    BY <2>2 DEF Satisfied
  <2>4. HasStood(stoodAt, Want.at, {"missing", "short"})
    BY <1>1, <1>2, ThereStands
  <2>5. Fails(stoodAt, Want, r)
    BY <2>4, <1>1 DEF Fails
  <2> QED
    BY <2>1, <2>3, <2>5, <1>1, Concludes
<1>3. CASE s # "short" /\ (Kind(s) # "file" \/ ~verify)
  <2> DEFINE r == Looked("file", "unknown")
  <2>1. Conclude("file", "unknown")
    BY <1>3 DEF ImageGate
  <2>2. r.found = "file" /\ r.checked = "unknown" /\ r.lists = FALSE
    BY DEF Looked
  <2>3. Satisfied(r) = "yes"
    BY <2>2 DEF Satisfied
  <2>4. Serves(stoodAt, Want, r)
    BY <2>2, <1>1 DEF Serves
  <2> QED
    BY <2>1, <2>3, <2>4, <1>1, Concludes
<1>4. CASE s # "short" /\ ~(Kind(s) # "file" \/ ~verify)
  <2>1. GoOn("image")
    BY <1>4 DEF ImageGate
  <2>2. LookTold(stoodAt, Want, "image", verify)
    BY <1>1 DEF LookTold, OfferLooks, ListingLooks, Listed
  <2> QED
    BY <2>1, <2>2, <1>1, GoesOn DEF LooksOfARoute, ListingLooks
<1> QED BY <1>2, <1>3, <1>4

(* A key's file that the table lists serves. *)
LEMMA ImageDigestStep ==
  ASSUME FirmwareTold, ImageDigest
  PROVE  FirmwareTold'
<1> DEFINE digest == Digest(There(Want.at))
           checked == Recognised(digest)
           r == Looked("file", checked)
<1>1. /\ look = "image" /\ look \in LooksOfARoute \ ListingLooks /\ Looking
      /\ Want.route = "key"
  BY AtAWant DEF ImageDigest, LooksOfARoute, ListingLooks, LookTold
<1>2. /\ digest = "listed" => There(Want.at) \in Known
      /\ digest \in {"listed", "unlisted", None}
  BY <1>1, ThereStands, BytesTell
<1>3. /\ checked = "verified" => digest = "listed"
      /\ checked \in {"unread", "verified", "unrecognised"}
  BY <1>2, RecognisedTells
<1>4. Conclude("file", checked)
  BY DEF ImageDigest
<1> HIDE DEF digest, checked
<1>5. r.found = "file" /\ r.checked = checked /\ r.lists = FALSE
  BY DEF Looked
<1>6. Satisfied(r) # "no" /\ (Satisfied(r) = "yes" => checked = "verified")
  BY <1>3, <1>5 DEF Satisfied
<1>7. checked = "verified" => HasStood(stoodAt, Want.at, Known)
  BY <1>1, <1>2, <1>3, ThereStands
<1>8. Satisfied(r) = "yes" => Serves(stoodAt, Want, r)
  BY <1>1, <1>6, <1>7 DEF Serves
<1> QED
  BY <1>1, <1>4, <1>6, <1>8, Concludes

(* The looks at the file an option names. *)
LEMMA AtTheOffer ==
  ASSUME FirmwareTold, look \in OfferLooks
  PROVE  /\ look \in LooksOfARoute \ ListingLooks
         /\ Want.route = "folder" /\ Want.named # None
         /\ There(Want.named) \in AllStates
         /\ There(Want.named) \in stoodAt[Want.named]
         /\ \A S : There(Want.named) \in S => HasStood(stoodAt, Want.named, S)
         /\ look \in {"offered header", "named digest"} => verify
         /\ look \in {"still there", "named", "named digest"} /\ verify =>
              ~(stoodAt[Want.named] \subseteq NoBios)
<1>1. look \in LooksOfARoute \ ListingLooks
  BY DEF OfferLooks, LooksOfARoute, ListingLooks
<1>2. LookTold(stoodAt, Want, look, verify)
  BY <1>1, AtAWant
<1>3. Want.route = "folder" /\ Want.named # None
  BY <1>2 DEF LookTold
<1> QED
  BY <1>1, <1>2, <1>3, ThereStands DEF LookTold

(* The file is not offered, and the folder is listed. *)
LEMMA HandsBack ==
  ASSUME FirmwareTold, look \in OfferLooks, Looking, GoOn("list"),
         There(Want.named) \in NotOffered
  PROVE  FirmwareTold'
<1>1. NotTaken(stoodAt, Want)
  BY AtTheOffer DEF NotTaken
<1>2. LookTold(stoodAt, Want, "list", verify)
  BY <1>1, AtTheOffer DEF LookTold, OfferLooks, ListingLooks, Listed
<1> QED
  BY <1>2, AtTheOffer, GoesOn DEF LooksOfARoute, ListingLooks

(* The file may be offered, and is looked at further. *)
LEMMA LooksFurther ==
  ASSUME FirmwareTold, look \in OfferLooks, Looking, NEW next \in OfferLooks, GoOn(next),
         next \in {"offered header", "named digest"} => verify,
         next \in {"still there", "named", "named digest"} /\ verify =>
           There(Want.named) \notin NoBios \/ ~(stoodAt[Want.named] \subseteq NoBios)
  PROVE  FirmwareTold'
<1>1. next \in {"still there", "named", "named digest"} /\ verify =>
        ~(stoodAt[Want.named] \subseteq NoBios)
  BY AtTheOffer
<1>2. LookTold(stoodAt, Want, next, verify)
  BY <1>1, AtTheOffer DEF LookTold, OfferLooks, ListingLooks
<1> QED
  BY <1>2, AtTheOffer, GoesOn DEF LooksOfARoute, ListingLooks, OfferLooks

(* A folder of the name is not offered. *)
LEMMA OfferKindStep ==
  ASSUME FirmwareTold, OfferKind
  PROVE  FirmwareTold'
<1> DEFINE s == There(Want.named)
<1>1. look = "offered" /\ look \in OfferLooks /\ Looking
  BY DEF OfferKind, OfferLooks
<1>2. s \in AllStates
  BY <1>1, AtTheOffer
<1>3. CASE Kind(s) = "dir"
  <2>1. GoOn("list")
    BY <1>3 DEF OfferKind
  <2>2. s \in NotOffered
    BY <1>2, <1>3 DEF Kind, NotOffered, FolderStates, AllStates, Files
  <2> QED BY <2>1, <2>2, <1>1, HandsBack
<1>4. CASE Kind(s) = "file"
  <2>1. GoOn("offered size")
    BY <1>4 DEF OfferKind
  <2> QED BY <2>1, <1>1, LooksFurther DEF OfferLooks
<1>5. CASE Kind(s) \notin {"dir", "file"}
  <2>1. GoOn("still there")
    BY <1>5 DEF OfferKind
  <2>2. s \notin NoBios
    BY <1>5 DEF Kind, NoBios, Files
  <2> QED BY <2>1, <2>2, <1>1, LooksFurther DEF OfferLooks
<1> QED BY <1>3, <1>4, <1>5

(* Nor is a file of no accepted size. *)
LEMMA OfferSizeStep ==
  ASSUME FirmwareTold, OfferSize
  PROVE  FirmwareTold'
<1>1. look = "offered size" /\ look \in OfferLooks /\ Looking
  BY DEF OfferSize, OfferLooks
<1>2. CASE There(Want.named) = "short"
  <2>1. GoOn("list") /\ There(Want.named) \in NotOffered
    BY <1>2 DEF OfferSize, NotOffered, NoBios
  <2> QED BY <2>1, <1>1, HandsBack
<1>3. CASE There(Want.named) # "short" /\ verify
  <2>1. GoOn("offered header")
    BY <1>3 DEF OfferSize
  <2> QED BY <2>1, <1>1, <1>3, LooksFurther DEF OfferLooks
<1>4. CASE There(Want.named) # "short" /\ ~verify
  <2>1. GoOn("still there")
    BY <1>4 DEF OfferSize
  <2> QED BY <2>1, <1>1, <1>4, LooksFurther DEF OfferLooks
<1> QED BY <1>2, <1>3, <1>4

(* Nor is a file that the core's test denies. *)
LEMMA OfferHeaderStep ==
  ASSUME FirmwareTold, OfferHeader
  PROVE  FirmwareTold'
<1> DEFINE s == There(Want.named)
<1>1. look = "offered header" /\ look \in OfferLooks /\ Looking
  BY DEF OfferHeader, OfferLooks
<1>2. s \in AllStates
  BY <1>1, AtTheOffer
<1>3. CASE Header(s) = "no bios"
  <2>1. GoOn("list") /\ s \in NotOffered
    BY <1>2, <1>3, BytesTell DEF OfferHeader, NotOffered
  <2> QED BY <2>1, <1>1, HandsBack
<1>4. CASE Header(s) # "no bios"
  <2>1. GoOn("still there") /\ s \notin NoBios
    BY <1>2, <1>4, BytesTell DEF OfferHeader
  <2> QED BY <2>1, <1>1, LooksFurther DEF OfferLooks
<1> QED BY <1>3, <1>4

(* What is gone by now hands back to the folder. *)
LEMMA StillThereStep ==
  ASSUME FirmwareTold, StillThere
  PROVE  FirmwareTold'
<1>1. look = "still there" /\ look \in OfferLooks /\ Looking
  BY DEF StillThere, OfferLooks
<1>2. CASE There(Want.named) = "missing"
  <2>1. GoOn("list") /\ There(Want.named) \in NotOffered
    BY <1>2 DEF StillThere, NotOffered
  <2> QED BY <2>1, <1>1, HandsBack
<1>3. CASE There(Want.named) # "missing"
  <2>1. GoOn("named")
    BY <1>3 DEF StillThere
  <2>2. verify => ~(stoodAt[Want.named] \subseteq NoBios)
    BY <1>1, AtTheOffer
  <2> QED BY <2>1, <2>2, <1>1, LooksFurther DEF OfferLooks
<1> QED BY <1>2, <1>3

(* A named file is read on where reading was asked for. *)
LEMMA ConfiguredKindStep ==
  ASSUME FirmwareTold, ConfiguredKind
  PROVE  FirmwareTold'
<1> DEFINE kind == Kind(There(Want.named))
<1>1. look = "named" /\ look \in OfferLooks /\ Looking
  BY DEF ConfiguredKind, OfferLooks
<1>2. look \in LooksOfARoute
  BY <1>1, AtTheOffer
<1>3. CASE kind # "file"
  <2> DEFINE r == [Looked(kind, None) EXCEPT !.picked = TRUE]
  <2>1. ConcludePick(kind, None)
    BY <1>3 DEF ConfiguredKind
  <2>2. kind \in {"dir", "missing", "hidden"}
    BY <1>1, <1>3, AtTheOffer DEF Kind, AllStates, FolderStates
  <2> HIDE DEF kind
  <2>3. r.found = kind /\ r.contents = "open" /\ r.picked
    BY DEF Looked
  <2>4. Satisfied(r) # "yes" /\ (Satisfied(r) = "no" => r.found = "missing")
    BY <2>2, <2>3 DEF Satisfied
  <2>5. Satisfied(r) = "no" => Fails(stoodAt, Want, r)
    BY <2>3, <2>4 DEF Fails
  <2> QED
    BY <2>1, <2>4, <2>5, <1>1, <1>2, ConcludesPick
<1>4. CASE kind = "file" /\ ~verify
  <2> DEFINE r == [Looked("file", "unchecked") EXCEPT !.picked = TRUE]
  <2>1. ConcludePick("file", "unchecked")
    BY <1>4 DEF ConfiguredKind
  <2>2. r.found = "file" /\ r.checked = "unchecked" /\ r.lists = FALSE
    BY DEF Looked
  <2>3. Satisfied(r) = "open"
    BY <2>2 DEF Satisfied
  <2> QED
    BY <2>1, <2>3, <1>1, <1>2, ConcludesPick
<1>5. CASE kind = "file" /\ verify
  <2>1. GoOn("named digest")
    BY <1>5 DEF ConfiguredKind
  <2>2. ~(stoodAt[Want.named] \subseteq NoBios)
    BY <1>1, <1>5, AtTheOffer
  <2> QED BY <2>1, <2>2, <1>1, <1>5, LooksFurther DEF OfferLooks
<1> QED BY <1>3, <1>4, <1>5

(* A named file that the table lists serves, if it was not denied all along. *)
LEMMA ConfiguredDigestStep ==
  ASSUME FirmwareTold, ConfiguredDigest
  PROVE  FirmwareTold'
<1> DEFINE digest == Digest(There(Want.named))
           checked == Recognised(digest)
           r == [Looked("file", checked) EXCEPT !.picked = TRUE]
<1>1. look = "named digest" /\ look \in OfferLooks /\ Looking
  BY DEF ConfiguredDigest, OfferLooks
<1>2. /\ look \in LooksOfARoute /\ Want.route = "folder" /\ Want.named # None
      /\ ~(stoodAt[Want.named] \subseteq NoBios)
  BY <1>1, AtTheOffer
<1>3. /\ digest = "listed" => There(Want.named) \in Known
      /\ digest \in {"listed", "unlisted", None}
  BY <1>1, AtTheOffer, BytesTell
<1>4. /\ checked = "verified" => digest = "listed"
      /\ checked \in {"unread", "verified", "unrecognised"}
  BY <1>3, RecognisedTells
<1>5. ConcludePick("file", checked)
  BY DEF ConfiguredDigest
<1> HIDE DEF digest, checked
<1>6. r.found = "file" /\ r.checked = checked /\ r.lists = FALSE /\ r.picked
  BY DEF Looked
<1>7. Satisfied(r) # "no" /\ (Satisfied(r) = "yes" => checked = "verified")
  BY <1>4, <1>6 DEF Satisfied
<1>8. checked = "verified" => PickServes(stoodAt, Want)
  BY <1>1, <1>2, <1>3, <1>4, AtTheOffer DEF PickServes
<1>9. Satisfied(r) = "yes" => Serves(stoodAt, Want, r)
  BY <1>2, <1>6, <1>7, <1>8 DEF Serves
<1> QED
  BY <1>1, <1>2, <1>5, <1>7, <1>9, ConcludesPick
-----------------------------------------------------------------------------
(* A set of naturals has an earliest element, and Earliest picks it. *)
LEMMA EarliestIsOneOf ==
  ASSUME NEW S \in SUBSET Nat, S # {}
  PROVE  Earliest(S) \in S
<1> DEFINE Less == {ss \in Nat \X Nat : ss[1] < ss[2]}
<1>1. IsWellFoundedOn(Less, Nat)
  BY NatLessThanWellFounded, Zenon DEF OpToRel, Less
<1>2. PICK i \in S : \A j \in S : ~(<<j, i>> \in Less)
  BY <1>1, WFMin
<1>3. \A j \in S : i <= j
  <2> SUFFICES ASSUME NEW j \in S PROVE i <= j
    OBVIOUS
  <2>1. i \in Nat /\ j \in Nat /\ ~(<<j, i>> \in Less)
    BY <1>2
  <2> QED
    BY <2>1 DEF Less
<1> QED
  BY <1>3 DEF Earliest

(* While a listing is read: which want it is of, and that its folder was listed. *)
LEMMA AtAListing ==
  ASSUME FirmwareTold, look \in ListingLooks
  PROVE  /\ look \in LooksOfARoute
         /\ Listed(Want)
         /\ Want.route = "folder" => NotTaken(stoodAt, Want)
         /\ Want.inside \in Seq(ToSet(Want.inside))
         /\ ListingTold(stoodAt, Want, look, pending, kept, reads, partial)
<1>1. look \in LooksOfARoute
  BY DEF ListingLooks, LooksOfARoute
<1>2. LookTold(stoodAt, Want, look, verify)
  BY <1>1, AtAWant
<1>3. Want.inside \in Seq(DOMAIN States)
  BY <1>1, AtAWant
<1>4. Want.inside \in Seq(ToSet(Want.inside))
  BY <1>3 DEF ToSet
<1> QED
  BY <1>1, <1>2, <1>4, AtAWant DEF LookTold

(* A step within a listing. *)
LEMMA ListingGoesOn ==
  ASSUME FirmwareTold, Looking, look \in ListingLooks, UNCHANGED <<turn, required, absent>>,
         look' \in ListingLooks,
         ListingTold(stoodAt, Want, look', pending', kept', reads', partial')
  PROVE  FirmwareTold'
<1>1. look' \in LooksOfARoute
  BY DEF ListingLooks, LooksOfARoute
<1>2. LookTold(stoodAt, Want, look', verify)
  BY AtAListing DEF LookTold, ListingLooks, OfferLooks
<1> QED
  BY <1>1, <1>2, AtAListing, LookGoesOn

(* A listing rules out what was not there, and all where there is no folder. *)
LEMMA ListFolderStep ==
  ASSUME FirmwareTold, ListFolder
  PROVE  FirmwareTold'
<1> DEFINE s == There(Want.at)
<1>1. /\ look = "list" /\ look' = "sizes" /\ look \in LooksOfARoute \ ListingLooks /\ Looking
      /\ UNCHANGED <<turn, required, absent>>
  BY DEF ListFolder, LooksOfARoute, ListingLooks
<1>2. NoLooks /\ Want.inside \in Seq(DOMAIN States)
  BY <1>1, AtAWant
<1>3. kept' = <<>> /\ reads' = <<>> /\ partial' = (s \in {"closed", "hidden"})
  BY <1>2 DEF ListFolder, NoLooks
<1>4. /\ s # "dir" => pending' = {}
      /\ s = "dir" => pending' = {i \in DOMAIN Want.inside : There(Want.inside[i]) # "missing"}
  BY DEF ListFolder
<1>5. /\ s \in AllStates
      /\ \A S : s \in S => HasStood(stoodAt, Want.at, S)
      /\ \A p \in ToSet(Want.inside) : \A S : There(p) \in S => HasStood(stoodAt, p, S)
  BY <1>1, ThereStands
<1> HIDE DEF s
<1>6. LookTold(stoodAt, Want, "sizes", verify)
  <2>1. LookTold(stoodAt, Want, look, verify)
    BY <1>1, AtAWant
  <2> QED
    BY <2>1, <1>1 DEF LookTold, ListingLooks, OfferLooks
<1>7. s = "dir" =>
        \A p \in ToSet(Want.inside) : Ruled(stoodAt, Want, p, pending', <<>>)
  <2> SUFFICES ASSUME s = "dir", NEW p \in ToSet(Want.inside)
               PROVE  Ruled(stoodAt, Want, p, pending', <<>>)
    OBVIOUS
  <2>1. PICK i \in DOMAIN Want.inside : p = Want.inside[i]
    BY DEF ToSet
  <2>2. CASE There(p) = "missing"
    BY <2>2, <1>5 DEF Ruled, NoCandidate, AllStates, Files
  <2>3. CASE There(p) # "missing"
    <3>1. i \in pending'
      BY <2>1, <2>3, <1>4
    <3> QED BY <3>1, <2>1 DEF Ruled
  <2> QED BY <2>2, <2>3
<1>8. partial' => pending' = {}
  BY <1>3, <1>4
<1>9. s = "dir" \/ partial' \/ NoFolder(stoodAt, Want)
  BY <1>3, <1>5 DEF NoFolder, AllStates, FolderStates
<1>10. ListingTold(stoodAt, Want, "sizes", pending', kept', reads', partial')
  BY <1>3, <1>4, <1>5, <1>7, <1>8, <1>9 DEF ListingTold
<1> QED
  BY <1>1, <1>6, <1>10, LookGoesOn DEF ListingLooks, LooksOfARoute

(* A file is kept for reading, or its size rules it out. *)
LEMMA SizeUpStep ==
  ASSUME FirmwareTold, SizeUp
  PROVE  FirmwareTold'
<1> DEFINE e == Earliest(pending)
           p == Want.inside[e]
<1>1. /\ look = "sizes" /\ look' = look /\ look \in ListingLooks /\ Looking /\ pending # {}
      /\ UNCHANGED <<turn, required, absent>> /\ reads' = reads /\ partial' = partial
      /\ pending' = pending \ {e}
      /\ kept' = IF There(p) \in Files \ {"short"} THEN Append(kept, p) ELSE kept
  BY DEF SizeUp, ListingLooks
<1>2. ListingTold(stoodAt, Want, "sizes", pending, kept, reads, partial)
  BY <1>1, AtAListing
<1>3. /\ pending \subseteq DOMAIN Want.inside /\ kept \in Seq(ToSet(Want.inside)) /\ reads = <<>>
      /\ HasStood(stoodAt, Want.at, {"dir"}) /\ ~partial
  BY <1>1, <1>2 DEF ListingTold
<1>4. e \in DOMAIN Want.inside /\ p \in ToSet(Want.inside)
  <2>1. Want.inside \in Seq(ToSet(Want.inside))
    BY <1>1, AtAListing
  <2>2. DOMAIN Want.inside \subseteq Nat
    BY <2>1
  <2>3. e \in pending
    BY <1>1, <1>3, <2>2, EarliestIsOneOf
  <2> QED BY <2>3, <1>3 DEF ToSet
<1>5. /\ \A S : There(p) \in S => HasStood(stoodAt, p, S)
      /\ There(p) \in AllStates
  <2>1. look \in LooksOfARoute
    BY <1>1, AtAListing
  <2> QED
    BY <2>1, <1>4, ThereStands, AtAWant DEF Places
<1> HIDE DEF e
<1>6. kept' \in Seq(ToSet(Want.inside)) /\ ToSet(kept) \subseteq ToSet(kept')
  <2>1. CASE kept' = kept
    BY <2>1, <1>3
  <2>2. CASE kept' = Append(kept, p)
    <3>1. kept' \in Seq(ToSet(Want.inside)) /\ Len(kept') = Len(kept) + 1
          /\ \A i \in 1..Len(kept) : kept'[i] = kept[i]
      BY <2>2, <1>3, <1>4
    <3>2. \A i \in DOMAIN kept : i \in DOMAIN kept' /\ kept'[i] = kept[i]
      BY <3>1, <1>3
    <3> QED BY <3>1, <3>2 DEF ToSet
  <2> QED BY <1>1, <2>1, <2>2
<1>7. p \in ToSet(kept') \/ HasStood(stoodAt, p, NoCandidate)
  <2>1. CASE There(p) \in Files \ {"short"}
    <3>1. kept' = Append(kept, p) /\ kept' \in Seq(ToSet(Want.inside))
      BY <1>1, <1>6, <2>1
    <3>2. Len(kept) + 1 \in DOMAIN kept' /\ kept'[Len(kept) + 1] = p
      BY <3>1, <1>3, <1>4
    <3> QED BY <3>2 DEF ToSet
  <2>2. CASE There(p) \notin Files \ {"short"}
    <3>1. There(p) \in NoCandidate
      BY <2>2, <1>5 DEF NoCandidate
    <3> QED BY <3>1, <1>5
  <2> QED BY <2>1, <2>2
<1>8. \A q \in ToSet(Want.inside) :
        Ruled(stoodAt, Want, q, pending, kept) => Ruled(stoodAt, Want, q, pending', kept')
  <2> SUFFICES ASSUME NEW q \in ToSet(Want.inside), Ruled(stoodAt, Want, q, pending, kept)
               PROVE  Ruled(stoodAt, Want, q, pending', kept')
    OBVIOUS
  <2>1. CASE q = p
    BY <2>1, <1>7 DEF Ruled
  <2>2. CASE q # p
    BY <2>2, <1>1, <1>6 DEF Ruled
  <2> QED BY <2>1, <2>2
<1>9. \/ NoFolder(stoodAt, Want)
      \/ /\ HasStood(stoodAt, Want.at, {"dir"})
         /\ \A q \in ToSet(Want.inside) : Ruled(stoodAt, Want, q, pending', kept')
  <2>1. \/ NoFolder(stoodAt, Want)
        \/ \A q \in ToSet(Want.inside) : Ruled(stoodAt, Want, q, pending, kept)
    BY <1>2, <1>3 DEF ListingTold
  <2> QED BY <2>1, <1>3, <1>8, Zenon
<1>10. /\ pending' \subseteq DOMAIN Want.inside /\ reads' = <<>> /\ ~partial'
       /\ reads' \in Seq(Readings) /\ Len(reads') <= Len(kept') /\ DOMAIN reads' = {}
  BY <1>1, <1>3, <1>6
<1>11. ListingTold(stoodAt, Want, "sizes", pending', kept', reads', partial')
  BY <1>3, <1>6, <1>9, <1>10, Zenon DEF ListingTold
<1> QED
  BY <1>1, <1>11, ListingGoesOn

(* Where all of a listing was seen and nothing of an accepted size was found,  *)
(* nothing in the folder could have served.                                  *)
LEMMA NothingKept ==
  ASSUME NEW st, NEW w, NEW l, NEW rs,
         ListingTold(st, w, l, {}, <<>>, rs, FALSE), l # "picked"
  PROVE  SearchFails(st, w) /\ (NotTaken(st, w) => FolderFails(st, w))
<1>1. \/ NoFolder(st, w)
      \/ HasStood(st, w.at, {"dir"}) /\ \A p \in ToSet(w.inside) : Ruled(st, w, p, {}, <<>>)
  BY Zenon DEF ListingTold
<1>2. \A p : Ruled(st, w, p, {}, <<>>) => HasStood(st, p, NoCandidate)
  BY DEF Ruled, ToSet
<1>3. \A p : HasStood(st, p, NoCandidate) => HasStood(st, p, NoImage)
  BY DEF HasStood, NoCandidate, NoImage, Image, Files, AllStates
<1> QED
  BY <1>1, <1>2, <1>3 DEF SearchFails, FolderFails

(* Nothing kept of all that was seen: the folder fails, or the search does. *)
LEMMA EndListingStep ==
  ASSUME FirmwareTold, EndListing
  PROVE  FirmwareTold'
<1>1. look = "sizes" /\ look \in ListingLooks /\ Looking /\ pending = {}
  BY DEF EndListing, ListingLooks
<1>2. /\ look \in LooksOfARoute /\ Listed(Want)
      /\ Want.route = "folder" => NotTaken(stoodAt, Want)
      /\ ListingTold(stoodAt, Want, "sizes", {}, kept, reads, partial)
  BY <1>1, AtAListing
<1>3. partial \in BOOLEAN => (~partial <=> partial = FALSE)
  OBVIOUS
<1>4. kept = <<>> /\ ~partial =>
        SearchFails(stoodAt, Want) /\ (Want.route = "folder" => FolderFails(stoodAt, Want))
  <2> SUFFICES ASSUME kept = <<>>, ~partial
               PROVE  SearchFails(stoodAt, Want) /\ (Want.route = "folder" => FolderFails(stoodAt, Want))
    OBVIOUS
  <2>1. ListingTold(stoodAt, Want, "sizes", {}, <<>>, reads, FALSE)
    BY <1>2 DEF ListingTold
  <2> QED BY <2>1, <1>2, NothingKept
<1>5. CASE kept # <<>> /\ verify
  <2>1. GoOn("read")
    BY <1>5 DEF EndListing
  <2>2. UNCHANGED <<turn, pending, kept, reads, partial, required, absent>> /\ look' = "read"
    BY <2>1 DEF GoOn
  <2>3. ListingTold(stoodAt, Want, "read", {}, kept, reads, partial)
    BY <1>2, <1>5 DEF ListingTold
  <2> QED
    BY <2>2, <2>3, <1>1, ListingGoesOn DEF ListingLooks
<1>6. CASE ~(kept # <<>> /\ verify) /\ Want.route = "folder"
  <2> DEFINE contents == IF kept = <<>> /\ ~partial THEN "no" ELSE "open"
             r == [Looked("dir", "unknown") EXCEPT !.lists = TRUE, !.contents = contents]
  <2>1. ConcludeFolder("dir", contents)
    BY <1>6 DEF EndListing
  <2>2. /\ contents \in Values /\ contents # "yes"
        /\ contents = "no" => kept = <<>> /\ ~partial
    BY DEF Values
  <2> HIDE DEF contents
  <2>3. r.found = "dir" /\ r.contents = contents /\ r.picked = FALSE
    BY DEF Looked
  <2>4. Satisfied(r) = contents
    BY <2>3 DEF Satisfied
  <2>5. Satisfied(r) = "no" => Fails(stoodAt, Want, r)
    BY <2>2, <2>3, <2>4, <1>4, <1>6 DEF Fails
  <2> QED
    BY <2>1, <2>2, <2>4, <2>5, <1>1, <1>2, ConcludesFolder
<1>7. CASE ~(kept # <<>> /\ verify) /\ Want.route # "folder"
  <2>1. Want.route = "search"
    BY <1>2, <1>7 DEF Listed
  <2>2. /\ Pass /\ required' = required
        /\ absent' = absent
           \/ /\ kept = <<>> /\ ~partial /\ Want.regions = None
              /\ absent' = absent \union {Want.system}
    BY <1>7 DEF EndListing, StateNothing
  <2>3. kept = <<>> /\ ~partial /\ Want.regions = None => Demonstrated(core, stoodAt, Want.system)
    BY <1>2, <1>4, <2>1, AtAWant DEF Demonstrated
  <2> QED
    BY <1>1, <1>2, <2>1, <2>2, <2>3, LookPasses
<1> QED BY <1>5, <1>6, <1>7
-----------------------------------------------------------------------------
(* What a listing in progress gives a step that reads. *)
LEMMA WhileReading ==
  ASSUME FirmwareTold, look \in {"read", "header"}
  PROVE  /\ look \in ListingLooks /\ look \in LooksOfARoute /\ Listed(Want)
         /\ Want.route = "folder" => NotTaken(stoodAt, Want)
         /\ pending = {} /\ kept # <<>> /\ kept \in Seq(ToSet(Want.inside)) /\ ~partial
         /\ reads \in Seq(Readings) /\ Len(reads) <= Len(kept)
         /\ \A i \in DOMAIN reads : ReadTold(stoodAt, kept[i], reads[i])
         /\ HasStood(stoodAt, Want.at, {"dir"})
         /\ \/ NoFolder(stoodAt, Want)
            \/ \A p \in ToSet(Want.inside) : Ruled(stoodAt, Want, p, {}, kept)
         /\ look = "header" => reads # <<>> /\ Want.route = "folder"
         /\ \A i \in DOMAIN kept :
              /\ kept[i] \in ToSet(Want.inside)
              /\ There(kept[i]) \in AllStates
              /\ \A S : There(kept[i]) \in S => HasStood(stoodAt, kept[i], S)
<1>1. look \in ListingLooks /\ look \notin {"sizes", "picked"}
  BY DEF ListingLooks
<1>2. /\ look \in LooksOfARoute /\ Listed(Want)
      /\ Want.route = "folder" => NotTaken(stoodAt, Want)
      /\ ListingTold(stoodAt, Want, look, pending, kept, reads, partial)
  BY <1>1, AtAListing
<1>3. /\ pending = {} /\ kept # <<>> /\ kept \in Seq(ToSet(Want.inside)) /\ ~partial
      /\ reads \in Seq(Readings) /\ Len(reads) <= Len(kept)
      /\ \A i \in DOMAIN reads : ReadTold(stoodAt, kept[i], reads[i])
      /\ HasStood(stoodAt, Want.at, {"dir"})
      /\ look = "header" => reads # <<>> /\ Want.route = "folder"
  BY <1>1, <1>2 DEF ListingTold
<1>4. \/ NoFolder(stoodAt, Want)
      \/ \A p \in ToSet(Want.inside) : Ruled(stoodAt, Want, p, pending, kept)
  BY <1>1, <1>2, <1>3, Zenon DEF ListingTold
<1>5. \A i \in DOMAIN kept : kept[i] \in ToSet(Want.inside)
  BY <1>3
<1>6. \A p \in ToSet(Want.inside) : /\ There(p) \in AllStates
                                    /\ \A S : There(p) \in S => HasStood(stoodAt, p, S)
  BY <1>2, ThereStands, AtAWant DEF Places
<1>7. \/ NoFolder(stoodAt, Want)
      \/ \A p \in ToSet(Want.inside) : Ruled(stoodAt, Want, p, {}, kept)
  BY <1>3, <1>4
<1> QED
  BY <1>1, <1>2, <1>3, <1>5, <1>6, <1>7, Zenon

(* A reading of one of the files kept, added to the others. *)
LEMMA ReadingGoesOn ==
  ASSUME FirmwareTold, Looking, look \in {"read", "header"}, look' \in {"read", "header"},
         UNCHANGED <<turn, pending, kept, partial, required, absent>>,
         reads' \in Seq(Readings), Len(reads') <= Len(kept),
         \A i \in DOMAIN reads' : ReadTold(stoodAt, kept[i], reads'[i]),
         look' = "header" => reads' # <<>> /\ Want.route = "folder"
  PROVE  FirmwareTold'
<1>1. /\ pending = {} /\ kept # <<>> /\ kept \in Seq(ToSet(Want.inside)) /\ ~partial
      /\ HasStood(stoodAt, Want.at, {"dir"}) /\ look \in ListingLooks
  BY WhileReading, Zenon
<1>2. \/ NoFolder(stoodAt, Want)
      \/ \A p \in ToSet(Want.inside) : Ruled(stoodAt, Want, p, {}, kept)
  BY WhileReading, Zenon
<1>3. pending' = {} /\ kept' = kept /\ partial' = partial /\ look' \notin {"sizes", "picked"}
  BY <1>1
<1>4. ListingTold(stoodAt, Want, look', {}, kept, reads', partial)
  BY <1>1, <1>2, <1>3 DEF ListingTold
<1> QED
  BY <1>1, <1>3, <1>4, ListingGoesOn DEF ListingLooks

(* A digest tells whether the table lists what stood there ... *)
LEMMA ReadDigestStep ==
  ASSUME FirmwareTold, ReadDigest
  PROVE  FirmwareTold'
<1> DEFINE n == Len(reads) + 1
           read == [digest |-> Digest(There(kept[n])), header |-> None]
<1>1. /\ look = "read" /\ look' \in {"read", "header"} /\ Looking
      /\ look' = "header" => Want.route = "folder"
      /\ UNCHANGED <<turn, pending, kept, partial, required, absent>>
      /\ Len(reads) < Len(kept) /\ reads' = Append(reads, read)
  BY DEF ReadDigest
<1>2. /\ reads \in Seq(Readings) /\ kept \in Seq(ToSet(Want.inside))
      /\ \A i \in DOMAIN reads : ReadTold(stoodAt, kept[i], reads[i])
  BY <1>1, WhileReading
<1>3. n \in DOMAIN kept
  BY <1>1, <1>2
<1>4. /\ There(kept[n]) \in AllStates
      /\ \A S : There(kept[n]) \in S => HasStood(stoodAt, kept[n], S)
  BY <1>1, <1>3, WhileReading
<1>5. read \in Readings /\ ReadTold(stoodAt, kept[n], read)
  BY <1>4, BytesTell, StatesAssumption DEF Readings, ReadTold
<1> HIDE DEF read
<1>6. /\ reads' \in Seq(Readings) /\ Len(reads') = n /\ reads'[n] = read
      /\ \A i \in 1..Len(reads) : reads'[i] = reads[i]
  BY <1>1, <1>2, <1>5
<1>7. \A i \in DOMAIN reads' : ReadTold(stoodAt, kept[i], reads'[i])
  <2> SUFFICES ASSUME NEW i \in DOMAIN reads' PROVE ReadTold(stoodAt, kept[i], reads'[i])
    OBVIOUS
  <2>1. CASE i = n
    BY <2>1, <1>5, <1>6
  <2>2. CASE i # n
    <3>1. i \in DOMAIN reads /\ i \in 1..Len(reads)
      BY <2>2, <1>2, <1>6
    <3> QED BY <3>1, <1>2, <1>6
  <2> QED BY <2>1, <2>2
<1>8. Len(reads') <= Len(kept) /\ reads' # <<>>
  BY <1>1, <1>2, <1>6
<1> QED
  BY <1>1, <1>6, <1>7, <1>8, ReadingGoesOn

(* ... and a header what the core's own test made of it. *)
LEMMA ReadHeaderStep ==
  ASSUME FirmwareTold, ReadHeader
  PROVE  FirmwareTold'
<1> DEFINE n == Len(reads)
           header == Header(There(kept[n]))
<1>1. /\ look = "header" /\ look' = "read" /\ Looking
      /\ UNCHANGED <<turn, pending, kept, partial, required, absent>>
      /\ reads' = [reads EXCEPT ![n].header = header]
  BY DEF ReadHeader
<1>2. /\ reads \in Seq(Readings) /\ kept \in Seq(ToSet(Want.inside)) /\ reads # <<>>
      /\ Len(reads) <= Len(kept)
      /\ \A i \in DOMAIN reads : ReadTold(stoodAt, kept[i], reads[i])
  BY <1>1, WhileReading
<1>3. n \in DOMAIN kept /\ n \in DOMAIN reads
  BY <1>2
<1>4. /\ There(kept[n]) \in AllStates
      /\ \A S : There(kept[n]) \in S => HasStood(stoodAt, kept[n], S)
  BY <1>1, <1>3, WhileReading
<1>5. /\ header \in {"bios", "no bios", None}
      /\ header = "bios" => HasStood(stoodAt, kept[n], Image)
      /\ header = "no bios" => HasStood(stoodAt, kept[n], NoBios)
  BY <1>4, BytesTell
<1> HIDE DEF header
<1> DEFINE read == [reads[n] EXCEPT !.header = header]
<1>6. read \in Readings /\ read.digest = reads[n].digest /\ read.header = header
  <2>1. reads[n] \in Readings
    BY <1>2, <1>3
  <2> QED BY <2>1, <1>5 DEF Readings
<1>7. /\ reads' \in Seq(Readings) /\ Len(reads') = Len(reads) /\ reads'[n] = read
      /\ \A i \in DOMAIN reads : i # n => reads'[i] = reads[i]
  <2>1. reads' = [reads EXCEPT ![n] = read]
    BY <1>1
  <2> HIDE DEF read
  <2> QED BY <2>1, <1>2, <1>3, <1>6
<1> HIDE DEF read
<1>8. \A i \in DOMAIN reads' : ReadTold(stoodAt, kept[i], reads'[i])
  <2> SUFFICES ASSUME NEW i \in DOMAIN reads' PROVE ReadTold(stoodAt, kept[i], reads'[i])
    OBVIOUS
  <2>1. i \in DOMAIN reads
    BY <1>2, <1>7
  <2>2. CASE i = n
    BY <2>1, <2>2, <1>2, <1>5, <1>6, <1>7 DEF ReadTold
  <2>3. CASE i # n
    BY <2>1, <2>3, <1>2, <1>7
  <2> QED BY <2>2, <2>3
<1> QED
  BY <1>1, <1>2, <1>7, <1>8, ReadingGoesOn

(* One image among the readings serves; none, and nothing undecided, fails. *)
LEMMA DirectoryIdentifiedStep ==
  ASSUME FirmwareTold, DirectoryIdentified
  PROVE  FirmwareTold'
<1> DEFINE contents == IF \E i \in DOMAIN reads : reads[i].header = "bios" THEN "yes"
                       ELSE IF \E i \in DOMAIN reads : Undecided(reads[i]) THEN "open" ELSE "no"
           r == [Looked("dir", "unknown") EXCEPT !.lists = TRUE, !.contents = contents]
<1>1. /\ look = "read" /\ Looking /\ Want.route = "folder" /\ Len(reads) = Len(kept)
      /\ ConcludeFolder("dir", contents)
  BY DEF DirectoryIdentified
<1>2. /\ look \in LooksOfARoute /\ NotTaken(stoodAt, Want)
      /\ kept \in Seq(ToSet(Want.inside)) /\ reads \in Seq(Readings)
      /\ HasStood(stoodAt, Want.at, {"dir"})
      /\ \A i \in DOMAIN reads : ReadTold(stoodAt, kept[i], reads[i])
      /\ \A i \in DOMAIN kept : kept[i] \in ToSet(Want.inside)
  BY <1>1, WhileReading
<1>3. \/ NoFolder(stoodAt, Want)
      \/ \A p \in ToSet(Want.inside) : Ruled(stoodAt, Want, p, {}, kept)
  BY <1>1, WhileReading, Zenon
<1>4. DOMAIN reads = DOMAIN kept
  BY <1>1, <1>2
<1>5. contents = "yes" => FolderServes(stoodAt, Want)
  <2> SUFFICES ASSUME NEW i \in DOMAIN reads, reads[i].header = "bios"
               PROVE  FolderServes(stoodAt, Want)
    OBVIOUS
  <2>1. HasStood(stoodAt, kept[i], Image) /\ kept[i] \in ToSet(Want.inside)
    BY <1>2, <1>4 DEF ReadTold
  <2> QED BY <2>1, <1>2 DEF FolderServes
<1>6. contents = "no" => FolderFails(stoodAt, Want)
  <2> SUFFICES ASSUME \A i \in DOMAIN reads : reads[i].header # "bios" /\ ~Undecided(reads[i])
               PROVE  FolderFails(stoodAt, Want)
    OBVIOUS
  <2>1. \A i \in DOMAIN reads : reads[i].header = "no bios"
    <3> SUFFICES ASSUME NEW i \in DOMAIN reads PROVE reads[i].header = "no bios"
      OBVIOUS
    <3>1. reads[i] \in Readings
      BY <1>2
    <3>2. reads[i].header \in {"bios", "no bios", None}
      BY <3>1 DEF Readings
    <3> QED BY <3>2 DEF Undecided
  <2>2. \A i \in DOMAIN kept : HasStood(stoodAt, kept[i], NoBios)
    BY <2>1, <1>2, <1>4 DEF ReadTold
  <2>3. \A p : HasStood(stoodAt, p, NoBios) \/ HasStood(stoodAt, p, NoCandidate) =>
               HasStood(stoodAt, p, NoImage)
    BY DEF HasStood, NoBios, NoCandidate, NoImage, Image, Files, AllStates
  <2>4. \A p \in ToSet(Want.inside) :
          Ruled(stoodAt, Want, p, {}, kept) => HasStood(stoodAt, p, NoImage)
    BY <2>2, <2>3 DEF Ruled, ToSet
  <2> QED
    BY <1>2, <1>3, <2>4, Zenon DEF FolderFails
<1>7. contents \in Values
  BY DEF Values
<1> HIDE DEF contents
<1>8. r.found = "dir" /\ r.contents = contents /\ r.picked = FALSE
  BY DEF Looked
<1>9. Satisfied(r) = contents
  BY <1>8 DEF Satisfied
<1>10. Satisfied(r) = "no" => Fails(stoodAt, Want, r)
  BY <1>1, <1>6, <1>8, <1>9 DEF Fails
<1>11. Satisfied(r) = "yes" => Serves(stoodAt, Want, r)
  BY <1>1, <1>5, <1>8, <1>9 DEF Serves
<1> QED
  BY <1>1, <1>2, <1>7, <1>10, <1>11, ConcludesFolder

(* The pick is one of the files read. *)
LEMMA PickImageStep ==
  ASSUME FirmwareTold, PickImage
  PROVE  FirmwareTold'
<1> DEFINE known == {i \in DOMAIN reads : reads[i].digest = "listed"}
           weighed == IF known = {} THEN DOMAIN reads ELSE known
           first == Earliest(weighed)
<1>1. /\ look = "read" /\ Looking /\ Want.route = "search" /\ Len(reads) = Len(kept)
      /\ look' = "picked" /\ kept' = <<kept[first]>> /\ reads' = <<reads[first]>>
      /\ UNCHANGED <<turn, pending, partial, required, absent>>
  BY DEF PickImage
<1>2. /\ kept \in Seq(ToSet(Want.inside)) /\ kept # <<>> /\ reads \in Seq(Readings)
      /\ HasStood(stoodAt, Want.at, {"dir"}) /\ pending = {} /\ ~partial
      /\ \A i \in DOMAIN reads : ReadTold(stoodAt, kept[i], reads[i])
      /\ look \in ListingLooks
  BY <1>1, WhileReading
<1>3. DOMAIN reads = DOMAIN kept /\ DOMAIN reads # {} /\ DOMAIN reads \in SUBSET Nat
  BY <1>1, <1>2
<1>4. first \in DOMAIN reads
  <2>1. weighed \in SUBSET Nat /\ weighed # {} /\ weighed \subseteq DOMAIN reads
    BY <1>3
  <2> QED BY <2>1, EarliestIsOneOf
<1> HIDE DEF first
<1>5. /\ kept[first] \in ToSet(Want.inside) /\ reads[first] \in Readings
      /\ ReadTold(stoodAt, kept[first], reads[first])
  BY <1>2, <1>3, <1>4
<1>6. /\ kept' \in Seq(ToSet(Want.inside)) /\ kept' # <<>> /\ Len(kept') = 1
      /\ reads' \in Seq(Readings) /\ Len(reads') = 1 /\ DOMAIN reads' = {1}
      /\ kept'[1] = kept[first] /\ reads'[1] = reads[first]
  BY <1>1, <1>5
<1>7. \A i \in DOMAIN reads' : ReadTold(stoodAt, kept'[i], reads'[i])
  BY <1>5, <1>6
<1>8. ListingTold(stoodAt, Want, "picked", {}, kept', reads', partial)
  BY <1>1, <1>2, <1>6, <1>7 DEF ListingTold
<1> QED
  BY <1>1, <1>2, <1>8, ListingGoesOn DEF ListingLooks

(* A pick that was recognised was an image when it was read. *)
LEMMA FoundImageStep ==
  ASSUME FirmwareTold, FoundImage
  PROVE  FirmwareTold'
<1> DEFINE kind == Kind(There(kept[1]))
           checked == IF kind = "file" THEN Recognised(reads[1].digest) ELSE None
           r == [Looked(kind, checked) EXCEPT !.picked = TRUE]
<1>1. /\ look = "picked" /\ look \in ListingLooks /\ Looking /\ ConcludePick(kind, checked)
  BY DEF FoundImage, ListingLooks
<1>2. look \in LooksOfARoute /\ ListingTold(stoodAt, Want, look, pending, kept, reads, partial)
  BY <1>1, AtAListing
<1>3. /\ Want.route = "search" /\ Len(kept) = 1 /\ Len(reads) = 1
      /\ kept \in Seq(ToSet(Want.inside)) /\ reads \in Seq(Readings)
      /\ \A i \in DOMAIN reads : ReadTold(stoodAt, kept[i], reads[i])
      /\ HasStood(stoodAt, Want.at, {"dir"})
  BY <1>1, <1>2 DEF ListingTold
<1>4. /\ 1 \in DOMAIN reads /\ kept[1] \in ToSet(Want.inside) /\ reads[1] \in Readings
      /\ ReadTold(stoodAt, kept[1], reads[1])
  BY <1>3
<1>5. There(kept[1]) \in AllStates
  BY <1>2, <1>4, AtAWant DEF Places
<1>6. kind \in {"file", "dir", "missing", "hidden"}
  BY <1>5 DEF Kind, AllStates, FolderStates
<1>7. kind = "file" =>
        /\ checked = "verified" => reads[1].digest = "listed"
        /\ checked \in {"unread", "verified", "unrecognised"}
  <2>1. reads[1].digest \in {"listed", "unlisted", None}
    BY <1>4 DEF Readings
  <2> QED BY <2>1, RecognisedTells
<1> HIDE DEF kind, checked
<1>8. r.found = kind /\ r.checked = checked /\ r.contents = "open" /\ r.lists = FALSE /\ r.picked
  BY DEF Looked
<1>9. /\ Satisfied(r) = "yes" => kind = "file" /\ checked = "verified"
      /\ Satisfied(r) = "no" => r.found = "missing"
  BY <1>6, <1>7, <1>8 DEF Satisfied
<1>10. Satisfied(r) = "yes" => SearchServes(stoodAt, Want)
  BY <1>3, <1>4, <1>7, <1>9 DEF SearchServes, ReadTold
<1>11. Satisfied(r) = "no" => Fails(stoodAt, Want, r)
  BY <1>8, <1>9 DEF Fails
<1>12. Satisfied(r) = "yes" => Serves(stoodAt, Want, r)
  BY <1>3, <1>10 DEF Serves
<1> QED
  BY <1>1, <1>2, <1>11, <1>12, ConcludesPick
-----------------------------------------------------------------------------
(* The wanted places are places a disk may have. *)
LEMMA PlacesAreKnown ==
  ASSUME NEW c \in Cores
  PROVE  WantedPlaces(c) \subseteq DOMAIN States
<1> SUFFICES ASSUME NEW q \in WantedPlaces(c) PROVE q \in DOMAIN States
  OBVIOUS
<1> DEFINE wanted == UNION {{c.wants[i].at} \union ToSet(c.wants[i].inside) : i \in DOMAIN c.wants}
<1>1. wanted \subseteq DOMAIN States
  <2> SUFFICES ASSUME NEW i \in DOMAIN c.wants, NEW p \in {c.wants[i].at} \union ToSet(c.wants[i].inside)
               PROVE  p \in DOMAIN States
    OBVIOUS
  <2>1. c.wants[i].at \in DOMAIN States /\ c.wants[i].inside \in Seq(DOMAIN States)
    BY WantsTyped
  <2> QED BY <2>1 DEF ToSet
<1>2. q \in wanted \/ \E p \in wanted : q = FolderOf[p] /\ q # None
  BY DEF WantedPlaces
<1> HIDE DEF wanted
<1>3. \A p \in wanted : FolderOf[p] \in DOMAIN States \union {None}
  BY <1>1, StatesAssumption
<1> QED
  BY <1>1, <1>2, <1>3

(* A disk of what may stand at each place shows one of the states there. *)
LEMMA ADiskShows ==
  ASSUME NEW c \in Cores, NEW d, \A p \in WantedPlaces(c) : d[p] \in States[p],
         NEW p \in WantedPlaces(c)
  PROVE  Stands(d, p) \in AllStates
<1>1. d[p] \in AllStates
  BY PlacesAreKnown, StatesAssumption
<1> QED
  BY <1>1 DEF Stands, AllStates

(* A question opens on a disk of its places. *)
LEMMA AskFirmwareStep ==
  ASSUME FirmwareTold, AskFirmware
  PROVE  FirmwareTold'
<1>1. /\ look = "idle" /\ core' \in Cores /\ verify' \in BOOLEAN /\ shelf' \in DisksFor(core')
      /\ stoodAt' = [p \in DOMAIN shelf' |-> {Stands(shelf', p)}]
      /\ look' = FirstLook(core', 1)
      /\ UNCHANGED <<shifts, turn, pending, kept, reads, partial, required, absent, verdict>>
  BY DEF AskFirmware
<1>2. /\ turn = 1 /\ NoLooks /\ required = {} /\ absent = {} /\ verdict = None
      /\ shifts \in 0..MaxShifts
  BY <1>1 DEF FirmwareTold
<1>3. Len(core'.wants) \in Nat /\ DOMAIN core'.wants = 1..Len(core'.wants)
  BY <1>1, CoresAssumption
<1>4. /\ DOMAIN shelf' = WantedPlaces(core')
      /\ \A p \in WantedPlaces(core') : shelf'[p] \in States[p]
  BY <1>1 DEF DisksFor
<1>5. DiskTold'
  <2>1. \A p \in WantedPlaces(core') : Stands(shelf', p) \in AllStates
    BY <1>1, <1>4, ADiskShows
  <2> QED
    BY <2>1, <1>1, <1>4 DEF DiskTold, DiskKept, There
<1>6. /\ 1 > Len(core'.wants) => look' = "weigh"
      /\ 1 <= Len(core'.wants) => look' \in {"list", "kind"}
      /\ look' = "list" <=> 1 <= Len(core'.wants) /\ core'.wants[1].route = "search"
      /\ look' \in {"list", "kind", "weigh"}
  BY <1>1, <1>3 DEF FirstLook
<1>7. TurnTold'
  <2>1. turn' = 1 /\ 1 \in 1..(Len(core'.wants) + 1)
    BY <1>1, <1>2, <1>3
  <2>2. look' \in LooksOfARoute <=> look' \in {"list", "kind"}
    BY <1>6 DEF LooksOfARoute
  <2>3. 1 <= Len(core'.wants) <=> look' \in {"list", "kind"}
    BY <1>3, <1>6
  <2> QED BY <2>1, <2>2, <2>3 DEF TurnTold
<1>8. LooksTold'
  <2>1. NoLooks'
    BY <1>1, <1>2 DEF NoLooks
  <2>2. look' \notin ListingLooks
    BY <1>6 DEF ListingLooks
  <2>3. look' \in LooksOfARoute => LookTold(stoodAt', core'.wants[1], look', verify')
    <3>1. ASSUME look' = "list" PROVE LookTold(stoodAt', core'.wants[1], "list", verify')
      <4>1. core'.wants[1].route = "search"
        BY <3>1, <1>6
      <4> QED BY <4>1 DEF LookTold, OfferLooks, ListingLooks, Listed
    <3>2. ASSUME look' = "kind" PROVE LookTold(stoodAt', core'.wants[1], "kind", verify')
      <4>1. core'.wants[1].route # "search"
        BY <3>2, <1>3, <1>6
      <4> QED BY <4>1 DEF LookTold, OfferLooks, ListingLooks
    <3> QED BY <3>1, <3>2, <1>6 DEF LooksOfARoute
  <2> QED
    BY <2>1, <2>2, <2>3, <1>1, <1>2 DEF LooksTold, Want
<1>9. StatedTold'
  <2>1. required' = {} /\ absent' = {} /\ turn' = 1
    BY <1>1, <1>2
  <2>2. \A i \in DOMAIN core'.wants : ~(i < 1)
    BY <1>3
  <2> QED BY <2>1, <2>2 DEF StatedTold
<1>10. VerdictTold'
  BY <1>1, <1>2, <1>6 DEF VerdictTold
<1> QED
  BY <1>1, <1>2, <1>5, <1>6, <1>7, <1>8, <1>9, <1>10 DEF FirmwareTold, AsksTold, LooksOfARoute

(* When the disk moves, what has stood has stood. *)
LEMMA ShiftStep ==
  ASSUME FirmwareTold, Shift
  PROVE  FirmwareTold'
<1>1. /\ look \notin {"idle", "weigh", "answered"} /\ shifts < MaxShifts /\ shifts' = shifts + 1
      /\ stoodAt' = [p \in DOMAIN shelf |-> stoodAt[p] \union {Stands(shelf', p)}]
      /\ UNCHANGED <<core, verify, turn, look, pending, kept, reads, partial, required, absent,
                     verdict>>
  BY DEF Shift
<1>2. AsksTold /\ look \in LooksOfARoute /\ shifts' \in 0..MaxShifts
  BY <1>1, ShiftsAssumption DEF FirmwareTold
<1>3. /\ core \in Cores /\ DOMAIN shelf = WantedPlaces(core) /\ DOMAIN stoodAt = WantedPlaces(core)
      /\ \A p \in WantedPlaces(core) : shelf[p] \in States[p] /\ stoodAt[p] \subseteq AllStates
  BY <1>2 DEF AsksTold, DiskTold, DiskKept
<1>4. DOMAIN shelf' = DOMAIN shelf /\ \A p \in WantedPlaces(core) : shelf'[p] \in States[p]
  BY <1>3 DEF Shift
<1>5. \A p \in WantedPlaces(core) : Stands(shelf', p) \in AllStates
  BY <1>3, <1>4, ADiskShows
<1>6. DiskTold'
  BY <1>1, <1>3, <1>4, <1>5 DEF DiskTold, DiskKept, There
<1>7. Grown(WantedPlaces(core), stoodAt, stoodAt')
  BY <1>1, <1>3 DEF Grown
<1>8. TurnTold'
  BY <1>1, <1>2 DEF AsksTold, TurnTold
<1>9. LooksTold'
  <2>1. /\ turn \in DOMAIN core.wants /\ Want = core.wants[turn] /\ Named(Want)
        /\ LookTold(stoodAt, Want, look, verify)
        /\ look \in ListingLooks => ListingTold(stoodAt, Want, look, pending, kept, reads, partial)
        /\ look \notin ListingLooks => NoLooks
    BY <1>2, AtAWant
  <2>2. Grown(Places(Want), stoodAt, stoodAt')
    BY <1>3, <1>7, <2>1, WantsPlaces DEF Grown
  <2>3. LookTold(stoodAt', Want, look, verify)
    BY <2>1, <2>2, LookStays
  <2>4. look \in ListingLooks => ListingTold(stoodAt', Want, look, pending, kept, reads, partial)
    BY <2>1, <2>2, ListingStays
  <2>5. Want' = Want /\ (look \notin ListingLooks => NoLooks')
    BY <1>1, <2>1 DEF Want, NoLooks
  <2>6. look' = look /\ verify' = verify /\ pending' = pending /\ kept' = kept /\ reads' = reads
        /\ partial' = partial
    BY <1>1
  <2>7. look' \in LooksOfARoute => LookTold(stoodAt', Want', look', verify')
    BY <2>3, <2>5, <2>6
  <2>8. look' \in ListingLooks =>
          ListingTold(stoodAt', Want', look', pending', kept', reads', partial')
    BY <2>4, <2>5, <2>6
  <2> QED
    BY <2>5, <2>6, <2>7, <2>8 DEF LooksTold
<1>10. StatedTold'
  <2>1. StatedTold
    BY <1>2 DEF AsksTold
  <2>2. \A r \in required : r.want < turn /\ Earned(core, stoodAt', r)
    BY <2>1, <1>3, <1>7, EarnedStays DEF StatedTold
  <2>3. \A s \in absent : Demonstrated(core, stoodAt', s)
    BY <2>1, <1>3, <1>7, DemonstratedStays DEF StatedTold
  <2> QED
    BY <2>1, <2>2, <2>3, <1>1 DEF StatedTold
<1>11. VerdictTold'
  BY <1>1, <1>2 DEF AsksTold, VerdictTold
<1> QED
  BY <1>1, <1>2, <1>6, <1>8, <1>9, <1>10, <1>11 DEF FirmwareTold, AsksTold

(* The answer is weighed from the emulator and what was stated alone. *)
LEMMA AnswerOfTheStated ==
  ASSUME UNCHANGED <<core, required, absent>>
  PROVE  Answer' = Answer
<1>1. core' = core /\ required' = required /\ absent' = absent
  OBVIOUS
<1>2. Options' = Options
  BY <1>1 DEF Options, WantOf
<1>3. WeighedOptions' = WeighedOptions
  BY <1>1, <1>2 DEF WeighedOptions, WantOf
<1>4. GroupSatisfied' = GroupSatisfied /\ HasGroup' = HasGroup
  BY <1>2, <1>3 DEF GroupSatisfied, HasGroup
<1>5. EntryVerdicts' = EntryVerdicts
  BY <1>1, <1>2, <1>4 DEF EntryVerdicts, WantOf
<1>6. SystemImageInPlace' = SystemImageInPlace
  BY <1>1 DEF SystemImageInPlace, SystemImageFor, WantOf
<1>7. RequirementsMet' = RequirementsMet
  BY <1>1, <1>5, <1>6 DEF RequirementsMet, Unjudged
<1>8. SystemFirmwareMet' = SystemFirmwareMet
  BY <1>1, <1>6 DEF SystemFirmwareMet, Unjudged
<1> QED
  BY <1>7, <1>8 DEF Answer

(* The answer is what was stated comes to. *)
LEMMA WeighStep ==
  ASSUME FirmwareTold, Weigh
  PROVE  FirmwareTold'
<1>1. /\ look = "weigh" /\ look' = "answered" /\ verdict' = Answer
      /\ UNCHANGED <<shelf, shifts, stoodAt, core, verify, turn, pending, kept, reads, partial,
                     required, absent>>
  BY DEF Weigh, Answer
<1>2. AsksTold
  BY <1>1 DEF FirmwareTold
<1>3. DiskTold'
  BY <1>1, <1>2 DEF AsksTold, DiskTold, DiskKept, There, Stands, WantedPlaces
<1>4. TurnTold'
  BY <1>1, <1>2 DEF AsksTold, TurnTold, LooksOfARoute
<1>5. LooksTold'
  BY <1>1, <1>2 DEF AsksTold, LooksTold, LooksOfARoute, ListingLooks, NoLooks
<1>6. StatedTold'
  BY <1>1, <1>2 DEF AsksTold, StatedTold
<1>7. VerdictTold'
  <2>1. Answer' = Answer
    BY <1>1, AnswerOfTheStated
  <2> QED BY <1>1, <2>1 DEF VerdictTold
<1> QED
  BY <1>1, <1>3, <1>4, <1>5, <1>6, <1>7 DEF FirmwareTold, AsksTold, LooksOfARoute

(* The next question starts anew. *)
LEMMA NextQuestionStep ==
  ASSUME FirmwareTold, NextFirmwareQuestion
  PROVE  FirmwareTold'
<1>1. /\ look = "answered" /\ look' = "idle" /\ shifts' = 0 /\ core' = None /\ verify' = FALSE
      /\ turn' = 1 /\ required' = {} /\ absent' = {} /\ verdict' = None
      /\ UNCHANGED <<pending, kept, reads, partial>>
  BY DEF NextFirmwareQuestion
<1>2. NoLooks
  BY <1>1 DEF FirmwareTold, AsksTold, LooksTold, ListingLooks
<1>3. NoLooks'
  BY <1>1, <1>2 DEF NoLooks
<1>4. 0 \in 0..MaxShifts
  BY ShiftsAssumption
<1> QED
  BY <1>1, <1>3, <1>4, Zenon DEF FirmwareTold

(* Nothing moves. *)
LEMMA FirmwareStutters ==
  ASSUME FirmwareTold, UNCHANGED firmwareVars
  PROVE  FirmwareTold'
<1>1. UNCHANGED <<shelf, shifts, stoodAt, core, verify, turn, look, pending, kept, reads, partial,
                  required, absent, verdict>>
  BY DEF firmwareVars
<1>2. CASE look = "idle"
  BY <1>1, <1>2 DEF FirmwareTold, NoLooks
<1>3. CASE look # "idle"
  <2>1. AsksTold
    BY <1>3 DEF FirmwareTold
  <2>2. DiskTold'
    BY <1>1, <2>1 DEF AsksTold, DiskTold, DiskKept, There, Stands, WantedPlaces
  <2>3. TurnTold' /\ StatedTold'
    BY <1>1, <2>1 DEF AsksTold, TurnTold, StatedTold
  <2>4. LooksTold'
    BY <1>1, <2>1 DEF AsksTold, LooksTold, NoLooks, Want
  <2>5. VerdictTold'
    BY <1>1, <2>1, AnswerOfTheStated DEF AsksTold, VerdictTold
  <2> QED
    BY <1>1, <1>3, <2>2, <2>3, <2>4, <2>5 DEF FirmwareTold, AsksTold
<1> QED BY <1>2, <1>3

(* All that was said so far was told by what stood there. *)
THEOREM FirmwareToldHolds == FirmwareSpec => []FirmwareTold
<1>1. FirmwareInit => FirmwareTold
  <2>1. 0 \in 0..MaxShifts
    BY ShiftsAssumption
  <2> QED
    BY <2>1, Zenon DEF FirmwareInit, FirmwareTold
<1>2. FirmwareTold /\ [FirmwareNext]_firmwareVars => FirmwareTold'
  <2> SUFFICES ASSUME FirmwareTold, [FirmwareNext]_firmwareVars PROVE FirmwareTold'
    OBVIOUS
  <2>1. CASE UNCHANGED firmwareVars
    BY <2>1, FirmwareStutters
  <2>2. CASE AskFirmware \/ Shift \/ Weigh \/ NextFirmwareQuestion
    BY <2>2, AskFirmwareStep, ShiftStep, WeighStep, NextQuestionStep
  <2>3. CASE ObserveKind \/ ObserveSize \/ ObserveDigest \/ ImageGate \/ ImageDigest
    BY <2>3, ObserveKindStep, ObserveSizeStep, ObserveDigestStep, ImageGateStep, ImageDigestStep
  <2>4. CASE OfferKind \/ OfferSize \/ OfferHeader \/ StillThere \/ ConfiguredKind \/ ConfiguredDigest
    BY <2>4, OfferKindStep, OfferSizeStep, OfferHeaderStep, StillThereStep, ConfiguredKindStep,
       ConfiguredDigestStep
  <2>5. CASE ListFolder \/ SizeUp \/ EndListing \/ ReadDigest \/ ReadHeader \/ DirectoryIdentified
             \/ PickImage \/ FoundImage
    BY <2>5, ListFolderStep, SizeUpStep, EndListingStep, ReadDigestStep, ReadHeaderStep,
       DirectoryIdentifiedStep, PickImageStep, FoundImageStep
  <2> QED
    BY <2>1, <2>2, <2>3, <2>4, <2>5 DEF FirmwareNext
<1> QED
  BY <1>1, <1>2, PTL DEF FirmwareSpec
-----------------------------------------------------------------------------
(* Once the question is answered: what stood on the disk, and what is stated.  *)
LEMMA AtTheAnswer ==
  ASSUME FirmwareTold, look = "answered"
  PROVE  /\ core \in Cores
         /\ DOMAIN shelf = WantedPlaces(core)
         /\ \A p \in WantedPlaces(core) : There(p) \in stoodAt[p] /\ stoodAt[p] \subseteq AllStates
         /\ \A r \in required : r.want \in DOMAIN core.wants /\ Earned(core, stoodAt, r)
         /\ \A i \in DOMAIN core.wants :
              core.wants[i].route # "search" => \E r \in required : r.want = i
         /\ \A s \in absent : Demonstrated(core, stoodAt, s)
         /\ verdict = Answer
<1>1. AsksTold
  BY DEF FirmwareTold
<1>2. /\ core \in Cores /\ DOMAIN shelf = WantedPlaces(core)
      /\ \A p \in WantedPlaces(core) : There(p) \in stoodAt[p] /\ stoodAt[p] \subseteq AllStates
  BY <1>1 DEF AsksTold, DiskTold, DiskKept
<1>3. Len(core.wants) \in Nat /\ DOMAIN core.wants = 1..Len(core.wants)
  BY <1>2, CoresAssumption
<1>4. turn = Len(core.wants) + 1
  BY <1>1, <1>3 DEF AsksTold, TurnTold, LooksOfARoute
<1>5. \A r \in required : Earned(core, stoodAt, r)
  BY <1>1 DEF AsksTold, StatedTold
<1>6. \A i \in DOMAIN core.wants : i < turn
  BY <1>3, <1>4
<1>7. \A i \in DOMAIN core.wants : core.wants[i].route # "search" => \E r \in required : r.want = i
  BY <1>1, <1>6 DEF AsksTold, StatedTold
<1>8. \A s \in absent : Demonstrated(core, stoodAt, s)
  BY <1>1 DEF AsksTold, StatedTold
<1>9. verdict = Answer
  BY <1>1 DEF AsksTold, VerdictTold
<1> QED
  BY <1>2, <1>5, <1>7, <1>8, <1>9 DEF Earned

(* Any wish for each place that was met there at some time is met at one       *)
(* moment.                                                                   *)
LEMMA SomeMoment ==
  ASSUME FirmwareTold, look = "answered", NEW W
  PROVE  \E m \in Moments : \A p \in WantedPlaces(core) :
           m[p] \in AllStates /\ (HasStood(stoodAt, p, W[p]) => m[p] \in W[p])
<1> DEFINE m == [p \in DOMAIN shelf |->
                   IF HasStood(stoodAt, p, W[p]) THEN CHOOSE s \in stoodAt[p] : s \in W[p]
                   ELSE There(p)]
<1>1. /\ DOMAIN shelf = WantedPlaces(core)
      /\ \A p \in WantedPlaces(core) : There(p) \in stoodAt[p] /\ stoodAt[p] \subseteq AllStates
  BY AtTheAnswer
<1>2. \A p \in DOMAIN shelf : m[p] \in stoodAt[p] /\ (HasStood(stoodAt, p, W[p]) => m[p] \in W[p])
  <2> SUFFICES ASSUME NEW p \in DOMAIN shelf
               PROVE  m[p] \in stoodAt[p] /\ (HasStood(stoodAt, p, W[p]) => m[p] \in W[p])
    OBVIOUS
  <2>1. CASE HasStood(stoodAt, p, W[p])
    <3>1. m[p] = CHOOSE s \in stoodAt[p] : s \in W[p]
      BY <2>1
    <3>2. \E s \in stoodAt[p] : s \in W[p]
      BY <2>1 DEF HasStood
    <3> QED BY <3>1, <3>2
  <2>2. CASE ~HasStood(stoodAt, p, W[p])
    BY <2>2, <1>1
  <2> QED BY <2>1, <2>2
<1>3. m \in [DOMAIN shelf -> AllStates]
  BY <1>1, <1>2
<1>4. m \in Moments
  BY <1>2, <1>3 DEF Moments
<1> QED
  BY <1>1, <1>2, <1>3, <1>4

(* The places a core wants, told apart: a folder is not among its own files. *)
LEMMA AFolderIsOutside ==
  ASSUME NEW c \in Cores, NEW i \in DOMAIN c.wants
  PROVE  /\ c.wants[i].at \in WantedPlaces(c) /\ c.wants[i].at \notin ToSet(c.wants[i].inside)
         /\ ToSet(c.wants[i].inside) \subseteq WantedPlaces(c)
         /\ c.wants[i].named # None => c.wants[i].named \in ToSet(c.wants[i].inside)
<1>1. Places(c.wants[i]) \subseteq WantedPlaces(c)
  BY WantsPlaces
<1>2. /\ c.wants[i].at \in DOMAIN States /\ c.wants[i].inside \in Seq(DOMAIN States)
      /\ \A p \in ToSet(c.wants[i].inside) : FolderOf[p] = c.wants[i].at
      /\ Named(c.wants[i])
  BY WantsTyped
<1>3. ASSUME c.wants[i].at \in ToSet(c.wants[i].inside) PROVE FALSE
  <2>1. FolderOf[c.wants[i].at] = c.wants[i].at
    BY <1>2, <1>3
  <2> QED BY <2>1, <1>2, StatesAssumption
<1> QED
  BY <1>1, <1>2, <1>3 DEF Places, Named

(* A listed folder that holds nothing of use at a moment is of no use then. *)
LEMMA AmongNothing ==
  ASSUME NEW w, NEW m, NEW good, NEW doubtful,
         \/ m[w.at] \in Files \union {"missing"}
         \/ /\ m[w.at] = "dir"
            /\ \A p \in ToSet(w.inside) : m[p] \notin good \union doubtful
  PROVE  Among(w, m, good, doubtful) = {FALSE}
<1>1. CASE m[w.at] \in Files \union {"missing"}
  BY <1>1 DEF Among
<1>2. CASE /\ m[w.at] = "dir"
           /\ \A p \in ToSet(w.inside) : m[p] \notin good \union doubtful
  <2>1. m[w.at] \notin Files \union {"missing"}
    BY <1>2 DEF Files
  <2>2. {m[p] : p \in ToSet(w.inside)} \intersect good = {}
        /\ {m[p] : p \in ToSet(w.inside)} \intersect doubtful = {}
    BY <1>2
  <2> QED BY <1>2, <2>1, <2>2 DEF Among
<1> QED BY <1>1, <1>2

(* One that holds something good is of use. *)
LEMMA AmongSomething ==
  ASSUME NEW w, NEW m, NEW good, NEW doubtful, m[w.at] = "dir",
         NEW p \in ToSet(w.inside), m[p] \in good
  PROVE  Among(w, m, good, doubtful) = {TRUE}
<1>1. m[w.at] \notin Files \union {"missing"}
  BY DEF Files
<1>2. {m[q] : q \in ToSet(w.inside)} \intersect good # {}
  OBVIOUS
<1> QED BY <1>1, <1>2 DEF Among

(* A folder that fails does so at one moment: it was none, or none of its      *)
(* files had what the core would take.                                       *)
LEMMA AFolderFailsOnce ==
  ASSUME FirmwareTold, look = "answered", NEW i \in DOMAIN core.wants,
         core.wants[i].route = "folder", FolderFails(stoodAt, core.wants[i])
  PROVE  \E m \in Moments : Worths(core.wants[i], m) = {FALSE}
<1> DEFINE w == core.wants[i]
           W == [p \in WantedPlaces(core) |->
                   IF p = w.at THEN IF NoFolder(stoodAt, w) THEN Files \union {"missing"} ELSE {"dir"}
                   ELSE IF p = w.named THEN NotOffered ELSE NoImage]
<1>1. core \in Cores
  BY AtTheAnswer
<1>2. /\ w.at \in WantedPlaces(core) /\ w.at \notin ToSet(w.inside)
      /\ ToSet(w.inside) \subseteq WantedPlaces(core)
      /\ w.named # None => w.named \in ToSet(w.inside)
  BY <1>1, AFolderIsOutside
<1>3. PICK m \in Moments : \A p \in WantedPlaces(core) :
        m[p] \in AllStates /\ (HasStood(stoodAt, p, W[p]) => m[p] \in W[p])
  BY SomeMoment
<1>4. NotTaken(stoodAt, w)
  BY DEF FolderFails
<1> HIDE DEF w
<1>5. w.named # None => m[w.named] \in NotOffered
  <2> SUFFICES ASSUME w.named # None PROVE m[w.named] \in NotOffered
    OBVIOUS
  <2>1. w.named \in WantedPlaces(core) /\ w.named # w.at /\ W[w.named] = NotOffered
    BY <1>2
  <2>2. HasStood(stoodAt, w.named, NotOffered)
    BY <1>4 DEF NotTaken
  <2> QED BY <2>1, <2>2, <1>3
<1>6. \/ m[w.at] \in Files \union {"missing"}
      \/ /\ m[w.at] = "dir"
         /\ \A p \in ToSet(w.inside) : m[p] \notin {"known", "unlisted"} \union {"locked"}
  <2>1. CASE NoFolder(stoodAt, w)
    <3>1. W[w.at] = Files \union {"missing"}
      BY <2>1, <1>2
    <3>2. HasStood(stoodAt, w.at, W[w.at])
      BY <2>1, <3>1 DEF NoFolder
    <3> QED BY <3>1, <3>2, <1>2, <1>3
  <2>2. CASE ~NoFolder(stoodAt, w)
    <3>1. /\ HasStood(stoodAt, w.at, {"dir"}) /\ W[w.at] = {"dir"}
          /\ \A p \in ToSet(w.inside) : p # w.named => HasStood(stoodAt, p, NoImage)
      BY <2>2, <1>2 DEF FolderFails, w
    <3>2. m[w.at] = "dir"
      <4>1. m[w.at] \in {"dir"}
        BY <3>1, <1>2, <1>3
      <4> QED BY <4>1
    <3>3. \A p \in ToSet(w.inside) : m[p] \notin {"known", "unlisted"} \union {"locked"}
      <4> SUFFICES ASSUME NEW p \in ToSet(w.inside)
                   PROVE  m[p] \notin {"known", "unlisted"} \union {"locked"}
        OBVIOUS
      <4>1. CASE p = w.named
        <5>1. w.named # None
          <6>1. p \in DOMAIN States
            BY <1>1, <1>2, PlacesAreKnown
          <6> QED BY <6>1, <4>1, StatesAssumption
        <5> QED BY <5>1, <4>1, <1>5 DEF NotOffered, NoBios, FolderStates
      <4>2. CASE p # w.named
        <5>1. HasStood(stoodAt, p, NoImage) /\ W[p] = NoImage /\ p \in WantedPlaces(core)
          BY <4>2, <3>1, <1>2
        <5>2. m[p] \in NoImage
          BY <5>1, <1>3
        <5> QED BY <5>2 DEF NoImage, Image
      <4> QED BY <4>1, <4>2
    <3> QED BY <3>2, <3>3
  <2> QED BY <2>1, <2>2
<1>7. Among(w, m, {"known", "unlisted"}, {"locked"}) = {FALSE}
  BY <1>6, AmongNothing
<1>8. ~(w.named # None /\ m[w.named] \in {"known", "unlisted", "locked", "hidden"})
  BY <1>5 DEF NotOffered, NoBios, FolderStates
<1>9. Worths(w, m) = {FALSE}
  BY <1>7, <1>8 DEF Worths, FolderWorths, w
<1> QED BY <1>3, <1>9 DEF w

(* So does a search's folder. *)
LEMMA ASearchFailsOnce ==
  ASSUME FirmwareTold, look = "answered", NEW i \in DOMAIN core.wants,
         core.wants[i].route = "search", SearchFails(stoodAt, core.wants[i])
  PROVE  \E m \in Moments : Worths(core.wants[i], m) = {FALSE}
<1> DEFINE w == core.wants[i]
           W == [p \in WantedPlaces(core) |->
                   IF p = w.at THEN IF NoFolder(stoodAt, w) THEN Files \union {"missing"} ELSE {"dir"}
                   ELSE NoCandidate]
<1>1. core \in Cores
  BY AtTheAnswer
<1>2. /\ w.at \in WantedPlaces(core) /\ w.at \notin ToSet(w.inside)
      /\ ToSet(w.inside) \subseteq WantedPlaces(core)
  BY <1>1, AFolderIsOutside
<1>3. PICK m \in Moments : \A p \in WantedPlaces(core) :
        m[p] \in AllStates /\ (HasStood(stoodAt, p, W[p]) => m[p] \in W[p])
  BY SomeMoment
<1> HIDE DEF w
<1>4. \/ m[w.at] \in Files \union {"missing"}
      \/ /\ m[w.at] = "dir"
         /\ \A p \in ToSet(w.inside) :
              m[p] \notin {"known", "denied"} \union {"unlisted", "other", "locked"}
  <2>1. CASE NoFolder(stoodAt, w)
    <3>1. W[w.at] = Files \union {"missing"}
      BY <2>1, <1>2
    <3>2. HasStood(stoodAt, w.at, W[w.at])
      BY <2>1, <3>1 DEF NoFolder
    <3> QED BY <3>1, <3>2, <1>2, <1>3
  <2>2. CASE ~NoFolder(stoodAt, w)
    <3>1. /\ HasStood(stoodAt, w.at, {"dir"}) /\ W[w.at] = {"dir"}
          /\ \A p \in ToSet(w.inside) : HasStood(stoodAt, p, NoCandidate)
      BY <2>2, <1>2 DEF SearchFails, w
    <3>2. m[w.at] = "dir"
      <4>1. m[w.at] \in {"dir"}
        BY <3>1, <1>2, <1>3
      <4> QED BY <4>1
    <3>3. \A p \in ToSet(w.inside) : m[p] \in NoCandidate
      <4> SUFFICES ASSUME NEW p \in ToSet(w.inside) PROVE m[p] \in NoCandidate
        OBVIOUS
      <4>1. HasStood(stoodAt, p, NoCandidate) /\ W[p] = NoCandidate /\ p \in WantedPlaces(core)
        BY <3>1, <1>2
      <4> QED BY <4>1, <1>3
    <3> QED BY <3>2, <3>3 DEF NoCandidate, Files
  <2> QED BY <2>1, <2>2
<1>5. Among(w, m, {"known", "denied"}, {"unlisted", "other", "locked"}) = {FALSE}
  BY <1>4, AmongNothing
<1>6. Worths(w, m) = {FALSE}
  BY <1>5 DEF Worths, SearchWorths, w
<1> QED BY <1>3, <1>6 DEF w

(* Files and keys that fail do so together: the worst that stood at each of    *)
(* their places fails every one of them that is wanted there.                *)
LEMMA FilesFailTogether ==
  ASSUME FirmwareTold, look = "answered"
  PROVE  \E m \in Moments : \A i \in DOMAIN core.wants :
           \/ /\ core.wants[i].route = "file"
              /\ HasStood(stoodAt, core.wants[i].at, Amiss(core.wants[i]))
           \/ /\ core.wants[i].route = "key"
              /\ HasStood(stoodAt, core.wants[i].at, {"missing", "short"})
           => Worths(core.wants[i], m) = {FALSE}
<1> DEFINE W == [p \in WantedPlaces(core) |->
                   IF HasStood(stoodAt, p, {"missing"}) THEN {"missing"}
                   ELSE IF HasStood(stoodAt, p, {"short"}) THEN {"short"}
                   ELSE {"other", "unlisted"}]
<1>1. core \in Cores
  BY AtTheAnswer
<1>2. PICK m \in Moments : \A p \in WantedPlaces(core) :
        m[p] \in AllStates /\ (HasStood(stoodAt, p, W[p]) => m[p] \in W[p])
  BY SomeMoment
<1>3. \A p \in WantedPlaces(core) :
        /\ HasStood(stoodAt, p, {"missing"}) => m[p] = "missing"
        /\ ~HasStood(stoodAt, p, {"missing"}) /\ HasStood(stoodAt, p, {"short"}) => m[p] = "short"
        /\ HasStood(stoodAt, p, {"missing", "short"}) => m[p] \in {"missing", "short"}
        /\ HasStood(stoodAt, p, {"missing", "short", "other", "unlisted"}) =>
             m[p] \in {"missing", "short", "other", "unlisted"}
  <2> SUFFICES ASSUME NEW p \in WantedPlaces(core)
               PROVE  /\ HasStood(stoodAt, p, {"missing"}) => m[p] = "missing"
                      /\ ~HasStood(stoodAt, p, {"missing"}) /\ HasStood(stoodAt, p, {"short"}) =>
                           m[p] = "short"
                      /\ HasStood(stoodAt, p, {"missing", "short"}) => m[p] \in {"missing", "short"}
                      /\ HasStood(stoodAt, p, {"missing", "short", "other", "unlisted"}) =>
                           m[p] \in {"missing", "short", "other", "unlisted"}
    OBVIOUS
  <2>1. HasStood(stoodAt, p, {"missing", "short"}) =>
          HasStood(stoodAt, p, {"missing"}) \/ HasStood(stoodAt, p, {"short"})
    BY DEF HasStood
  <2>2. HasStood(stoodAt, p, {"missing", "short", "other", "unlisted"}) =>
          \/ HasStood(stoodAt, p, {"missing"}) \/ HasStood(stoodAt, p, {"short"})
          \/ HasStood(stoodAt, p, {"other", "unlisted"})
    BY DEF HasStood
  <2>3. CASE HasStood(stoodAt, p, {"missing"})
    <3>1. W[p] = {"missing"}
      BY <2>3
    <3>2. m[p] \in {"missing"}
      BY <2>3, <3>1, <1>2
    <3> QED BY <2>3, <3>2
  <2>4. CASE ~HasStood(stoodAt, p, {"missing"}) /\ HasStood(stoodAt, p, {"short"})
    <3>1. W[p] = {"short"}
      BY <2>4
    <3>2. m[p] \in {"short"}
      BY <2>4, <3>1, <1>2
    <3> QED BY <2>4, <3>2
  <2>5. CASE ~HasStood(stoodAt, p, {"missing"}) /\ ~HasStood(stoodAt, p, {"short"})
    <3>1. W[p] = {"other", "unlisted"}
      BY <2>5
    <3>2. HasStood(stoodAt, p, {"other", "unlisted"}) => m[p] \in {"other", "unlisted"}
      BY <3>1, <1>2
    <3> QED BY <2>5, <3>2, <2>1, <2>2
  <2> QED BY <2>3, <2>4, <2>5
<1>4. ASSUME NEW i \in DOMAIN core.wants, core.wants[i].route = "file",
             HasStood(stoodAt, core.wants[i].at, Amiss(core.wants[i]))
      PROVE  Worths(core.wants[i], m) = {FALSE}
  <2> DEFINE w == core.wants[i]
  <2>1. w.at \in WantedPlaces(core) /\ w.pins \in {None, "dump", "archive"}
    BY <1>1, WantsTyped, AFolderIsOutside
  <2>2. CASE w.pins = "dump"
    <3>1. Amiss(w) = {"missing", "short", "other", "unlisted"}
      BY <2>2 DEF Amiss
    <3>2. m[w.at] \in {"missing", "short", "other", "unlisted"}
      BY <2>1, <3>1, <1>3, <1>4
    <3>3. w.pins # None
      BY <2>2, StatesAssumption
    <3> QED BY <3>2, <3>3, <2>2, <1>4 DEF Worths, FileWorths, Judged
  <2>3. CASE w.pins # "dump"
    <3>1. Amiss(w) = {"missing"}
      BY <2>3 DEF Amiss
    <3>2. m[w.at] = "missing"
      BY <2>1, <3>1, <1>3, <1>4
    <3> QED BY <3>2, <2>3, <1>4 DEF Worths, FileWorths, Judged, Files
  <2> QED BY <2>2, <2>3
<1>5. ASSUME NEW i \in DOMAIN core.wants, core.wants[i].route = "key",
             HasStood(stoodAt, core.wants[i].at, {"missing", "short"})
      PROVE  Worths(core.wants[i], m) = {FALSE}
  <2>1. core.wants[i].at \in WantedPlaces(core)
    BY <1>1, AFolderIsOutside
  <2>2. m[core.wants[i].at] \in {"missing", "short"}
    BY <2>1, <1>3, <1>5
  <2> QED BY <2>2, <1>5 DEF Worths, KeyWorths, Judged
<1> QED BY <1>2, <1>4, <1>5
-----------------------------------------------------------------------------
(* Nothing else is wanted beside a folder, or beside a search for any image.   *)
LEMMA WantedAlone ==
  ASSUME NEW c \in Cores, NEW i \in DOMAIN c.wants,
         c.wants[i].route = "folder" \/ (c.wants[i].route = "search" /\ c.wants[i].regions = None)
  PROVE  DOMAIN c.wants = {i}
<1> SUFFICES ASSUME NEW j \in DOMAIN c.wants PROVE i = j
  OBVIOUS
<1> QED
  BY EntriesAssumption

(* Where no pick was lost, a requirement that says no is of a file, a key or a *)
(* folder, and that failed.                                                  *)
LEMMA ANoIsAFailure ==
  ASSUME FirmwareTold, look = "answered", ~LostPick, NEW r \in required, Satisfied(r) = "no"
  PROVE  \/ /\ WantOf(r).route = "file" /\ HasStood(stoodAt, WantOf(r).at, Amiss(WantOf(r)))
         \/ /\ WantOf(r).route = "key" /\ HasStood(stoodAt, WantOf(r).at, {"missing", "short"})
         \/ WantOf(r).route = "folder" /\ FolderFails(stoodAt, WantOf(r))
<1>1. Fails(stoodAt, WantOf(r), r)
  BY AtTheAnswer DEF Earned, WantOf
<1>2. ~(r.picked /\ r.found = "missing")
  BY DEF LostPick
<1> QED
  BY <1>1, <1>2 DEF Fails

(* All that says no fails at one moment, and so does the search that           *)
(* demonstrated an absence.                                                  *)
LEMMA OneMomentFails ==
  ASSUME FirmwareTold, look = "answered", ~LostPick
  PROVE  \E m \in Moments :
           /\ \A r \in required : Satisfied(r) = "no" => Worths(WantOf(r), m) = {FALSE}
           /\ \A i \in DOMAIN core.wants :
                /\ core.wants[i].route = "search" /\ core.wants[i].regions = None
                /\ SearchFails(stoodAt, core.wants[i])
                => Worths(core.wants[i], m) = {FALSE}
<1>1. core \in Cores /\ \A r \in required : r.want \in DOMAIN core.wants
  BY AtTheAnswer
<1>2. CASE \E i \in DOMAIN core.wants : core.wants[i].route = "folder"
  <2>1. PICK i \in DOMAIN core.wants : core.wants[i].route = "folder"
    BY <1>2
  <2>2. DOMAIN core.wants = {i}
    BY <1>1, <2>1, WantedAlone
  <2>3. \A r \in required : WantOf(r) = core.wants[i]
    BY <1>1, <2>2 DEF WantOf
  <2>4. CASE FolderFails(stoodAt, core.wants[i])
    <3>1. PICK m \in Moments : Worths(core.wants[i], m) = {FALSE}
      BY <2>1, <2>4, AFolderFailsOnce
    <3> QED BY <3>1, <2>1, <2>2, <2>3
  <2>5. CASE ~FolderFails(stoodAt, core.wants[i])
    <3>1. \A r \in required : Satisfied(r) # "no"
      BY <2>1, <2>3, <2>5, ANoIsAFailure
    <3>2. PICK m \in Moments : TRUE
      BY SomeMoment
    <3> QED BY <3>1, <3>2, <2>1, <2>2
  <2> QED BY <2>4, <2>5
<1>3. CASE \E i \in DOMAIN core.wants : core.wants[i].route = "search" /\ core.wants[i].regions = None
  <2>1. PICK i \in DOMAIN core.wants : core.wants[i].route = "search" /\ core.wants[i].regions = None
    BY <1>3
  <2>2. DOMAIN core.wants = {i}
    BY <1>1, <2>1, WantedAlone
  <2>3. \A r \in required : WantOf(r) = core.wants[i]
    BY <1>1, <2>2 DEF WantOf
  <2>4. \A r \in required : Satisfied(r) # "no"
    BY <2>1, <2>3, ANoIsAFailure
  <2>5. CASE SearchFails(stoodAt, core.wants[i])
    <3>1. PICK m \in Moments : Worths(core.wants[i], m) = {FALSE}
      BY <2>1, <2>5, ASearchFailsOnce
    <3> QED BY <3>1, <2>2, <2>4
  <2>6. CASE ~SearchFails(stoodAt, core.wants[i])
    <3>1. PICK m \in Moments : TRUE
      BY SomeMoment
    <3> QED BY <3>1, <2>2, <2>4, <2>6
  <2> QED BY <2>5, <2>6
<1>4. CASE /\ ~\E i \in DOMAIN core.wants : core.wants[i].route = "folder"
           /\ ~\E i \in DOMAIN core.wants : core.wants[i].route = "search" /\ core.wants[i].regions = None
  <2>1. PICK m \in Moments : \A i \in DOMAIN core.wants :
           \/ /\ core.wants[i].route = "file"
              /\ HasStood(stoodAt, core.wants[i].at, Amiss(core.wants[i]))
           \/ /\ core.wants[i].route = "key"
              /\ HasStood(stoodAt, core.wants[i].at, {"missing", "short"})
           => Worths(core.wants[i], m) = {FALSE}
    BY FilesFailTogether
  <2>2. \A r \in required : Satisfied(r) = "no" => Worths(WantOf(r), m) = {FALSE}
    <3> SUFFICES ASSUME NEW r \in required, Satisfied(r) = "no"
                 PROVE  Worths(WantOf(r), m) = {FALSE}
      OBVIOUS
    <3>1. WantOf(r) = core.wants[r.want] /\ r.want \in DOMAIN core.wants
      BY <1>1 DEF WantOf
    <3> QED BY <3>1, <2>1, <1>4, ANoIsAFailure
  <2> QED BY <2>1, <2>2, <1>4
<1> QED BY <1>2, <1>3, <1>4

(* All that says yes serves at one moment.                                    *)
LEMMA OneMomentServes ==
  ASSUME FirmwareTold, look = "answered", ~LostPick, ~UnreadKey
  PROVE  \E m \in Moments :
           \A r \in required : Satisfied(r) = "yes" => Worths(WantOf(r), m) = {TRUE}
<1>1. /\ core \in Cores /\ \A r \in required : r.want \in DOMAIN core.wants
      /\ \A r \in required : Satisfied(r) = "yes" => Serves(stoodAt, WantOf(r), r)
  BY AtTheAnswer DEF Earned, WantOf
<1>2. CASE \E i \in DOMAIN core.wants : core.wants[i].route = "folder"
  <2>1. PICK i \in DOMAIN core.wants : core.wants[i].route = "folder"
    BY <1>2
  <2> DEFINE w == core.wants[i]
  <2>2. DOMAIN core.wants = {i}
    BY <1>1, <2>1, WantedAlone
  <2>3. \A r \in required : WantOf(r) = w
    BY <1>1, <2>2 DEF WantOf
  <2>4. /\ w.at \in WantedPlaces(core) /\ w.at \notin ToSet(w.inside)
        /\ ToSet(w.inside) \subseteq WantedPlaces(core)
        /\ w.named # None => w.named \in ToSet(w.inside)
    BY <1>1, AFolderIsOutside
  <2> HIDE DEF w
  <2>5. CASE \E r \in required : r.picked /\ Satisfied(r) = "yes"
    <3>1. PICK r \in required : r.picked /\ Satisfied(r) = "yes"
      BY <2>5
    <3>2. PickServes(stoodAt, w)
      BY <3>1, <1>1, <2>1, <2>3 DEF Serves, w
    <3>3. w.named # None /\ w.named \in WantedPlaces(core)
      BY <3>2, <2>4 DEF PickServes
    <3>4. stoodAt[w.named] = {There(w.named)}
      BY <3>1, <3>3, <2>3 DEF LostPick
    <3>5. There(w.named) = "known"
      BY <3>2, <3>4 DEF PickServes, HasStood, Known, NoBios
    <3>6. PICK m \in Moments : TRUE
      BY SomeMoment
    <3>7. m[w.named] = "known"
      BY <3>3, <3>4, <3>5, <3>6, AtTheAnswer DEF Moments
    <3>8. Worths(w, m) = {TRUE}
      BY <3>3, <3>7, <2>1 DEF Worths, FolderWorths, Judged, w
    <3> QED BY <3>6, <3>8, <2>3
  <2>6. CASE \E r \in required : ~r.picked /\ Satisfied(r) = "yes"
    <3>1. FolderServes(stoodAt, w)
      BY <2>6, <1>1, <2>1, <2>3 DEF Serves, w
    <3>2. PICK p \in ToSet(w.inside) : HasStood(stoodAt, p, Image)
      BY <3>1 DEF FolderServes
    <3> DEFINE W == [q \in WantedPlaces(core) |->
                       IF q = w.at THEN {"dir"} ELSE IF q = p THEN Image ELSE NotOffered]
    <3>3. PICK m \in Moments : \A q \in WantedPlaces(core) :
            m[q] \in AllStates /\ (HasStood(stoodAt, q, W[q]) => m[q] \in W[q])
      BY SomeMoment
    <3>4. m[w.at] = "dir"
      <4>1. W[w.at] = {"dir"}
        BY <2>4
      <4>2. m[w.at] \in {"dir"}
        BY <4>1, <3>1, <3>3, <2>4 DEF FolderServes
      <4> QED BY <4>2
    <3>5. m[p] \in {"known", "unlisted"}
      <4>1. W[p] = Image /\ p \in WantedPlaces(core)
        BY <2>4
      <4>2. m[p] \in Image
        BY <4>1, <3>2, <3>3
      <4> QED BY <4>2 DEF Image
    <3>6. Among(w, m, {"known", "unlisted"}, {"locked"}) = {TRUE}
      BY <3>4, <3>5, AmongSomething
    <3>7. CASE w.named = p
      <4>1. w.named # None
        <5>1. p \in DOMAIN States
          BY <1>1, <2>4, PlacesAreKnown
        <5> QED BY <5>1, <3>7, StatesAssumption
      <4>2. Worths(w, m) = {TRUE}
        BY <4>1, <3>5, <3>7, <2>1 DEF Worths, FolderWorths, Judged, w
      <4> QED BY <4>2, <2>3
    <3>8. CASE w.named # p
      <4>1. ~(w.named # None /\ m[w.named] \in {"known", "unlisted", "locked", "hidden"})
        <5> SUFFICES ASSUME w.named # None
                     PROVE  m[w.named] \notin {"known", "unlisted", "locked", "hidden"}
          OBVIOUS
        <5>1. w.named \in WantedPlaces(core) /\ w.named # w.at /\ W[w.named] = NotOffered
          BY <2>4, <3>8
        <5>2. m[w.named] \in NotOffered
          BY <5>1, <3>1, <3>3 DEF FolderServes, NotTaken
        <5> QED BY <5>2 DEF NotOffered, NoBios, FolderStates
      <4>2. Worths(w, m) = {TRUE}
        BY <4>1, <3>6, <2>1 DEF Worths, FolderWorths, w
      <4> QED BY <4>2, <2>3
    <3> QED BY <3>7, <3>8
  <2>7. CASE ~\E r \in required : Satisfied(r) = "yes"
    <3>1. PICK m \in Moments : TRUE
      BY SomeMoment
    <3> QED BY <3>1, <2>7
  <2> QED BY <2>5, <2>6, <2>7
<1>3. CASE ~\E i \in DOMAIN core.wants : core.wants[i].route = "folder"
  <2> DEFINE folders == {core.wants[i].at : i \in {j \in DOMAIN core.wants : core.wants[j].route = "search"}}
             W == [p \in WantedPlaces(core) |->
                     IF p \in folders THEN {"dir"}
                     ELSE IF HasStood(stoodAt, p, Known) THEN Known ELSE Files]
  <2>1. PICK m \in Moments : \A p \in WantedPlaces(core) :
          m[p] \in AllStates /\ (HasStood(stoodAt, p, W[p]) => m[p] \in W[p])
    BY SomeMoment
  <2>2. \A p \in WantedPlaces(core) \ folders :
          /\ HasStood(stoodAt, p, Known) => m[p] \in Known
          /\ HasStood(stoodAt, p, Files) => m[p] \in Files
    <3> SUFFICES ASSUME NEW p \in WantedPlaces(core) \ folders
                 PROVE  /\ HasStood(stoodAt, p, Known) => m[p] \in Known
                        /\ HasStood(stoodAt, p, Files) => m[p] \in Files
      OBVIOUS
    <3>1. CASE HasStood(stoodAt, p, Known)
      <4>1. W[p] = Known
        BY <3>1
      <4>2. m[p] \in Known
        BY <4>1, <3>1, <2>1
      <4> QED BY <4>2 DEF Known, Files
    <3>2. CASE ~HasStood(stoodAt, p, Known)
      <4>1. W[p] = Files
        BY <3>2
      <4> QED BY <4>1, <3>2, <2>1
    <3> QED BY <3>1, <3>2
  <2>3. \A p \in WantedPlaces(core) : p \in folders /\ HasStood(stoodAt, p, {"dir"}) => m[p] = "dir"
    <3> SUFFICES ASSUME NEW p \in WantedPlaces(core), p \in folders, HasStood(stoodAt, p, {"dir"})
                 PROVE  m[p] = "dir"
      OBVIOUS
    <3>1. W[p] = {"dir"}
      OBVIOUS
    <3>2. m[p] \in {"dir"}
      BY <3>1, <2>1
    <3> QED BY <3>2
  <2>4. \A i, j \in DOMAIN core.wants :
          /\ core.wants[i].route = "search" =>
               j = i \/ (core.wants[j].route = "key" /\ core.wants[j].at # core.wants[i].at)
    BY <1>1, EntriesAssumption
  <2> SUFFICES ASSUME NEW r \in required, Satisfied(r) = "yes"
               PROVE  Worths(WantOf(r), m) = {TRUE}
    BY <2>1
  <2> DEFINE w == WantOf(r)
  <2>5. r.want \in DOMAIN core.wants /\ w = core.wants[r.want]
    BY <1>1 DEF WantOf
  <2>6. /\ w.at \in WantedPlaces(core) /\ w.at \notin ToSet(w.inside)
        /\ ToSet(w.inside) \subseteq WantedPlaces(core)
        /\ w.route \in Routes /\ w.route # "folder"
    BY <1>1, <1>3, <2>5, AFolderIsOutside, WantsTyped
  <2>7. Serves(stoodAt, w, r)
    BY <1>1
  <2>8. w.route # "search" => w.at \notin folders
    <3> SUFFICES ASSUME w.route # "search", NEW i \in DOMAIN core.wants,
                        core.wants[i].route = "search", w.at = core.wants[i].at
                 PROVE  FALSE
      OBVIOUS
    <3> QED BY <2>4, <2>5
  <2>9. w.route = "search" => w.at \in folders /\ ToSet(w.inside) \intersect folders = {}
    <3> SUFFICES ASSUME w.route = "search"
                 PROVE  w.at \in folders /\ ToSet(w.inside) \intersect folders = {}
      OBVIOUS
    <3>1. \A i \in DOMAIN core.wants : core.wants[i].route = "search" => i = r.want
      BY <2>4, <2>5
    <3>2. folders = {w.at}
      BY <3>1, <2>5
    <3> QED BY <3>2, <2>6
  <2> HIDE DEF folders, W, w
  <2>10. CASE w.route = "file"
    <3>1. CASE w.pins = None
      <4>1. m[w.at] \in Files
        BY <3>1, <2>2, <2>6, <2>7, <2>8, <2>10 DEF Serves
      <4> QED BY <4>1, <3>1, <2>10 DEF Worths, FileWorths, Judged, w
    <3>2. CASE w.pins # None
      <4>1. m[w.at] \in Known
        BY <3>2, <2>2, <2>6, <2>7, <2>8, <2>10 DEF Serves
      <4> QED BY <4>1, <3>2, <2>10 DEF Worths, FileWorths, Judged, Known, w
    <3> QED BY <3>1, <3>2
  <2>11. CASE w.route = "key"
    <3>1. HasStood(stoodAt, w.at, Known)
      BY <2>7, <2>11 DEF Serves, UnreadKey, w
    <3>2. m[w.at] \in Known
      BY <3>1, <2>2, <2>6, <2>8, <2>11
    <3> QED BY <3>2, <2>11 DEF Worths, KeyWorths, Judged, Known, w
  <2>12. CASE w.route = "search"
    <3>1. SearchServes(stoodAt, w)
      BY <2>7, <2>12 DEF Serves
    <3>2. PICK p \in ToSet(w.inside) : HasStood(stoodAt, p, Known)
      BY <3>1 DEF SearchServes
    <3>3. p \in WantedPlaces(core) \ folders
      BY <2>6, <2>9, <2>12
    <3>4. m[p] \in {"known", "denied"}
      BY <3>2, <3>3, <2>2 DEF Known
    <3>5. m[w.at] = "dir"
      BY <3>1, <2>3, <2>6, <2>9, <2>12 DEF SearchServes
    <3>6. Among(w, m, {"known", "denied"}, {"unlisted", "other", "locked"}) = {TRUE}
      BY <3>4, <3>5, AmongSomething
    <3> QED BY <3>6, <2>12 DEF Worths, SearchWorths, w
  <2> QED BY <2>6, <2>10, <2>11, <2>12 DEF Routes
<1> QED BY <1>2, <1>3
-----------------------------------------------------------------------------
(* The parts of an answer are values. *)
LEMMA PartsAreValues ==
  ASSUME FirmwareTold, look = "answered"
  PROVE  /\ \A r \in required : Satisfied(r) \in Values
         /\ GroupSatisfied \in Values
         /\ EntryVerdicts \subseteq Values
         /\ SystemImageInPlace \in Values
         /\ RequirementsMet \in Values
         /\ SystemFirmwareMet \in Values
<1>1. \A r \in required : Satisfied(r) \in Values
  BY AtTheAnswer DEF Earned
<1>2. GroupSatisfied \in Values
  <2> DEFINE verdicts == {Satisfied(r) : r \in WeighedOptions}
  <2>1. verdicts = {"yes"} \/ verdicts = {"no"} => (CHOOSE v \in verdicts : TRUE) \in {"yes", "no"}
    OBVIOUS
  <2> QED BY <2>1 DEF GroupSatisfied, Values
<1>3. EntryVerdicts \subseteq Values
  BY <1>1, <1>2 DEF EntryVerdicts
<1>4. SystemImageInPlace \in Values
  BY DEF SystemImageInPlace, Values
<1>5. RequirementsMet \in Values
  BY <1>4 DEF RequirementsMet, Values
<1>6. SystemFirmwareMet \in Values
  BY <1>4 DEF SystemFirmwareMet, Values
<1> QED BY <1>1, <1>2, <1>3, <1>4, <1>5, <1>6

(* What the group says is said of every option weighed. *)
LEMMA TheGroupSays ==
  ASSUME NEW v \in {"yes", "no"}, GroupSatisfied = v
  PROVE  \A r \in WeighedOptions : Satisfied(r) = v
<1> DEFINE verdicts == {Satisfied(r) : r \in WeighedOptions}
<1>1. verdicts = {"yes"} \/ verdicts = {"no"}
  BY DEF GroupSatisfied
<1>2. (CHOOSE x \in verdicts : TRUE) = v
  BY <1>1 DEF GroupSatisfied
<1>3. verdicts = {v}
  BY <1>1, <1>2
<1> QED BY <1>3

(* An option of the region a launch came to is among those weighed. *)
LEMMA ItsOptionIsWeighed ==
  ASSUME HasGroup, NEW region \in Regions
  PROVE  /\ \A r \in Options : region \in WantOf(r).regions => r \in WeighedOptions
         /\ \E r \in Options : region \in WantOf(r).regions
<1>1. region \in ListedRegions /\ (core.region # None => region = core.region)
  BY DEF Regions
<1>2. \A r \in Options : region \in WantOf(r).regions => r \in WeighedOptions
  BY <1>1 DEF WeighedOptions
<1>3. \E r \in Options : region \in WantOf(r).regions
  BY <1>1 DEF ListedRegions
<1> QED BY <1>2, <1>3

(* A world of a moment: a want of one worth then has that one. *)
LEMMA InAWorld ==
  ASSUME NEW m, NEW good \in WorldsAt(m), NEW i \in DOMAIN core.wants
  PROVE  /\ good[i] \in BOOLEAN
         /\ Worths(core.wants[i], m) = {FALSE} => ~good[i]
         /\ Worths(core.wants[i], m) = {TRUE} => good[i]
         /\ TRUE \notin Worths(core.wants[i], m) => ~good[i]
<1>1. good[i] \in BOOLEAN /\ good[i] \in Worths(core.wants[i], m)
  BY DEF WorldsAt
<1> QED BY <1>1

(* A search for any image that stated nothing is all that was wanted. *)
LEMMA AnUnstatedWant ==
  ASSUME FirmwareTold, look = "answered", NEW i \in DOMAIN core.wants,
         \A r \in required : r.want # i
  PROVE  /\ core.wants[i].route = "search" /\ core.declaration = "packaged"
         /\ core.wants[i].regions = None => required = {} /\ DOMAIN core.wants = {i}
<1>1. core \in Cores /\ core.wants[i].route = "search"
  BY AtTheAnswer
<1>2. core.declaration = "packaged"
  BY <1>1, EntriesAssumption
<1>3. core.wants[i].regions = None => DOMAIN core.wants = {i}
  BY <1>1, WantedAlone
<1>4. \A r \in required : r.want \in DOMAIN core.wants
  BY AtTheAnswer
<1> QED BY <1>1, <1>2, <1>3, <1>4

(* A console said to have no image for one of its systems has none at the      *)
(* moment when all that says no fails.                                       *)
LEMMA NoImageIsNone ==
  ASSUME FirmwareTold, look = "answered", ~LeftToSearch, NEW m \in Moments,
         \A r \in required : Satisfied(r) = "no" => Worths(WantOf(r), m) = {FALSE},
         \A i \in DOMAIN core.wants :
           /\ core.wants[i].route = "search" /\ core.wants[i].regions = None
           /\ SearchFails(stoodAt, core.wants[i])
           => Worths(core.wants[i], m) = {FALSE},
         SystemImageInPlace = "no",
         NEW good \in WorldsAt(m), NEW hidden \in BOOLEAN
  PROVE  core.state = "cannot-run-without-firmware" /\ ~SystemServed(good, hidden)
<1>1. PICK s \in core.needs : SystemImageFor(s) = "no"
  BY DEF SystemImageInPlace
<1>2. core.state = "cannot-run-without-firmware"
  BY DEF SystemImageInPlace
<1>3. core \in Cores /\ \A r \in required : r.want \in DOMAIN core.wants
  BY AtTheAnswer
<1> DEFINE images == {Satisfied(r) : r \in {q \in required : WantOf(q).system = s}}
<1>4. s \in absent \/ (images = {"no"} /\ core.refused = {})
  BY <1>1 DEF SystemImageFor
<1>5. CASE s \in absent
  <2>1. PICK i \in DOMAIN core.wants :
          /\ core.wants[i].route = "search" /\ core.wants[i].regions = None
          /\ core.wants[i].system = s /\ SearchFails(stoodAt, core.wants[i])
    BY <1>5, AtTheAnswer DEF Demonstrated
  <2>2. DOMAIN core.wants = {i} /\ core.refused = {}
    BY <1>3, <2>1, WantedAlone, EntriesAssumption
  <2>3. ~good[i]
    BY <2>1, InAWorld
  <2> QED BY <1>1, <1>2, <2>2, <2>3 DEF SystemServed
<1>6. CASE images = {"no"} /\ core.refused = {}
  <2>1. \A r \in required : WantOf(r).system = s => Satisfied(r) = "no"
    BY <1>6
  <2>2. required # {}
    BY <1>6
  <2>3. ASSUME NEW i \in DOMAIN core.wants, core.wants[i].system = s PROVE ~good[i]
    <3>1. CASE \E r \in required : r.want = i
      <4>1. PICK r \in required : r.want = i
        BY <3>1
      <4>2. Worths(core.wants[i], m) = {FALSE}
        BY <4>1, <2>1, <2>3 DEF WantOf
      <4> QED BY <4>2, InAWorld
    <3>2. CASE \A r \in required : r.want # i
      <4>1. core.wants[i].route = "search" /\ core.wants[i].regions # None
        BY <3>2, <2>2, AnUnstatedWant
      <4>2. TRUE \notin Worths(core.wants[i], m)
        BY <4>1, <3>2 DEF LeftToSearch
      <4> QED BY <4>2, InAWorld
    <3> QED BY <3>1, <3>2
  <2> QED BY <1>1, <1>2, <1>6, <2>3 DEF SystemServed
<1> QED BY <1>4, <1>5, <1>6

(* What each launch comes to. *)
LEMMA Launches ==
  ASSUME NEW worlds, NEW v,
         \A good \in worlds, hidden \in BOOLEAN, region \in Regions : Boots(good, hidden, region) = v
  PROVE  LaunchesAt(worlds) \subseteq {v}
<1> SUFFICES ASSUME NEW b \in LaunchesAt(worlds) PROVE b = v
  OBVIOUS
<1>1. PICK good \in worlds, hidden \in BOOLEAN, region \in Regions : b = Boots(good, hidden, region)
  BY SMT DEF LaunchesAt
<1> QED BY <1>1

(* The emulator told it lacks something does not start. *)
LEMMA ANoCannotStart ==
  ASSUME FirmwareTold, Decided, ~LostPick, ~LeftToSearch, verdict.met = "no"
  PROVE  \E m \in Moments : LaunchesAt(WorldsAt(m)) \subseteq {FALSE}
<1>1. look = "answered" /\ ~Unjudged /\ RequirementsMet = "no"
  BY AtTheAnswer DEF Decided, Answer
<1>2. PICK m \in Moments :
        /\ \A r \in required : Satisfied(r) = "no" => Worths(WantOf(r), m) = {FALSE}
        /\ \A i \in DOMAIN core.wants :
             /\ core.wants[i].route = "search" /\ core.wants[i].regions = None
             /\ SearchFails(stoodAt, core.wants[i])
             => Worths(core.wants[i], m) = {FALSE}
  BY <1>1, OneMomentFails
<1>3. \A r \in required : r.want \in DOMAIN core.wants
  BY <1>1, AtTheAnswer
<1>4. SystemImageInPlace = "no" \/ "no" \in EntryVerdicts
  BY <1>1 DEF RequirementsMet
<1> SUFFICES ASSUME NEW good \in WorldsAt(m), NEW hidden \in BOOLEAN, NEW region \in Regions
             PROVE  Boots(good, hidden, region) = FALSE
  BY <1>2, Launches
<1>6. \A r \in required : Satisfied(r) = "no" => ~good[r.want]
  <2> SUFFICES ASSUME NEW r \in required, Satisfied(r) = "no" PROVE ~good[r.want]
    OBVIOUS
  <2>1. Worths(core.wants[r.want], m) = {FALSE} /\ r.want \in DOMAIN core.wants
    BY <1>2, <1>3 DEF WantOf
  <2> QED BY <2>1, InAWorld
<1>7. CASE SystemImageInPlace = "no"
  <2>1. core.state = "cannot-run-without-firmware" /\ ~SystemServed(good, hidden)
    BY <1>1, <1>2, <1>7, NoImageIsNone
  <2> QED BY <2>1 DEF Boots
<1>8. CASE \E r \in required \ Options : WantOf(r).need = "required" /\ Satisfied(r) = "no"
  <2>1. PICK r \in required \ Options : WantOf(r).need = "required" /\ Satisfied(r) = "no"
    BY <1>8
  <2>2. /\ r.want \in DOMAIN core.wants /\ ~good[r.want]
        /\ core.wants[r.want].regions = None /\ core.wants[r.want].need = "required"
    BY <2>1, <1>3, <1>6 DEF Options, WantOf
  <2> QED BY <2>2 DEF Boots
<1>9. CASE HasGroup /\ GroupSatisfied = "no"
  <2>1. \A r \in Options : region \in WantOf(r).regions => Satisfied(r) = "no" /\ r \in required
    BY <1>9, TheGroupSays, ItsOptionIsWeighed DEF Options
  <2>2. ~\E r \in Options : region \in WantOf(r).regions /\ good[r.want]
    BY <2>1, <1>6
  <2> QED BY <1>9, <2>2 DEF Boots
<1>10. "no" \in EntryVerdicts =>
         \/ \E r \in required \ Options : WantOf(r).need = "required" /\ Satisfied(r) = "no"
         \/ HasGroup /\ GroupSatisfied = "no"
  BY DEF EntryVerdicts
<1> QED BY <1>4, <1>7, <1>8, <1>9, <1>10

(* A console said to have its images has one for each system at the moment     *)
(* when all that says yes serves.                                            *)
LEMMA AnImageServes ==
  ASSUME FirmwareTold, look = "answered", NEW m,
         \A r \in required : Satisfied(r) = "yes" => Worths(WantOf(r), m) = {TRUE},
         SystemImageInPlace = "yes", core.state = "cannot-run-without-firmware",
         NEW good \in WorldsAt(m), NEW hidden \in BOOLEAN
  PROVE  SystemServed(good, hidden)
<1>1. \A s \in core.needs : SystemImageFor(s) = "yes"
  <2> DEFINE verdicts == {SystemImageFor(s) : s \in core.needs}
  <2>1. "no" \notin verdicts /\ "open" \notin verdicts
    BY DEF SystemImageInPlace
  <2>2. \A s \in core.needs : SystemImageFor(s) \in {"yes", "no", "open"}
    BY DEF SystemImageFor
  <2> QED BY <2>1, <2>2
<1> SUFFICES ASSUME NEW s \in core.needs
             PROVE  \E i \in DOMAIN core.wants : core.wants[i].system = s /\ good[i]
  BY DEF SystemServed
<1>2. PICK r \in required : WantOf(r).system = s /\ Satisfied(r) = "yes"
  <2>1. SystemImageFor(s) = "yes"
    BY <1>1
  <2> QED BY <2>1 DEF SystemImageFor
<1>3. r.want \in DOMAIN core.wants /\ Worths(core.wants[r.want], m) = {TRUE}
  BY <1>2, AtTheAnswer DEF WantOf
<1> QED BY <1>2, <1>3, InAWorld DEF WantOf

(* The emulator told it has everything starts. *)
LEMMA AYesStarts ==
  ASSUME FirmwareTold, Decided, ~LostPick, ~UnreadKey, verdict.met = "yes"
  PROVE  \E m \in Moments : LaunchesAt(WorldsAt(m)) \subseteq {TRUE}
<1>1. look = "answered" /\ ~Unjudged /\ RequirementsMet = "yes"
  BY AtTheAnswer DEF Decided, Answer
<1>2. PICK m \in Moments :
        \A r \in required : Satisfied(r) = "yes" => Worths(WantOf(r), m) = {TRUE}
  BY <1>1, OneMomentServes
<1>3. /\ ~(core.declaration = "packaged" /\ required = {})
      /\ "no" \notin EntryVerdicts \union {SystemImageInPlace}
      /\ "open" \notin EntryVerdicts \union {SystemImageInPlace}
      /\ "required" \notin core.refused
  BY <1>1 DEF RequirementsMet
<1>4. /\ \A v \in EntryVerdicts : v = "yes"
      /\ SystemImageInPlace = "yes"
  BY <1>1, <1>3, PartsAreValues DEF Values
<1> SUFFICES ASSUME NEW good \in WorldsAt(m), NEW hidden \in BOOLEAN, NEW region \in Regions
             PROVE  Boots(good, hidden, region) = TRUE
  BY <1>2, Launches
<1>6. \A r \in required : Satisfied(r) = "yes" => good[r.want]
  <2> SUFFICES ASSUME NEW r \in required, Satisfied(r) = "yes" PROVE good[r.want]
    OBVIOUS
  <2>1. Worths(core.wants[r.want], m) = {TRUE} /\ r.want \in DOMAIN core.wants
    BY <1>1, <1>2, AtTheAnswer DEF WantOf
  <2> QED BY <2>1, InAWorld
<1>7. ASSUME NEW i \in DOMAIN core.wants, core.wants[i].regions = None, core.wants[i].need = "required"
      PROVE  good[i]
  <2>1. PICK r \in required : r.want = i
    BY <1>1, <1>3, <1>7, AnUnstatedWant
  <2>2. r \in required \ Options /\ WantOf(r).need = "required"
    BY <2>1, <1>7 DEF Options, WantOf
  <2>3. Satisfied(r) \in EntryVerdicts
    BY <2>2 DEF EntryVerdicts
  <2> QED BY <2>1, <2>3, <1>4, <1>6
<1>8. ASSUME HasGroup PROVE \E r \in Options : region \in WantOf(r).regions /\ good[r.want]
  <2>1. GroupSatisfied = "yes"
    BY <1>8, <1>4 DEF EntryVerdicts
  <2>2. PICK r \in Options : region \in WantOf(r).regions
    BY <1>8, ItsOptionIsWeighed
  <2>3. Satisfied(r) = "yes" /\ r \in required
    BY <1>8, <2>1, <2>2, TheGroupSays, ItsOptionIsWeighed DEF Options
  <2> QED BY <2>2, <2>3, <1>6
<1>9. ASSUME core.state = "cannot-run-without-firmware" PROVE SystemServed(good, hidden)
  BY <1>1, <1>2, <1>4, <1>9, AnImageServes
<1> QED BY <1>3, <1>7, <1>8, <1>9 DEF Boots
-----------------------------------------------------------------------------
(* The disk stands while a question is open, and each want has stated at most  *)
(* one requirement once it is passed.                                        *)
THEOREM FirmwareTypes == FirmwareSpec => []FirmwareTypeOK
<1>1. FirmwareTold => FirmwareTypeOK
  <2> SUFFICES ASSUME FirmwareTold PROVE FirmwareTypeOK
    OBVIOUS
  <2>1. /\ shifts \in 0..MaxShifts /\ look \in LooksOfARoute \union {"idle", "weigh", "answered"}
        /\ look = "idle" => core = None /\ verdict = None
        /\ look # "idle" => AsksTold
    BY DEF FirmwareTold
  <2>2. look # "idle" => core # None
    BY <2>1, CoresAssumption DEF AsksTold, DiskTold
  <2>3. verdict \in [met : Values, system : Values] \union {None}
    <3>1. CASE look = "answered"
      BY <3>1, AtTheAnswer, PartsAreValues DEF Answer
    <3>2. CASE look # "answered"
      BY <3>2, <2>1 DEF AsksTold, VerdictTold
    <3> QED BY <3>1, <3>2
  <2>4. ASSUME look # "idle"
        PROVE  /\ core \in Cores
               /\ DOMAIN shelf = WantedPlaces(core)
               /\ \A p \in DOMAIN shelf : shelf[p] \in States[p] /\ There(p) \in stoodAt[p]
               /\ \A q, r \in required : q.want < turn /\ (q.want = r.want => q = r)
               /\ (turn <= Len(core.wants)) <=> (look \in LooksOfARoute)
    BY <2>1, <2>4 DEF AsksTold, DiskTold, DiskKept, TurnTold, StatedTold
  <2> QED BY <2>1, <2>2, <2>3, <2>4 DEF FirmwareTypeOK
<1> QED BY <1>1, FirmwareToldHolds, PTL

(* requirements_met never says no of an emulator that starts, nor yes of one   *)
(* that does not, whatever moved between two looks of the question: each is   *)
(* true of what stood there at one moment of it.                             *)
THEOREM VerdictsAreEarned == FirmwareSpec => []VerdictIsEarned
<1>1. FirmwareTold => VerdictIsEarned
  BY ANoCannotStart, AYesStarts DEF VerdictIsEarned
<1> QED BY <1>1, FirmwareToldHolds, PTL

(* Nor is system_firmware_met wrong of the console, whose no is the            *)
(* emulator's too.                                                           *)
THEOREM ConsoleVerdictsAreEarned == FirmwareSpec => []ConsoleVerdictIsEarned
<1>1. FirmwareTold => ConsoleVerdictIsEarned
  <2> SUFFICES ASSUME FirmwareTold, Decided, core.state = "cannot-run-without-firmware"
               PROVE  /\ verdict.system = "no" /\ ~LostPick /\ ~LeftToSearch =>
                           /\ verdict.met = "no"
                           /\ \E m \in Moments : \A good \in WorldsAt(m), hidden \in BOOLEAN :
                                ~SystemServed(good, hidden)
                      /\ verdict.system = "yes" /\ ~LostPick /\ ~UnreadKey =>
                           \E m \in Moments : \A good \in WorldsAt(m), hidden \in BOOLEAN :
                             SystemServed(good, hidden)
    BY DEF ConsoleVerdictIsEarned
  <2>1. look = "answered" /\ ~Unjudged /\ verdict = Answer
    BY AtTheAnswer DEF Decided
  <2>2. ASSUME verdict.system = "no", ~LostPick, ~LeftToSearch
        PROVE  /\ verdict.met = "no"
               /\ \E m \in Moments : \A good \in WorldsAt(m), hidden \in BOOLEAN :
                    ~SystemServed(good, hidden)
    <3>1. SystemImageInPlace = "no"
      BY <2>1, <2>2 DEF Answer, SystemFirmwareMet
    <3>2. verdict.met = "no"
      BY <2>1, <3>1 DEF Answer, RequirementsMet
    <3>3. PICK m \in Moments :
            /\ \A r \in required : Satisfied(r) = "no" => Worths(WantOf(r), m) = {FALSE}
            /\ \A i \in DOMAIN core.wants :
                 /\ core.wants[i].route = "search" /\ core.wants[i].regions = None
                 /\ SearchFails(stoodAt, core.wants[i])
                 => Worths(core.wants[i], m) = {FALSE}
      BY <2>1, <2>2, OneMomentFails
    <3>4. \A good \in WorldsAt(m), hidden \in BOOLEAN : ~SystemServed(good, hidden)
      BY <2>1, <2>2, <3>1, <3>3, NoImageIsNone
    <3> QED BY <3>2, <3>3, <3>4
  <2>3. ASSUME verdict.system = "yes", ~LostPick, ~UnreadKey
        PROVE  \E m \in Moments : \A good \in WorldsAt(m), hidden \in BOOLEAN :
                 SystemServed(good, hidden)
    <3>1. SystemImageInPlace = "yes"
      BY <2>1, <2>3 DEF Answer, SystemFirmwareMet
    <3>2. PICK m \in Moments :
            \A r \in required : Satisfied(r) = "yes" => Worths(WantOf(r), m) = {TRUE}
      BY <2>1, <2>3, OneMomentServes
    <3>3. \A good \in WorldsAt(m), hidden \in BOOLEAN : SystemServed(good, hidden)
      BY <2>1, <3>1, <3>2, AnImageServes
    <3> QED BY <3>2, <3>3
  <2> QED BY <2>2, <2>3
<1> QED BY <1>1, FirmwareToldHolds, PTL

-----------------------------------------------------------------------------

(* On a disk that stands still, what a question has told leaves a verdict     *)
(* open only where nobody could tell.  This is what the looks then know, to   *)
(* the state.                                                                *)
Now == [p \in DOMAIN shelf |-> There(p)]

(* What an answer is told of a want on the disk as it stands.                *)
Tells(w) == IF (~verify /\ Unread(w, Now)) \/ Contested(w, Now) THEN BOOLEAN ELSE Worths(w, Now)

FileSeen(l, s) ==
  /\ l \in {"size", "digest", "gate", "image"} => s \in Files
  /\ l \in {"size", "digest", "image"} => verify
  /\ l = "image" => s # "short"
OfferSeen(l, s) ==
  /\ l \in {"offered size", "offered header", "named digest"} => s \in Files
  /\ l = "offered header" => s # "short"
  /\ l \in {"still there", "named", "named digest"} =>
       s \notin FolderStates \union {"short"} /\ (verify => s \notin NoBios)
  /\ l \in {"named", "named digest"} => s # "missing"

LookSeen(w, l) ==
  /\ FileSeen(l, There(w.at))
  /\ l \in OfferLooks => OfferSeen(l, There(w.named))
  /\ w.route = "folder" /\ l # "kind" => There(w.at) \in FolderStates

ListingSeen(w, l, k, rs, pt) ==
  /\ pt <=> There(w.at) \in {"closed", "hidden"}
  /\ \A i \in DOMAIN k : There(k[i]) \in Files \ {"short"}
  /\ \A i \in DOMAIN rs : rs[i].digest = Digest(There(k[i]))
  /\ w.route = "folder" =>
       \A i \in DOMAIN rs : l # "header" \/ i < Len(rs) => rs[i].header = Header(There(k[i]))
  /\ l = "picked" /\ rs[1].digest # "listed" =>
       \A p \in ToSet(w.inside) : There(p) \notin Known

(* A requirement left open is of a want that may be either, a pick is not     *)
(* lost, and a key's file taken as right may be right.  A search that stated *)
(* none may have none, and what it did not demonstrate it could not tell.    *)
Settled(w, r) ==
  /\ Satisfied(r) = "open" => Tells(w) = BOOLEAN
  /\ r.picked => r.found # "missing"
  /\ w.route = "key" /\ r.found = "file" /\ r.checked = "unknown" => TRUE \in Tells(w)
LeftUnsaid(w, ab) ==
  /\ FALSE \in Tells(w)
  /\ w.regions = None => w.system \in ab \/ TRUE \in Tells(w)

StatedSeen ==
  /\ \A r \in required : Settled(WantOf(r), r)
  /\ \A i \in DOMAIN core.wants :
       /\ i < turn /\ core.wants[i].route = "search"
       /\ \A r \in required : r.want # i
       => LeftUnsaid(core.wants[i], absent)

StandsStill == \A p \in DOMAIN shelf : stoodAt[p] = {There(p)}

FirmwareSeen ==
  shifts = 0 /\ look # "idle" =>
    /\ StandsStill
    /\ look \in LooksOfARoute => LookSeen(Want, look)
    /\ look \in ListingLooks => ListingSeen(Want, look, kept, reads, partial)
    /\ StatedSeen
-----------------------------------------------------------------------------
(* No look moves the disk, nor what is to be told of it. *)
LEMMA LooksMoveNothing ==
  ASSUME Looking
  PROVE  /\ Now' = Now /\ shifts' = shifts
         /\ \A w : Tells(w)' = Tells(w)
         /\ \A w, r : Settled(w, r)' <=> Settled(w, r)
<1>1. shelf' = shelf /\ shifts' = shifts /\ verify' = verify
  BY DEF Looking
<1>2. Now' = Now
  BY <1>1 DEF Now, There, Stands
<1>3. \A w : Tells(w)' = Tells(w)
  BY <1>1, <1>2 DEF Tells
<1> QED
  BY <1>1, <1>2, <1>3 DEF Settled

(* What a want may come to is what it is worth, and all there is where that    *)
(* cannot be told.                                                           *)
LEMMA ToldOfAWant ==
  ASSUME NEW w, NEW b \in BOOLEAN,
         b \in Worths(w, Now) \/ (~verify /\ Unread(w, Now)) \/ Contested(w, Now)
  PROVE  b \in Tells(w)
BY DEF Tells

(* A step of the same look at the same want. *)
LEMMA SeenGoesOn ==
  ASSUME FirmwareTold, FirmwareSeen, Looking, UNCHANGED <<turn, required, absent>>,
         look \in LooksOfARoute,
         shifts = 0 /\ look' \in LooksOfARoute => LookSeen(Want, look'),
         shifts = 0 /\ look' \in ListingLooks => ListingSeen(Want, look', kept', reads', partial')
  PROVE  FirmwareSeen'
<1> SUFFICES ASSUME shifts = 0
             PROVE  /\ StandsStill'
                    /\ look' \in LooksOfARoute => LookSeen(Want, look)'
                    /\ look' \in ListingLooks => ListingSeen(Want, look, kept, reads, partial)'
                    /\ StatedSeen'
  BY LooksMoveNothing DEF FirmwareSeen
<1>1. look # "idle"
  BY DEF LooksOfARoute
<1>2. StandsStill /\ StatedSeen
  BY <1>1 DEF FirmwareSeen
<1>3. /\ shelf' = shelf /\ stoodAt' = stoodAt /\ core' = core /\ verify' = verify /\ turn' = turn
      /\ required' = required /\ absent' = absent
  BY DEF Looking
<1>4. Want' = Want
  BY <1>3 DEF Want
<1>5. StandsStill'
  BY <1>2, <1>3 DEF StandsStill, There, Stands
<1>6. StatedSeen'
  BY <1>2, <1>3, LooksMoveNothing DEF StatedSeen, LeftUnsaid, WantOf
<1>7. look' \in LooksOfARoute => LookSeen(Want, look)'
  BY <1>3, <1>4 DEF LookSeen, FileSeen, OfferSeen, There, Stands
<1>8. look' \in ListingLooks => ListingSeen(Want, look, kept, reads, partial)'
  BY <1>3, <1>4 DEF ListingSeen, There, Stands
<1> QED
  BY <1>5, <1>6, <1>7, <1>8

(* A step that is done with the want: what it states is settled, or why the    *)
(* search stated nothing.                                                    *)
LEMMA SeenPasses ==
  ASSUME FirmwareTold, FirmwareSeen, Looking, look \in LooksOfARoute, Pass,
         NEW more, required' = required \union more, absent \subseteq absent',
         \A r \in more : r.want = turn /\ (shifts = 0 => Settled(Want, r)),
         shifts = 0 /\ more = {} => Want.route = "search" /\ LeftUnsaid(Want, absent')
  PROVE  FirmwareSeen'
<1>1. AsksTold /\ look # "idle"
  BY DEF FirmwareTold, LooksOfARoute
<1>2. core \in Cores /\ turn \in DOMAIN core.wants /\ Want = core.wants[turn]
  BY AtAWant
<1>3. Len(core.wants) \in Nat /\ DOMAIN core.wants = 1..Len(core.wants)
  BY <1>2, WantsTyped
<1>4. /\ shelf' = shelf /\ stoodAt' = stoodAt /\ core' = core /\ verify' = verify
      /\ shifts' = shifts /\ turn' = turn + 1 /\ look' = FirstLook(core, turn + 1)
  BY DEF Looking, Pass
<1> SUFFICES ASSUME shifts = 0
             PROVE  /\ StandsStill'
                    /\ look' \in LooksOfARoute => LookSeen(Want, look)'
                    /\ look' \notin ListingLooks
                    /\ StatedSeen'
  BY <1>4 DEF FirmwareSeen
<1>5. StandsStill /\ StatedSeen
  BY <1>1 DEF FirmwareSeen
<1>6. StandsStill'
  BY <1>4, <1>5 DEF StandsStill, There, Stands
<1>7. look' \in {"weigh", "list", "kind"} /\ (look' = "list" => core.wants[turn + 1].route = "search")
  BY <1>4 DEF FirstLook
<1>8. look' \in LooksOfARoute => LookSeen(Want, look)'
  BY <1>4, <1>7 DEF LookSeen, FileSeen, OfferLooks, Want, LooksOfARoute
<1>9. \A r \in required' : Settled(WantOf(r), r)'
  <2> SUFFICES ASSUME NEW r \in required' PROVE Settled(WantOf(r), r)'
    OBVIOUS
  <2>1. WantOf(r)' = WantOf(r)
    BY <1>4 DEF WantOf
  <2>2. CASE r \in required
    BY <2>1, <2>2, <1>5, LooksMoveNothing DEF StatedSeen
  <2>3. CASE r \in more
    <3>1. WantOf(r) = Want
      BY <2>3 DEF WantOf, Want
    <3> QED BY <2>1, <2>3, <3>1, LooksMoveNothing
  <2> QED BY <2>2, <2>3
<1>10. ASSUME NEW i \in DOMAIN core.wants, i < turn + 1, core.wants[i].route = "search",
              \A r \in required' : r.want # i
       PROVE  LeftUnsaid(core.wants[i], absent)'
  <2>1. LeftUnsaid(core.wants[i], absent')
    <3>1. CASE i = turn
      <4>1. more = {}
        BY <1>10, <3>1
      <4> QED BY <4>1, <3>1, <1>2
    <3>2. CASE i < turn
      <4>1. LeftUnsaid(core.wants[i], absent)
        BY <1>5, <1>10, <3>2 DEF StatedSeen
      <4> QED BY <4>1 DEF LeftUnsaid
    <3> QED BY <3>1, <3>2, <1>2, <1>3, <1>10
  <2> QED BY <2>1, <1>4, LooksMoveNothing DEF LeftUnsaid
<1>11. StatedSeen'
  BY <1>4, <1>9, <1>10 DEF StatedSeen
<1> QED
  BY <1>6, <1>7, <1>8, <1>11 DEF ListingLooks

(* So the steps that conclude. *)
LEMMA SeenStates ==
  ASSUME FirmwareTold, FirmwareSeen, Looking, look \in LooksOfARoute, NEW r, State(r),
         r.want = turn, shifts = 0 => Settled(Want, r)
  PROVE  FirmwareSeen'
<1>1. Pass /\ required' = required \union {r} /\ absent' = absent
  BY DEF State
<1>2. /\ \A q \in {r} : q.want = turn /\ (shifts = 0 => Settled(Want, q))
      /\ {r} # {}
      /\ absent \subseteq absent'
  BY <1>1
<1> QED
  BY <1>1, <1>2, SeenPasses

Doubtful == {"unchecked", "not-comparable", "unrecognised", "unread"}

(* A want concluded, by Conclude, ... *)
LEMMA SeenConcludes ==
  ASSUME FirmwareTold, FirmwareSeen, Looking, look \in LooksOfARoute,
         NEW found, NEW checked, Conclude(found, checked),
         shifts = 0 /\ (found \notin {"file", "missing"} \/ (found = "file" /\ checked \in Doubtful)) =>
           Tells(Want) = BOOLEAN,
         shifts = 0 /\ Want.route = "key" /\ found = "file" /\ checked = "unknown" => TRUE \in Tells(Want)
  PROVE  FirmwareSeen'
<1> DEFINE r == Looked(found, checked)
<1>1. r.want = turn /\ r.found = found /\ r.checked = checked /\ r.lists = FALSE /\ r.picked = FALSE
  BY DEF Looked
<1>2. Satisfied(r) = "open" => found \notin {"file", "missing"} \/ (found = "file" /\ checked \in Doubtful)
  BY <1>1 DEF Satisfied, Doubtful
<1>3. shifts = 0 => Settled(Want, r)
  BY <1>1, <1>2 DEF Settled
<1> QED
  BY <1>1, <1>3, SeenStates DEF Conclude

(* ... by ConcludeFolder, ... *)
LEMMA SeenConcludesFolder ==
  ASSUME FirmwareTold, FirmwareSeen, Looking, look \in LooksOfARoute, Want.route = "folder",
         NEW found, NEW contents, ConcludeFolder(found, contents),
         shifts = 0 /\ (found = "hidden" \/ (found = "dir" /\ contents = "open")) =>
           Tells(Want) = BOOLEAN
  PROVE  FirmwareSeen'
<1> DEFINE r == [Looked(found, "unknown") EXCEPT !.lists = TRUE, !.contents = contents]
<1>1. r.want = turn /\ r.found = found /\ r.contents = contents /\ r.lists /\ r.picked = FALSE
  BY DEF Looked
<1>2. Satisfied(r) = "open" => found = "hidden" \/ (found = "dir" /\ contents = "open")
  BY <1>1 DEF Satisfied
<1>3. shifts = 0 => Settled(Want, r)
  BY <1>1, <1>2 DEF Settled
<1> QED
  BY <1>1, <1>3, SeenStates DEF ConcludeFolder

(* ... and by ConcludePick. *)
LEMMA SeenConcludesPick ==
  ASSUME FirmwareTold, FirmwareSeen, Looking, look \in LooksOfARoute, Want.route # "key",
         NEW found, NEW checked, ConcludePick(found, checked),
         shifts = 0 => found # "missing",
         shifts = 0 /\ (found # "file" \/ checked \in Doubtful) =>
           Tells(Want) = BOOLEAN
  PROVE  FirmwareSeen'
<1> DEFINE r == [Looked(found, checked) EXCEPT !.picked = TRUE]
<1>1. r.want = turn /\ r.found = found /\ r.checked = checked /\ r.lists = FALSE /\ r.picked
  BY DEF Looked
<1>2. Satisfied(r) = "open" =>
        found # "file" \/ checked \in Doubtful
  BY <1>1 DEF Satisfied, Doubtful
<1>3. shifts = 0 => Settled(Want, r)
  BY <1>1, <1>2 DEF Settled
<1> QED
  BY <1>1, <1>3, SeenStates DEF ConcludePick
-----------------------------------------------------------------------------
(* On a disk that stands still, what has stood at a place is what stands there. *)
LEMMA AtAStill ==
  ASSUME FirmwareTold, FirmwareSeen, look \in LooksOfARoute, shifts = 0
  PROVE  /\ \A p \in Places(Want) : /\ stoodAt[p] = {Now[p]} /\ Now[p] = There(p)
                                    /\ There(p) \in AllStates
         /\ Want.at \in Places(Want) /\ ToSet(Want.inside) \subseteq Places(Want)
         /\ Want.named # None => Want.named \in ToSet(Want.inside)
         /\ Want.named # None => Want.named \in Places(Want)
         /\ StandsStill
         /\ LookSeen(Want, look)
         /\ look \in ListingLooks => ListingSeen(Want, look, kept, reads, partial)
<1>1. AsksTold /\ look # "idle"
  BY DEF FirmwareTold, LooksOfARoute
<1>2. StandsStill /\ LookSeen(Want, look)
      /\ (look \in ListingLooks => ListingSeen(Want, look, kept, reads, partial))
  BY <1>1 DEF FirmwareSeen
<1>3. Places(Want) \subseteq DOMAIN shelf
  <2>1. Places(Want) \subseteq WantedPlaces(core)
    BY AtAWant, WantsPlaces
  <2> QED BY <2>1, <1>1 DEF AsksTold, DiskTold, DiskKept
<1>4. \A p \in Places(Want) : There(p) \in AllStates
  BY AtAWant
<1>5. \A p \in Places(Want) : stoodAt[p] = {Now[p]} /\ Now[p] = There(p)
  BY <1>2, <1>3 DEF Now, StandsStill
<1>6. Want.named # None => Want.named \in ToSet(Want.inside)
  BY AtAWant DEF Named
<1> QED
  BY <1>2, <1>4, <1>5, <1>6 DEF Places

(* A want may be either where it may be worth either, where its bytes were    *)
(* not to be read, and where the table and the core's test are at odds.      *)
LEMMA MayBeEither ==
  ASSUME NEW w, \/ Worths(w, Now) = BOOLEAN
                \/ ~verify /\ Unread(w, Now)
                \/ Contested(w, Now)
  PROVE  Tells(w) = BOOLEAN
BY DEF Tells

(* What stands in a folder that is hidden is hidden. *)
LEMMA NamedInAFolder ==
  ASSUME FirmwareTold, look \in LooksOfARoute, Want.named # None
  PROVE  /\ There(Want.at) = "hidden" => There(Want.named) = "hidden"
         /\ There(Want.at) \in Files \union {"missing"} => There(Want.named) = "missing"
<1>1. FolderOf[Want.named] = Want.at /\ Want.at \in DOMAIN States /\ Want.named \in DOMAIN States
  BY AtAWant, WantsTyped DEF Named, ToSet
<1>2. FolderOf[Want.at] = None /\ FolderOf[Want.named] # None
  BY <1>1, StatesAssumption
<1> QED
  BY <1>1, <1>2 DEF There, Stands, Files, FolderStates

(* What stands at the place decides neither way. *)
LEMMA EitherFile ==
  ASSUME NEW w, NEW m, w.route = "file",
         \/ w.pins = None /\ m[w.at] \notin Files \union {"missing"}
         \/ w.pins # None /\ m[w.at] \notin Known \union Amiss(w)
  PROVE  Worths(w, m) = BOOLEAN
BY DEF Worths, FileWorths, Judged, Known, Amiss

(* ... an image by its key, ... *)
LEMMA EitherKey ==
  ASSUME NEW w, NEW m, w.route = "key", m[w.at] \notin Known \union {"missing", "short"}
  PROVE  Worths(w, m) = BOOLEAN
BY DEF Worths, KeyWorths, Judged, Known

(* ... and a named file that shows no bytes, may be either. *)
LEMMA EitherNamed ==
  ASSUME NEW w, NEW m, w.route = "folder", w.named # None, m[w.named] \in {"locked", "hidden"}
  PROVE  Worths(w, m) = BOOLEAN
BY DEF Worths, FolderWorths, Judged

(* A look that goes on, before any listing. *)
LEMMA SeenGoesOnBefore ==
  ASSUME FirmwareTold, FirmwareSeen, Looking, look \in LooksOfARoute, NEW next, GoOn(next),
         next \notin ListingLooks, shifts = 0 => LookSeen(Want, next)
  PROVE  FirmwareSeen'
<1>1. look' = next /\ UNCHANGED <<turn, pending, kept, reads, partial, required, absent>>
  BY DEF GoOn
<1> QED
  BY <1>1, SeenGoesOn
-----------------------------------------------------------------------------
(* What the first look leaves open, nobody could tell. *)
LEMMA ObserveKindSeen ==
  ASSUME FirmwareTold, FirmwareSeen, ObserveKind
  PROVE  FirmwareSeen'
<1> DEFINE s == There(Want.at)
           kind == Kind(s)
<1>1. /\ look = "kind" /\ look \in LooksOfARoute /\ Looking
      /\ Want.route # "search" /\ Want.route \in Routes
  BY AtAWant DEF ObserveKind, LooksOfARoute, LookTold
<1>2. s \in AllStates /\ (shifts = 0 => Now[Want.at] = s)
  BY <1>1, ThereStands, AtAStill
<1>3. /\ kind = "file" <=> s \in Files
      /\ kind = "missing" <=> s = "missing"
      /\ kind = "dir" <=> s \in FolderStates
      /\ kind = "hidden" <=> s = "hidden"
  BY <1>2 DEF Kind, AllStates, Files, FolderStates
<1> HIDE DEF kind, s
<1>4. CASE Want.route = "folder" /\ kind # "dir"
  <2>1. ConcludeFolder(kind, "open")
    BY <1>4 DEF ObserveKind, kind, s
  <2>2. ASSUME shifts = 0, kind = "hidden" PROVE Tells(Want) = BOOLEAN
    <3>1. s = "hidden"
      BY <2>2, <1>3
    <3>2. Want.named # None => Now[Want.named] = "hidden"
      BY <1>1, <2>2, <3>1, AtAStill, NamedInAFolder DEF s
    <3>3. CASE Want.named # None
      BY <3>2, <3>3, <1>4, EitherNamed, MayBeEither
    <3>4. CASE Want.named = None
      <4>1. Among(Want, Now, {"known", "unlisted"}, {"locked"}) = BOOLEAN
        BY <3>1, <1>2, <2>2 DEF Among, Files
      <4>2. Worths(Want, Now) = BOOLEAN
        BY <4>1, <3>4, <1>4 DEF Worths, FolderWorths
      <4> QED BY <4>2, MayBeEither
    <3> QED BY <3>3, <3>4
  <2> QED
    BY <2>1, <2>2, <1>1, <1>4, SeenConcludesFolder
<1>5. CASE Want.route = "folder" /\ kind = "dir"
  <2>1. PICK next \in {"list", "offered"} : GoOn(next)
    BY <1>5 DEF ObserveKind, kind, s
  <2>2. LookSeen(Want, next)
    BY <1>3, <1>5 DEF LookSeen, FileSeen, OfferSeen, s
  <2> QED
    BY <2>1, <2>2, <1>1, SeenGoesOnBefore DEF ListingLooks
<1>6. CASE Want.route # "folder" /\ kind # "file"
  <2>1. Conclude(kind, None)
    BY <1>6 DEF ObserveKind, kind, s
  <2>2. ASSUME shifts = 0, kind # "missing" PROVE Tells(Want) = BOOLEAN
    <3>1. Now[Want.at] \in FolderStates \union {"hidden"}
      BY <2>2, <1>2, <1>3, <1>6 DEF AllStates
    <3>2. CASE Want.route = "file"
      <4>1. Now[Want.at] \notin Files \union {"missing"} /\ Now[Want.at] \notin Known \union Amiss(Want)
        BY <3>1 DEF FolderStates, Files, Known, Amiss
      <4> QED BY <3>2, <4>1, EitherFile, MayBeEither
    <3>3. CASE Want.route = "key"
      <4>1. Now[Want.at] \notin Known \union {"missing", "short"}
        BY <3>1 DEF FolderStates, Known
      <4> QED BY <3>3, <4>1, EitherKey, MayBeEither
    <3> QED BY <3>2, <3>3, <1>1, <1>6 DEF Routes
  <2> QED
    BY <2>1, <2>2, <1>1, <1>6, SeenConcludes
<1>7. CASE Want.route = "key" /\ kind = "file"
  <2>1. GoOn("gate")
    BY <1>7 DEF ObserveKind, kind, s
  <2>2. LookSeen(Want, "gate")
    BY <1>3, <1>7 DEF LookSeen, FileSeen, OfferLooks, s
  <2> QED
    BY <2>1, <2>2, <1>1, SeenGoesOnBefore DEF ListingLooks
<1>8. CASE Want.route = "file" /\ kind = "file"
  <2>1. CASE Want.pins = None
    <3>1. Conclude("file", "unknown")
      BY <1>8, <2>1 DEF ObserveKind, kind, s
    <3> QED
      BY <3>1, <1>1, <1>8, SeenConcludes DEF Doubtful
  <2>2. CASE Want.pins # None /\ ~verify
    <3>1. Conclude("file", "unchecked")
      BY <1>8, <2>2 DEF ObserveKind, kind, s
    <3>2. shifts = 0 => Unread(Want, Now)
      BY <1>2, <1>3, <1>8, <2>2 DEF Unread
    <3> QED
      BY <3>1, <3>2, <2>2, <1>1, <1>8, SeenConcludes, MayBeEither
  <2>3. CASE Want.pins # None /\ verify
    <3>1. GoOn("size")
      BY <1>8, <2>3 DEF ObserveKind, kind, s
    <3>2. LookSeen(Want, "size")
      BY <1>3, <1>8, <2>3 DEF LookSeen, FileSeen, OfferLooks, s
    <3> QED
      BY <3>1, <3>2, <1>1, SeenGoesOnBefore DEF ListingLooks
  <2> QED
    BY <2>1, <2>2, <2>3
<1> QED
  BY <1>1, <1>4, <1>5, <1>6, <1>7, <1>8 DEF Routes

(* Bytes that differ leave open what an archive holds, and bytes nobody could  *)
(* read leave open all of it.                                                *)
LEMMA ObserveSizeSeen ==
  ASSUME FirmwareTold, FirmwareSeen, ObserveSize
  PROVE  FirmwareSeen'
<1>1. /\ look = "size" /\ look \in LooksOfARoute /\ Looking
      /\ Want.route = "file" /\ Want.pins \in {"dump", "archive"} /\ Want.pins # None
  BY AtAWant DEF ObserveSize, LooksOfARoute, LookTold
<1>2. shifts = 0 => Now[Want.at] = There(Want.at) /\ LookSeen(Want, look)
  BY <1>1, AtAStill
<1>3. CASE There(Want.at) = "short"
  <2>1. Conclude("file", Differs)
    BY <1>3 DEF ObserveSize
  <2>2. ASSUME shifts = 0, Differs \in Doubtful PROVE Tells(Want) = BOOLEAN
    <3>1. Want.pins = "archive"
      BY <2>2 DEF Differs, Doubtful
    <3>2. Now[Want.at] \notin Known \union Amiss(Want)
      BY <3>1, <1>2, <1>3, <2>2 DEF Known, Amiss
    <3> QED BY <3>2, <1>1, EitherFile, MayBeEither
  <2> QED
    BY <2>1, <2>2, <1>1, SeenConcludes
<1>4. CASE There(Want.at) # "short"
  <2>1. GoOn("digest")
    BY <1>4 DEF ObserveSize
  <2>2. shifts = 0 => LookSeen(Want, "digest")
    BY <1>1, <1>2 DEF LookSeen, FileSeen, OfferLooks
  <2> QED
    BY <2>1, <2>2, <1>1, SeenGoesOnBefore DEF ListingLooks
<1> QED BY <1>3, <1>4

(* ObserveDigest: the bytes settle a file of the pins. *)
LEMMA ObserveDigestSeen ==
  ASSUME FirmwareTold, FirmwareSeen, ObserveDigest
  PROVE  FirmwareSeen'
<1> DEFINE digest == Digest(There(Want.at))
           checked == IF digest = None THEN "unread" ELSE IF digest = "listed" THEN "verified" ELSE Differs
<1>1. /\ look = "digest" /\ look \in LooksOfARoute /\ Looking
      /\ Want.route = "file" /\ Want.pins \in {"dump", "archive"} /\ Want.pins # None
  BY AtAWant DEF ObserveDigest, LooksOfARoute, LookTold
<1>2. shifts = 0 => Now[Want.at] = There(Want.at) /\ LookSeen(Want, look)
  BY <1>1, AtAStill
<1>3. Conclude("file", checked)
  BY DEF ObserveDigest
<1>4. ASSUME shifts = 0, checked \in Doubtful PROVE Tells(Want) = BOOLEAN
  <2>1. There(Want.at) \in Files
    BY <1>1, <1>2, <1>4 DEF LookSeen, FileSeen
  <2>2. digest # "listed" /\ (digest = None \/ Differs \in Doubtful)
    BY <1>4, StatesAssumption DEF Doubtful
  <2>3. digest # None => Want.pins = "archive"
    BY <2>2 DEF Differs, Doubtful
  <2>4. There(Want.at) \in {"locked", "unlisted", "other", "short"}
        /\ (digest = None => There(Want.at) = "locked")
    BY <2>1, <2>2, StatesAssumption DEF Digest, Files
  <2>5. Now[Want.at] \notin Known \union Amiss(Want)
    BY <2>3, <2>4, <1>1, <1>2, <1>4 DEF Known, Amiss
  <2> QED BY <2>5, <1>1, EitherFile, MayBeEither
<1> HIDE DEF checked
<1> QED
  BY <1>1, <1>3, <1>4, SeenConcludes

(* A key's image taken as right was not to be read.                           *)
LEMMA ImageGateSeen ==
  ASSUME FirmwareTold, FirmwareSeen, ImageGate
  PROVE  FirmwareSeen'
<1> DEFINE s == There(Want.at)
<1>1. /\ look = "gate" /\ look \in LooksOfARoute /\ Looking /\ Want.route = "key"
  BY AtAWant DEF ImageGate, LooksOfARoute, LookTold
<1>2. shifts = 0 => Now[Want.at] = s /\ s \in Files
  BY <1>1, AtAStill DEF LookSeen, FileSeen
<1>3. CASE s = "short"
  <2>1. Conclude("file", "refused")
    BY <1>3 DEF ImageGate
  <2> QED
    BY <2>1, <1>1, SeenConcludes DEF Doubtful
<1>4. CASE s # "short" /\ (Kind(s) # "file" \/ ~verify)
  <2>1. Conclude("file", "unknown")
    BY <1>4 DEF ImageGate
  <2>2. shifts = 0 => Tells(Want) = BOOLEAN
    <3> SUFFICES ASSUME shifts = 0 PROVE Tells(Want) = BOOLEAN
      OBVIOUS
    <3>1. ~verify
      BY <1>2, <1>4 DEF Kind
    <3>2. Unread(Want, Now)
      BY <1>1, <1>2, <1>4 DEF Unread
    <3> QED BY <3>1, <3>2, MayBeEither
  <2>3. shifts = 0 => TRUE \in Tells(Want)
    BY <2>2
  <2> QED
    BY <2>1, <2>3, <1>1, SeenConcludes DEF Doubtful
<1>5. CASE s # "short" /\ ~(Kind(s) # "file" \/ ~verify)
  <2>1. GoOn("image")
    BY <1>5 DEF ImageGate
  <2>2. shifts = 0 => LookSeen(Want, "image")
    BY <1>1, <1>2, <1>5 DEF LookSeen, FileSeen, OfferLooks
  <2> QED
    BY <2>1, <2>2, <1>1, SeenGoesOnBefore DEF ListingLooks
<1> QED BY <1>3, <1>4, <1>5

(* ImageDigest: the bytes settle an image of a key. *)
LEMMA ImageDigestSeen ==
  ASSUME FirmwareTold, FirmwareSeen, ImageDigest
  PROVE  FirmwareSeen'
<1> DEFINE digest == Digest(There(Want.at))
           checked == Recognised(digest)
<1>1. /\ look = "image" /\ look \in LooksOfARoute /\ Looking /\ Want.route = "key"
  BY AtAWant DEF ImageDigest, LooksOfARoute, LookTold
<1>2. shifts = 0 => Now[Want.at] = There(Want.at) /\ There(Want.at) \in Files \ {"short"}
  BY <1>1, AtAStill DEF LookSeen, FileSeen
<1>3. Conclude("file", checked)
  BY DEF ImageDigest
<1>4. checked # "unknown"
  BY DEF Recognised
<1>5. ASSUME shifts = 0, checked \in Doubtful PROVE Tells(Want) = BOOLEAN
  <2>1. digest # "listed"
    BY <1>5, StatesAssumption DEF Recognised, Doubtful
  <2>2. Now[Want.at] \notin Known \union {"missing", "short"}
    BY <2>1, <1>2, <1>5 DEF Digest, Known, Files
  <2> QED BY <2>2, <1>1, EitherKey, MayBeEither
<1> HIDE DEF checked
<1> QED
  BY <1>1, <1>3, <1>4, <1>5, SeenConcludes
-----------------------------------------------------------------------------
(* The looks at the file an option names, on a disk that stands still. *)
LEMMA AtAStillOffer ==
  ASSUME FirmwareTold, FirmwareSeen, look \in OfferLooks
  PROVE  /\ look \in LooksOfARoute /\ Want.route = "folder" /\ Want.named # None
         /\ There(Want.named) \in AllStates
         /\ shifts = 0 => /\ Now[Want.named] = There(Want.named)
                          /\ There(Want.at) \in FolderStates
                          /\ OfferSeen(look, There(Want.named))
<1>1. /\ look \in LooksOfARoute /\ Want.route = "folder" /\ Want.named # None
      /\ There(Want.named) \in AllStates
  BY AtTheOffer
<1>2. look # "kind"
  BY DEF OfferLooks
<1> QED
  BY <1>1, <1>2, AtAStill DEF LookSeen

(* A look at the named file that goes on. *)
LEMMA SeenLooksOn ==
  ASSUME FirmwareTold, FirmwareSeen, look \in OfferLooks, Looking, NEW next, GoOn(next),
         next \in OfferLooks \union {"list"},
         shifts = 0 => OfferSeen(next, There(Want.named))
  PROVE  FirmwareSeen'
<1>1. look \in LooksOfARoute /\ Want.route = "folder" /\ Want.named # None
  BY AtAStillOffer
<1>2. shifts = 0 => LookSeen(Want, next)
  BY AtAStillOffer DEF LookSeen, FileSeen, OfferLooks
<1> QED
  BY <1>1, <1>2, SeenGoesOnBefore DEF OfferLooks, ListingLooks

(* The looks at what an option names. *)
LEMMA OfferSeenOn ==
  ASSUME FirmwareTold, FirmwareSeen, OfferKind \/ OfferSize \/ OfferHeader \/ StillThere
  PROVE  FirmwareSeen'
<1> DEFINE s == There(Want.named)
<1>1. look \in OfferLooks /\ Looking
  BY DEF OfferKind, OfferSize, OfferHeader, StillThere, OfferLooks
<1>2. s \in AllStates /\ (shifts = 0 => OfferSeen(look, s))
  BY <1>1, AtAStillOffer
<1>3. CASE OfferKind
  <2>1. PICK next \in {"list", "offered size", "still there"} :
          /\ GoOn(next)
          /\ next = "offered size" => Kind(s) = "file"
          /\ next = "still there" => Kind(s) \notin {"file", "dir"}
    BY <1>3 DEF OfferKind
  <2>2. OfferSeen(next, s)
    BY <2>1, <1>2 DEF OfferSeen, Kind, AllStates, Files, FolderStates, NoBios
  <2> QED BY <2>1, <2>2, <1>1, SeenLooksOn DEF OfferLooks
<1>4. CASE OfferSize
  <2>1. PICK next \in {"list", "offered header", "still there"} :
          /\ GoOn(next) /\ look = "offered size"
          /\ next # "list" => s # "short"
          /\ next = "still there" => ~verify
    BY <1>4 DEF OfferSize
  <2>2. shifts = 0 => OfferSeen(next, s)
    BY <2>1, <1>2 DEF OfferSeen, Files, FolderStates
  <2> QED BY <2>1, <2>2, <1>1, SeenLooksOn DEF OfferLooks
<1>5. CASE OfferHeader
  <2>1. PICK next \in {"list", "still there"} :
          /\ GoOn(next) /\ look = "offered header"
          /\ next = "still there" => Header(s) # "no bios"
    BY <1>5 DEF OfferHeader
  <2>2. Header(s) # "no bios" => s \notin NoBios
    BY <1>2, BytesTell
  <2>3. shifts = 0 => OfferSeen(next, s)
    BY <2>1, <2>2, <1>2 DEF OfferSeen, Files, FolderStates
  <2> QED BY <2>1, <2>3, <1>1, SeenLooksOn DEF OfferLooks
<1>6. CASE StillThere
  <2>1. PICK next \in {"list", "named"} :
          GoOn(next) /\ look = "still there" /\ (next = "named" => s # "missing")
    BY <1>6 DEF StillThere
  <2>2. shifts = 0 => OfferSeen(next, s)
    BY <2>1, <1>2 DEF OfferSeen
  <2> QED BY <2>1, <2>2, <1>1, SeenLooksOn DEF OfferLooks
<1> QED BY <1>3, <1>4, <1>5, <1>6

(* What a named file leaves open, nobody could tell. *)
LEMMA ConfiguredKindSeen ==
  ASSUME FirmwareTold, FirmwareSeen, ConfiguredKind
  PROVE  FirmwareSeen'
<1> DEFINE s == There(Want.named)
           kind == Kind(s)
<1>1. look = "named" /\ look \in OfferLooks /\ Looking
  BY DEF ConfiguredKind, OfferLooks
<1>2. /\ look \in LooksOfARoute /\ Want.route = "folder" /\ Want.named # None /\ s \in AllStates
      /\ shifts = 0 => Now[Want.named] = s /\ OfferSeen("named", s)
  BY <1>1, AtAStillOffer
<1>3. shifts = 0 => s \in (Files \ {"short"}) \union {"hidden"}
  BY <1>2 DEF OfferSeen, AllStates, FolderStates
<1>4. CASE kind # "file"
  <2>1. ConcludePick(kind, None)
    BY <1>4 DEF ConfiguredKind
  <2>2. shifts = 0 => s = "hidden"
    BY <1>3, <1>4 DEF Kind
  <2>3. shifts = 0 => kind # "missing"
    BY <2>2 DEF Kind, Files, FolderStates
  <2>4. shifts = 0 => Tells(Want) = BOOLEAN
    BY <2>2, <1>2, EitherNamed, MayBeEither
  <2> QED
    BY <2>1, <2>3, <2>4, <1>1, <1>2, SeenConcludesPick
<1>5. CASE kind = "file" /\ ~verify
  <2>1. ConcludePick("file", "unchecked")
    BY <1>5 DEF ConfiguredKind
  <2>2. shifts = 0 => s \in Files \ {"short"}
    BY <1>3, <1>5 DEF Kind, Files, FolderStates
  <2>3. shifts = 0 => Unread(Want, Now)
    BY <2>2, <1>2 DEF Unread
  <2> QED
    BY <2>1, <2>3, <1>1, <1>2, <1>5, MayBeEither, SeenConcludesPick
<1>6. CASE kind = "file" /\ verify
  <2>1. GoOn("named digest")
    BY <1>6 DEF ConfiguredKind
  <2>2. s \in Files
    BY <1>2, <1>6 DEF Kind, FolderStates, AllStates, Files
  <2>3. shifts = 0 => OfferSeen("named digest", s)
    BY <2>2, <1>2 DEF OfferSeen
  <2> QED BY <2>1, <2>3, <1>1, SeenLooksOn DEF OfferLooks
<1> QED BY <1>4, <1>5, <1>6

(* ConfiguredDigest: the bytes settle what an option names. *)
LEMMA ConfiguredDigestSeen ==
  ASSUME FirmwareTold, FirmwareSeen, ConfiguredDigest
  PROVE  FirmwareSeen'
<1> DEFINE s == There(Want.named)
           checked == Recognised(Digest(s))
<1>1. look = "named digest" /\ look \in OfferLooks /\ Looking /\ ConcludePick("file", checked)
  BY DEF ConfiguredDigest, OfferLooks
<1>2. /\ look \in LooksOfARoute /\ Want.route = "folder" /\ Want.named # None
      /\ shifts = 0 => Now[Want.named] = s /\ OfferSeen("named digest", s)
  BY <1>1, AtAStillOffer
<1>3. verify
  BY <1>1, AtTheOffer
<1>4. ASSUME shifts = 0, checked \in Doubtful PROVE Tells(Want) = BOOLEAN
  <2>1. s \in {"locked", "known", "unlisted"}
    BY <1>2, <1>3, <1>4 DEF OfferSeen, Files, NoBios
  <2>2. Digest(s) # "listed"
    BY <1>4, StatesAssumption DEF Recognised, Doubtful
  <2>3. s \in {"locked", "unlisted"}
    BY <2>1, <2>2 DEF Digest
  <2>4. CASE s = "locked"
    BY <2>4, <1>2, <1>4, EitherNamed, MayBeEither
  <2>5. CASE s = "unlisted"
    <3>1. Contested(Want, Now)
      BY <2>5, <1>2, <1>4 DEF Contested
    <3> QED BY <3>1, MayBeEither
  <2> QED BY <2>3, <2>4, <2>5
<1> HIDE DEF checked
<1> QED
  BY <1>1, <1>2, <1>4, SeenConcludesPick

-----------------------------------------------------------------------------
(* A listing cannot tell where it stopped short, nor where all that is of any *)
(* use inside is in doubt.                                                   *)
LEMMA AmongDoubts ==
  ASSUME NEW w, NEW m, NEW good, NEW doubtful,
         \/ m[w.at] \notin Files \union {"missing", "dir"}
         \/ /\ m[w.at] = "dir"
            /\ \A p \in ToSet(w.inside) : m[p] \notin good
            /\ \E p \in ToSet(w.inside) : m[p] \in doubtful
  PROVE  Among(w, m, good, doubtful) = BOOLEAN
<1>1. CASE m[w.at] \notin Files \union {"missing", "dir"}
  BY <1>1 DEF Among
<1>2. CASE /\ m[w.at] = "dir"
           /\ \A p \in ToSet(w.inside) : m[p] \notin good
           /\ \E p \in ToSet(w.inside) : m[p] \in doubtful
  <2>1. m[w.at] \notin Files \union {"missing"}
    BY <1>2 DEF Files
  <2>2. {m[p] : p \in ToSet(w.inside)} \intersect good = {}
        /\ {m[p] : p \in ToSet(w.inside)} \intersect doubtful # {}
    BY <1>2
  <2> QED BY <1>2, <2>1, <2>2 DEF Among
<1> QED BY <1>1, <1>2

(* Listing on a disk that stands still: what a want is worth is what is among *)
(* its files, for nothing named is taken.                                    *)
LEMMA AtAStillListing ==
  ASSUME FirmwareTold, FirmwareSeen, look \in ListingLooks, shifts = 0
  PROVE  /\ Now[Want.at] = There(Want.at)
         /\ \A p \in ToSet(Want.inside) : Now[p] = There(p) /\ There(p) \in AllStates
         /\ pending # {} \/ kept # <<>> => There(Want.at) = "dir"
         /\ kept \in Seq(ToSet(Want.inside)) /\ reads \in Seq(Readings)
         /\ ListingSeen(Want, look, kept, reads, partial)
         /\ \A p \in ToSet(Want.inside) : \A S : HasStood(stoodAt, p, S) <=> There(p) \in S
         /\ Want.route = "folder" => Worths(Want, Now) = Among(Want, Now, Image, {"locked"})
         /\ Want.route = "search" =>
              Worths(Want, Now) = Among(Want, Now, Known, {"unlisted", "other", "locked"})
<1>1. look \in LooksOfARoute /\ ListingTold(stoodAt, Want, look, pending, kept, reads, partial)
      /\ (Want.route = "folder" => NotTaken(stoodAt, Want))
  BY AtAListing
<1>2. /\ \A p \in Places(Want) : stoodAt[p] = {Now[p]} /\ Now[p] = There(p) /\ There(p) \in AllStates
      /\ Want.at \in Places(Want) /\ ToSet(Want.inside) \subseteq Places(Want)
      /\ Want.named # None => Want.named \in Places(Want)
      /\ ListingSeen(Want, look, kept, reads, partial)
  BY <1>1, AtAStill
<1>3. \A p \in Places(Want) : \A S : HasStood(stoodAt, p, S) <=> There(p) \in S
  BY <1>2 DEF HasStood
<1>4. pending # {} \/ kept # <<>> => There(Want.at) = "dir"
  BY <1>1, <1>2, <1>3 DEF ListingTold
<1>5. kept \in Seq(ToSet(Want.inside)) /\ reads \in Seq(Readings)
  BY <1>1 DEF ListingTold
<1>6. Want.route = "folder" => Worths(Want, Now) = Among(Want, Now, Image, {"locked"})
  <2> SUFFICES ASSUME Want.route = "folder"
               PROVE  Worths(Want, Now) = Among(Want, Now, Image, {"locked"})
    OBVIOUS
  <2>1. Want.named # None => Now[Want.named] \in NotOffered
    BY <1>1, <1>2, <1>3 DEF NotTaken
  <2>2. ~(Want.named # None /\ Now[Want.named] \in {"known", "unlisted", "locked", "hidden"})
    BY <2>1 DEF NotOffered, NoBios, FolderStates
  <2> QED BY <2>2 DEF Worths, FolderWorths, Image
<1>7. Want.route = "search" =>
        Worths(Want, Now) = Among(Want, Now, Known, {"unlisted", "other", "locked"})
  BY DEF Worths, SearchWorths, Known
<1> QED BY <1>2, <1>3, <1>4, <1>5, <1>6, <1>7

(* What a listing finds, and what it keeps. *)
LEMMA ListFolderSeen ==
  ASSUME FirmwareTold, FirmwareSeen, ListFolder
  PROVE  FirmwareSeen'
<1>1. /\ look = "list" /\ look' = "sizes" /\ look \in LooksOfARoute \ ListingLooks /\ Looking
      /\ UNCHANGED <<turn, required, absent>>
      /\ kept' = kept /\ reads' = reads /\ partial' = (There(Want.at) \in {"closed", "hidden"})
  BY DEF ListFolder, LooksOfARoute, ListingLooks
<1>2. kept' = <<>> /\ reads' = <<>>
  BY <1>1, AtAWant DEF NoLooks
<1>3. shifts = 0 => LookSeen(Want, "sizes")
  <2>1. shifts = 0 => LookSeen(Want, look)
    BY <1>1, AtAStill
  <2> QED BY <1>1, <2>1 DEF LookSeen, FileSeen, OfferLooks
<1>4. ListingSeen(Want, "sizes", kept', reads', partial')
  <2>1. DOMAIN kept' = {} /\ DOMAIN reads' = {}
    BY <1>2
  <2> QED BY <1>1, <2>1 DEF ListingSeen
<1> QED
  BY <1>1, <1>3, <1>4, SeenGoesOn

(* SizeUp: what is kept is a file of the right size. *)
LEMMA SizeUpSeen ==
  ASSUME FirmwareTold, FirmwareSeen, SizeUp
  PROVE  FirmwareSeen'
<1> DEFINE p == Want.inside[Earliest(pending)]
<1>1. /\ look = "sizes" /\ look' = look /\ look \in ListingLooks /\ Looking
      /\ UNCHANGED <<turn, required, absent>> /\ reads' = reads /\ partial' = partial
      /\ kept' = IF There(p) \in Files \ {"short"} THEN Append(kept, p) ELSE kept
  BY DEF SizeUp, ListingLooks
<1>2. look \in LooksOfARoute /\ reads = <<>> /\ kept \in Seq(ToSet(Want.inside))
  BY <1>1, AtAListing DEF ListingTold
<1> HIDE DEF p
<1>3. shifts = 0 => LookSeen(Want, look')
  BY <1>1, <1>2, AtAStill
<1>4. shifts = 0 => ListingSeen(Want, look', kept', reads', partial')
  <2> SUFFICES ASSUME shifts = 0 PROVE ListingSeen(Want, "sizes", kept', <<>>, partial)
    BY <1>1, <1>2
  <2>1. ListingSeen(Want, "sizes", kept, <<>>, partial)
    BY <1>1, <1>2, AtAStillListing
  <2>2. \A i \in DOMAIN kept' : There(kept'[i]) \in Files \ {"short"}
    <3>1. CASE kept' = kept
      BY <2>1, <3>1 DEF ListingSeen
    <3>2. CASE There(p) \in Files \ {"short"} /\ kept' = Append(kept, p)
      <4>1. /\ DOMAIN kept' = 1..(Len(kept) + 1) /\ DOMAIN kept = 1..Len(kept) /\ Len(kept) \in Nat
            /\ kept'[Len(kept) + 1] = p
            /\ \A i \in 1..Len(kept) : kept'[i] = kept[i]
        BY <3>2, <1>2
      <4>2. \A i \in DOMAIN kept : There(kept[i]) \in Files \ {"short"}
        BY <2>1 DEF ListingSeen
      <4> SUFFICES ASSUME NEW i \in DOMAIN kept' PROVE There(kept'[i]) \in Files \ {"short"}
        OBVIOUS
      <4>3. CASE i = Len(kept) + 1
        BY <4>1, <4>3, <3>2
      <4>4. CASE i # Len(kept) + 1
        <5>1. i \in DOMAIN kept /\ kept'[i] = kept[i]
          BY <4>1, <4>4
        <5> QED BY <5>1, <4>2
      <4> QED BY <4>3, <4>4
    <3> QED BY <1>1, <3>1, <3>2
  <2>3. DOMAIN <<>> = {}
    OBVIOUS
  <2> QED BY <2>1, <2>2, <2>3 DEF ListingSeen
<1> QED
  BY <1>1, <1>2, <1>3, <1>4, SeenGoesOn

(* What the sizes alone leave open, nobody could tell. *)
LEMMA EndListingSeen ==
  ASSUME FirmwareTold, FirmwareSeen, EndListing
  PROVE  FirmwareSeen'
<1>1. look = "sizes" /\ look \in ListingLooks /\ Looking /\ pending = {}
  BY DEF EndListing, ListingLooks
<1>2. /\ look \in LooksOfARoute /\ Listed(Want)
      /\ ListingTold(stoodAt, Want, "sizes", {}, kept, reads, partial)
  BY <1>1, AtAListing
<1>3. ASSUME shifts = 0, kept # <<>>, ~verify PROVE Tells(Want) = BOOLEAN
  <2>1. 1 \in DOMAIN kept /\ kept[1] \in ToSet(Want.inside) /\ There(Want.at) = "dir"
    BY <1>1, <1>3, AtAStillListing
  <2>2. Now[kept[1]] \in Files \ {"short"} /\ Now[Want.at] = "dir"
    BY <2>1, <1>1, <1>3, AtAStillListing DEF ListingSeen
  <2>3. Unread(Want, Now)
    BY <2>1, <2>2, <1>2 DEF Unread
  <2> QED BY <2>3, <1>3, MayBeEither
<1>4. ASSUME shifts = 0, partial PROVE Tells(Want) = BOOLEAN
  <2>1. Now[Want.at] \in {"closed", "hidden"}
    BY <1>1, <1>4, AtAStillListing DEF ListingSeen
  <2>2. Now[Want.at] \notin Files \union {"missing", "dir"}
    BY <2>1 DEF Files
  <2>3. Among(Want, Now, Image, {"locked"}) = BOOLEAN
        /\ Among(Want, Now, Known, {"unlisted", "other", "locked"}) = BOOLEAN
    BY <2>2, AmongDoubts
  <2>4. Worths(Want, Now) = BOOLEAN
    BY <2>3, <1>1, <1>2, <1>4, AtAStillListing DEF Listed
  <2> QED BY <2>4, MayBeEither
<1>5. CASE kept # <<>> /\ verify
  <2>1. GoOn("read")
    BY <1>5 DEF EndListing
  <2>2. UNCHANGED <<turn, pending, kept, reads, partial, required, absent>> /\ look' = "read"
    BY <2>1 DEF GoOn
  <2>3. shifts = 0 => LookSeen(Want, "read") /\ ListingSeen(Want, "read", kept, reads, partial)
    <3>1. shifts = 0 => LookSeen(Want, look) /\ ListingSeen(Want, look, kept, reads, partial)
      BY <1>1, <1>2, AtAStill
    <3> QED BY <3>1, <1>1 DEF LookSeen, FileSeen, OfferLooks, ListingSeen
  <2> QED
    BY <2>2, <2>3, <1>1, <1>2, SeenGoesOn
<1>6. CASE ~(kept # <<>> /\ verify) /\ Want.route = "folder"
  <2> DEFINE contents == IF kept = <<>> /\ ~partial THEN "no" ELSE "open"
  <2>1. ConcludeFolder("dir", contents)
    BY <1>6 DEF EndListing
  <2>2. contents = "open" => partial \/ (kept # <<>> /\ ~verify)
    BY <1>6
  <2> HIDE DEF contents
  <2> QED
    BY <2>1, <2>2, <1>1, <1>2, <1>3, <1>4, <1>6, SeenConcludesFolder
<1>7. CASE ~(kept # <<>> /\ verify) /\ Want.route # "folder"
  <2>1. Want.route = "search"
    BY <1>2, <1>7 DEF Listed
  <2>2. /\ Pass /\ required' = required
        /\ IF kept = <<>> /\ ~partial /\ Want.regions = None
           THEN absent' = absent \union {Want.system} ELSE absent' = absent
    BY <1>7 DEF EndListing, StateNothing
  <2>3. ASSUME shifts = 0 PROVE LeftUnsaid(Want, absent')
    <3>1. CASE kept # <<>> \/ partial
      <4>1. Tells(Want) = BOOLEAN
        BY <3>1, <2>3, <1>3, <1>4, <1>7
      <4> QED BY <4>1 DEF LeftUnsaid
    <3>2. CASE kept = <<>> /\ ~partial
      <4>1. ListingTold(stoodAt, Want, "sizes", {}, <<>>, reads, FALSE)
        BY <3>2, <1>2 DEF ListingTold
      <4>2. SearchFails(stoodAt, Want)
        BY <4>1, NothingKept
      <4>3. FALSE \in Worths(Want, Now)
        <5>1. \/ Now[Want.at] \in Files \union {"missing"}
              \/ /\ Now[Want.at] = "dir"
                 /\ \A p \in ToSet(Want.inside) : Now[p] \notin Known \union {"unlisted", "other", "locked"}
          <6>1. Want.at \in Places(Want) /\ \A p \in Places(Want) : stoodAt[p] = {Now[p]}
            BY <1>2, <2>3, AtAStill
          <6>2. \A S : HasStood(stoodAt, Want.at, S) => Now[Want.at] \in S
            BY <6>1 DEF HasStood
          <6>3. \A p \in ToSet(Want.inside) : HasStood(stoodAt, p, NoCandidate) => Now[p] \in NoCandidate
            BY <1>1, <2>3, AtAStillListing
          <6>4. \A s \in NoCandidate : s \notin Known \union {"unlisted", "other", "locked"}
            BY DEF NoCandidate, Known, Files
          <6> QED BY <4>2, <6>2, <6>3, <6>4 DEF SearchFails, NoFolder
        <5>2. Among(Want, Now, Known, {"unlisted", "other", "locked"}) = {FALSE}
          BY <5>1, AmongNothing
        <5> QED BY <5>2, <2>1, <2>3, <1>1, AtAStillListing
      <4>4. FALSE \in Tells(Want)
        BY <4>3 DEF Tells
      <4>5. Want.regions = None => Want.system \in absent'
        BY <2>2, <3>2
      <4> QED BY <4>4, <4>5 DEF LeftUnsaid
    <3> QED BY <3>1, <3>2
  <2>4. required' = required \union {} /\ absent \subseteq absent'
    BY <2>2
  <2> QED
    BY <1>1, <1>2, <2>1, <2>2, <2>3, <2>4, SeenPasses
<1> QED BY <1>5, <1>6, <1>7

-----------------------------------------------------------------------------
(* Reading on a disk that stands still: every file kept is read as it stands,  *)
(* and what was not kept was no candidate.                                   *)
LEMMA WhileReadingStill ==
  ASSUME FirmwareTold, FirmwareSeen, look \in {"read", "header"}, shifts = 0
  PROVE  /\ look \in ListingLooks /\ LookSeen(Want, look)
         /\ ListingSeen(Want, look, kept, reads, partial)
         /\ Now[Want.at] = "dir"
         /\ \A i \in DOMAIN kept :
              /\ kept[i] \in ToSet(Want.inside)
              /\ Now[kept[i]] = There(kept[i])
              /\ Now[kept[i]] \in Files \ {"short"}
         /\ \A p \in ToSet(Want.inside) :
              p \in ToSet(kept) \/ Now[p] \notin Files \ {"short"}
<1>1. look \in ListingLooks /\ look \in LooksOfARoute /\ kept # <<>> /\ kept \in Seq(ToSet(Want.inside))
  BY WhileReading, Zenon
<1>2. /\ \/ NoFolder(stoodAt, Want)
         \/ \A p \in ToSet(Want.inside) : Ruled(stoodAt, Want, p, {}, kept)
      /\ \A i \in DOMAIN kept : kept[i] \in ToSet(Want.inside)
  BY WhileReading, Zenon
<1>3. /\ ListingSeen(Want, look, kept, reads, partial)
      /\ There(Want.at) = "dir" /\ Now[Want.at] = "dir"
      /\ \A p \in ToSet(Want.inside) : Now[p] = There(p)
      /\ \A p \in ToSet(Want.inside) : \A S : HasStood(stoodAt, p, S) <=> There(p) \in S
  BY <1>1, AtAStillListing
<1>4. LookSeen(Want, look)
  BY <1>1, AtAStill
<1>5. ~NoFolder(stoodAt, Want)
  <2>1. Want.at \in Places(Want) /\ stoodAt[Want.at] = {Now[Want.at]}
    BY <1>1, AtAStill
  <2> QED BY <2>1, <1>3 DEF NoFolder, HasStood, Files
<1>6. \A i \in DOMAIN kept : There(kept[i]) \in Files \ {"short"}
  BY <1>3 DEF ListingSeen
<1>7. ASSUME NEW p \in ToSet(Want.inside) PROVE p \in ToSet(kept) \/ Now[p] \notin Files \ {"short"}
  <2>1. p \in ToSet(kept) \/ HasStood(stoodAt, p, NoCandidate)
    BY <1>2, <1>5 DEF Ruled
  <2>2. HasStood(stoodAt, p, NoCandidate) => Now[p] \in NoCandidate
    BY <1>3
  <2> QED BY <2>1, <2>2 DEF NoCandidate
<1> QED BY <1>1, <1>2, <1>3, <1>4, <1>6, <1>7

(* What a reading says of a file that stands still. *)
LEMMA ReadDigestSeen ==
  ASSUME FirmwareTold, FirmwareSeen, ReadDigest
  PROVE  FirmwareSeen'
<1> DEFINE n == Len(reads) + 1
           read == [digest |-> Digest(There(kept[n])), header |-> None]
<1>1. /\ look = "read" /\ Looking
      /\ look' = IF Want.route = "folder" THEN "header" ELSE "read"
      /\ UNCHANGED <<turn, pending, kept, partial, required, absent>>
      /\ reads' = Append(reads, read)
  BY DEF ReadDigest
<1>2. /\ look \in LooksOfARoute /\ reads \in Seq(Readings)
  BY <1>1, WhileReading
<1>3. read.digest = Digest(There(kept[n]))
  OBVIOUS
<1> HIDE DEF read
<1>4. /\ DOMAIN reads' = 1..n /\ DOMAIN reads = 1..(n - 1) /\ n \in Nat \ {0} /\ Len(reads') = n
      /\ reads'[n] = read /\ \A i \in 1..(n - 1) : reads'[i] = reads[i]
  BY <1>1, <1>2
<1> HIDE DEF n
<1>5. ASSUME shifts = 0
      PROVE  LookSeen(Want, look') /\ ListingSeen(Want, look', kept, reads', partial)
  <2>1. LookSeen(Want, look) /\ ListingSeen(Want, look, kept, reads, partial)
    BY <1>1, <1>5, WhileReadingStill
  <2>2. LookSeen(Want, look')
    BY <1>1, <2>1 DEF LookSeen, FileSeen, OfferLooks
  <2>3. \A i \in DOMAIN reads' : reads'[i].digest = Digest(There(kept[i]))
    <3> SUFFICES ASSUME NEW i \in 1..n PROVE reads'[i].digest = Digest(There(kept[i]))
      BY <1>4
    <3>1. CASE i = n
      BY <3>1, <1>3, <1>4
    <3>2. CASE i # n
      <4>1. i \in 1..(n - 1)
        BY <3>2, <1>4
      <4> QED BY <4>1, <1>4, <2>1 DEF ListingSeen
    <3> QED BY <3>1, <3>2
  <2>4. Want.route = "folder" =>
          \A i \in DOMAIN reads' : look' # "header" \/ i < n => reads'[i].header = Header(There(kept[i]))
    <3> SUFFICES ASSUME Want.route = "folder", NEW i \in 1..n, i < n
                 PROVE  reads'[i].header = Header(There(kept[i]))
      BY <1>1, <1>4
    <3>1. i \in 1..(n - 1)
      BY <1>4
    <3> QED BY <3>1, <1>1, <1>4, <2>1 DEF ListingSeen
  <2> QED BY <1>1, <1>4, <2>1, <2>2, <2>3, <2>4 DEF ListingSeen
<1> QED
  BY <1>1, <1>2, <1>5, SeenGoesOn

(* ReadHeader: the header is the one of the file that was digested. *)
LEMMA ReadHeaderSeen ==
  ASSUME FirmwareTold, FirmwareSeen, ReadHeader
  PROVE  FirmwareSeen'
<1> DEFINE n == Len(reads)
           header == Header(There(kept[n]))
<1>1. /\ look = "header" /\ look' = "read" /\ Looking
      /\ UNCHANGED <<turn, pending, kept, partial, required, absent>>
      /\ reads' = [reads EXCEPT ![n].header = header]
  BY DEF ReadHeader
<1>2. look \in LooksOfARoute /\ reads \in Seq(Readings) /\ reads # <<>>
  BY <1>1, WhileReading
<1>3. DOMAIN reads = 1..n /\ n \in Nat \ {0} /\ n \in DOMAIN reads
  BY <1>2
<1>4. reads[n].digest = [reads[n] EXCEPT !.header = header].digest
      /\ [reads[n] EXCEPT !.header = header].header = header
  <2>1. reads[n] \in Readings
    BY <1>2, <1>3
  <2> QED BY <2>1 DEF Readings
<1>5. /\ DOMAIN reads' = 1..n
      /\ reads'[n].digest = reads[n].digest /\ reads'[n].header = header
      /\ \A i \in 1..n : i # n => reads'[i] = reads[i]
  BY <1>1, <1>3, <1>4
<1> HIDE DEF n, header
<1>6. ASSUME shifts = 0
      PROVE  LookSeen(Want, look') /\ ListingSeen(Want, look', kept, reads', partial)
  <2>1. LookSeen(Want, look) /\ ListingSeen(Want, look, kept, reads, partial)
    BY <1>1, <1>6, WhileReadingStill
  <2>2. LookSeen(Want, look')
    BY <1>1, <2>1 DEF LookSeen, FileSeen, OfferLooks
  <2>3. ASSUME NEW i \in 1..n PROVE reads'[i].digest = Digest(There(kept[i]))
    BY <1>3, <1>5, <2>1 DEF ListingSeen
  <2>4. ASSUME Want.route = "folder", NEW i \in 1..n PROVE reads'[i].header = Header(There(kept[i]))
    <3>1. CASE i = n
      BY <3>1, <1>5 DEF header
    <3>2. CASE i # n
      <4>1. i < n /\ i \in DOMAIN reads
        BY <3>2, <2>4, <1>3
      <4>2. n = Len(reads)
        BY DEF n
      <4> QED BY <3>2, <4>1, <4>2, <1>5, <2>1, <2>4 DEF ListingSeen
    <3> QED BY <3>1, <3>2
  <2> QED BY <1>1, <1>5, <2>1, <2>2, <2>3, <2>4 DEF ListingSeen
<1> QED
  BY <1>1, <1>2, <1>6, SeenGoesOn

(* What the readings leave undecided, nobody could tell. *)
LEMMA DirectoryIdentifiedSeen ==
  ASSUME FirmwareTold, FirmwareSeen, DirectoryIdentified
  PROVE  FirmwareSeen'
<1> DEFINE contents == IF \E i \in DOMAIN reads : reads[i].header = "bios" THEN "yes"
                       ELSE IF \E i \in DOMAIN reads : Undecided(reads[i]) THEN "open" ELSE "no"
<1>1. /\ look = "read" /\ look \in ListingLooks /\ Looking /\ Want.route = "folder"
      /\ Len(reads) = Len(kept) /\ ConcludeFolder("dir", contents)
  BY DEF DirectoryIdentified, ListingLooks
<1>2. look \in LooksOfARoute /\ kept \in Seq(ToSet(Want.inside)) /\ reads \in Seq(Readings)
  BY <1>1, WhileReading
<1>3. DOMAIN reads = DOMAIN kept
  BY <1>1, <1>2
<1>4. ASSUME shifts = 0, contents = "open" PROVE Tells(Want) = BOOLEAN
  <2>1. /\ \A i \in DOMAIN reads : reads[i].header # "bios"
        /\ \E i \in DOMAIN reads : Undecided(reads[i])
    BY <1>4
  <2>2. /\ Now[Want.at] = "dir"
        /\ \A i \in DOMAIN kept : /\ kept[i] \in ToSet(Want.inside)
                                  /\ Now[kept[i]] = There(kept[i])
                                  /\ Now[kept[i]] \in Files \ {"short"}
        /\ \A p \in ToSet(Want.inside) : p \in ToSet(kept) \/ Now[p] \notin Files \ {"short"}
        /\ ListingSeen(Want, look, kept, reads, partial)
    BY <1>1, <1>4, WhileReadingStill
  <2>3. \A i \in DOMAIN kept : /\ reads[i].digest = Digest(Now[kept[i]])
                               /\ reads[i].header = Header(Now[kept[i]])
    BY <1>1, <1>3, <2>2 DEF ListingSeen
  <2>4. \A i \in DOMAIN kept : Now[kept[i]] \notin Image
    BY <1>3, <2>1, <2>3 DEF Header, Image
  <2>5. \A p \in ToSet(Want.inside) : Now[p] \notin Image
    <3>1. \A p \in ToSet(kept) : Now[p] \notin Image
      BY <2>4 DEF ToSet
    <3> QED BY <2>2, <3>1 DEF Image, Files
  <2>6. PICK i \in DOMAIN kept : Undecided(reads[i])
    BY <1>3, <2>1
  <2> DEFINE s == Now[kept[i]]
  <2>7. s \in {"locked", "denied"}
    <3>1. s \in {"locked", "denied", "other"}
      BY <2>2, <2>4 DEF Files, Image
    <3>2. s # "other"
      BY <2>3, <2>6, StatesAssumption DEF Undecided, Header, Digest
    <3> QED BY <3>1, <3>2
  <2>8. kept[i] \in ToSet(Want.inside)
    BY <2>2
  <2>9. CASE s = "locked"
    <3>1. Among(Want, Now, Image, {"locked"}) = BOOLEAN
      BY <2>2, <2>5, <2>8, <2>9, AmongDoubts
    <3>2. Worths(Want, Now) = BOOLEAN
      BY <3>1, <1>1, <1>4, AtAStillListing
    <3> QED BY <3>2, MayBeEither
  <2>10. CASE s = "denied"
    <3>1. Among(Want, Now, Image, {"denied"}) = BOOLEAN
      BY <2>2, <2>5, <2>8, <2>10, AmongDoubts
    <3>2. Contested(Want, Now)
      BY <3>1, <1>1 DEF Contested, Image
    <3> QED BY <3>2, MayBeEither
  <2> QED BY <2>7, <2>9, <2>10
<1> HIDE DEF contents
<1> QED
  BY <1>1, <1>2, <1>4, SeenConcludesFolder

(* A pick that the table does not list is one of no better. *)
LEMMA PickImageSeen ==
  ASSUME FirmwareTold, FirmwareSeen, PickImage
  PROVE  FirmwareSeen'
<1> DEFINE known == {i \in DOMAIN reads : reads[i].digest = "listed"}
           weighed == IF known = {} THEN DOMAIN reads ELSE known
           first == Earliest(weighed)
<1>1. /\ look = "read" /\ Looking /\ Want.route = "search" /\ Len(reads) = Len(kept)
      /\ look' = "picked" /\ kept' = <<kept[first]>> /\ reads' = <<reads[first]>>
      /\ UNCHANGED <<turn, pending, partial, required, absent>>
  BY DEF PickImage
<1>2. /\ look \in LooksOfARoute /\ kept \in Seq(ToSet(Want.inside)) /\ kept # <<>>
      /\ reads \in Seq(Readings)
  BY <1>1, WhileReading
<1>3. DOMAIN reads = DOMAIN kept /\ DOMAIN reads # {} /\ DOMAIN reads \in SUBSET Nat
  BY <1>1, <1>2
<1>4. first \in DOMAIN reads /\ (known # {} => reads[first].digest = "listed")
  <2>1. weighed \in SUBSET Nat /\ weighed # {} /\ weighed \subseteq DOMAIN reads
    BY <1>3
  <2>2. first \in weighed
    BY <2>1, EarliestIsOneOf
  <2> QED BY <2>1, <2>2
<1> HIDE DEF first
<1>5. /\ DOMAIN kept' = {1} /\ DOMAIN reads' = {1}
      /\ kept'[1] = kept[first] /\ reads'[1] = reads[first]
  BY <1>1
<1>6. ASSUME shifts = 0
      PROVE  LookSeen(Want, look') /\ ListingSeen(Want, look', kept', reads', partial')
  <2>1. /\ LookSeen(Want, look) /\ ListingSeen(Want, look, kept, reads, partial)
        /\ \A i \in DOMAIN kept : Now[kept[i]] = There(kept[i])
        /\ \A p \in ToSet(Want.inside) : p \in ToSet(kept) \/ Now[p] \notin Files \ {"short"}
        /\ look \in ListingLooks
    BY <1>1, <1>6, WhileReadingStill
  <2>2. LookSeen(Want, look')
    BY <1>1, <2>1 DEF LookSeen, FileSeen, OfferLooks
  <2>3. ASSUME reads'[1].digest # "listed", NEW p \in ToSet(Want.inside)
        PROVE  There(p) \notin Known
    <3>1. \A i \in DOMAIN kept : reads[i].digest # "listed" /\ reads[i].digest = Digest(There(kept[i]))
      BY <2>1, <2>3, <1>3, <1>4, <1>5 DEF ListingSeen
    <3>2. \A i \in DOMAIN kept : There(kept[i]) \notin Known
      BY <3>1 DEF Digest, Known
    <3>3. p \in ToSet(kept) => There(p) \notin Known
      BY <3>2 DEF ToSet
    <3>4. Now[p] = There(p)
      BY <1>6, <2>1, AtAStillListing
    <3>5. There(p) \in Known => Now[p] \in Files \ {"short"}
      BY <3>4 DEF Known, Files
    <3> QED BY <3>3, <3>5, <2>1
  <2>4. There(kept'[1]) \in Files \ {"short"} /\ reads'[1].digest = Digest(There(kept'[1]))
    BY <2>1, <1>3, <1>4, <1>5 DEF ListingSeen
  <2> QED BY <1>1, <1>5, <2>1, <2>2, <2>3, <2>4 DEF ListingSeen
<1> QED
  BY <1>1, <1>2, <1>6, SeenGoesOn

(* A pick that is not recognised may be an image, or none. *)
LEMMA FoundImageSeen ==
  ASSUME FirmwareTold, FirmwareSeen, FoundImage
  PROVE  FirmwareSeen'
<1> DEFINE kind == Kind(There(kept[1]))
           checked == IF kind = "file" THEN Recognised(reads[1].digest) ELSE None
<1>1. /\ look = "picked" /\ look \in ListingLooks /\ Looking /\ ConcludePick(kind, checked)
  BY DEF FoundImage, ListingLooks
<1>2. look \in LooksOfARoute /\ ListingTold(stoodAt, Want, look, pending, kept, reads, partial)
  BY <1>1, AtAListing
<1>3. /\ Want.route = "search" /\ Len(kept) = 1 /\ Len(reads) = 1
      /\ kept \in Seq(ToSet(Want.inside)) /\ reads \in Seq(Readings) /\ kept # <<>>
  BY <1>1, <1>2 DEF ListingTold
<1>4. 1 \in DOMAIN reads /\ 1 \in DOMAIN kept /\ kept[1] \in ToSet(Want.inside)
  BY <1>3
<1>5. ASSUME shifts = 0
      PROVE  kind = "file" /\ (checked \in Doubtful => Tells(Want) = BOOLEAN)
  <2>1. /\ ListingSeen(Want, look, kept, reads, partial)
        /\ Now[Want.at] = "dir" /\ Now[kept[1]] = There(kept[1])
        /\ \A p \in ToSet(Want.inside) : Now[p] = There(p)
    BY <1>1, <1>3, <1>4, <1>5, AtAStillListing
  <2>2. There(kept[1]) \in Files \ {"short"} /\ reads[1].digest = Digest(There(kept[1]))
    BY <1>4, <2>1 DEF ListingSeen
  <2>3. kind = "file"
    BY <2>2 DEF Kind
  <2> SUFFICES ASSUME checked \in Doubtful PROVE Tells(Want) = BOOLEAN
    BY <2>3
  <2>4. reads[1].digest # "listed"
    BY <2>3, StatesAssumption DEF Recognised, Doubtful
  <2>5. \A p \in ToSet(Want.inside) : Now[p] \notin Known
    BY <1>1, <2>1, <2>4 DEF ListingSeen
  <2>6. Now[kept[1]] \in {"unlisted", "other", "locked"}
    BY <1>4, <2>1, <2>2, <2>5 DEF Files, Known
  <2>7. Among(Want, Now, Known, {"unlisted", "other", "locked"}) = BOOLEAN
    BY <1>4, <2>1, <2>5, <2>6, AmongDoubts
  <2>8. Worths(Want, Now) = BOOLEAN
    BY <1>1, <1>3, <1>5, <2>7, AtAStillListing
  <2> QED BY <2>8, MayBeEither
<1> HIDE DEF kind, checked
<1> QED
  BY <1>1, <1>2, <1>3, <1>5, SeenConcludesPick

-----------------------------------------------------------------------------
(* A question opens with what stands there, and nothing said. *)
LEMMA AskFirmwareSeen ==
  ASSUME FirmwareTold, AskFirmware
  PROVE  FirmwareSeen'
<1>1. /\ core' \in Cores
      /\ stoodAt' = [p \in DOMAIN shelf' |-> {Stands(shelf', p)}]
      /\ look' = FirstLook(core', 1) /\ turn' = 1 /\ required' = {}
  BY DEF AskFirmware, FirmwareTold
<1>2. Len(core'.wants) \in Nat /\ DOMAIN core'.wants = 1..Len(core'.wants)
  BY <1>1, WantsTyped, CoresAssumption
<1>3. StandsStill'
  BY <1>1 DEF StandsStill, There
<1>4. look' \in {"weigh", "list", "kind"}
      /\ (look' = "list" => core'.wants[1].route = "search")
  BY <1>1 DEF FirstLook
<1>5. look' \in LooksOfARoute => LookSeen(Want, look)'
  BY <1>1, <1>4 DEF LookSeen, FileSeen, OfferLooks, Want, LooksOfARoute
<1>6. StatedSeen'
  BY <1>1, <1>2 DEF StatedSeen
<1> QED
  BY <1>3, <1>4, <1>5, <1>6 DEF FirmwareSeen, ListingLooks

(* The answer is given of what was seen. *)
LEMMA WeighSeen ==
  ASSUME FirmwareTold, FirmwareSeen, UNCHANGED <<shelf, shifts, stoodAt, core, verify, turn, required, absent>>,
         look # "idle", look' \notin LooksOfARoute
  PROVE  FirmwareSeen'
<1> SUFFICES ASSUME shifts = 0 PROVE StandsStill' /\ StatedSeen' /\ look' \notin ListingLooks
  BY DEF FirmwareSeen
<1>1. StandsStill /\ StatedSeen
  BY DEF FirmwareSeen
<1>2. /\ shelf' = shelf /\ stoodAt' = stoodAt /\ core' = core /\ verify' = verify /\ turn' = turn
      /\ required' = required /\ absent' = absent
  OBVIOUS
<1>3. StandsStill'
  BY <1>1, <1>2 DEF StandsStill, There, Stands
<1>4. Now' = Now
  BY <1>2 DEF Now, There, Stands
<1>5. \A w : Tells(w)' = Tells(w)
  BY <1>2, <1>4 DEF Tells
<1>6. StatedSeen'
  BY <1>1, <1>2, <1>5 DEF StatedSeen, Settled, LeftUnsaid, WantOf
<1>7. look' \notin ListingLooks
  BY DEF ListingLooks, LooksOfARoute
<1> QED BY <1>3, <1>6, <1>7

(* A step of something else. *)
LEMMA SeenStutters ==
  ASSUME FirmwareTold, FirmwareSeen, UNCHANGED firmwareVars
  PROVE  FirmwareSeen'
<1>1. UNCHANGED <<shelf, shifts, stoodAt, core, verify, turn, look, pending, kept, reads, partial,
                  required, absent, verdict>>
  BY DEF firmwareVars
<1>2. Looking
  BY <1>1 DEF Looking
<1>3. CASE look \in LooksOfARoute
  <2>1. shifts = 0 => LookSeen(Want, look)
    BY <1>3 DEF FirmwareSeen, LooksOfARoute
  <2>2. shifts = 0 /\ look \in ListingLooks => ListingSeen(Want, look, kept, reads, partial)
    BY <1>3 DEF FirmwareSeen, LooksOfARoute
  <2> QED BY <1>1, <1>2, <1>3, <2>1, <2>2, SeenGoesOn
<1>4. CASE look = "idle"
  BY <1>1, <1>4 DEF FirmwareSeen
<1>5. CASE look \notin LooksOfARoute /\ look # "idle"
  BY <1>1, <1>5, WeighSeen
<1> QED BY <1>3, <1>4, <1>5

(* On a disk that has not moved, all that was said and all that was left open  *)
(* is what could be told of it.                                              *)
THEOREM FirmwareSeenHolds == FirmwareSpec => []FirmwareSeen
<1>1. FirmwareInit => FirmwareSeen
  BY DEF FirmwareInit, FirmwareSeen
<1>2. FirmwareTold /\ FirmwareSeen /\ [FirmwareNext]_firmwareVars => FirmwareSeen'
  <2> SUFFICES ASSUME FirmwareTold, FirmwareSeen, [FirmwareNext]_firmwareVars PROVE FirmwareSeen'
    OBVIOUS
  <2>1. CASE UNCHANGED firmwareVars
    BY <2>1, SeenStutters
  <2>2. CASE AskFirmware
    BY <2>2, AskFirmwareSeen
  <2>3. CASE Shift
    <3>1. shifts \in Nat /\ shifts' = shifts + 1
      BY <2>3, ShiftsAssumption DEF Shift, FirmwareTold
    <3>2. shifts' # 0
      BY <3>1
    <3> QED BY <3>2 DEF FirmwareSeen
  <2>4. CASE Weigh
    BY <2>4, WeighSeen DEF Weigh, LooksOfARoute
  <2>5. CASE NextFirmwareQuestion
    BY <2>5 DEF NextFirmwareQuestion, FirmwareSeen
  <2>6. CASE ObserveKind \/ ObserveSize \/ ObserveDigest \/ ImageGate \/ ImageDigest
    BY <2>6, ObserveKindSeen, ObserveSizeSeen, ObserveDigestSeen, ImageGateSeen, ImageDigestSeen
  <2>7. CASE OfferKind \/ OfferSize \/ OfferHeader \/ StillThere \/ ConfiguredKind \/ ConfiguredDigest
    BY <2>7, OfferSeenOn, ConfiguredKindSeen, ConfiguredDigestSeen
  <2>8. CASE ListFolder \/ SizeUp \/ EndListing \/ ReadDigest \/ ReadHeader \/ DirectoryIdentified
             \/ PickImage \/ FoundImage
    BY <2>8, ListFolderSeen, SizeUpSeen, EndListingSeen, ReadDigestSeen, ReadHeaderSeen,
       DirectoryIdentifiedSeen, PickImageSeen, FoundImageSeen
  <2> QED
    BY <2>1, <2>2, <2>3, <2>4, <2>5, <2>6, <2>7, <2>8 DEF FirmwareNext
<1> QED
  BY <1>1, <1>2, FirmwareToldHolds, PTL DEF FirmwareSpec

-----------------------------------------------------------------------------
(* Once answered on a disk that has not moved: there was one moment, and what  *)
(* each requirement says fits what is told of its want.                      *)
LEMMA AFailureIsTold ==
  ASSUME FirmwareTold, FirmwareSeen, look = "answered", shifts = 0, NEW r \in required,
         Satisfied(r) = "no"
  PROVE  FALSE \in Tells(WantOf(r))
<1>1. StandsStill /\ StatedSeen
  BY DEF FirmwareSeen
<1>2. /\ core \in Cores /\ DOMAIN shelf = WantedPlaces(core)
      /\ \A q \in required : q.want \in DOMAIN core.wants
  BY AtTheAnswer
<1>3. ~LostPick
  <2> SUFFICES ASSUME NEW q \in required, q.picked,
                      q.found = "missing"
                      \/ (WantOf(q).named # None
                          /\ stoodAt[WantOf(q).named] # {There(WantOf(q).named)})
               PROVE  FALSE
    BY DEF LostPick
  <2>1. q.found # "missing"
    BY <1>1 DEF StatedSeen, Settled
  <2>2. WantOf(q).named # None => WantOf(q).named \in DOMAIN shelf
    BY <1>2, AFolderIsOutside DEF WantOf
  <2> QED BY <2>1, <2>2, <1>1 DEF StandsStill
<1>4. PICK m \in Moments : Worths(WantOf(r), m) = {FALSE}
  BY <1>3, OneMomentFails
<1>5. m = Now
  BY <1>1, <1>4 DEF Moments, StandsStill, Now
<1> QED BY <1>4, <1>5 DEF Tells

(* What was said to be there may be good. *)
LEMMA ASuccessIsTold ==
  ASSUME FirmwareTold, FirmwareSeen, look = "answered", shifts = 0, NEW r \in required,
         Satisfied(r) = "yes"
  PROVE  TRUE \in Tells(WantOf(r))
<1> DEFINE w == WantOf(r)
<1>1. StandsStill /\ Settled(w, r)
  BY DEF FirmwareSeen, StatedSeen
<1>2. /\ core \in Cores /\ DOMAIN shelf = WantedPlaces(core)
      /\ r.want \in DOMAIN core.wants /\ Serves(stoodAt, w, r)
      /\ \A p \in WantedPlaces(core) : There(p) \in AllStates
  BY AtTheAnswer DEF Earned, WantOf
<1>3. /\ w.at \in WantedPlaces(core) /\ ToSet(w.inside) \subseteq WantedPlaces(core)
      /\ w.named # None => w.named \in WantedPlaces(core)
      /\ w.route \in Routes
  BY <1>2, AFolderIsOutside, WantsTyped DEF WantOf
<1> HIDE DEF w
<1>4. \A p \in WantedPlaces(core) : stoodAt[p] = {Now[p]} /\ Now[p] \in AllStates
  BY <1>1, <1>2 DEF StandsStill, Now
<1>5. \A p \in WantedPlaces(core) : \A S : HasStood(stoodAt, p, S) <=> Now[p] \in S
  BY <1>4 DEF HasStood
<1>6. CASE w.route = "key" /\ r.found = "file" /\ r.checked = "unknown"
  BY <1>1, <1>6 DEF Settled, w
<1>7. CASE ~(w.route = "key" /\ r.found = "file" /\ r.checked = "unknown")
  <2>1. CASE w.route = "file"
    <3>1. Now[w.at] \in IF w.pins = None THEN Files ELSE Known
      BY <1>2, <1>3, <1>5, <2>1 DEF Serves
    <3>2. Worths(w, Now) = {TRUE}
      BY <3>1, <2>1 DEF Worths, FileWorths, Judged, Known
    <3> QED BY <3>2 DEF Tells, w
  <2>2. CASE w.route = "key"
    <3>1. Now[w.at] \in Known
      BY <1>2, <1>3, <1>5, <1>7, <2>2 DEF Serves
    <3>2. Worths(w, Now) = {TRUE}
      BY <3>1, <2>2 DEF Worths, KeyWorths, Judged, Known
    <3> QED BY <3>2 DEF Tells, w
  <2>3. CASE w.route = "folder" /\ r.picked
    <3>1. w.named # None /\ Now[w.named] \in Known /\ Now[w.named] \notin NoBios
      BY <1>2, <1>3, <1>4, <1>5, <2>3 DEF Serves, PickServes
    <3>2. Now[w.named] = "known"
      BY <3>1 DEF Known, NoBios
    <3>3. Worths(w, Now) = {TRUE}
      BY <3>1, <3>2, <2>3 DEF Worths, FolderWorths, Judged
    <3> QED BY <3>3 DEF Tells, w
  <2>4. CASE w.route = "folder" /\ ~r.picked
    <3>1. FolderServes(stoodAt, w)
      BY <1>2, <2>4 DEF Serves
    <3>2. PICK p \in ToSet(w.inside) : Now[p] \in Image
      BY <3>1, <1>3, <1>5 DEF FolderServes
    <3>3. Now[w.at] = "dir"
      BY <3>1, <1>3, <1>5 DEF FolderServes
    <3>4. w.named # None => Now[w.named] \in NotOffered
      BY <3>1, <1>3, <1>5 DEF FolderServes, NotTaken
    <3>5. ~(w.named # None /\ Now[w.named] \in {"known", "unlisted", "locked", "hidden"})
      BY <3>4 DEF NotOffered, NoBios, FolderStates
    <3>6. Among(w, Now, {"known", "unlisted"}, {"locked"}) = {TRUE}
      BY <3>2, <3>3, AmongSomething DEF Image
    <3>7. Worths(w, Now) = {TRUE}
      BY <3>5, <3>6, <2>4 DEF Worths, FolderWorths
    <3> QED BY <3>7 DEF Tells, w
  <2>5. CASE w.route = "search"
    <3>1. SearchServes(stoodAt, w)
      BY <1>2, <2>5 DEF Serves
    <3>2. PICK p \in ToSet(w.inside) : Now[p] \in Known
      BY <3>1, <1>3, <1>5 DEF SearchServes
    <3>3. Now[w.at] = "dir"
      BY <3>1, <1>3, <1>5 DEF SearchServes
    <3>4. Among(w, Now, {"known", "denied"}, {"unlisted", "other", "locked"}) = {TRUE}
      BY <3>2, <3>3, AmongSomething DEF Known
    <3>5. Worths(w, Now) = {TRUE}
      BY <3>4, <2>5 DEF Worths, SearchWorths
    <3> QED BY <3>5 DEF Tells, w
  <2> QED BY <1>3, <2>1, <2>2, <2>3, <2>4, <2>5 DEF Routes
<1> QED BY <1>6, <1>7

(* What is known at the answer, on a disk that stood still. *)
LEMMA AtAStillAnswer ==
  ASSUME FirmwareTold, FirmwareSeen, look = "answered", shifts = 0
  PROVE  /\ core \in Cores
         /\ \A m \in Moments : m = Now
         /\ \A r \in required :
              /\ r.want \in DOMAIN core.wants
              /\ Satisfied(r) \in Values
              /\ Satisfied(r) # "no" => TRUE \in Tells(WantOf(r))
              /\ Satisfied(r) # "yes" => FALSE \in Tells(WantOf(r))
         /\ \A q, r \in required : q.want = r.want => q = r
         /\ \A i \in DOMAIN core.wants :
              (\A r \in required : r.want # i) =>
                /\ core.wants[i].route = "search" /\ core.declaration = "packaged"
                /\ LeftUnsaid(core.wants[i], absent)
<1>1. StandsStill /\ StatedSeen
  BY DEF FirmwareSeen
<1>2. core \in Cores /\ \A r \in required : r.want \in DOMAIN core.wants /\ Satisfied(r) \in Values
  BY AtTheAnswer DEF Earned
<1>3. \A m \in Moments : m = Now
  BY <1>1 DEF Moments, StandsStill, Now
<1>4. \A r \in required : Satisfied(r) = "open" => Tells(WantOf(r)) = BOOLEAN
  BY <1>1 DEF StatedSeen, Settled
<1>5. \A r \in required : /\ Satisfied(r) # "no" => TRUE \in Tells(WantOf(r))
                          /\ Satisfied(r) # "yes" => FALSE \in Tells(WantOf(r))
  <2> SUFFICES ASSUME NEW r \in required
               PROVE  /\ Satisfied(r) # "no" => TRUE \in Tells(WantOf(r))
                      /\ Satisfied(r) # "yes" => FALSE \in Tells(WantOf(r))
    OBVIOUS
  <2> QED BY <1>2, <1>4, AFailureIsTold, ASuccessIsTold DEF Values
<1>6. AsksTold
  BY DEF FirmwareTold
<1>7. Len(core.wants) \in Nat /\ DOMAIN core.wants = 1..Len(core.wants)
  BY <1>2, WantsTyped, CoresAssumption
<1>8. \A i \in DOMAIN core.wants : i < turn
  BY <1>6, <1>7 DEF AsksTold, TurnTold, LooksOfARoute
<1>9. ASSUME NEW i \in DOMAIN core.wants, \A r \in required : r.want # i
      PROVE  /\ core.wants[i].route = "search" /\ core.declaration = "packaged"
             /\ LeftUnsaid(core.wants[i], absent)
  <2>1. core.wants[i].route = "search" /\ core.declaration = "packaged"
    BY <1>9, AnUnstatedWant
  <2> QED BY <2>1, <1>1, <1>8, <1>9 DEF StatedSeen
<1> QED BY <1>2, <1>3, <1>5, <1>6, <1>9 DEF AsksTold, StatedTold
-----------------------------------------------------------------------------
(* The best and the worst that what was told allows. *)
Best == [i \in DOMAIN core.wants |-> TRUE \in Tells(core.wants[i])]
Worst == [i \in DOMAIN core.wants |-> FALSE \notin Tells(core.wants[i])]

(* The best and the worst world are both among the told. *)
LEMMA BothAreTold == Best \in ToldAt(Now) /\ Worst \in ToldAt(Now)
<1>1. \A w, m, good, doubtful : Among(w, m, good, doubtful) \in {{TRUE}, {FALSE}, BOOLEAN}
  BY DEF Among
<1>2. \A s, good, bad : Judged(s, good, bad) \in {{TRUE}, {FALSE}, BOOLEAN}
  BY DEF Judged
<1>3. \A w : Worths(w, Now) \in {{TRUE}, {FALSE}, BOOLEAN}
  BY <1>1, <1>2 DEF Worths, FileWorths, KeyWorths, FolderWorths, SearchWorths
<1>4. \A w : Tells(w) \in {{TRUE}, {FALSE}, BOOLEAN}
  BY <1>3 DEF Tells
<1>5. ASSUME NEW w PROVE (TRUE \in Tells(w)) \in Tells(w) /\ (FALSE \notin Tells(w)) \in Tells(w)
  <2>1. CASE Tells(w) = {TRUE}
    <3>1. (TRUE \in Tells(w)) = TRUE /\ (FALSE \notin Tells(w)) = TRUE
      BY <2>1
    <3> QED BY <3>1, <2>1
  <2>2. CASE Tells(w) = {FALSE}
    <3>1. (TRUE \in Tells(w)) = FALSE /\ (FALSE \notin Tells(w)) = FALSE
      BY <2>2
    <3> QED BY <3>1, <2>2
  <2>3. CASE Tells(w) = BOOLEAN
    BY <2>3
  <2> QED BY <1>4, <2>1, <2>2, <2>3
<1>6. Best \in [DOMAIN core.wants -> BOOLEAN] /\ Worst \in [DOMAIN core.wants -> BOOLEAN]
  BY DEF Best, Worst
<1>7. \A i \in DOMAIN core.wants : Best[i] \in Tells(core.wants[i]) /\ Worst[i] \in Tells(core.wants[i])
  BY <1>5 DEF Best, Worst
<1> QED BY <1>6, <1>7 DEF ToldAt, Tells

(* A verdict the options do not share leaves one that does not have it, and a  *)
(* region a launch may come to that it serves.                               *)
LEMMA AnOptionDiffers ==
  ASSUME FirmwareTold, look = "answered", HasGroup, Regions # {},
         NEW v \in {"yes", "no"}, GroupSatisfied # v
  PROVE  \E r \in Options : \E region \in Regions :
           region \in WantOf(r).regions /\ Satisfied(r) # v
<1> DEFINE verdicts == {Satisfied(r) : r \in WeighedOptions}
<1>1. core \in Cores /\ \A r \in required : r.want \in DOMAIN core.wants
  BY AtTheAnswer
<1>2. WeighedOptions # {}
  <2>1. CASE core.region = None
    BY <2>1 DEF WeighedOptions, HasGroup
  <2>2. CASE core.region # None
    <3>1. core.region \in ListedRegions
      BY <2>2 DEF Regions
    <3>2. PICK r \in Options : core.region \in WantOf(r).regions
      BY <3>1 DEF ListedRegions
    <3> QED BY <3>2, <2>2 DEF WeighedOptions
  <2> QED BY <2>1, <2>2
<1>3. PICK r \in WeighedOptions : Satisfied(r) # v
  <2> SUFFICES ASSUME \A q \in WeighedOptions : Satisfied(q) = v PROVE FALSE
    OBVIOUS
  <2>1. verdicts = {v}
    BY <1>2
  <2>2. (CHOOSE x \in verdicts : TRUE) = v
    BY <2>1
  <2> QED BY <2>1, <2>2 DEF GroupSatisfied
<1>4. r \in Options /\ (core.region # None => core.region \in WantOf(r).regions)
  BY <1>3 DEF WeighedOptions
<1>5. WantOf(r).regions # {}
  <2>1. r \in required /\ WantOf(r).regions # None
    BY <1>4 DEF Options
  <2> QED BY <2>1, <1>1, NeedsAssumption DEF WantOf
<1>6. PICK region \in WantOf(r).regions : core.region # None => region = core.region
  BY <1>4, <1>5
<1>7. region \in ListedRegions
  BY <1>4, <1>6 DEF ListedRegions
<1>8. region \in Regions
  BY <1>6, <1>7 DEF Regions
<1> QED BY <1>3, <1>4, <1>6, <1>8

(* The options of a group serve regions of their own. *)
LEMMA OneOptionServes ==
  ASSUME FirmwareTold, FirmwareSeen, look = "answered", shifts = 0, NEW r \in Options,
         NEW q \in Options, NEW region, region \in WantOf(r).regions, region \in WantOf(q).regions
  PROVE  q = r
<1>1. /\ q \in required /\ r \in required /\ WantOf(r).regions # None /\ WantOf(q).regions # None
  BY DEF Options
<1>2. core \in Cores /\ q.want \in DOMAIN core.wants /\ r.want \in DOMAIN core.wants
  BY <1>1, AtAStillAnswer
<1>3. q.want = r.want
  BY <1>1, <1>2, NeedsAssumption DEF WantOf
<1> QED BY <1>1, <1>3, AtAStillAnswer

(* A want the requirement of which is not a no may be good, one whose is not a *)
(* yes may be of no use.                                                     *)
LEMMA OfTheStated ==
  ASSUME FirmwareTold, FirmwareSeen, look = "answered", shifts = 0, NEW r \in required
  PROVE  /\ Satisfied(r) # "no" => Best[r.want]
         /\ Satisfied(r) # "yes" => ~Worst[r.want]
<1>1. /\ r.want \in DOMAIN core.wants
      /\ Satisfied(r) # "no" => TRUE \in Tells(WantOf(r))
      /\ Satisfied(r) # "yes" => FALSE \in Tells(WantOf(r))
  BY AtAStillAnswer
<1>2. /\ Best[r.want] = (TRUE \in Tells(WantOf(r)))
      /\ Worst[r.want] = (FALSE \notin Tells(WantOf(r)))
  BY <1>1 DEF Best, Worst, WantOf
<1> QED BY <1>1, <1>2

(* A want without a requirement is a search that found none. *)
LEMMA OfTheUnsaid ==
  ASSUME FirmwareTold, FirmwareSeen, look = "answered", shifts = 0, NEW i \in DOMAIN core.wants,
         \A r \in required : r.want # i
  PROVE  /\ core.wants[i].route = "search" /\ core.declaration = "packaged"
         /\ ~Worst[i]
         /\ core.wants[i].regions = None =>
              required = {} /\ (core.wants[i].system \in absent \/ Best[i])
         /\ core.wants[i].regions # None =>
              \E r \in required : r \in Options /\ WantOf(r).system = core.wants[i].system
<1>1. /\ core \in Cores /\ core.wants[i].route = "search" /\ core.declaration = "packaged"
      /\ LeftUnsaid(core.wants[i], absent)
  BY AtAStillAnswer
<1>2. /\ Best[i] = (TRUE \in Tells(core.wants[i]))
      /\ Worst[i] = (FALSE \notin Tells(core.wants[i]))
  BY DEF Best, Worst
<1>3. ~Worst[i] /\ (core.wants[i].regions = None => core.wants[i].system \in absent \/ Best[i])
  BY <1>1, <1>2 DEF LeftUnsaid
<1>4. core.wants[i].regions = None => required = {}
  BY AnUnstatedWant
<1>5. ASSUME core.wants[i].regions # None
      PROVE  \E r \in required : r \in Options /\ WantOf(r).system = core.wants[i].system
  <2>1. DOMAIN core.wants # {i}
    BY <1>1, <1>5, NeedsAssumption
  <2>2. PICK j \in DOMAIN core.wants : j # i
    BY <2>1
  <2>3. core.wants[j].route = "key"
    BY <1>1, <2>2, EntriesAssumption
  <2>4. PICK r \in required : r.want = j
    BY <2>3, AtAStillAnswer
  <2>5. core.needs = {core.wants[i].system} /\ core.needs = {core.wants[j].system}
        /\ core.wants[j].regions # None
    BY <1>1, <2>3, NeedsAssumption
  <2> QED BY <2>4, <2>5 DEF Options, WantOf
<1> QED BY <1>1, <1>3, <1>4, <1>5

(* A search that was all there is, and that said nothing. *)
LEMMA AloneUnsaid ==
  ASSUME FirmwareTold, FirmwareSeen, look = "answered", shifts = 0,
         core.declaration = "packaged", required = {}, SystemImageInPlace # "no"
  PROVE  \E i \in DOMAIN core.wants :
           /\ DOMAIN core.wants = {i} /\ core.refused = {}
           /\ core.state = "cannot-run-without-firmware" /\ core.needs = {core.wants[i].system}
           /\ Best[i] /\ ~Worst[i]
<1>1. core \in Cores
  BY AtAStillAnswer
<1>2. PICK i \in DOMAIN core.wants : TRUE
  BY <1>1, NeedsAssumption
<1>3. /\ core.wants[i].route = "search" /\ ~Worst[i] /\ core.wants[i].regions = None
      /\ core.wants[i].system \in absent \/ Best[i]
  BY <1>2, OfTheUnsaid
<1>4. /\ DOMAIN core.wants = {i} /\ core.refused = {}
      /\ core.state = "cannot-run-without-firmware" /\ core.needs = {core.wants[i].system}
  BY <1>1, <1>2, <1>3, NeedsAssumption, EntriesAssumption
<1>5. core.wants[i].system \notin absent
  <2> SUFFICES ASSUME core.wants[i].system \in absent PROVE FALSE
    OBVIOUS
  <2>1. SystemImageFor(core.wants[i].system) = "no"
    BY DEF SystemImageFor
  <2> QED BY <2>1, <1>4 DEF SystemImageInPlace
<1> QED BY <1>3, <1>4, <1>5

(* What a verdict left open has not said. *)
LEMMA WhatIsOpen ==
  ASSUME FirmwareTold, look = "answered", ~Unjudged, RequirementsMet = "open",
         ~(core.declaration = "packaged" /\ required = {})
  PROVE  /\ "no" \notin EntryVerdicts /\ SystemImageInPlace # "no"
         /\ \/ "open" \in EntryVerdicts \/ SystemImageInPlace = "open"
            \/ "required" \in core.refused
BY DEF RequirementsMet

(* What the verdicts of the entries are of. *)
LEMMA WhatAnEntrySays ==
  /\ \A r \in required \ Options : WantOf(r).need = "required" => Satisfied(r) \in EntryVerdicts
  /\ HasGroup => GroupSatisfied \in EntryVerdicts
  /\ \A v \in EntryVerdicts :
       \/ \E r \in required \ Options : WantOf(r).need = "required" /\ Satisfied(r) = v
       \/ HasGroup /\ GroupSatisfied = v
BY DEF EntryVerdicts

(* The emulator of a verdict left open may start ... *)
LEMMA ItMayStart ==
  ASSUME FirmwareTold, FirmwareSeen, look = "answered", shifts = 0, ~Unjudged,
         RequirementsMet = "open", Regions # {}
  PROVE  \E region \in Regions : Boots(Best, TRUE, region)
<1>1. CASE core.declaration = "packaged" /\ required = {}
  <2>1. SystemImageInPlace # "no"
    BY <1>1 DEF RequirementsMet
  <2>2. PICK i \in DOMAIN core.wants :
          /\ DOMAIN core.wants = {i} /\ core.refused = {}
          /\ core.state = "cannot-run-without-firmware" /\ core.needs = {core.wants[i].system}
          /\ Best[i] /\ ~Worst[i]
    BY <1>1, <2>1, AloneUnsaid
  <2>3. ~HasGroup
    BY <1>1 DEF HasGroup, Options
  <2>4. PICK region \in Regions : TRUE
    OBVIOUS
  <2>5. SystemServed(Best, TRUE)
    BY <2>2 DEF SystemServed
  <2> QED BY <2>2, <2>3, <2>4, <2>5 DEF Boots
<1>2. CASE ~(core.declaration = "packaged" /\ required = {})
  <2>1. "no" \notin EntryVerdicts /\ SystemImageInPlace # "no"
    BY <1>2, WhatIsOpen
  <2>2. \A i \in DOMAIN core.wants :
          core.wants[i].regions = None /\ core.wants[i].need = "required" => Best[i]
    <3> SUFFICES ASSUME NEW i \in DOMAIN core.wants, core.wants[i].regions = None,
                        core.wants[i].need = "required"
                 PROVE  Best[i]
      OBVIOUS
    <3>1. PICK r \in required : r.want = i
      BY <1>2, OfTheUnsaid
    <3>2. r \in required \ Options /\ WantOf(r).need = "required"
      BY <3>1 DEF Options, WantOf
    <3>3. Satisfied(r) # "no"
      BY <3>2, <2>1, WhatAnEntrySays
    <3> QED BY <3>1, <3>3, OfTheStated
  <2>3. PICK region \in Regions :
          HasGroup => \E r \in Options : region \in WantOf(r).regions /\ Best[r.want]
    <3>1. CASE HasGroup
      <4>1. GroupSatisfied # "no"
        BY <3>1, <2>1, WhatAnEntrySays
      <4>2. PICK r \in Options : \E region \in Regions :
              region \in WantOf(r).regions /\ Satisfied(r) # "no"
        BY <3>1, <4>1, AnOptionDiffers
      <4>3. Best[r.want]
        BY <4>2, OfTheStated DEF Options
      <4> QED BY <4>2, <4>3
    <3>2. CASE ~HasGroup
      BY <3>2
    <3> QED BY <3>1, <3>2
  <2>4. core.state = "cannot-run-without-firmware" => SystemServed(Best, TRUE)
    <3> SUFFICES ASSUME core.state = "cannot-run-without-firmware", core.refused = {},
                        NEW s \in core.needs
                 PROVE  \E i \in DOMAIN core.wants : core.wants[i].system = s /\ Best[i]
      BY DEF SystemServed
    <3> DEFINE images == {Satisfied(r) : r \in {q \in required : WantOf(q).system = s}}
    <3>1. SystemImageFor(s) # "no"
      BY <2>1 DEF SystemImageInPlace
    <3>2. images # {"no"}
      BY <3>1 DEF SystemImageFor
    <3>3. PICK i \in DOMAIN core.wants : core.wants[i].system = s
      BY AtAStillAnswer, NeedsAssumption
    <3>4. \E r \in required : WantOf(r).system = s
      <4>1. CASE \E r \in required : r.want = i
        BY <4>1, <3>3 DEF WantOf
      <4>2. CASE \A r \in required : r.want # i
        BY <4>2, <3>3, <1>2, OfTheUnsaid
      <4> QED BY <4>1, <4>2
    <3>5. PICK r \in required : WantOf(r).system = s /\ Satisfied(r) # "no"
      <4> SUFFICES ASSUME \A r \in required : WantOf(r).system = s => Satisfied(r) = "no"
                   PROVE  FALSE
        OBVIOUS
      <4>1. images = {"no"}
        BY <3>4
      <4> QED BY <4>1, <3>2
    <3>6. r.want \in DOMAIN core.wants /\ Best[r.want]
      BY <3>5, OfTheStated, AtAStillAnswer
    <3> QED BY <3>5, <3>6 DEF WantOf
  <2> QED BY <2>2, <2>3, <2>4 DEF Boots
<1> QED BY <1>1, <1>2

(* ... and may not. *)
LEMMA ItMayNotStart ==
  ASSUME FirmwareTold, FirmwareSeen, look = "answered", shifts = 0, ~Unjudged,
         RequirementsMet = "open", Regions # {}
  PROVE  \E region \in Regions : ~Boots(Worst, FALSE, region)
<1>1. PICK some \in Regions : TRUE
  OBVIOUS
<1>2. CASE core.declaration = "packaged" /\ required = {}
  <2>1. SystemImageInPlace # "no"
    BY <1>2 DEF RequirementsMet
  <2>2. PICK i \in DOMAIN core.wants :
          /\ DOMAIN core.wants = {i} /\ core.refused = {}
          /\ core.state = "cannot-run-without-firmware" /\ core.needs = {core.wants[i].system}
          /\ Best[i] /\ ~Worst[i]
    BY <1>2, <2>1, AloneUnsaid
  <2>3. ~SystemServed(Worst, FALSE)
    BY <2>2 DEF SystemServed
  <2> QED BY <1>1, <2>2, <2>3 DEF Boots
<1>3. CASE "required" \in core.refused
  BY <1>1, <1>3 DEF Boots
<1>4. CASE \E r \in required \ Options : WantOf(r).need = "required" /\ Satisfied(r) = "open"
  <2>1. PICK r \in required \ Options : WantOf(r).need = "required" /\ Satisfied(r) = "open"
    BY <1>4
  <2>2. /\ r.want \in DOMAIN core.wants /\ ~Worst[r.want]
        /\ core.wants[r.want].regions = None /\ core.wants[r.want].need = "required"
    BY <2>1, OfTheStated, AtAStillAnswer DEF Options, WantOf
  <2> QED BY <1>1, <2>2 DEF Boots
<1>5. CASE HasGroup /\ GroupSatisfied = "open"
  <2>1. PICK r \in Options, region \in Regions :
          region \in WantOf(r).regions /\ Satisfied(r) # "yes"
    BY <1>5, AnOptionDiffers
  <2>2. ~Worst[r.want]
    BY <2>1, OfTheStated DEF Options
  <2>3. \A q \in Options : region \in WantOf(q).regions => q = r
    BY <2>1, OneOptionServes
  <2>4. ~\E q \in Options : region \in WantOf(q).regions /\ Worst[q.want]
    BY <2>2, <2>3
  <2> QED BY <1>5, <2>1, <2>4 DEF Boots
<1>6. CASE ~(core.declaration = "packaged" /\ required = {}) /\ SystemImageInPlace = "open"
  <2>1. core.state = "cannot-run-without-firmware"
    BY <1>6 DEF SystemImageInPlace
  <2>2. PICK s \in core.needs : SystemImageFor(s) = "open"
    BY <1>6 DEF SystemImageInPlace
  <2>3. \A r \in required : WantOf(r).system = s => Satisfied(r) # "yes"
    BY <2>2 DEF SystemImageFor
  <2>4. ASSUME NEW i \in DOMAIN core.wants, core.wants[i].system = s PROVE ~Worst[i]
    <3>1. CASE \E r \in required : r.want = i
      BY <3>1, <2>3, <2>4, OfTheStated DEF WantOf
    <3>2. CASE \A r \in required : r.want # i
      BY <3>2, OfTheUnsaid
    <3> QED BY <3>1, <3>2
  <2>5. ~SystemServed(Worst, FALSE)
    BY <2>2, <2>4 DEF SystemServed
  <2> QED BY <1>1, <2>1, <2>5 DEF Boots
<1>7. CASE ~(core.declaration = "packaged" /\ required = {})
  BY <1>3, <1>4, <1>5, <1>6, <1>7, WhatIsOpen, WhatAnEntrySays
<1> QED BY <1>2, <1>7

(* Each world, each answer to the hidden files and each region is one launch. *)
LEMMA ALaunch ==
  ASSUME NEW worlds, NEW good \in worlds, NEW hidden \in BOOLEAN, NEW region \in Regions,
         NEW starts, starts = Boots(good, hidden, region)
  PROVE  starts \in LaunchesAt(worlds)
BY SMT DEF LaunchesAt

(* requirements_met leaves a question open, on a disk that did not move, only   *)
(* where what it was told fits an emulator that starts and one that does not. *)
THEOREM DoubtsAreOpen == FirmwareSpec => []DoubtIsOpen
<1>1. FirmwareTold /\ FirmwareSeen => DoubtIsOpen
  <2> SUFFICES ASSUME FirmwareTold, FirmwareSeen, Decided, shifts = 0, verdict.met = "open",
                      Regions # {}, NEW m \in Moments
               PROVE  LaunchesAt(ToldAt(m)) = BOOLEAN
    BY DEF DoubtIsOpen
  <2>1. look = "answered" /\ ~Unjudged /\ RequirementsMet = "open" /\ m = Now
    BY AtTheAnswer, AtAStillAnswer DEF Decided, Answer
  <2>2. PICK region \in Regions : Boots(Best, TRUE, region)
    BY <2>1, ItMayStart
  <2>3. PICK other \in Regions : ~Boots(Worst, FALSE, other)
    BY <2>1, ItMayNotStart
  <2>4. \A good, hidden, re : Boots(good, hidden, re) \in BOOLEAN
    BY DEF Boots
  <2>5. Best \in ToldAt(m) /\ Worst \in ToldAt(m)
    BY <2>1, BothAreTold
  <2>6. Boots(Best, TRUE, region) = TRUE /\ Boots(Worst, FALSE, other) = FALSE
    BY <2>2, <2>3, <2>4
  <2>7. TRUE \in LaunchesAt(ToldAt(m)) /\ FALSE \in LaunchesAt(ToldAt(m))
    <3>1. TRUE \in BOOLEAN /\ FALSE \in BOOLEAN
      OBVIOUS
    <3>2. TRUE \in LaunchesAt(ToldAt(m))
      BY <2>2, <2>5, <2>6, <3>1, ALaunch, Zenon
    <3>3. FALSE \in LaunchesAt(ToldAt(m))
      BY <2>3, <2>5, <2>6, <3>1, ALaunch, Zenon
    <3> QED BY <3>2, <3>3
  <2>8. LaunchesAt(ToldAt(m)) \subseteq BOOLEAN
    BY <2>4 DEF LaunchesAt
  <2> QED BY <2>7, <2>8
<1> QED BY <1>1, FirmwareToldHolds, FirmwareSeenHolds, PTL
==============================================================================
