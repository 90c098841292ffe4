------------------------------ MODULE PathWalks ------------------------------
(***************************************************************************)
(* A walk along a path, one segment at a time: what the walks of LinkWalks  *)
(* and SandboxView share.  A path is the sequence of its segments from "/"  *)
(* on; "." and empty segments are dropped, as the kernel drops them.       *)
(***************************************************************************)
EXTENDS Naturals, SequencesExt, Absent

CONSTANTS
  Up,       \* the segment ".."
  MaxHops   \* SYMLINK_HOPS, 40 in the code

ASSUME HopsAssumption == MaxHops \in Nat

Above(p) == IF p = <<>> THEN <<>> ELSE Front(p)

(* What is left of the path, where it has led, the links followed, and how   *)
(* the walk ended early.                                                    *)
StartAt(path) == [parts |-> path, at |-> <<>>, hops |-> 0, end |-> None]

(* A walk that climbs, or steps onto what is no link ... *)
Stepped(w, place) == [w EXCEPT !.parts = Tail(w.parts), !.at = place]

(* ... or follows a link: a relative one from the folder that holds it. *)
Followed(w, link) ==
  [w EXCEPT !.parts = link.to \o Tail(w.parts),
            !.at = IF link.absolute THEN <<>> ELSE w.at,
            !.hops = w.hops + 1]

Done(w) == w.end # None \/ w.parts = <<>>
EndOf(w) == IF w.end = None THEN w.at ELSE w.end
=============================================================================
