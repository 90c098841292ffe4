------------------------------ MODULE Question ------------------------------
(***************************************************************************)
(* atlas._question: what a question computes through once() it computes     *)
(* once.  one_question opens a memo for the outermost question of a thread  *)
(* and drops it when that question ends; questions asked from inside it     *)
(* share it.                                                                *)
(***************************************************************************)
EXTENDS Naturals, Absent

CONSTANTS
  Threads,      \* each has a context, and so a memo, of its own
  Keys,         \* what is computed once: a source, by its path
  ContentOf(_), \* ContentOf(k): what the machine can hold at k
  MaxDepth      \* bound on how deep questions ask questions

Contents == UNION {ContentOf(k) : k \in Keys}
Memos == [Keys -> Contents \union {None}]

ASSUME DepthAssumption == MaxDepth \in Nat \ {0}
ASSUME NothingAssumption == None \notin Contents /\ None \notin Memos

VARIABLES
  world,  \* world[k]: what computing k comes to now
  memo,   \* memo[t]: _MEMO in t's context
  depth,  \* depth[t]: how many questions t is inside of
  drawn,  \* drawn[t]: the <<key, value>> pairs once() has handed to t's question
  since   \* since[t][k]: what the machine has held at k since t's question opened

questionVars == <<world, memo, depth, drawn, since>>

EmptyMemo == [k \in Keys |-> None]

NoQuestionYet ==
  /\ memo = [t \in Threads |-> None]
  /\ depth = [t \in Threads |-> 0]
  /\ drawn = [t \in Threads |-> {}]
  /\ since = [t \in Threads |-> [k \in Keys |-> {}]]

QuestionInit ==
  /\ world \in [Keys -> Contents]
  /\ \A k \in Keys : world[k] \in ContentOf(k)
  /\ NoQuestionYet

(* The machine changes under the open questions. *)
Edit(k) ==
  /\ \E c \in ContentOf(k) \ {world[k]} : world' = [world EXCEPT ![k] = c]
  /\ since' = [t \in Threads |->
                 IF depth[t] = 0 THEN since[t]
                 ELSE [since[t] EXCEPT ![k] = @ \union {world'[k]}]]
  /\ UNCHANGED <<memo, depth, drawn>>

(* Mutant: the memo is the process's and not the context's. *)
OpenShared(t) ==
  /\ memo[t] = None
  /\ LET open == {u \in Threads : memo[u] # None}
     IN  memo' = [memo EXCEPT ![t] = IF open = {} THEN EmptyMemo ELSE memo[CHOOSE u \in open : TRUE]]
  /\ depth' = [depth EXCEPT ![t] = 1]
  /\ drawn' = [drawn EXCEPT ![t] = {}]
  /\ since' = [since EXCEPT ![t] = [k \in Keys |-> {world[k]}]]
  /\ UNCHANGED world

(* A question asked outside every question opens a memo ... *)
Open(t) ==
  /\ memo[t] = None
  /\ memo' = [memo EXCEPT ![t] = EmptyMemo]
  /\ depth' = [depth EXCEPT ![t] = 1]
  /\ drawn' = [drawn EXCEPT ![t] = {}]
  /\ since' = [since EXCEPT ![t] = [k \in Keys |-> {world[k]}]]
  /\ UNCHANGED world

(* ... one asked from inside another shares it. *)
Nest(t) ==
  /\ memo[t] # None
  /\ depth[t] < MaxDepth
  /\ depth' = [depth EXCEPT ![t] = @ + 1]
  /\ UNCHANGED <<world, memo, drawn, since>>

Ask(t) == Open(t) \/ Nest(t)

(* Mutant: every call computes. *)
Recomputed(t, k) == world[k]

(* What once(k, compute) answers thread t: the memo's, or what is there now. *)
OnceValue(t, k) ==
  IF memo[t] # None /\ memo[t][k] # None THEN memo[t][k] ELSE world[k]

Once(t, k) ==
  /\ depth[t] > 0
  /\ memo' = [memo EXCEPT ![t][k] = OnceValue(t, k)]
  /\ drawn' = [drawn EXCEPT ![t] = @ \union {<<k, OnceValue(t, k)>>}]
  /\ UNCHANGED <<world, depth, since>>

(* Mutants: the memo is emptied where it should be dropped; a question that *)
(* was never opened is closed.                                              *)
LeaveEmptied(t) ==
  /\ depth[t] > 0
  /\ depth' = [depth EXCEPT ![t] = @ - 1]
  /\ memo' = [memo EXCEPT ![t] = IF depth[t] = 1 THEN EmptyMemo ELSE @]
  /\ UNCHANGED <<world, drawn, since>>

LeaveUnopened(t) ==
  /\ depth' = [depth EXCEPT ![t] = @ - 1]
  /\ memo' = [memo EXCEPT ![t] = IF depth[t] = 1 THEN None ELSE @]
  /\ UNCHANGED <<world, drawn, since>>

(* A question ends, by returning or by raising: the finally clause of the   *)
(* one that opened the memo drops it.                                       *)
Leave(t) ==
  /\ depth[t] > 0
  /\ depth' = [depth EXCEPT ![t] = @ - 1]
  /\ memo' = [memo EXCEPT ![t] = IF depth[t] = 1 THEN None ELSE @]
  /\ UNCHANGED <<world, drawn, since>>

QuestionNext ==
  \/ \E k \in Keys : Edit(k)
  \/ \E t \in Threads : Ask(t) \/ Leave(t) \/ \E k \in Keys : Once(t, k)

QuestionSpec == QuestionInit /\ [][QuestionNext]_questionVars
-----------------------------------------------------------------------------
QuestionTypeOK ==
  /\ world \in [Keys -> Contents]
  /\ memo \in [Threads -> Memos \union {None}]
  /\ depth \in [Threads -> 0 .. MaxDepth]
  /\ drawn \in [Threads -> SUBSET (Keys \X Contents)]
  /\ since \in [Threads -> [Keys -> SUBSET Contents]]

(* Everything one question is handed for a key is the same, however the     *)
(* machine changes and however its questions nest: they "cannot disagree    *)
(* about a file the outer one already read".                                *)
OneReadingPerKey ==
  \A t \in Threads : \A p, q \in drawn[t] : p[1] = q[1] => p[2] = q[2]

(* Nothing outlives the question: what it is handed was on the machine      *)
(* after it was asked, never before ("a memo kept across questions would    *)
(* answer what was there when it was filled").                              *)
NothingOlderThanTheQuestion ==
  \A t \in Threads : depth[t] > 0 => \A p \in drawn[t] : p[2] \in since[t][p[1]]

(* A memo is open exactly while its thread is inside a question: a question *)
(* that raised leaves none behind for the next.                             *)
NoMemoLeftBehind == \A t \in Threads : memo[t] # None <=> depth[t] > 0
=============================================================================
