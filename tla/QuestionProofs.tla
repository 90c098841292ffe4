---------------------------- MODULE QuestionProofs ----------------------------
(***************************************************************************)
(* For any number of threads, files and nested questions: what a question   *)
(* is handed for a file is one revision of it, and one the machine held      *)
(* while the question was open.                                              *)
(***************************************************************************)
EXTENDS Question, TLAPS

(* What was handed out is what the memo holds. *)
DrawnIsMemo ==
  \A t \in Threads : memo[t] # None => \A p \in drawn[t] : memo[t][p[1]] = p[2]

(* What the memo holds, and what is there now, was there in the question. *)
MemoIsRecent ==
  \A t \in Threads : depth[t] > 0 =>
    \A k \in Keys :
      /\ world[k] \in since[t][k]
      /\ memo[t][k] # None => memo[t][k] \in since[t][k]

QInv ==
  /\ QuestionTypeOK
  /\ NoMemoLeftBehind
  /\ DrawnIsMemo
  /\ MemoIsRecent
  /\ OneReadingPerKey
  /\ NothingOlderThanTheQuestion

(* No question is under way at the start. *)
LEMMA QInit == QuestionInit => QInv
<1> SUFFICES ASSUME QuestionInit PROVE QInv
  OBVIOUS
<1>1. QuestionTypeOK
  BY DepthAssumption DEF QuestionInit, NoQuestionYet, QuestionTypeOK
<1> QED
  BY <1>1 DEF QuestionInit, NoQuestionYet, QInv, NoMemoLeftBehind, DrawnIsMemo, MemoIsRecent, OneReadingPerKey,
              NothingOlderThanTheQuestion

(* An edit of the machine adds to what a question has seen, and keeps the invariant. *)
LEMMA EditKeeps ==
  ASSUME QInv, NEW k \in Keys, Edit(k)
  PROVE  QInv'
<1> USE NothingAssumption
<1>1. PICK c \in ContentOf(k) : world' = [world EXCEPT ![k] = c]
  BY DEF Edit
<1>2. c \in Contents
  BY DEF Contents
<1>3. \A t \in Threads : \A j \in Keys : since[t][j] \subseteq since'[t][j]
  BY DEF Edit, QInv, QuestionTypeOK
<1>4. \A t \in Threads : depth[t] > 0 => c \in since'[t][k]
  BY <1>1 DEF Edit, QInv, QuestionTypeOK
<1>5. QuestionTypeOK'
  <2>1. world' \in [Keys -> Contents]
    BY <1>1, <1>2 DEF QInv, QuestionTypeOK
  <2>2. since' \in [Threads -> [Keys -> SUBSET Contents]]
    BY <2>1 DEF Edit, QInv, QuestionTypeOK
  <2> QED
    BY <2>1, <2>2 DEF Edit, QInv, QuestionTypeOK
<1>6. NoMemoLeftBehind' /\ DrawnIsMemo' /\ OneReadingPerKey'
  BY DEF Edit, QInv, NoMemoLeftBehind, DrawnIsMemo, OneReadingPerKey
<1>7. MemoIsRecent'
  BY <1>1, <1>3, <1>4 DEF Edit, QInv, QuestionTypeOK, MemoIsRecent
<1>8. NothingOlderThanTheQuestion'
  BY <1>3 DEF Edit, QInv, QuestionTypeOK, NothingOlderThanTheQuestion
<1> QED
  BY <1>5, <1>6, <1>7, <1>8 DEF QInv

(* Opening a question keeps it. *)
LEMMA AskKeeps ==
  ASSUME QInv, NEW t \in Threads, Ask(t)
  PROVE  QInv'
<1> USE NothingAssumption, DepthAssumption
<1>1. CASE Open(t)
  <2>1. EmptyMemo \in Memos /\ EmptyMemo # None /\ \A k \in Keys : EmptyMemo[k] = None
    BY DEF EmptyMemo, Memos
  <2>2. QuestionTypeOK'
    BY <1>1, <2>1 DEF Open, QInv, QuestionTypeOK
  <2>3. NoMemoLeftBehind'
    BY <1>1, <2>1 DEF Open, QInv, QuestionTypeOK, NoMemoLeftBehind
  <2>4. DrawnIsMemo'
    BY <1>1 DEF Open, QInv, QuestionTypeOK, DrawnIsMemo
  <2>5. MemoIsRecent'
    BY <1>1, <2>1 DEF Open, QInv, QuestionTypeOK, MemoIsRecent
  <2>6. OneReadingPerKey' /\ NothingOlderThanTheQuestion'
    BY <1>1 DEF Open, QInv, QuestionTypeOK, OneReadingPerKey, NothingOlderThanTheQuestion
  <2> QED
    BY <2>2, <2>3, <2>4, <2>5, <2>6 DEF QInv
<1>2. CASE Nest(t)
  <2>1. depth[t] > 0
    BY <1>2 DEF Nest, QInv, NoMemoLeftBehind
  <2>2. QuestionTypeOK'
    BY <1>2, <2>1 DEF Nest, QInv, QuestionTypeOK
  <2> QED
    BY <1>2, <2>1, <2>2 DEF Nest, QInv, QuestionTypeOK, NoMemoLeftBehind, DrawnIsMemo,
       MemoIsRecent, OneReadingPerKey, NothingOlderThanTheQuestion
<1> QED
  BY <1>1, <1>2 DEF Ask

(* A read within a question, first or repeated, keeps it. *)
LEMMA OnceKeeps ==
  ASSUME QInv, NEW t \in Threads, NEW k \in Keys, Once(t, k)
  PROVE  QInv'
<1> USE NothingAssumption
<1> DEFINE v == OnceValue(t, k)
<1>1. depth[t] > 0 /\ memo[t] # None /\ memo[t] \in Memos
  BY DEF Once, QInv, QuestionTypeOK, NoMemoLeftBehind
<1>2. v \in Contents /\ v \in since[t][k]
  BY <1>1 DEF OnceValue, QInv, QuestionTypeOK, MemoIsRecent, Memos
<1>3. \A p \in drawn[t] : p[1] = k => p[2] = v
  <2> SUFFICES ASSUME NEW p \in drawn[t], p[1] = k PROVE p[2] = v
    OBVIOUS
  <2>1. memo[t][k] = p[2] /\ p[2] \in Contents
    BY <1>1 DEF QInv, QuestionTypeOK, DrawnIsMemo
  <2> QED
    BY <1>1, <2>1 DEF OnceValue
<1> HIDE DEF v
<1>4. /\ memo' = [memo EXCEPT ![t] = [memo[t] EXCEPT ![k] = v]]
      /\ drawn' = [drawn EXCEPT ![t] = drawn[t] \union {<<k, v>>}]
      /\ UNCHANGED <<world, depth, since>>
  BY DEF Once, v
<1>5. [memo[t] EXCEPT ![k] = v] \in Memos
  BY <1>1, <1>2 DEF Memos
<1>6. QuestionTypeOK'
  BY <1>2, <1>4, <1>5 DEF QInv, QuestionTypeOK
<1>7. NoMemoLeftBehind'
  BY <1>1, <1>4, <1>5 DEF QInv, QuestionTypeOK, NoMemoLeftBehind
<1>8. DrawnIsMemo'
  BY <1>1, <1>3, <1>4 DEF QInv, QuestionTypeOK, DrawnIsMemo, Memos
<1>9. MemoIsRecent'
  BY <1>1, <1>2, <1>4 DEF QInv, QuestionTypeOK, MemoIsRecent, Memos
<1>10. OneReadingPerKey'
  BY <1>3, <1>4 DEF QInv, QuestionTypeOK, OneReadingPerKey
<1>11. NothingOlderThanTheQuestion'
  BY <1>2, <1>4 DEF QInv, QuestionTypeOK, NothingOlderThanTheQuestion
<1> QED
  BY <1>6, <1>7, <1>8, <1>9, <1>10, <1>11 DEF QInv

(* Leaving a question, the nested or the outermost, keeps it. *)
LEMMA LeaveKeeps ==
  ASSUME QInv, NEW t \in Threads, Leave(t)
  PROVE  QInv'
<1> USE NothingAssumption
<1>1. QuestionTypeOK'
  <2>1. depth[t] - 1 \in 0 .. MaxDepth
    BY DepthAssumption DEF Leave, QInv, QuestionTypeOK
  <2> QED
    BY <2>1 DEF Leave, QInv, QuestionTypeOK
<1>2. NoMemoLeftBehind'
  BY DEF Leave, QInv, QuestionTypeOK, NoMemoLeftBehind
<1>3. DrawnIsMemo' /\ MemoIsRecent'
  BY DEF Leave, QInv, QuestionTypeOK, DrawnIsMemo, MemoIsRecent
<1>4. OneReadingPerKey' /\ NothingOlderThanTheQuestion'
  BY DEF Leave, QInv, QuestionTypeOK, OneReadingPerKey, NothingOlderThanTheQuestion
<1> QED
  BY <1>1, <1>2, <1>3, <1>4 DEF QInv

(* So does every step. *)
LEMMA QStep == QInv /\ [QuestionNext]_questionVars => QInv'
<1> SUFFICES ASSUME QInv, [QuestionNext]_questionVars PROVE QInv'
  OBVIOUS
<1>1. CASE UNCHANGED questionVars
  BY <1>1 DEF questionVars, QInv, QuestionTypeOK, NoMemoLeftBehind, DrawnIsMemo, MemoIsRecent,
              OneReadingPerKey, NothingOlderThanTheQuestion
<1> QED
  BY <1>1, EditKeeps, AskKeeps, OnceKeeps, LeaveKeeps DEF QuestionNext

(* Every reachable state satisfies the invariant. *)
LEMMA QAlways == QuestionSpec => []QInv
BY QInit, QStep, PTL DEF QuestionSpec

(* Every question is handed one revision of each file ... *)
THEOREM OneRevisionAQuestion == QuestionSpec => []OneReadingPerKey
<1>1. QInv => OneReadingPerKey
  BY DEF QInv
<1> QED
  BY <1>1, QAlways, PTL

(* ... that stood there while it was open ... *)
THEOREM FromItsOwnTime == QuestionSpec => []NothingOlderThanTheQuestion
<1>1. QInv => NothingOlderThanTheQuestion
  BY DEF QInv
<1> QED
  BY <1>1, QAlways, PTL

(* ... and its memo ends with it. *)
THEOREM NoMemoOutlives == QuestionSpec => []NoMemoLeftBehind
<1>1. QInv => NoMemoLeftBehind
  BY DEF QInv
<1> QED
  BY <1>1, QAlways, PTL
=============================================================================
