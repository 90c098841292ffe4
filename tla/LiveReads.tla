------------------------------ MODULE LiveReads ------------------------------
(***************************************************************************)
(* What a live handle promises: a question is answered with what the      *)
(* machine said at some moment between the question and its answer, as if *)
(* the handle kept nothing at all.  It is the abstract specification of    *)
(* every memory an installation handle keeps between its questions.        *)
(***************************************************************************)
CONSTANTS
  Askers,         \* the threads that share one handle
  Questions,      \* what can be asked of it
  Worlds,         \* the states the machine can be in
  Readings,       \* what a reading can come to
  Reading(_, _),  \* Reading(q, w): what reading afresh in world w says of q
  NoQuestion,     \* "nothing asked"
  NoReading       \* "nothing answered yet"

VARIABLES
  world,   \* the machine's state
  asked,   \* asked[a]: the question asker a is waiting on
  seen,    \* seen[a]: every reading that was the machine's since a asked
  answer   \* answer[a]: the last answer a was given

liveVars == <<world, asked, seen, answer>>

LiveInit ==
  /\ world \in Worlds
  /\ asked = [a \in Askers |-> NoQuestion]
  /\ seen = [a \in Askers |-> {}]
  /\ answer = [a \in Askers |-> NoReading]

(* What the open questions have seen once the machine is in world w. *)
SeenIn(w) ==
  [a \in Askers |->
     IF asked[a] = NoQuestion THEN {} ELSE seen[a] \union {Reading(asked[a], w)}]

Change ==
  /\ world' \in Worlds
  /\ seen' = SeenIn(world')
  /\ UNCHANGED <<asked, answer>>

LiveAsk(a, q) ==
  /\ asked[a] = NoQuestion
  /\ asked' = [asked EXCEPT ![a] = q]
  /\ seen' = [seen EXCEPT ![a] = {Reading(q, world)}]
  /\ answer' = [answer EXCEPT ![a] = NoReading]
  /\ UNCHANGED world

LiveAnswer(a) ==
  /\ asked[a] # NoQuestion
  /\ \E r \in seen[a] : answer' = [answer EXCEPT ![a] = r]
  /\ asked' = [asked EXCEPT ![a] = NoQuestion]
  /\ seen' = [seen EXCEPT ![a] = {}]
  /\ UNCHANGED world

LiveNext ==
  \/ Change
  \/ \E a \in Askers : LiveAnswer(a) \/ \E q \in Questions : LiveAsk(a, q)

LiveSpec ==
  /\ LiveInit
  /\ [][LiveNext]_liveVars
  /\ \A a \in Askers : WF_liveVars(LiveAnswer(a))
=============================================================================
