--------------------------- MODULE LaunchLookupProofs --------------------------
(***************************************************************************)
(* For any layers, environments and commands: what the launch lookup answers *)
(* is what ES-DE does on every machine that agrees with what was seen.       *)
(* First the places: ES-DE's nested loops over entries and directories take  *)
(* what the first hit of the lookup's flat list is.  Then the invariant: the *)
(* places of a search that are gone were misses, and what is remembered or   *)
(* answered holds of every machine that agrees with the probes, so that more *)
(* probes leave it true.  Then the steps, by what they may do to it.         *)
(***************************************************************************)
EXTENDS LaunchLookup, SequenceTheorems, WellFoundedInduction, TLAPS

Less == {ss \in Nat \X Nat : ss[1] < ss[2]}

(* The strict order of the naturals is well-founded ... *)
LEMMA LessWellFounded == IsWellFoundedOn(Less, Nat)
BY NatLessThanWellFounded, Zenon DEF OpToRel, Less

(* ... so a set of positions has a first one. *)
LEMMA FirstIsFirst ==
  ASSUME NEW S \in SUBSET Nat, S # {}
  PROVE  First(S) \in S /\ \A j \in S : First(S) <= j
<1>1. PICK m \in S : \A y \in S : ~ (<<y, m>> \in Less)
  BY LessWellFounded, WFMin, Zenon
<1>2. \A y \in S : ~ (y < m)
  BY <1>1 DEF Less
<1>3. \A y \in S : m <= y
  BY <1>2
<1> QED
  BY <1>3 DEF First

(* That is the one that no other comes before. *)
LEMMA FirstIs ==
  ASSUME NEW S \in SUBSET Nat, NEW m \in S, \A j \in S : m <= j
  PROVE  First(S) = m
<1>1. S # {}
  OBVIOUS
<1>2. First(S) \in S /\ \A j \in S : First(S) <= j
  BY <1>1, FirstIsFirst
<1>3. First(S) \in Nat /\ First(S) <= m /\ m <= First(S)
  BY <1>2
<1> QED
  BY <1>3

(* The first place of a list that holds a file is taken ... *)
LEMMA TakesFirst ==
  ASSUME NEW places, NEW n \in Nat, DOMAIN places = 1 .. n, NEW hits, NEW i \in 1 .. n,
         places[i] \in hits, \A j \in 1 .. i - 1 : places[j] \notin hits
  PROVE  FrontendTakes(places, hits) = places[i]
<1> DEFINE taken == {j \in DOMAIN places : places[j] \in hits}
<1>1. taken \in SUBSET Nat /\ i \in taken
  OBVIOUS
<1>2. First(taken) \in taken /\ First(taken) <= i
  BY <1>1, FirstIsFirst
<1>3. First(taken) = i
  BY <1>2
<1> QED
  BY <1>1, <1>3 DEF FrontendTakes

(* ... and none of one that holds none. *)
LEMMA TakesNone ==
  ASSUME NEW places, NEW hits, \A i \in DOMAIN places : places[i] \notin hits
  PROVE  FrontendTakes(places, hits) = None
BY DEF FrontendTakes

(* What is taken is taken first. *)
LEMMA TakenIsFirst ==
  ASSUME NEW places, NEW n \in Nat, DOMAIN places = 1 .. n, NEW hits, NEW i \in 1 .. n,
         places[i] \in hits
  PROVE  \E k \in 1 .. n :
           /\ places[k] \in hits
           /\ \A j \in 1 .. k - 1 : places[j] \notin hits
<1> DEFINE taken == {j \in 1 .. n : places[j] \in hits}
<1>1. taken \in SUBSET Nat /\ i \in taken
  OBVIOUS
<1>2. First(taken) \in taken /\ \A j \in taken : First(taken) <= j
  BY <1>1, FirstIsFirst
<1>3. PICK k \in taken : \A j \in taken : k <= j
  BY <1>2
<1>4. \A j \in 1 .. k - 1 : j \notin taken
  BY <1>3
<1> QED
  BY <1>3, <1>4

(* Division by the length of the PATH takes a place to its entry. *)
LEMMA Divided ==
  ASSUME NEW p \in Nat \ {0}, NEW x \in Nat
  PROVE  x \div p \in Nat /\ x % p \in 0 .. p - 1 /\ x = p * (x \div p) + (x % p)
OBVIOUS

(* ... and what is composed is divided so. *)
LEMMA Composed ==
  ASSUME NEW p \in Nat \ {0}, NEW q \in Nat, NEW r \in 0 .. p - 1
  PROVE  (p * q + r) \div p = q /\ (p * q + r) % p = r
OBVIOUS

(* The places of an entry's search, by entry and directory ... *)
LEMMA SystemPlacesAre ==
  ASSUME NEW entries \in Seq(Words), NEW path \in Seq(Words)
  PROVE  /\ SystemPlaces(entries, path) \in Seq(AllPlaces)
         /\ Len(SystemPlaces(entries, path)) = Len(entries) * Len(path)
         /\ \A i \in 1 .. Len(entries) * Len(path) :
              \E e \in 1 .. Len(entries), d \in 1 .. Len(path) :
                /\ i = Len(path) * (e - 1) + d
                /\ SystemPlaces(entries, path)[i] = <<path[d], entries[e]>>
         /\ \A e \in 1 .. Len(entries), d \in 1 .. Len(path) :
              /\ Len(path) * (e - 1) + d \in 1 .. Len(entries) * Len(path)
              /\ SystemPlaces(entries, path)[Len(path) * (e - 1) + d] = <<path[d], entries[e]>>
<1> DEFINE E == Len(entries)
           P == Len(path)
           places == SystemPlaces(entries, path)
<1>1. E \in Nat /\ P \in Nat /\ E * P \in Nat
  OBVIOUS
<1>2. \A i \in 1 .. E * P : places[i] = <<path[1 + ((i - 1) % P)], entries[1 + ((i - 1) \div P)]>>
  BY DEF SystemPlaces
<1>3. ASSUME NEW i \in 1 .. E * P
      PROVE  \E e \in 1 .. E, d \in 1 .. P : i = P * (e - 1) + d /\ places[i] = <<path[d], entries[e]>>
  <2>1. P # 0
    BY <1>1
  <2> DEFINE q == (i - 1) \div P
             r == (i - 1) % P
  <2>2. P \in Nat \ {0} /\ i - 1 \in Nat
    BY <1>1, <2>1
  <2>3. q \in Nat /\ r \in 0 .. P - 1 /\ i - 1 = P * q + r
    <3> HIDE DEF P
    <3> QED
      BY <2>2, Divided
  <2>4. q < E
    <3>1. \A k, m, n \in Nat : k >= m => n * k >= n * m
      OBVIOUS
    <3>2. ~ (q >= E)
      BY <1>1, <2>3, <3>1
    <3> QED
      BY <1>1, <2>3, <3>2
  <2> DEFINE e == 1 + q
             d == 1 + r
  <2>5. e \in 1 .. E /\ d \in 1 .. P
    BY <1>1, <2>3, <2>4
  <2>6. i = P * (e - 1) + d
    BY <1>1, <2>3
  <2>7. places[i] = <<path[d], entries[e]>>
    BY <1>2
  <2> HIDE DEF places, e, d
  <2> QED
    BY <2>5, <2>6, <2>7
<1>4. ASSUME NEW e \in 1 .. E, NEW d \in 1 .. P
      PROVE  P * (e - 1) + d \in 1 .. E * P /\ places[P * (e - 1) + d] = <<path[d], entries[e]>>
  <2>1. P \in Nat \ {0} /\ e - 1 \in Nat /\ d - 1 \in 0 .. P - 1
    BY <1>1
  <2> DEFINE i == P * (e - 1) + d
  <2>2. i - 1 = P * (e - 1) + (d - 1)
    BY <1>1
  <2>3. (i - 1) \div P = e - 1 /\ (i - 1) % P = d - 1
    BY <2>1, <2>2, Composed
  <2>4. i \in 1 .. E * P
    <3>1. \A k, m, n \in Nat : k <= m => n * k <= n * m
      OBVIOUS
    <3>2. P * e <= P * E
      BY <1>1, <3>1
    <3>3. P * (e - 1) = P * e - P /\ P * E = E * P /\ P * e \in Nat /\ P * (e - 1) \in Nat
      BY <1>1
    <3> QED
      BY <1>1, <3>2, <3>3
  <2>5. places[i] = <<path[1 + (d - 1)], entries[1 + (e - 1)]>>
    BY <1>2, <2>3, <2>4
  <2> QED
    BY <1>1, <2>4, <2>5
<1>5. \A i \in 1 .. E * P : places[i] \in AllPlaces
  <2>1. \A v, w \in Words : <<v, w>> \in AllPlaces
    BY DEF AllPlaces
  <2>2. SUFFICES ASSUME NEW i \in 1 .. E * P PROVE places[i] \in AllPlaces
    OBVIOUS
  <2>3. PICK e \in 1 .. E, d \in 1 .. P : places[i] = <<path[d], entries[e]>>
    BY <1>3
  <2> QED
    BY <2>1, <2>3
<1>6. places = [i \in 1 .. E * P |-> places[i]]
  BY DEF SystemPlaces
<1>7. places \in Seq(AllPlaces) /\ Len(places) = E * P
  <2> HIDE DEF places
  <2> QED
    BY <1>1, <1>5, <1>6
<1> QED
  BY <1>3, <1>4, <1>7

(* A static entry is a place of one word. *)
LEMMA StaticPlacesAre ==
  ASSUME NEW entries \in Seq(Words)
  PROVE  /\ StaticPlaces(entries) \in Seq(AllPlaces)
         /\ Len(StaticPlaces(entries)) = Len(entries)
         /\ \A e \in 1 .. Len(entries) : StaticPlaces(entries)[e] = <<entries[e]>>
<1>1. \A w \in Words : <<w>> \in AllPlaces
  BY DEF AllPlaces
<1> QED
  BY <1>1 DEF StaticPlaces

(* ... and of all of them, those on the PATH first. *)
LEMMA RulePlacesAre ==
  ASSUME NEW rules \in AllRules, NEW env \in AllEnvironments
  PROVE  LET system == SystemPlaces(rules.system, env.path)
             static == StaticPlaces(rules.static)
         IN  /\ RulePlaces(rules, env) \in Seq(AllPlaces)
             /\ Len(RulePlaces(rules, env)) = Len(system) + Len(static)
             /\ \A i \in 1 .. Len(system) : RulePlaces(rules, env)[i] = system[i]
             /\ \A i \in 1 .. Len(static) : RulePlaces(rules, env)[Len(system) + i] = static[i]
<1> DEFINE system == SystemPlaces(rules.system, env.path)
           static == StaticPlaces(rules.static)
<1>1. rules.system \in Seq(Words) /\ rules.static \in Seq(Words) /\ env.path \in Seq(Words)
  BY DEF AllRules, AllEnvironments
<1>2. system \in Seq(AllPlaces) /\ static \in Seq(AllPlaces)
  BY <1>1, SystemPlacesAre, StaticPlacesAre
<1>3. RulePlaces(rules, env) = system \o static
  BY DEF RulePlaces
<1> HIDE DEF system, static
<1>4. /\ system \o static \in Seq(AllPlaces)
      /\ Len(system \o static) = Len(system) + Len(static)
      /\ \A i \in 1 .. Len(system) + Len(static) :
           (system \o static)[i] = IF i <= Len(system) THEN system[i] ELSE static[i - Len(system)]
  BY <1>2, ConcatProperties
<1>5. Len(system) \in Nat /\ Len(static) \in Nat
  BY <1>2
<1>6. \A i \in 1 .. Len(static) : (Len(system) + i) - Len(system) = i /\ ~ (Len(system) + i <= Len(system))
        /\ Len(system) + i \in 1 .. Len(system) + Len(static)
  BY <1>5
<1>7. /\ RulePlaces(rules, env) \in Seq(AllPlaces)
      /\ Len(RulePlaces(rules, env)) = Len(system) + Len(static)
      /\ \A i \in 1 .. Len(system) : RulePlaces(rules, env)[i] = system[i]
      /\ \A i \in 1 .. Len(static) : RulePlaces(rules, env)[Len(system) + i] = static[i]
  BY <1>3, <1>4, <1>5, <1>6
<1> QED
  BY <1>7 DEF system, static

(* findEmulator's two loops take the first of the places of a search. *)
LEMMA NestedIsFlat ==
  ASSUME NEW rules \in AllRules, NEW env \in AllEnvironments, NEW hits
  PROVE  FrontendTakesRule(rules, env, hits) = FrontendTakes(RulePlaces(rules, env), hits)
<1> DEFINE E == Len(rules.system)
           P == Len(env.path)
           system == SystemPlaces(rules.system, env.path)
           static == StaticPlaces(rules.static)
           places == RulePlaces(rules, env)
           taken(e) == {d \in DOMAIN env.path : <<env.path[d], rules.system[e]>> \in hits}
           onPath == {e \in DOMAIN rules.system : taken(e) # {}}
<1>1. /\ rules.system \in Seq(Words) /\ rules.static \in Seq(Words) /\ env.path \in Seq(Words)
      /\ E \in Nat /\ P \in Nat /\ E * P \in Nat
      /\ DOMAIN env.path = 1 .. P /\ DOMAIN rules.system = 1 .. E
  BY DEF AllRules, AllEnvironments
<1>2. /\ system \in Seq(AllPlaces) /\ Len(system) = E * P
      /\ \A i \in 1 .. E * P : \E e \in 1 .. E, d \in 1 .. P :
           i = P * (e - 1) + d /\ system[i] = <<env.path[d], rules.system[e]>>
      /\ \A e \in 1 .. E, d \in 1 .. P :
           /\ P * (e - 1) + d \in 1 .. E * P
           /\ system[P * (e - 1) + d] = <<env.path[d], rules.system[e]>>
  BY <1>1, SystemPlacesAre
<1>3. static \in Seq(AllPlaces)
  BY <1>1, StaticPlacesAre
<1>4. /\ places \in Seq(AllPlaces)
      /\ Len(places) = Len(system) + Len(static)
      /\ \A i \in 1 .. Len(system) : places[i] = system[i]
      /\ \A i \in 1 .. Len(static) : places[Len(system) + i] = static[i]
  BY RulePlacesAre
<1>5. FrontendTakesRule(rules, env, hits) =
        IF onPath # {} THEN <<env.path[First(taken(First(onPath)))], rules.system[First(onPath)]>>
        ELSE FrontendTakes(static, hits)
  BY DEF FrontendTakesRule
<1> HIDE DEF system, static, places
<1>6. /\ DOMAIN system = 1 .. Len(system) /\ DOMAIN static = 1 .. Len(static)
      /\ DOMAIN places = 1 .. Len(places)
      /\ Len(system) \in Nat /\ Len(static) \in Nat /\ Len(places) \in Nat
  <2>1. \A q \in Seq(AllPlaces) : DOMAIN q = 1 .. Len(q) /\ Len(q) \in Nat
    OBVIOUS
  <2> QED
    BY <1>2, <1>3, <1>4, <2>1
<1> HIDE DEF E, P
<1>a. \A m, n \in Nat : m * n \in Nat /\ \A q \in Nat \ {0} : m * (q - 1) \in Nat
  OBVIOUS
<1>7. CASE \E i \in 1 .. Len(system) : system[i] \in hits
  <2>1. PICK k \in 1 .. Len(system) :
          system[k] \in hits /\ \A j \in 1 .. k - 1 : system[j] \notin hits
    BY <1>6, <1>7, TakenIsFirst
  <2>2. PICK e \in 1 .. E, d \in 1 .. P :
          k = P * (e - 1) + d /\ system[k] = <<env.path[d], rules.system[e]>>
    BY <1>2, <2>1
  <2>3. \A x \in 1 .. E, y \in 1 .. P :
          <<env.path[y], rules.system[x]>> \in hits => k <= P * (x - 1) + y
    <3>1. SUFFICES ASSUME NEW x \in 1 .. E, NEW y \in 1 .. P, ~ (k <= P * (x - 1) + y)
                   PROVE  <<env.path[y], rules.system[x]>> \notin hits
      OBVIOUS
    <3> DEFINE i == P * (x - 1) + y
    <3>2. i \in 1 .. E * P /\ system[i] = <<env.path[y], rules.system[x]>>
      BY <1>2
    <3> HIDE DEF i
    <3>3. i \in Nat /\ k \in Nat /\ ~ (k <= i)
      BY <1>6, <2>1, <3>1, <3>2, <1>1 DEF i
    <3>4. i \in 1 .. k - 1
      BY <1>1, <3>2, <3>3
    <3> QED
      BY <2>1, <3>2, <3>4
  <2>4. d \in taken(e) /\ e \in onPath
    BY <1>1, <2>1, <2>2
  <2>5. First(taken(e)) = d
    <3>1. \A y \in taken(e) : d <= y
      <4>1. SUFFICES ASSUME NEW y \in taken(e) PROVE d <= y
        OBVIOUS
      <4>2. P * (e - 1) + d <= P * (e - 1) + y
        BY <1>1, <2>2, <2>3
      <4>3. P \in Nat /\ e \in Nat \ {0} /\ P * (e - 1) \in Nat
        <5>1. P \in Nat /\ e \in Nat \ {0}
          BY <1>1
        <5> QED
          BY <1>a, <5>1
      <4> QED
        BY <1>1, <4>2, <4>3
    <3>2. taken(e) \in SUBSET Nat
      BY <1>1
    <3> HIDE DEF taken
    <3> QED
      BY <2>4, <3>1, <3>2, FirstIs
  <2>6. First(onPath) = e
    <3>1. \A x \in onPath : e <= x
      <4>1. SUFFICES ASSUME NEW x \in onPath, x < e PROVE FALSE
        BY <1>1
      <4>2. PICK y \in 1 .. P : <<env.path[y], rules.system[x]>> \in hits
        BY <1>1
      <4>3. P * (e - 1) + d <= P * (x - 1) + y
        BY <1>1, <2>2, <2>3, <4>2
      <4>4. \A a, b, n \in Nat : a <= b => n * a <= n * b
        OBVIOUS
      <4>5. P * x <= P * (e - 1)
        <5>1. x \in Nat /\ e - 1 \in Nat /\ x <= e - 1 /\ P \in Nat
          BY <1>1, <4>1
        <5> QED
          BY <4>4, <5>1
      <4>6. P * (x - 1) = P * x - P /\ P * x \in Nat /\ P * (e - 1) \in Nat
        <5>1. \A n, m \in Nat : n * (m - 1) = n * m - n
          OBVIOUS
        <5>2. x \in Nat /\ e \in Nat \ {0} /\ P \in Nat
          BY <1>1
        <5> QED
          BY <1>a, <5>1, <5>2
      <4> QED
        BY <1>1, <4>3, <4>5, <4>6
    <3>2. onPath \in SUBSET Nat
      BY <1>1
    <3> HIDE DEF onPath
    <3> QED
      BY <2>4, <3>1, <3>2, FirstIs
  <2>7. FrontendTakesRule(rules, env, hits) = system[k]
    BY <1>5, <2>2, <2>4, <2>5, <2>6
  <2>8. FrontendTakes(places, hits) = places[k]
    <3>1. k \in 1 .. Len(places) /\ places[k] \in hits /\ \A j \in 1 .. k - 1 : places[j] \notin hits
      BY <1>4, <1>6, <2>1
    <3> QED
      BY <1>6, <3>1, TakesFirst
  <2> QED
    BY <1>4, <2>1, <2>7, <2>8 DEF places
<1>8. CASE \A i \in 1 .. Len(system) : system[i] \notin hits
  <2>1. onPath = {}
    <3>1. SUFFICES ASSUME NEW e \in 1 .. E, NEW d \in 1 .. P,
                          <<env.path[d], rules.system[e]>> \in hits
                   PROVE  FALSE
      BY <1>1
    <3> QED
      BY <1>2, <1>8, <3>1
  <2>2. FrontendTakesRule(rules, env, hits) = FrontendTakes(static, hits)
    BY <1>5, <2>1
  <2>3. CASE \E i \in 1 .. Len(static) : static[i] \in hits
    <3>1. PICK k \in 1 .. Len(static) :
            static[k] \in hits /\ \A j \in 1 .. k - 1 : static[j] \notin hits
      BY <1>6, <2>3, TakenIsFirst
    <3> DEFINE m == Len(system) + k
    <3>2. m \in 1 .. Len(places) /\ places[m] \in hits
      BY <1>4, <1>6, <3>1
    <3>3. ASSUME NEW j \in 1 .. m - 1 PROVE places[j] \notin hits
      <4>1. CASE j <= Len(system)
        BY <1>4, <1>6, <1>8, <4>1
      <4>2. CASE ~ (j <= Len(system))
        <5> DEFINE i == j - Len(system)
        <5>1. i \in 1 .. k - 1 /\ i \in 1 .. Len(static) /\ j = Len(system) + i
          BY <1>6, <3>1, <4>2
        <5> QED
          BY <1>4, <3>1, <5>1
      <4> QED
        BY <4>1, <4>2
    <3>4. FrontendTakes(places, hits) = places[m]
      <4> HIDE DEF m
      <4> QED
        BY <1>6, <3>2, <3>3, TakesFirst
    <3>5. FrontendTakes(static, hits) = static[k]
      BY <1>6, <3>1, TakesFirst
    <3> QED
      BY <1>4, <2>2, <3>1, <3>4, <3>5 DEF places
  <2>4. CASE \A i \in 1 .. Len(static) : static[i] \notin hits
    <3>1. ASSUME NEW j \in 1 .. Len(places) PROVE places[j] \notin hits
      <4>1. CASE j <= Len(system)
        BY <1>4, <1>6, <1>8, <4>1
      <4>2. CASE ~ (j <= Len(system))
        <5> DEFINE i == j - Len(system)
        <5>1. i \in 1 .. Len(static) /\ j = Len(system) + i
          BY <1>4, <1>6, <4>2
        <5> QED
          BY <1>4, <2>4, <5>1
      <4> QED
        BY <4>1, <4>2
    <3>2. FrontendTakes(places, hits) = None /\ FrontendTakes(static, hits) = None
      BY <1>6, <2>4, <3>1, TakesNone
    <3> QED
      BY <2>2, <3>2 DEF places
  <2> QED
    BY <2>3, <2>4
<1> QED
  BY <1>7, <1>8

(* A first word is looked for as it is, or in the working directory, first. *)
LEMMA WordPlacesAre ==
  ASSUME NEW word \in Words, NEW env \in AllEnvironments
  PROVE  /\ WordPlaces(word, env) \in Seq(AllPlaces)
         /\ Len(WordPlaces(word, env)) = 1 + Len(env.path)
         /\ word \notin RelativeWords => WordPlaces(word, env)[1] = <<word>>
<1> DEFINE one == IF word \in RelativeWords THEN <<env.directory, word>> ELSE <<word>>
           rest == [d \in 1 .. Len(env.path) |-> <<env.path[d], word>>]
<1>1. env.path \in Seq(Words) /\ env.directory \in Words
  BY DEF AllEnvironments
<1>2. \A v \in Words : <<v>> \in AllPlaces /\ \A w \in Words : <<v, w>> \in AllPlaces
  BY DEF AllPlaces
<1>3. one \in AllPlaces
  BY <1>1, <1>2
<1>4. rest \in Seq(AllPlaces) /\ Len(rest) = Len(env.path)
  <2>1. Len(env.path) \in Nat /\ \A d \in 1 .. Len(env.path) : env.path[d] \in Words
    BY <1>1
  <2>2. \A d \in 1 .. Len(env.path) : <<env.path[d], word>> \in AllPlaces
    BY <1>2, <2>1
  <2> QED
    BY <2>1, <2>2
<1>5. WordPlaces(word, env) = <<one>> \o rest
  BY DEF WordPlaces
<1> HIDE DEF one, rest
<1>6. <<one>> \in Seq(AllPlaces) /\ Len(<<one>>) = 1 /\ <<one>>[1] = one
  BY <1>3
<1>7. /\ <<one>> \o rest \in Seq(AllPlaces)
      /\ Len(<<one>> \o rest) = 1 + Len(rest)
      /\ (<<one>> \o rest)[1] = one
  BY <1>4, <1>6, ConcatProperties
<1> QED
  BY <1>4, <1>5, <1>7 DEF one

(* A core is looked for below each of its directories. *)
LEMMA CorePlacesAre ==
  ASSUME NEW dirs \in AllDirs, NEW emulator \in AllPlaces
  PROVE  CorePlaces(dirs, emulator) \in Seq(AllPlaces)
<1>1. ASSUME NEW d \in 1 .. Len(dirs), dirs[d] # "%EMUPATH%"
      PROVE  <<"core", dirs[d]>> \in AllPlaces
  BY <1>1 DEF AllDirs, AllPlaces
<1>2. <<"core">> \o emulator \in AllPlaces
  <2>1. <<"core">> \in Seq(Words \union {"core"})
    OBVIOUS
  <2> QED
    BY <2>1, ConcatProperties DEF AllPlaces
<1>3. Len(dirs) \in Nat
  BY DEF AllDirs
<1> QED
  BY <1>1, <1>2, <1>3 DEF CorePlaces
-----------------------------------------------------------------------------
LayersTyped == custom \in Layers \union {NoLayer} /\ lower \in Layers \union {None}

(* A layer defines rules and directories, and one that holds nothing neither. *)
LEMMA LayersAreTyped ==
  ASSUME NEW layer \in Layers \union {NoLayer}
  PROVE  /\ \A t \in DOMAIN layer.emulators : layer.emulators[t] \in AllRules
         /\ \A c \in DOMAIN layer.cores : layer.cores[c] \in AllDirs
<1>1. DOMAIN NoLayer.emulators = {} /\ DOMAIN NoLayer.cores = {}
  BY DEF NoLayer
<1> QED
  BY <1>1, LayersAssumption

(* Whatever the unread layer holds, a name that the custom layer defines, or  *)
(* any where both were read, has the rules the lookup merged.                *)
LEMMA MergedAsLoaded ==
  ASSUME LayersTyped, NEW layers \in PossibleLayers
  PROVE  /\ \A t : lower # None \/ t \in DOMAIN custom.emulators =>
              EmulatorRules(t, layers) =
                IF t \in DOMAIN Rules.emulators THEN Rules.emulators[t] ELSE None
         /\ \A c : lower # None \/ c \in DOMAIN custom.cores =>
              CoreRules(c, layers) = IF c \in DOMAIN Rules.cores THEN Rules.cores[c] ELSE None
         /\ \A t : EmulatorRules(t, layers) \in AllRules \union {None}
         /\ \A c : CoreRules(c, layers) \in AllDirs \union {None}
<1>1. /\ layers[1] = custom
      /\ layers[2] \in Layers \union {NoLayer}
      /\ lower # None => layers[2] = lower
  BY DEF PossibleLayers, LayersTyped
<1>2. custom \in Layers \union {NoLayer}
  BY DEF LayersTyped
<1> DEFINE low == IF lower = None THEN NoLayer ELSE lower
<1>3. /\ Rules.emulators = FirstWins(custom.emulators, low.emulators)
      /\ Rules.cores = FirstWins(custom.cores, low.cores)
  BY DEF Rules, Merged
<1> HIDE DEF low
<1>4. ASSUME NEW t, lower # None \/ t \in DOMAIN custom.emulators
      PROVE  EmulatorRules(t, layers) =
               IF t \in DOMAIN Rules.emulators THEN Rules.emulators[t] ELSE None
  BY <1>1, <1>3, <1>4 DEF EmulatorRules, FrontendRules, FirstWins, low
<1>5. ASSUME NEW c, lower # None \/ c \in DOMAIN custom.cores
      PROVE  CoreRules(c, layers) = IF c \in DOMAIN Rules.cores THEN Rules.cores[c] ELSE None
  BY <1>1, <1>3, <1>5 DEF CoreRules, FrontendRules, FirstWins, low
<1>6. ASSUME NEW t PROVE EmulatorRules(t, layers) \in AllRules \union {None}
  BY <1>1, <1>2, LayersAreTyped DEF EmulatorRules, FrontendRules
<1>7. ASSUME NEW c PROVE CoreRules(c, layers) \in AllDirs \union {None}
  BY <1>1, <1>2, LayersAreTyped DEF CoreRules, FrontendRules
<1> QED
  BY <1>4, <1>5, <1>6, <1>7
-----------------------------------------------------------------------------
(* The parts of the inductive invariant. *)
Early == {"idle", "custom", "shadow", "read shadow", "read bundled"}
InHand == {"seek", "search", "located"}
Tokens == {"precommand", "emulator"}
Ends == {"found", "stopped", "not-found", "rules-missing", "unread"}
Conclusive == {"found", "not-found", "rules-missing"}
Results == [end : Ends, at : AllPlaces \union {None}, assumed : BOOLEAN]
Verdicts ==
  [command : Commands, says : {"startable", "not-installed", "unestablished"},
   why : Ends \union {"unsupported", None}, launcher : AllPlaces \union {None},
   core : AllPlaces \union {None}, seeking : Kinds \union {None}, assumed : BOOLEAN]

(* The files of a machine on which every probe says what it said. *)
Agrees(seen, hits) ==
  \A p \in DOMAIN seen :
    /\ seen[p] = "hit" => p \in hits
    /\ seen[p] = "miss" => p \notin hits

TypesInv ==
  /\ step \in Early \union InHand \union {"command", "answered"}
  /\ pathKnown \in BOOLEAN
  /\ LayersTyped
  /\ commands \in Seq(Commands)
  /\ step \notin {"idle", "answered"} => commands # <<>>
  /\ seeking \in Kinds \union {None}
  /\ candidates \in Seq(AllPlaces)
  /\ \A p \in DOMAIN probed : probed[p] \in {"hit", "miss", "unknown"}
  /\ \A slot \in DOMAIN located :
       located[slot] \in Results /\ (located[slot].end = "found" => located[slot].at \in AllPlaces)
  /\ verdicts \in Seq(Verdicts)
  /\ \A i \in 1 .. Len(verdicts) : verdicts[i].says = "startable" <=> verdicts[i].launcher # None

(* Nothing is remembered from one answer to the next. *)
FreshInv == step \in Early => located = <<>> /\ verdicts = <<>> /\ probed = <<>>

(* What is looked for, and what has been found by then. *)
IsFound(kind) == Memo(kind) \in DOMAIN located /\ located[Memo(kind)].end = "found"

MaySeek(kind) ==
  /\ ~Unsupported
  /\ kind = "program" => Command.emulator = None
  /\ kind \in Tokens => Command.emulator # None
  /\ kind = "precommand" => Command.precommand # None
  /\ kind \in {"emulator", "core"} /\ Command.precommand # None => IsFound("precommand")
  /\ kind = "core" => Command.core # None /\ IsFound(Launching(Command))

FlowInv ==
  /\ step \in InHand => seeking \in Kinds /\ MaySeek(seeking)
  /\ step = "located" => Memo(seeking) \in DOMAIN located

(* The places of the search in hand; those gone were all misses, and nothing   *)
(* of the name was found before.                                            *)
Sought ==
  IF seeking \in Tokens THEN RulePlaces(Rules.emulators[Key], Assumed)
  ELSE IF seeking = "program" THEN WordPlaces(Key, Assumed)
  ELSE CorePlaces(Rules.cores[Key], located[Memo(Launching(Command))].at)

RulesKnown ==
  /\ seeking \in Tokens => /\ lower # None \/ Key \in DOMAIN custom.emulators
                           /\ Key \in DOMAIN Rules.emulators
  /\ seeking = "core" => /\ lower # None \/ Key \in DOMAIN custom.cores
                         /\ Key \in DOMAIN Rules.cores

Remaining(left, all, seen) ==
  /\ Len(left) <= Len(all)
  /\ \A i \in 1 .. Len(left) : left[i] = all[Len(all) - Len(left) + i]
  /\ \A j \in 1 .. Len(all) - Len(left) : all[j] \in DOMAIN seen /\ seen[all[j]] = "miss"

Unfound == seeking # "core" => Memo(seeking) \notin DOMAIN located

SearchInv == step = "search" => Unfound /\ RulesKnown /\ Remaining(candidates, Sought, probed)

(* What was found is what ES-DE takes, on every machine that agrees. *)
Settles(r, taken) ==
  /\ r.end = "found" => taken = r.at
  /\ r.end \in {"not-found", "rules-missing"} => taken = None

RightToken(token, r, all, seen) ==
  \A layers \in all : \A hits :
    Agrees(seen, hits) => Settles(r, FrontendFindsToken(token, Assumed, layers, hits))

RightProgram(word, r, seen) ==
  /\ r.end \in {"found", "not-found", "stopped"}
  /\ r.end # "stopped" /\ ~r.assumed =>
       r.end = "found" /\ r.at = <<word>> /\ word \notin RelativeWords
  /\ \A hits : Agrees(seen, hits) => Settles(r, FrontendTakes(WordPlaces(word, Assumed), hits))

RightCore(core, emulator, r, all, seen) ==
  \A layers \in all : \A hits :
    Agrees(seen, hits) => Settles(r, FrontendFindsCore(core, emulator, layers, hits))

Right(slot, r, emulator, all, seen) ==
  /\ slot[1] = "token" => RightToken(slot[2], r, all, seen)
  /\ slot[1] = "program" => RightProgram(slot[2], r, seen)
  /\ slot[1] = "core" => RightCore(slot[2], emulator, r, all, seen)

(* A token or core is settled by rules no unread layer can overrule.  A core is *)
(* remembered for one command alone.                                        *)
LocatedInv ==
  \A slot \in DOMAIN located :
    /\ Right(slot, located[slot], located[Memo(Launching(Command))].at, PossibleLayers, probed)
    /\ slot[1] = "token" /\ located[slot].end \in Conclusive =>
         lower # None \/ slot[2] \in DOMAIN custom.emulators
    /\ slot[1] = "core" => step = "located" /\ seeking = "core" /\ slot = Memo("core")

(* What is answered holds of every machine that agrees with what was seen. *)
Holds(v, environments, all, seen) ==
  Definite(v) => \A env \in environments, layers \in all : \A hits :
    Agrees(seen, hits) => SaysOf(v, Frontend(v.command, env, layers, hits))

VerdictsInv ==
  \A i \in 1 .. Len(verdicts) :
    /\ Holds(verdicts[i], {Assumed}, PossibleLayers, probed)
    /\ ~pathKnown /\ ~verdicts[i].assumed =>
         Holds(verdicts[i], Environments, PossibleLayers, probed)

LookupInv ==
  TypesInv /\ FreshInv /\ FlowInv /\ SearchInv /\ LocatedInv /\ VerdictsInv
-----------------------------------------------------------------------------
(* What ES-DE does, from what is remembered. *)
Concluded(kind) == Memo(kind) \in DOMAIN located /\ located[Memo(kind)].end \in Conclusive
FoundAt(kind) == IF IsFound(kind) THEN located[Memo(kind)].at ELSE None

(* The environments an answer that is about to be given speaks of. *)
SpokenOf(env) ==
  env = Assumed \/ (~pathKnown /\ ~NotesAssumed(FALSE) /\ env \in Environments)

(* Rules without a systempath do not ask where the frontend was started. *)
LEMMA PathAside ==
  ASSUME NEW rules \in AllRules, rules.system = <<>>, NEW env, NEW hits
  PROVE  FrontendTakesRule(rules, env, hits) = FrontendTakes(StaticPlaces(rules.static), hits)
<1>1. DOMAIN rules.system = {}
  OBVIOUS
<1> QED
  BY <1>1 DEF FrontendTakesRule

(* A word that was found where it stands is found there on any PATH. *)
LEMMA WordAside ==
  ASSUME NEW word \in Words, word \notin RelativeWords, NEW env \in Environments, NEW hits,
         FrontendTakes(WordPlaces(word, Assumed), hits) = <<word>>
  PROVE  FrontendTakes(WordPlaces(word, env), hits) = <<word>>
<1>1. Assumed \in AllEnvironments /\ env \in AllEnvironments
  BY EnvironmentAssumption
<1> DEFINE here == WordPlaces(word, Assumed)
           there == WordPlaces(word, env)
<1>2. here \in Seq(AllPlaces) /\ there \in Seq(AllPlaces) /\ there[1] = <<word>>
  BY <1>1, WordPlacesAre
<1>3. Len(there) = 1 + Len(env.path) /\ Len(env.path) \in Nat
  BY <1>1, WordPlacesAre DEF AllEnvironments
<1>4. <<word>> # None
  <2>1. <<word>> \in AllPlaces
    BY DEF AllPlaces
  <2> QED
    BY <2>1, AbsentAssumption
<1> HIDE DEF here, there
<1>5. FrontendTakes(here, hits) = <<word>>
  BY DEF here
<1>6. <<word>> \in hits
  <2>1. PICK i \in 1 .. Len(here) : here[i] \in hits
    BY <1>2, <1>4, <1>5, TakesNone
  <2>2. PICK k \in 1 .. Len(here) : here[k] \in hits /\ \A j \in 1 .. k - 1 : here[j] \notin hits
    BY <1>2, <2>1, TakenIsFirst
  <2>3. FrontendTakes(here, hits) = here[k]
    BY <1>2, <2>2, TakesFirst
  <2> QED
    BY <1>5, <2>2, <2>3
<1>7. FrontendTakes(there, hits) = there[1]
  <2>1. 1 \in 1 .. Len(there) /\ DOMAIN there = 1 .. Len(there) /\ Len(there) \in Nat
    BY <1>2, <1>3
  <2>2. there[1] \in hits /\ \A j \in 1 .. 1 - 1 : there[j] \notin hits
    BY <1>2, <1>6
  <2> QED
    BY <2>1, <2>2, TakesFirst
<1> QED
  BY <1>2, <1>7 DEF there

(* What is remembered of a kind is what ES-DE finds for it. *)
LEMMA FoundAsRemembered ==
  ASSUME LookupInv, commands # <<>>, NEW kind \in {"precommand", "emulator", "program"},
         MaySeek(kind), Concluded(kind), NEW env, SpokenOf(env),
         NEW layers \in PossibleLayers, NEW hits, Agrees(probed, hits)
  PROVE  /\ FrontendFinds(Command, kind, env, layers, hits) = FoundAt(kind)
         /\ IsFound(kind) => FoundAt(kind) # None
<1> DEFINE r == located[Memo(kind)]
<1>1. /\ r \in Results /\ (r.end = "found" => r.at \in AllPlaces)
      /\ Right(Memo(kind), r, located[Memo(Launching(Command))].at, PossibleLayers, probed)
      /\ Memo(kind)[1] = "token" => lower # None \/ Memo(kind)[2] \in DOMAIN custom.emulators
  BY DEF LookupInv, TypesInv, LocatedInv, Concluded
<1>2. r.end \in Conclusive /\ (r.end = "found" <=> IsFound(kind))
  BY DEF Concluded, IsFound
<1>3. IsFound(kind) => FoundAt(kind) # None
  BY <1>1, <1>2, AbsentAssumption DEF FoundAt
<1>4. LayersTyped
  BY DEF LookupInv, TypesInv
<1> HIDE DEF r
<1>5. CASE kind = "program"
  <2>1. Command \in Commands
    BY HeadTailProperties DEF LookupInv, TypesInv, Command
  <2>2. Memo(kind) = <<"program", Command.program>> /\ Command.program \in Words
    BY <1>5, <2>1, CommandsAssumption DEF Memo, MaySeek
  <2>3. RightProgram(Command.program, r, probed)
    BY <1>1, <2>2 DEF Right
  <2>4. FrontendTakes(WordPlaces(Command.program, Assumed), hits) = FoundAt(kind)
    BY <1>2, <2>3 DEF RightProgram, Settles, FoundAt, r, Conclusive
  <2>5. CASE env = Assumed
    BY <1>3, <1>5, <2>4, <2>5 DEF FrontendFinds
  <2>6. CASE ~pathKnown /\ ~NotesAssumed(FALSE) /\ env \in Environments
    <3>1. ~r.assumed
      BY <1>5, <2>6 DEF NotesAssumed, MaySeek, r
    <3>2. r.end = "found" /\ r.at = <<Command.program>> /\ Command.program \notin RelativeWords
      BY <1>2, <2>3, <3>1 DEF RightProgram, Conclusive
    <3>3. FoundAt(kind) = <<Command.program>>
      BY <1>2, <3>2 DEF FoundAt, r
    <3>4. FrontendTakes(WordPlaces(Command.program, env), hits) = <<Command.program>>
      BY <2>2, <2>4, <2>6, <3>2, <3>3, WordAside
    <3> QED
      BY <1>3, <1>5, <3>3, <3>4 DEF FrontendFinds
  <2> QED
    BY <2>5, <2>6 DEF SpokenOf
<1>6. CASE kind \in Tokens
  <2> DEFINE token == Command[kind]
  <2>1. Memo(kind) = <<"token", token>>
    BY <1>6 DEF Memo, Tokens
  <2>2. RightToken(token, r, PossibleLayers, probed)
    BY <1>1, <2>1 DEF Right
  <2>3. lower # None \/ token \in DOMAIN custom.emulators
    BY <1>1, <2>1
  <2> HIDE DEF token
  <2>4. FrontendFindsToken(token, Assumed, layers, hits) = FoundAt(kind)
    BY <1>2, <2>2 DEF RightToken, Settles, FoundAt, r, Conclusive
  <2>5. FrontendFinds(Command, kind, env, layers, hits) = FrontendFindsToken(token, env, layers, hits)
    BY <1>6 DEF FrontendFinds, Tokens, token
  <2>6. CASE env = Assumed
    BY <1>3, <2>4, <2>5, <2>6
  <2>7. CASE ~pathKnown /\ ~NotesAssumed(FALSE) /\ env \in Environments
    <3>1. token \in Searched
      BY <1>6, <2>3 DEF Searched, MaySeek, Tokens, IsFound, token
    <3>2. ~ThroughPath(token)
      BY <1>6, <2>7, <3>1 DEF NotesAssumed, MaySeek
    <3>3. token \in DOMAIN Rules.emulators => Rules.emulators[token].system = <<>>
      BY <2>3, <3>2 DEF ThroughPath
    <3>4. /\ EmulatorRules(token, layers) =
               IF token \in DOMAIN Rules.emulators THEN Rules.emulators[token] ELSE None
          /\ EmulatorRules(token, layers) \in AllRules \union {None}
      BY <1>4, <2>3, MergedAsLoaded
    <3>5. FrontendFindsToken(token, env, layers, hits) = FrontendFindsToken(token, Assumed, layers, hits)
      BY <3>3, <3>4, PathAside DEF FrontendFindsToken
    <3> QED
      BY <1>3, <2>4, <2>5, <3>5
  <2> QED
    BY <2>6, <2>7 DEF SpokenOf
<1> QED
  BY <1>5, <1>6 DEF Tokens

(* What is remembered of the core is what ES-DE finds beside that emulator. *)
LEMMA CoreAsRemembered ==
  ASSUME LookupInv, step = "located", seeking = "core", Concluded("core"),
         NEW layers \in PossibleLayers, NEW hits, Agrees(probed, hits)
  PROVE  /\ FrontendFindsCore(Command.core, FoundAt(Launching(Command)), layers, hits) = FoundAt("core")
         /\ IsFound("core") => FoundAt("core") # None
<1> DEFINE r == located[Memo("core")]
           emulator == located[Memo(Launching(Command))].at
<1>1. Memo("core") = <<"core", Command.core>>
  BY DEF Memo
<1>2. r \in Results /\ (r.end = "found" => r.at \in AllPlaces)
  BY DEF LookupInv, TypesInv, Concluded
<1>3. Right(Memo("core"), r, emulator, PossibleLayers, probed)
  BY DEF LookupInv, LocatedInv, Concluded
<1>4. FoundAt(Launching(Command)) = emulator
  BY DEF LookupInv, FlowInv, MaySeek, FoundAt, InHand
<1>5. r.end \in Conclusive /\ (r.end = "found" <=> IsFound("core"))
  BY DEF Concluded, IsFound
<1> HIDE DEF r, emulator
<1>6. RightCore(Command.core, emulator, r, PossibleLayers, probed)
  BY <1>1, <1>3 DEF Right
<1>7. FrontendFindsCore(Command.core, emulator, layers, hits) = FoundAt("core")
  BY <1>5, <1>6 DEF RightCore, Settles, FoundAt, r, Conclusive
<1> QED
  BY <1>2, <1>4, <1>5, <1>7, AbsentAssumption DEF FoundAt, r

(* Where a command stands, ES-DE has found all that was found so far. *)
LEMMA FoundBefore ==
  ASSUME LookupInv, step = "located", located[Memo(seeking)].end \in Conclusive,
         NEW env, SpokenOf(env), NEW layers \in PossibleLayers, NEW hits, Agrees(probed, hits)
  PROVE  /\ commands # <<>> /\ seeking \in Kinds /\ MaySeek(seeking) /\ Concluded(seeking)
         /\ Launching(Command) \in {"emulator", "program"}
         /\ seeking # "core" =>
              /\ FrontendFinds(Command, seeking, env, layers, hits) = FoundAt(seeking)
              /\ IsFound(seeking) => FoundAt(seeking) # None
         /\ seeking # "precommand" /\ Command.precommand # None =>
              FrontendFinds(Command, "precommand", env, layers, hits) # None
         /\ seeking = "core" =>
              /\ FrontendFinds(Command, Launching(Command), env, layers, hits)
                   = FoundAt(Launching(Command))
              /\ FoundAt(Launching(Command)) # None
              /\ FoundAt(Launching(Command)) = located[Memo(Launching(Command))].at
              /\ FrontendFindsCore(Command.core, FoundAt(Launching(Command)), layers, hits)
                   = FoundAt("core")
              /\ IsFound("core") => FoundAt("core") # None
<1>1. commands # <<>> /\ seeking \in Kinds /\ MaySeek(seeking) /\ Concluded(seeking)
  BY DEF LookupInv, TypesInv, FlowInv, Concluded, InHand
<1>2. Launching(Command) \in {"emulator", "program"}
  BY DEF Launching
<1>3. seeking # "core" =>
        /\ FrontendFinds(Command, seeking, env, layers, hits) = FoundAt(seeking)
        /\ IsFound(seeking) => FoundAt(seeking) # None
  BY <1>1, FoundAsRemembered DEF Kinds
<1>4. ASSUME seeking # "precommand", Command.precommand # None
      PROVE  FrontendFinds(Command, "precommand", env, layers, hits) # None
  <2>1. seeking # "program" /\ seeking \in {"emulator", "core"}
    BY <1>1, <1>4 DEF MaySeek, Unsupported, Kinds
  <2>2. IsFound("precommand") /\ Command.emulator # None
    BY <1>1, <1>4, <2>1 DEF MaySeek, Tokens, Unsupported
  <2>3. MaySeek("precommand") /\ Concluded("precommand")
    BY <1>1, <1>4, <2>2 DEF MaySeek, Concluded, IsFound, Conclusive, Tokens
  <2> QED
    BY <1>1, <2>2, <2>3, FoundAsRemembered
<1>5. ASSUME seeking = "core"
      PROVE  /\ FrontendFinds(Command, Launching(Command), env, layers, hits)
                  = FoundAt(Launching(Command))
             /\ FoundAt(Launching(Command)) # None
             /\ FoundAt(Launching(Command)) = located[Memo(Launching(Command))].at
             /\ FrontendFindsCore(Command.core, FoundAt(Launching(Command)), layers, hits)
                  = FoundAt("core")
             /\ IsFound("core") => FoundAt("core") # None
  <2>1. IsFound(Launching(Command)) /\ MaySeek(Launching(Command))
    BY <1>1, <1>5 DEF MaySeek, Launching, Tokens
  <2>2. Concluded(Launching(Command))
    BY <2>1 DEF Concluded, IsFound, Conclusive
  <2>3. /\ FrontendFinds(Command, Launching(Command), env, layers, hits) = FoundAt(Launching(Command))
        /\ FoundAt(Launching(Command)) # None
    BY <1>1, <1>2, <2>1, <2>2, FoundAsRemembered
  <2> QED
    BY <1>1, <1>5, <2>1, <2>3, CoreAsRemembered DEF FoundAt
<1> QED
  BY <1>1, <1>2, <1>3, <1>4, <1>5

(* A search that found nothing is one that ES-DE refuses the launch after. *)
LEMMA EndedIsRefused ==
  ASSUME LookupInv, step = "located", located[Memo(seeking)].end \in {"not-found", "rules-missing"},
         NEW env, SpokenOf(env), NEW layers \in PossibleLayers, NEW hits, Agrees(probed, hits)
  PROVE  Frontend(Command, env, layers, hits) = Refuses
<1>1. located[Memo(seeking)].end \in Conclusive /\ FoundAt(seeking) = None
  BY DEF Conclusive, FoundAt, IsFound
<1>2. CASE seeking = "precommand"
  BY <1>1, <1>2, FoundBefore DEF Frontend, MaySeek
<1>3. CASE seeking \in {"emulator", "program"}
  <2>1. Launching(Command) = seeking
    BY <1>1, <1>3, FoundBefore DEF Launching, MaySeek, Tokens
  <2> QED
    BY <1>1, <1>3, <2>1, FoundBefore DEF Frontend
<1>4. CASE seeking = "core"
  BY <1>1, <1>4, FoundBefore DEF Frontend, MaySeek
<1> QED
  BY <1>1, <1>2, <1>3, <1>4, FoundBefore DEF Kinds

(* A launcher that was found is started where the command names no core ... *)
LEMMA LauncherIsStarted ==
  ASSUME LookupInv, step = "located", seeking \in {"emulator", "program"}, IsFound(seeking),
         Command.core = None,
         NEW env, SpokenOf(env), NEW layers \in PossibleLayers, NEW hits, Agrees(probed, hits)
  PROVE  Frontend(Command, env, layers, hits) = [launcher |-> located[Memo(seeking)].at, core |-> None]
<1>1. located[Memo(seeking)].end \in Conclusive /\ FoundAt(seeking) = located[Memo(seeking)].at
  BY DEF Conclusive, FoundAt, IsFound
<1>2. Launching(Command) = seeking
  BY <1>1, FoundBefore DEF Launching, MaySeek, Tokens
<1> QED
  BY <1>1, <1>2, FoundBefore DEF Frontend

(* ... and with the core it names where that was found too. *)
LEMMA CoreIsLoaded ==
  ASSUME LookupInv, step = "located", seeking = "core", IsFound(seeking),
         NEW env, SpokenOf(env), NEW layers \in PossibleLayers, NEW hits, Agrees(probed, hits)
  PROVE  Frontend(Command, env, layers, hits) =
           [launcher |-> located[Memo(Launching(Command))].at, core |-> located[Memo(seeking)].at]
<1>1. located[Memo(seeking)].end \in Conclusive /\ FoundAt(seeking) = located[Memo(seeking)].at
  BY DEF Conclusive, FoundAt, IsFound
<1>2. Command.core # None
  BY <1>1, FoundBefore DEF MaySeek
<1> QED
  BY <1>1, <1>2, FoundBefore DEF Frontend
-----------------------------------------------------------------------------
(* What the next step of the lookup is, whichever action takes it. *)
Grows == \A hits : Agrees(probed', hits) => Agrees(probed, hits)
ProbesTyped == \A p \in DOMAIN probed' : probed'[p] \in {"hit", "miss", "unknown"}

Prepares ==
  /\ step \in Early \union {"answered"}
  /\ step' \in Early \union {"command"}
  /\ located' = <<>> /\ verdicts' = <<>> /\ probed' = <<>>
  /\ LayersTyped'
  /\ pathKnown' \in BOOLEAN
  /\ commands' \in Seq(Commands)
  /\ step' # "idle" => commands' # <<>>
  /\ UNCHANGED <<seeking, candidates>>

Turns ==
  /\ step \in {"command", "located"}
  /\ step = "located" => seeking # "core"
  /\ \E kind \in Kinds : Seek(kind) /\ MaySeek(kind)
  /\ UNCHANGED located

Looks ==
  /\ step \in {"seek", "search"}
  /\ Unfound /\ RulesKnown
  /\ \E places \in Seq(AllPlaces) : Searching(places) /\ Remaining(places, Sought, probed')
  /\ Grows /\ ProbesTyped

Finds ==
  /\ step \in {"seek", "search"}
  /\ Unfound
  /\ \E r \in Results :
       /\ Locate(r)
       /\ r.end = "found" => r.at \in AllPlaces
       /\ Right(Memo(seeking), r, located[Memo(Launching(Command))].at, PossibleLayers, probed')
       /\ seeking \in Tokens /\ r.end \in Conclusive => lower # None \/ Key \in DOMAIN custom.emulators
  /\ Grows /\ ProbesTyped

Gives(v) ==
  /\ verdicts' = Append(verdicts, v)
  /\ v \in Verdicts
  /\ v.says = "startable" <=> v.launcher # None
  /\ Holds(v, {Assumed}, PossibleLayers, probed)
  /\ ~pathKnown /\ ~v.assumed => Holds(v, Environments, PossibleLayers, probed)

Concludes ==
  /\ step \in {"command", "located"}
  /\ \E v \in Verdicts : Gives(v)
  /\ commands' = Tail(commands)
  /\ step' = IF Len(commands) = 1 THEN "answered" ELSE "command"
  /\ seeking' = None
  /\ \A slot \in DOMAIN located' :
       slot \in DOMAIN located /\ located'[slot] = located[slot] /\ slot[1] # "core"
  /\ UNCHANGED <<pathKnown, custom, lower, candidates, probed>>

(* The command in hand, and what is left after it. *)
LEMMA CommandIsTyped ==
  ASSUME LookupInv, commands # <<>>
  PROVE  /\ Command \in Commands
         /\ Tail(commands) \in Seq(Commands)
         /\ Len(commands) \in Nat \ {0}
         /\ Len(commands) # 1 => Tail(commands) # <<>>
<1>1. commands \in Seq(Commands)
  BY DEF LookupInv, TypesInv
<1>2. /\ Head(commands) \in Commands
      /\ Tail(commands) \in Seq(Commands)
      /\ Len(Tail(commands)) = Len(commands) - 1
  BY <1>1, HeadTailProperties
<1>3. Len(commands) \in Nat \ {0}
  BY <1>1
<1> QED
  BY <1>2, <1>3 DEF Command

(* What may be answered, and what makes it right. *)
Answerable(a, why, launcher, core, unsupported) ==
  /\ a \in {"startable", "not-installed", "unestablished"}
  /\ why \in Ends \union {"unsupported", None}
  /\ launcher \in AllPlaces \union {None}
  /\ core \in AllPlaces \union {None}
  /\ unsupported \in BOOLEAN
  /\ a = "startable" <=> launcher # None
  /\ a # "unestablished" \/ why = "rules-missing" => ~unsupported

Deserved(a, why, launcher, core) ==
  a # "unestablished" \/ why = "rules-missing" =>
    \A env : \A layers \in PossibleLayers : \A hits :
      SpokenOf(env) /\ Agrees(probed, hits) =>
        /\ a = "startable" =>
             Frontend(Command, env, layers, hits) = [launcher |-> launcher, core |-> core]
        /\ a = "not-installed" \/ why = "rules-missing" =>
             Frontend(Command, env, layers, hits) = Refuses

(* A right answer is given. *)
LEMMA GivesWhatIsRight ==
  ASSUME LookupInv, commands # <<>>, NEW a, NEW why, NEW launcher, NEW core, NEW unsupported,
         Answer(a, why, launcher, core, unsupported),
         Answerable(a, why, launcher, core, unsupported), Deserved(a, why, launcher, core)
  PROVE  \E v \in Verdicts : Gives(v)
<1> DEFINE v == [command |-> Command, says |-> a, why |-> why, launcher |-> launcher,
                 core |-> core, seeking |-> seeking, assumed |-> NotesAssumed(unsupported)]
<1>1. verdicts' = Append(verdicts, v)
  BY DEF Answer
<1>2. NotesAssumed(unsupported) \in BOOLEAN
  BY DEF NotesAssumed
<1>3. Command \in Commands /\ seeking \in Kinds \union {None}
  BY CommandIsTyped DEF LookupInv, TypesInv
<1>4. v \in Verdicts
  BY <1>2, <1>3 DEF Verdicts, Answerable
<1>5. v.says = a /\ v.why = why /\ v.launcher = launcher /\ v.core = core /\ v.command = Command
      /\ v.assumed = NotesAssumed(unsupported)
  OBVIOUS
<1> HIDE DEF v
<1>6. ASSUME NEW env, Definite(v) => SpokenOf(env), NEW layers \in PossibleLayers, NEW hits,
             Agrees(probed, hits), Definite(v)
      PROVE  SaysOf(v, Frontend(Command, env, layers, hits))
  BY <1>5, <1>6 DEF SaysOf, Definite, Deserved
<1>7. Holds(v, {Assumed}, PossibleLayers, probed)
  BY <1>5, <1>6 DEF Holds, SpokenOf
<1>8. ASSUME ~pathKnown, ~v.assumed PROVE Holds(v, Environments, PossibleLayers, probed)
  <2>1. ASSUME NEW env \in Environments, Definite(v) PROVE SpokenOf(env)
    BY <1>5, <1>8, <2>1 DEF SpokenOf, Definite, Answerable
  <2> QED
    BY <1>5, <1>6, <2>1 DEF Holds
<1> QED
  BY <1>1, <1>4, <1>5, <1>7, <1>8 DEF Gives, Answerable
-----------------------------------------------------------------------------
(* The merged rules and directories are typed. *)
LEMMA RulesTyped ==
  ASSUME LayersTyped
  PROVE  /\ \A t \in DOMAIN Rules.emulators : Rules.emulators[t] \in AllRules
         /\ \A c \in DOMAIN Rules.cores : Rules.cores[c] \in AllDirs
<1> DEFINE low == IF lower = None THEN NoLayer ELSE lower
<1>1. custom \in Layers \union {NoLayer} /\ low \in Layers \union {NoLayer}
  BY DEF LayersTyped
<1>2. /\ Rules.emulators = FirstWins(custom.emulators, low.emulators)
      /\ Rules.cores = FirstWins(custom.cores, low.cores)
  BY DEF Rules, Merged
<1> HIDE DEF low
<1> QED
  BY <1>1, <1>2, LayersAreTyped DEF FirstWins

(* What is in hand while something is looked for. *)
LEMMA InHandIsTyped ==
  ASSUME LookupInv, step \in {"seek", "search"}
  PROVE  /\ commands # <<>> /\ Command \in Commands
         /\ seeking \in Kinds /\ MaySeek(seeking) /\ LayersTyped
         /\ Assumed \in AllEnvironments
         /\ seeking = "program" => Key \in Words /\ Memo(seeking) = <<"program", Key>>
         /\ seeking \in Tokens => Memo(seeking) = <<"token", Key>>
         /\ seeking = "core" => /\ Memo(seeking) = <<"core", Key>>
                                /\ located[Memo(Launching(Command))].at \in AllPlaces
<1>1. commands # <<>> /\ seeking \in Kinds /\ MaySeek(seeking) /\ LayersTyped
  BY DEF LookupInv, TypesInv, FlowInv, InHand, Early
<1>2. Command \in Commands
  BY <1>1, CommandIsTyped
<1>3. seeking = "program" => Key \in Words /\ Memo(seeking) = <<"program", Key>>
  BY <1>1, <1>2, CommandsAssumption DEF Key, Memo, MaySeek
<1>4. seeking \in Tokens => Memo(seeking) = <<"token", Key>>
  BY DEF Tokens, Memo, Key
<1>5. seeking = "core" => /\ Memo(seeking) = <<"core", Key>>
                          /\ located[Memo(Launching(Command))].at \in AllPlaces
  BY <1>1 DEF Memo, Key, MaySeek, IsFound, LookupInv, TypesInv
<1>6. Assumed \in AllEnvironments
  BY EnvironmentAssumption
<1> QED
  BY <1>1, <1>2, <1>3, <1>4, <1>5, <1>6

(* What ES-DE takes of a search's places is what it finds. *)
LEMMA SoughtIsTaken ==
  ASSUME LookupInv, step \in {"seek", "search"}, RulesKnown,
         NEW layers \in PossibleLayers, NEW hits
  PROVE  /\ seeking \in Tokens =>
              FrontendFindsToken(Key, Assumed, layers, hits) = FrontendTakes(Sought, hits)
         /\ seeking = "core" =>
              FrontendFindsCore(Key, located[Memo(Launching(Command))].at, layers, hits)
                = FrontendTakes(Sought, hits)
<1>1. /\ LayersTyped /\ Assumed \in AllEnvironments
      /\ \A t \in DOMAIN Rules.emulators : Rules.emulators[t] \in AllRules
      /\ \A c \in DOMAIN Rules.cores : Rules.cores[c] \in AllDirs
  BY InHandIsTyped, RulesTyped
<1>2. ASSUME seeking \in Tokens
      PROVE  FrontendFindsToken(Key, Assumed, layers, hits) = FrontendTakes(Sought, hits)
  <2> DEFINE rules == Rules.emulators[Key]
  <2>1. EmulatorRules(Key, layers) = rules /\ rules \in AllRules
    BY <1>1, <1>2, MergedAsLoaded DEF RulesKnown
  <2>2. Sought = RulePlaces(rules, Assumed)
    BY <1>2 DEF Sought
  <2> HIDE DEF rules
  <2>3. rules # None
    BY <2>1, AbsentAssumption
  <2> QED
    BY <1>1, <2>1, <2>2, <2>3, NestedIsFlat DEF FrontendFindsToken
<1>3. ASSUME seeking = "core"
      PROVE  FrontendFindsCore(Key, located[Memo(Launching(Command))].at, layers, hits)
               = FrontendTakes(Sought, hits)
  <2> DEFINE dirs == Rules.cores[Key]
  <2>1. CoreRules(Key, layers) = dirs /\ dirs \in AllDirs
    BY <1>1, <1>3, MergedAsLoaded DEF RulesKnown
  <2>2. Sought = CorePlaces(dirs, located[Memo(Launching(Command))].at)
    BY <1>3 DEF Sought, Tokens
  <2> HIDE DEF dirs
  <2>3. dirs # None
    BY <2>1, AbsentAssumption
  <2> QED
    BY <2>1, <2>2, <2>3 DEF FrontendFindsCore
<1> QED
  BY <1>2, <1>3

(* The places sought are places; those of a program begin with its own word. *)
LEMMA SoughtIsTyped ==
  ASSUME LookupInv, step \in {"seek", "search"}, RulesKnown
  PROVE  /\ Sought \in Seq(AllPlaces)
         /\ seeking = "program" =>
              /\ Sought = WordPlaces(Key, Assumed)
              /\ Len(Sought) = 1 + Len(Assumed.path) /\ Len(Assumed.path) \in Nat
              /\ Key \notin RelativeWords => Sought[1] = <<Key>>
<1>1. /\ LayersTyped /\ Assumed \in AllEnvironments /\ seeking \in Kinds
      /\ \A t \in DOMAIN Rules.emulators : Rules.emulators[t] \in AllRules
      /\ \A c \in DOMAIN Rules.cores : Rules.cores[c] \in AllDirs
  BY InHandIsTyped, RulesTyped
<1>2. CASE seeking \in Tokens
  <2>1. Sought = RulePlaces(Rules.emulators[Key], Assumed) /\ Rules.emulators[Key] \in AllRules
    BY <1>1, <1>2 DEF Sought, RulesKnown
  <2> QED
    BY <1>1, <1>2, <2>1, RulePlacesAre DEF Tokens
<1>3. CASE seeking = "core"
  <2>1. /\ Sought = CorePlaces(Rules.cores[Key], located[Memo(Launching(Command))].at)
        /\ Rules.cores[Key] \in AllDirs
        /\ located[Memo(Launching(Command))].at \in AllPlaces
    BY <1>1, <1>3, InHandIsTyped DEF Sought, RulesKnown, Tokens
  <2> QED
    BY <1>3, <2>1, CorePlacesAre
<1>4. CASE seeking = "program"
  <2>1. Sought = WordPlaces(Key, Assumed) /\ Key \in Words
    BY <1>4, InHandIsTyped DEF Sought, Tokens
  <2>2. Len(Assumed.path) \in Nat
    BY <1>1 DEF AllEnvironments
  <2> QED
    BY <1>1, <1>4, <2>1, <2>2, WordPlacesAre
<1> QED
  BY <1>1, <1>2, <1>3, <1>4 DEF Kinds, Tokens

(* What the places of a search settle is right. *)
LEMMA SettledIsRight ==
  ASSUME LookupInv, step \in {"seek", "search"}, RulesKnown, NEW r, NEW seen,
         \A hits : Agrees(seen, hits) => Settles(r, FrontendTakes(Sought, hits)),
         seeking = "program" =>
           /\ r.end \in {"found", "not-found", "stopped"}
           /\ r.end # "stopped" /\ ~r.assumed =>
                r.end = "found" /\ r.at = <<Key>> /\ Key \notin RelativeWords
  PROVE  Right(Memo(seeking), r, located[Memo(Launching(Command))].at, PossibleLayers, seen)
<1>1. CASE seeking \in Tokens
  <2>1. RightToken(Key, r, PossibleLayers, seen)
    BY <1>1, SoughtIsTaken DEF RightToken
  <2> QED
    BY <1>1, <2>1, InHandIsTyped DEF Right
<1>2. CASE seeking = "core"
  <2>1. RightCore(Key, located[Memo(Launching(Command))].at, r, PossibleLayers, seen)
    BY <1>2, SoughtIsTaken DEF RightCore
  <2> QED
    BY <1>2, <2>1, InHandIsTyped DEF Right
<1>3. CASE seeking = "program"
  <2>1. RightProgram(Key, r, seen)
    BY <1>3, SoughtIsTyped DEF RightProgram
  <2> QED
    BY <1>3, <2>1, InHandIsTyped DEF Right
<1> QED
  BY <1>1, <1>2, <1>3, InHandIsTyped DEF Kinds, Tokens
-----------------------------------------------------------------------------
(* What is read before the first command, and what is dropped after the last. *)
LEMMA Preparing ==
  ASSUME LookupInv, OpenAnswer \/ ReadCustom \/ FindShadow \/ ReadShadow \/ ReadBundled \/ NextAnswer
  PROVE  Prepares
<1> USE DEF LookupInv, TypesInv, FreshInv, Early
<1>1. CASE OpenAnswer
  <2>1. commands' \in Seq(Commands) /\ commands' # <<>>
    BY <1>1, AnswersAssumption DEF OpenAnswer
  <2> QED
    BY <1>1, <2>1 DEF OpenAnswer, Prepares, LayersTyped
<1>2. CASE ReadCustom
  BY <1>2 DEF ReadCustom, Prepares, LayersTyped
<1>3. CASE FindShadow
  BY <1>3 DEF FindShadow, Prepares, LayersTyped
<1>4. CASE ReadShadow
  BY <1>4 DEF ReadShadow, BeginCommands, Prepares, LayersTyped
<1>5. CASE ReadBundled
  BY <1>5 DEF ReadBundled, BeginCommands, Prepares, LayersTyped
<1>6. CASE NextAnswer
  <2>1. <<>> \in Seq(Commands)
    BY EmptySeq
  <2> QED
    BY <1>6, <2>1 DEF NextAnswer, Prepares, LayersTyped
<1> QED
  BY <1>1, <1>2, <1>3, <1>4, <1>5, <1>6

(* A command turns to what may be looked for next. *)
LEMMA Turning ==
  ASSUME LookupInv, TakeCommand \/ AfterPrecommand \/ (AfterEmulator /\ Command.core # None)
  PROVE  Turns
<1>1. CASE TakeCommand
  <2>1. TakeCommand => \E kind \in {"program", "precommand", "emulator"} : Seek(kind) /\ MaySeek(kind)
    BY DEF TakeCommand, MaySeek, Tokens, Unsupported
  <2> QED
    BY <1>1, <2>1 DEF TakeCommand, Turns, Kinds
<1>2. CASE AfterPrecommand
  <2>1. MaySeek("precommand") /\ IsFound("precommand")
    BY <1>2 DEF AfterPrecommand, LookupInv, FlowInv, InHand, IsFound
  <2>2. MaySeek("emulator")
    BY <2>1 DEF MaySeek, Tokens
  <2> QED
    BY <1>2, <2>2 DEF AfterPrecommand, Turns, Kinds
<1>3. CASE AfterEmulator /\ Command.core # None
  <2>1. MaySeek(seeking) /\ IsFound(seeking) /\ seeking \in {"emulator", "program"}
    BY <1>3 DEF AfterEmulator, LookupInv, FlowInv, InHand, IsFound
  <2>2. Launching(Command) = seeking
    BY <2>1 DEF MaySeek, Launching, Tokens
  <2>3. MaySeek("core")
    BY <1>3, <2>1, <2>2 DEF MaySeek, Tokens, Unsupported
  <2> QED
    BY <1>3, <2>1, <2>3 DEF AfterEmulator, Turns, Kinds
<1> QED
  BY <1>1, <1>2, <1>3

(* An unread layer that might define the name ends the search, ... *)
LEMMA UnreadIsRight ==
  ASSUME LookupInv, step \in {"seek", "search"}, seeking \in Tokens \union {"core"}, NEW r,
         r.end = "unread" \/ r.end = "stopped", NEW seen
  PROVE  Right(Memo(seeking), r, located[Memo(Launching(Command))].at, PossibleLayers, seen)
<1>1. r.end \notin {"found", "not-found", "rules-missing"}
  OBVIOUS
<1>2. \A taken : Settles(r, taken)
  BY <1>1 DEF Settles
<1>3. Memo(seeking)[1] # "program"
  BY InHandIsTyped DEF Tokens
<1> QED
  BY <1>2, <1>3 DEF Right, RightToken, RightCore

(* ... and so do rules that are not there, which ES-DE would not find either. *)
LEMMA MissingIsRight ==
  ASSUME LookupInv, step = "seek", NEW r, r.end = "rules-missing", NEW seen,
         \/ /\ seeking \in Tokens
            /\ lower # None \/ Key \in DOMAIN custom.emulators
            /\ Key \in DOMAIN Rules.emulators => Empty(Rules.emulators[Key])
         \/ /\ seeking = "core"
            /\ lower # None \/ Key \in DOMAIN custom.cores
            /\ Key \in DOMAIN Rules.cores => Rules.cores[Key] = <<>>
  PROVE  Right(Memo(seeking), r, located[Memo(Launching(Command))].at, PossibleLayers, seen)
<1>1. \A taken : taken = None => Settles(r, taken)
  BY DEF Settles
<1>2. LayersTyped
  BY InHandIsTyped
<1>3. ASSUME seeking \in Tokens, NEW layers \in PossibleLayers, NEW hits
      PROVE  FrontendFindsToken(Key, Assumed, layers, hits) = None
  <2> DEFINE rules == EmulatorRules(Key, layers)
  <2>1. /\ rules = IF Key \in DOMAIN Rules.emulators THEN Rules.emulators[Key] ELSE None
        /\ rules \in AllRules \union {None}
    BY <1>2, <1>3, MergedAsLoaded DEF Tokens
  <2>2. rules # None => rules.system = <<>> /\ rules.static = <<>>
    BY <1>3, <2>1 DEF Empty, Tokens
  <2> HIDE DEF rules
  <2>3. CASE rules = None
    BY <2>3 DEF FrontendFindsToken, rules
  <2>4. CASE rules # None
    <3>1. FrontendTakesRule(rules, Assumed, hits) = FrontendTakes(StaticPlaces(rules.static), hits)
      BY <2>1, <2>2, <2>4, PathAside
    <3>2. DOMAIN StaticPlaces(rules.static) = {}
      BY <2>2, <2>4 DEF StaticPlaces
    <3>3. FrontendTakes(StaticPlaces(rules.static), hits) = None
      BY <3>2, TakesNone
    <3> QED
      BY <2>4, <3>1, <3>3 DEF FrontendFindsToken, rules
  <2> QED
    BY <2>3, <2>4
<1>4. ASSUME seeking = "core", NEW emulator, NEW layers \in PossibleLayers, NEW hits
      PROVE  FrontendFindsCore(Key, emulator, layers, hits) = None
  <2> DEFINE dirs == CoreRules(Key, layers)
  <2>1. dirs = IF Key \in DOMAIN Rules.cores THEN Rules.cores[Key] ELSE None
    BY <1>2, <1>4, MergedAsLoaded DEF Tokens
  <2>2. dirs # None => dirs = <<>>
    BY <1>4, <2>1 DEF Tokens
  <2> HIDE DEF dirs
  <2>3. dirs # None => DOMAIN CorePlaces(dirs, emulator) = {}
    BY <2>2 DEF CorePlaces
  <2>4. dirs # None => FrontendTakes(CorePlaces(dirs, emulator), hits) = None
    BY <2>3, TakesNone
  <2> QED
    BY <2>4 DEF FrontendFindsCore, dirs
<1>5. CASE seeking \in Tokens
  BY <1>1, <1>3, <1>5, InHandIsTyped DEF Right, RightToken
<1>6. CASE seeking = "core"
  BY <1>1, <1>4, <1>6, InHandIsTyped DEF Right, RightCore
<1> QED
  BY <1>5, <1>6

(* The results that a search can end in. *)
LEMMA ResultsAreTyped ==
  /\ \A why \in Ends : Ended(why) \in Results /\ Ended(why).end = why /\ Ended(why).assumed = WordAssumed
  /\ \A place \in AllPlaces : /\ Found(place) \in Results /\ Found(place).end = "found"
                              /\ Found(place).at = place /\ Found(place).assumed = WordAssumed
<1>1. WordAssumed \in BOOLEAN
  BY DEF WordAssumed
<1> QED
  BY <1>1 DEF Ended, Found, Results, Ends

(* A search that begins has all of its places left. *)
LEMMA AllRemain ==
  ASSUME NEW all \in Seq(AllPlaces), NEW seen
  PROVE  Remaining(all, all, seen)
<1>1. Len(all) \in Nat /\ \A i \in 1 .. Len(all) : Len(all) - Len(all) + i = i
  OBVIOUS
<1> QED
  BY <1>1 DEF Remaining

(* What is sought, what ends the search before it begins, and what begins it. *)
LEMMA SeekingRules ==
  ASSUME LookupInv, step = "seek", seeking \in Tokens \union {"core"}, Unfound, probed' = probed,
         NEW defined, NEW inCustom, NEW empty, NEW places,
         SeekByRules(defined, inCustom, empty, places),
         \/ /\ seeking \in Tokens
            /\ defined <=> Key \in DOMAIN Rules.emulators
            /\ inCustom <=> Key \in DOMAIN custom.emulators
            /\ empty <=> defined /\ Empty(Rules.emulators[Key])
         \/ /\ seeking = "core"
            /\ defined <=> Key \in DOMAIN Rules.cores
            /\ inCustom <=> Key \in DOMAIN custom.cores
            /\ empty <=> defined /\ Rules.cores[Key] = <<>>,
         defined => places = Sought
  PROVE  Looks \/ Finds
<1>1. Grows /\ ProbesTyped
  BY DEF Grows, ProbesTyped, LookupInv, TypesInv
<1>2. CASE lower = None /\ ~inCustom
  <2> DEFINE r == Ended("unread")
  <2>1. Locate(r)
    BY <1>2 DEF SeekByRules
  <2>2. r \in Results /\ r.end = "unread"
    BY ResultsAreTyped DEF Ends
  <2> HIDE DEF r
  <2>3. Right(Memo(seeking), r, located[Memo(Launching(Command))].at, PossibleLayers, probed')
    BY <2>2, UnreadIsRight
  <2> QED
    BY <1>1, <2>1, <2>2, <2>3 DEF Finds, Conclusive
<1>3. CASE ~ (lower = None /\ ~inCustom) /\ (~defined \/ empty)
  <2> DEFINE r == Ended("rules-missing")
  <2>1. Locate(r)
    BY <1>3 DEF SeekByRules
  <2>2. r \in Results /\ r.end = "rules-missing"
    BY ResultsAreTyped DEF Ends
  <2> HIDE DEF r
  <2>3. Right(Memo(seeking), r, located[Memo(Launching(Command))].at, PossibleLayers, probed')
    BY <1>3, <2>2, MissingIsRight
  <2> QED
    BY <1>1, <1>3, <2>1, <2>2, <2>3 DEF Finds, Tokens
<1>4. CASE ~ (lower = None /\ ~inCustom) /\ ~ (~defined \/ empty)
  <2>1. Searching(Sought)
    BY <1>4 DEF SeekByRules
  <2>2. RulesKnown
    BY <1>4 DEF RulesKnown, Tokens
  <2>3. Sought \in Seq(AllPlaces)
    BY <2>2, SoughtIsTyped
  <2>4. Remaining(Sought, Sought, probed')
    BY <2>3, AllRemain
  <2> QED
    BY <1>1, <2>1, <2>2, <2>3, <2>4 DEF Looks
<1> QED
  BY <1>2, <1>3, <1>4

(* Looking for a token, a program or a core begins a search, or finds at once. *)
LEMMA Seeking ==
  ASSUME LookupInv, SeekToken \/ SeekProgram \/ SeekCore
  PROVE  Looks \/ Finds
<1>1. CASE SeekToken
  <2> DEFINE defined == Key \in DOMAIN Rules.emulators
             places == IF defined THEN RulePlaces(Rules.emulators[Key], Assumed) ELSE <<>>
  <2>1. /\ step = "seek" /\ seeking \in Tokens /\ probed' = probed
        /\ SeekByRules(defined, Key \in DOMAIN custom.emulators,
                       defined /\ Empty(Rules.emulators[Key]), places)
    BY <1>1 DEF SeekToken, Tokens
  <2>0. Unfound
    BY <1>1 DEF SeekToken, Unfound
  <2>2. defined => places = Sought
    BY <2>1 DEF Sought
  <2> HIDE DEF defined, places
  <2>3. defined <=> Key \in DOMAIN Rules.emulators
    BY DEF defined
  <2> QED
    BY <2>1, <2>0, <2>2, <2>3, SeekingRules
<1>2. CASE SeekCore
  <2> DEFINE defined == Key \in DOMAIN Rules.cores
             emulator == located[Memo(Launching(Command))].at
             places == IF defined THEN CorePlaces(Rules.cores[Key], emulator) ELSE <<>>
  <2>1. /\ step = "seek" /\ seeking = "core" /\ probed' = probed
        /\ SeekByRules(defined, Key \in DOMAIN custom.cores,
                       defined /\ Rules.cores[Key] = <<>>, places)
    BY <1>2 DEF SeekCore
  <2>0. Unfound
    BY <2>1 DEF Unfound
  <2>2. defined => places = Sought
    BY <2>1 DEF Sought, Tokens
  <2> HIDE DEF defined, places
  <2>3. defined <=> Key \in DOMAIN Rules.cores
    BY DEF defined
  <2> QED
    BY <2>1, <2>0, <2>2, <2>3, SeekingRules
<1>3. CASE SeekProgram
  <2>1. step = "seek" /\ seeking = "program" /\ probed' = probed /\ RulesKnown /\ Unfound
    BY <1>3 DEF SeekProgram, RulesKnown, Tokens, Unfound
  <2>2. Searching(Sought) /\ Sought \in Seq(AllPlaces)
    BY <1>3, <2>1, SoughtIsTyped DEF SeekProgram
  <2>3. Remaining(Sought, Sought, probed')
    BY <2>2, AllRemain
  <2>4. Grows /\ ProbesTyped
    BY <2>1 DEF Grows, ProbesTyped, LookupInv, TypesInv
  <2> QED
    BY <2>1, <2>2, <2>3, <2>4 DEF Looks
<1> QED
  BY <1>1, <1>2, <1>3

(* The head of what remains is the next place; when it is a miss, the rest remains. *)
LEMMA HeadOfRemaining ==
  ASSUME NEW all \in Seq(AllPlaces), NEW left \in Seq(AllPlaces), left # <<>>, NEW seen,
         Remaining(left, all, seen)
  PROVE  \E k \in 1 .. Len(all) :
           /\ k = Len(all) - Len(left) + 1
           /\ all[k] = Head(left)
           /\ \A j \in 1 .. k - 1 : all[j] \in DOMAIN seen /\ seen[all[j]] = "miss"
           /\ \A later :
                /\ \A p \in DOMAIN seen : p \in DOMAIN later /\ later[p] = seen[p]
                /\ all[k] \in DOMAIN later /\ later[all[k]] = "miss"
                => Remaining(Tail(left), all, later)
<1> DEFINE n == Len(all)
           m == Len(left)
           k == n - m + 1
<1>1. n \in Nat /\ m \in Nat /\ m >= 1 /\ m <= n
  <2>1. n \in Nat /\ m \in Nat /\ m # 0
    BY EmptySeq
  <2> QED
    BY <2>1 DEF Remaining
<1>2. /\ \A i \in 1 .. m : left[i] = all[n - m + i]
      /\ \A j \in 1 .. n - m : all[j] \in DOMAIN seen /\ seen[all[j]] = "miss"
  BY DEF Remaining
<1>3. Head(left) = left[1] /\ Len(Tail(left)) = m - 1 /\ \A i \in 1 .. m - 1 : Tail(left)[i] = left[i + 1]
  BY HeadTailProperties
<1> HIDE DEF n, m
<1>4. k \in 1 .. n /\ all[k] = Head(left)
  BY <1>1, <1>2, <1>3
<1>5. \A j \in 1 .. k - 1 : all[j] \in DOMAIN seen /\ seen[all[j]] = "miss"
  BY <1>1, <1>2
<1>6. ASSUME NEW later, \A p \in DOMAIN seen : p \in DOMAIN later /\ later[p] = seen[p],
             all[k] \in DOMAIN later, later[all[k]] = "miss"
      PROVE  Remaining(Tail(left), all, later)
  <2>1. m - 1 <= n
    BY <1>1
  <2>2. ASSUME NEW i \in 1 .. m - 1 PROVE Tail(left)[i] = all[n - (m - 1) + i]
    <3>1. i + 1 \in 1 .. m /\ n - m + (i + 1) = n - (m - 1) + i
      BY <1>1
    <3> QED
      BY <1>2, <1>3, <3>1
  <2>3. ASSUME NEW j \in 1 .. n - (m - 1)
        PROVE  all[j] \in DOMAIN later /\ later[all[j]] = "miss"
    <3>1. j \in 1 .. k - 1 \/ j = k
      BY <1>1
    <3> QED
      BY <1>5, <1>6, <3>1
  <2> QED
    BY <1>3, <2>1, <2>2, <2>3 DEF Remaining, n
<1> QED
  BY <1>4, <1>5, <1>6 DEF n, m

(* A probe adds what it saw, and changes nothing that was seen. *)
LEMMA ProbeAdds ==
  ASSUME LookupInv, NEW place, NEW sees \in {"hit", "miss", "unknown"},
         place \in DOMAIN probed => sees = probed[place], probed' = With(probed, place, sees)
  PROVE  /\ \A p \in DOMAIN probed : p \in DOMAIN probed' /\ probed'[p] = probed[p]
         /\ place \in DOMAIN probed' /\ probed'[place] = sees
         /\ Grows /\ ProbesTyped
<1>1. /\ \A p \in DOMAIN probed : p \in DOMAIN probed' /\ probed'[p] = probed[p]
      /\ place \in DOMAIN probed' /\ probed'[place] = sees
  BY DEF With
<1>2. Grows
  BY <1>1 DEF Grows, Agrees
<1>3. ProbesTyped
  BY DEF ProbesTyped, With, LookupInv, TypesInv
<1> QED
  BY <1>1, <1>2, <1>3

(* A search finds the first hit after misses, stops at what cannot be told,   *)
(* goes on after a miss, and has found nothing where all were misses.        *)
LEMMA Probing ==
  ASSUME LookupInv, Probe \/ Exhausted
  PROVE  Looks \/ Finds
<1>1. /\ step = "search" /\ Unfound /\ RulesKnown /\ Remaining(candidates, Sought, probed)
      /\ candidates \in Seq(AllPlaces) /\ Sought \in Seq(AllPlaces)
      /\ seeking \in Kinds
  BY SoughtIsTyped, InHandIsTyped DEF Probe, Exhausted, LookupInv, SearchInv, TypesInv
<1>2. seeking = "program" =>
        /\ Len(Sought) = 1 + Len(Assumed.path) /\ Len(Assumed.path) \in Nat
        /\ Key \notin RelativeWords => Sought[1] = <<Key>>
  BY <1>1, SoughtIsTyped
<1>3. seeking \in Tokens => lower # None \/ Key \in DOMAIN custom.emulators
  BY <1>1 DEF RulesKnown
<1>4. CASE Probe
  <2>1. candidates # <<>>
    BY <1>4 DEF Probe
  <2>2. PICK sees \in {"hit", "miss", "unknown"} :
          /\ Head(candidates) \in DOMAIN probed => sees = probed[Head(candidates)]
          /\ probed' = With(probed, Head(candidates), sees)
          /\ \/ sees = "hit" /\ Locate(Found(Head(candidates)))
             \/ sees = "unknown" /\ Locate(Ended("stopped"))
             \/ sees = "miss" /\ Searching(Tail(candidates))
    BY <1>4 DEF Probe
  <2>3. PICK k \in 1 .. Len(Sought) :
          /\ k = Len(Sought) - Len(candidates) + 1
          /\ Sought[k] = Head(candidates)
          /\ \A j \in 1 .. k - 1 : Sought[j] \in DOMAIN probed /\ probed[Sought[j]] = "miss"
          /\ \A later :
               /\ \A p \in DOMAIN probed : p \in DOMAIN later /\ later[p] = probed[p]
               /\ Sought[k] \in DOMAIN later /\ later[Sought[k]] = "miss"
               => Remaining(Tail(candidates), Sought, later)
    BY <1>1, <2>1, HeadOfRemaining
  <2> DEFINE place == Sought[k]
  <2>4. /\ \A p \in DOMAIN probed : p \in DOMAIN probed' /\ probed'[p] = probed[p]
        /\ place \in DOMAIN probed' /\ probed'[place] = sees
        /\ Grows /\ ProbesTyped
    BY <2>2, <2>3, ProbeAdds
  <2>5. place \in AllPlaces
    BY <1>1
  <2>6. CASE sees = "hit"
    <3> DEFINE r == Found(place)
    <3>1. Locate(r)
      BY <2>2, <2>3, <2>6
    <3>2. r \in Results /\ r.end = "found" /\ r.at = place /\ r.assumed = WordAssumed
      BY <2>5, ResultsAreTyped
    <3> HIDE DEF r
    <3>3. ASSUME NEW hits, Agrees(probed', hits)
          PROVE  FrontendTakes(Sought, hits) = place
      <4>1. place \in hits /\ \A j \in 1 .. k - 1 : Sought[j] \notin hits
        BY <2>3, <2>4, <2>6, <3>3 DEF Agrees
      <4>2. Len(Sought) \in Nat /\ DOMAIN Sought = 1 .. Len(Sought)
        BY <1>1
      <4> QED
        BY <4>1, <4>2, TakesFirst
    <3>4. \A hits : Agrees(probed', hits) => Settles(r, FrontendTakes(Sought, hits))
      BY <3>2, <3>3 DEF Settles
    <3>5. ASSUME seeking = "program", ~r.assumed
          PROVE  r.at = <<Key>> /\ Key \notin RelativeWords
      <4>1. Key \notin RelativeWords /\ ~ (Len(candidates) <= Len(Assumed.path))
        BY <3>2, <3>5 DEF WordAssumed
      <4>2. Len(candidates) \in Nat /\ Len(Sought) \in Nat
        BY <1>1
      <4>3. k = 1
        BY <1>2, <2>3, <3>5, <4>1, <4>2
      <4> QED
        BY <1>2, <3>2, <3>5, <4>1, <4>3
    <3>6. Right(Memo(seeking), r, located[Memo(Launching(Command))].at, PossibleLayers, probed')
      BY <1>1, <3>2, <3>4, <3>5, SettledIsRight
    <3> QED
      BY <1>1, <1>3, <2>4, <2>5, <3>1, <3>2, <3>6 DEF Finds
  <2>7. CASE sees = "unknown"
    <3> DEFINE r == Ended("stopped")
    <3>1. Locate(r)
      BY <2>2, <2>7
    <3>2. r \in Results /\ r.end = "stopped"
      BY ResultsAreTyped DEF Ends
    <3> HIDE DEF r
    <3>3. \A taken : Settles(r, taken)
      BY <3>2 DEF Settles
    <3>4. Right(Memo(seeking), r, located[Memo(Launching(Command))].at, PossibleLayers, probed')
      BY <1>1, <3>2, <3>3, SettledIsRight
    <3> QED
      BY <1>1, <2>4, <3>1, <3>2, <3>4 DEF Finds, Conclusive
  <2>8. CASE sees = "miss"
    <3>1. Searching(Tail(candidates))
      BY <2>2, <2>8
    <3>2. Tail(candidates) \in Seq(AllPlaces)
      BY <1>1, <2>1, HeadTailProperties
    <3>3. Remaining(Tail(candidates), Sought, probed')
      BY <2>3, <2>4, <2>8
    <3> QED
      BY <1>1, <2>4, <3>1, <3>2, <3>3 DEF Looks
  <2> QED
    BY <2>6, <2>7, <2>8
<1>5. CASE Exhausted
  <2> DEFINE r == Ended("not-found")
  <2>1. Locate(r) /\ candidates = <<>> /\ probed' = probed
    BY <1>5 DEF Exhausted
  <2>2. r \in Results /\ r.end = "not-found" /\ r.assumed = WordAssumed
    BY ResultsAreTyped DEF Ends
  <2> HIDE DEF r
  <2>3. Grows /\ ProbesTyped
    BY <2>1 DEF Grows, ProbesTyped, LookupInv, TypesInv
  <2>4. \A j \in DOMAIN Sought : Sought[j] \in DOMAIN probed /\ probed[Sought[j]] = "miss"
    <3>1. Len(candidates) = 0
      BY <2>1
    <3>2. Len(Sought) \in Nat /\ DOMAIN Sought = 1 .. Len(Sought) /\ Len(Sought) - 0 = Len(Sought)
      BY <1>1
    <3> QED
      BY <1>1, <3>1, <3>2 DEF Remaining
  <2>5. ASSUME NEW hits, Agrees(probed', hits) PROVE FrontendTakes(Sought, hits) = None
    <3>1. \A j \in DOMAIN Sought : Sought[j] \notin hits
      BY <2>1, <2>4, <2>5 DEF Agrees
    <3> QED
      BY <3>1, TakesNone
  <2>6. \A hits : Agrees(probed', hits) => Settles(r, FrontendTakes(Sought, hits))
    BY <2>2, <2>5 DEF Settles
  <2>7. seeking = "program" => r.assumed
    <3>1. seeking = "program" => Len(candidates) <= Len(Assumed.path)
      BY <1>2, <2>1
    <3> QED
      BY <2>2, <3>1, Zenon DEF WordAssumed
  <2>8. Right(Memo(seeking), r, located[Memo(Launching(Command))].at, PossibleLayers, probed')
    BY <1>1, <2>2, <2>6, <2>7, SettledIsRight
  <2> QED
    BY <1>1, <1>3, <2>1, <2>2, <2>3, <2>8 DEF Finds
<1> QED
  BY <1>4, <1>5

(* No core is remembered past the command that looked for it. *)
LEMMA CoresAreForgotten ==
  ASSUME LookupInv, step \in {"command", "located"},
         located' = IF step = "located" /\ seeking = "core" THEN Forgetting(Memo(seeking)) ELSE located
  PROVE  \A slot \in DOMAIN located' :
           slot \in DOMAIN located /\ located'[slot] = located[slot] /\ slot[1] # "core"
<1>1. \A slot \in DOMAIN located :
        slot[1] = "core" => step = "located" /\ seeking = "core" /\ slot = Memo("core")
  BY DEF LookupInv, LocatedInv
<1>2. CASE step = "located" /\ seeking = "core"
  BY <1>1, <1>2 DEF Forgetting
<1>3. CASE ~ (step = "located" /\ seeking = "core")
  BY <1>1, <1>3
<1> QED
  BY <1>2, <1>3

(* An answer that is right of the command in hand concludes it. *)
LEMMA AnswerConcludes ==
  ASSUME LookupInv, step \in {"command", "located"}, commands # <<>>,
         NEW a, NEW why, NEW launcher, NEW core, NEW unsupported,
         Answer(a, why, launcher, core, unsupported),
         Answerable(a, why, launcher, core, unsupported), Deserved(a, why, launcher, core),
         located' = IF step = "located" /\ seeking = "core" THEN Forgetting(Memo(seeking)) ELSE located
  PROVE  Concludes
<1>1. \E v \in Verdicts : Gives(v)
  BY GivesWhatIsRight, Zenon
<1>2. \A slot \in DOMAIN located' :
        slot \in DOMAIN located /\ located'[slot] = located[slot] /\ slot[1] # "core"
  BY CoresAreForgotten, Zenon
<1>3. /\ commands' = Tail(commands)
      /\ step' = IF Len(commands) = 1 THEN "answered" ELSE "command"
      /\ seeking' = None
      /\ UNCHANGED <<pathKnown, custom, lower, candidates, probed>>
  BY DEF Answer
<1> QED
  BY <1>1, <1>2, <1>3, Zenon DEF Concludes

(* Every answer concludes its command with what ES-DE does. *)
LEMMA Concluding ==
  ASSUME LookupInv,
         RefuseCommand \/ EndCommand \/ (AfterEmulator /\ Command.core = None) \/ AfterCore
  PROVE  Concludes
<1>1. step \in {"command", "located"} => commands # <<>>
  BY DEF LookupInv, TypesInv
<1>2. step = "located" =>
        /\ Memo(seeking) \in DOMAIN located /\ seeking \in Kinds /\ MaySeek(seeking)
        /\ located[Memo(seeking)] \in Results
        /\ located[Memo(seeking)].end = "found" => located[Memo(seeking)].at \in AllPlaces
  BY DEF LookupInv, TypesInv, FlowInv, InHand
<1>3. None \notin AllPlaces /\ None # "rules-missing"
  BY AbsentAssumption
<1>4. CASE RefuseCommand
  <2>1. step = "command" /\ Answer("unestablished", "unsupported", None, None, TRUE) /\ located' = located
    BY <1>4 DEF RefuseCommand
  <2>2. /\ Answerable("unestablished", "unsupported", None, None, TRUE)
        /\ Deserved("unestablished", "unsupported", None, None)
    BY <1>3 DEF Answerable, Deserved
  <2> QED
    BY <1>1, <2>1, <2>2, AnswerConcludes
<1>5. CASE EndCommand
  <2> DEFINE end == located[Memo(seeking)].end
  <2>1. /\ step = "located" /\ end # "found"
        /\ IF end = "not-found" THEN Answer("not-installed", end, None, None, FALSE)
           ELSE Answer("unestablished", end, None, None, FALSE)
        /\ located' = IF seeking = "core" THEN Forgetting(Memo(seeking)) ELSE located
    BY <1>5 DEF EndCommand, Unestablished
  <2>2. end \in Ends
    BY <1>2, <2>1 DEF Results
  <2>3. ASSUME end \in {"not-found", "rules-missing"}, NEW env, NEW layers \in PossibleLayers,
               NEW hits, SpokenOf(env), Agrees(probed, hits)
        PROVE  Frontend(Command, env, layers, hits) = Refuses
    BY <2>1, <2>3, EndedIsRefused
  <2> HIDE DEF end
  <2>4. CASE end = "not-found"
    <3>1. Answerable("not-installed", end, None, None, FALSE) /\ Deserved("not-installed", end, None, None)
      BY <1>3, <2>2, <2>3, <2>4 DEF Answerable, Deserved
    <3> QED
      BY <1>1, <2>1, <2>4, <3>1, AnswerConcludes
  <2>5. CASE end # "not-found"
    <3>1. Answerable("unestablished", end, None, None, FALSE) /\ Deserved("unestablished", end, None, None)
      BY <1>3, <2>2, <2>3 DEF Answerable, Deserved
    <3> QED
      BY <1>1, <2>1, <2>5, <3>1, AnswerConcludes
  <2> QED
    BY <2>4, <2>5
<1>6. CASE AfterEmulator /\ Command.core = None
  <2> DEFINE at == located[Memo(seeking)].at
  <2>1. /\ step = "located" /\ seeking \in {"emulator", "program"}
        /\ located[Memo(seeking)].end = "found"
        /\ IF Command.loadsCore THEN Answer("unestablished", "unsupported", None, None, FALSE)
           ELSE Answer("startable", None, at, None, FALSE)
        /\ located' = located
    BY <1>6 DEF AfterEmulator, Unestablished
  <2>2. at \in AllPlaces /\ IsFound(seeking)
    BY <1>2, <2>1 DEF IsFound
  <2>3. ASSUME NEW env, NEW layers \in PossibleLayers, NEW hits, SpokenOf(env), Agrees(probed, hits)
        PROVE  Frontend(Command, env, layers, hits) = [launcher |-> at, core |-> None]
    BY <1>6, <2>1, <2>2, <2>3, LauncherIsStarted
  <2> HIDE DEF at
  <2>4. CASE Command.loadsCore
    <3>1. /\ Answerable("unestablished", "unsupported", None, None, FALSE)
          /\ Deserved("unestablished", "unsupported", None, None)
      BY <1>3 DEF Answerable, Deserved
    <3> QED
      BY <1>1, <2>1, <2>4, <3>1, AnswerConcludes
  <2>5. CASE ~Command.loadsCore
    <3>1. Answer("startable", None, at, None, FALSE)
      BY <2>1, <2>5
    <3>2. located' = IF step = "located" /\ seeking = "core" THEN Forgetting(Memo(seeking)) ELSE located
      BY <2>1
    <3>3. Answerable("startable", None, at, None, FALSE) /\ Deserved("startable", None, at, None)
      BY <1>3, <2>2, <2>3 DEF Answerable, Deserved
    <3> QED
      BY <1>1, <2>1, <3>1, <3>2, <3>3, AnswerConcludes
  <2> QED
    BY <2>4, <2>5
<1>7. CASE AfterCore
  <2> DEFINE emulator == located[Memo(Launching(Command))].at
             core == located[Memo(seeking)].at
  <2>1. /\ step = "located" /\ seeking = "core" /\ located[Memo(seeking)].end = "found"
        /\ Answer("startable", None, emulator, core, FALSE)
        /\ located' = Forgetting(Memo(seeking))
    BY <1>7 DEF AfterCore
  <2>2. IsFound(seeking) /\ IsFound(Launching(Command)) /\ core \in AllPlaces
    BY <1>2, <2>1 DEF IsFound, MaySeek
  <2>3. emulator \in AllPlaces
    BY <2>2 DEF IsFound, LookupInv, TypesInv
  <2>4. ASSUME NEW env, NEW layers \in PossibleLayers, NEW hits, SpokenOf(env), Agrees(probed, hits)
        PROVE  Frontend(Command, env, layers, hits) = [launcher |-> emulator, core |-> core]
    BY <2>1, <2>2, <2>4, CoreIsLoaded
  <2> HIDE DEF emulator, core
  <2>5. located' = IF step = "located" /\ seeking = "core" THEN Forgetting(Memo(seeking)) ELSE located
    BY <2>1
  <2>6. Answerable("startable", None, emulator, core, FALSE) /\ Deserved("startable", None, emulator, core)
    BY <1>3, <2>2, <2>3, <2>4 DEF Answerable, Deserved
  <2> QED
    BY <1>1, <2>1, <2>5, <2>6, AnswerConcludes
<1> QED
  BY <1>4, <1>5, <1>6, <1>7
-----------------------------------------------------------------------------
(* Every step of the lookup is one of these. *)
LEMMA StepsAre ==
  ASSUME LookupInv, [LookupNext]_lookupVars
  PROVE  \/ Prepares \/ Turns \/ Looks \/ Finds \/ Concludes
         \/ Remembered \/ UNCHANGED lookupVars
<1>1. CASE OpenAnswer \/ ReadCustom \/ FindShadow \/ ReadShadow \/ ReadBundled \/ NextAnswer
  BY <1>1, Preparing
<1>2. CASE TakeCommand \/ AfterPrecommand \/ (AfterEmulator /\ Command.core # None)
  BY <1>2, Turning
<1>3. CASE SeekToken \/ SeekProgram \/ SeekCore
  BY <1>3, Seeking
<1>4. CASE Probe \/ Exhausted
  BY <1>4, Probing
<1>5. CASE RefuseCommand \/ EndCommand \/ (AfterEmulator /\ Command.core = None) \/ AfterCore
  BY <1>5, Concluding
<1>6. CASE AfterEmulator
  BY <1>2, <1>5, <1>6
<1> QED
  BY <1>1, <1>2, <1>3, <1>4, <1>5, <1>6 DEF LookupNext

(* What was right of fewer probes is right of more. *)
LEMMA RightStays ==
  ASSUME NEW slot, NEW r, NEW emulator, NEW all, NEW seen, NEW later,
         Right(slot, r, emulator, all, seen), \A hits : Agrees(later, hits) => Agrees(seen, hits)
  PROVE  Right(slot, r, emulator, all, later)
BY DEF Right, RightToken, RightProgram, RightCore

(* ... and so it is with what was answered. *)
LEMMA HoldsStays ==
  ASSUME NEW v, NEW environments, NEW all, NEW seen, NEW later,
         Holds(v, environments, all, seen), \A hits : Agrees(later, hits) => Agrees(seen, hits)
  PROVE  Holds(v, environments, all, later)
BY DEF Holds

(* While one answer is worked out, the layers stay and the probes grow. *)
SameAnswer == Grows /\ UNCHANGED <<pathKnown, custom, lower>>

(* Then neither the rules nor what they may be turn out otherwise. *)
LEMMA LayersStay ==
  ASSUME SameAnswer
  PROVE  PossibleLayers' = PossibleLayers /\ Rules' = Rules /\ (LayersTyped => LayersTyped')
BY DEF SameAnswer, PossibleLayers, Rules, LayersTyped

(* While one command is in hand, its memos stay its own. *)
LEMMA CommandStays ==
  ASSUME commands' = commands
  PROVE  /\ Command' = Command
         /\ Launching(Command)' = Launching(Command)
         /\ Unsupported' = Unsupported
         /\ \A kind : Memo(kind)' = Memo(kind)
BY DEF Command, Launching, Unsupported, Memo

(* What each kind of step leaves alone. *)
LEMMA FormsStay ==
  ASSUME LookupInv
  PROVE  /\ Turns => SameAnswer /\ UNCHANGED <<commands, candidates, probed, located, verdicts>>
         /\ Remembered => SameAnswer /\ UNCHANGED <<commands, candidates, probed, located, verdicts>>
         /\ Looks => SameAnswer /\ UNCHANGED <<commands, seeking, located, verdicts>>
         /\ Finds => SameAnswer /\ UNCHANGED <<commands, seeking, verdicts>>
         /\ Concludes => SameAnswer /\ UNCHANGED <<candidates, probed>>
<1>1. Turns => UNCHANGED <<pathKnown, custom, lower, commands, candidates, probed, located, verdicts>>
  BY DEF Turns, Seek
<1>2. Remembered => UNCHANGED <<pathKnown, custom, lower, commands, candidates, probed, located, verdicts>>
  BY DEF Remembered
<1>3. Looks => Grows /\ UNCHANGED <<pathKnown, custom, lower, commands, seeking, located, verdicts>>
  BY DEF Looks, Searching
<1>4. Finds => Grows /\ UNCHANGED <<pathKnown, custom, lower, commands, seeking, verdicts>>
  BY DEF Finds, Locate
<1>5. Concludes => UNCHANGED <<pathKnown, custom, lower, candidates, probed>>
  BY DEF Concludes
<1>6. probed' = probed => Grows
  BY DEF Grows
<1> QED
  BY <1>1, <1>2, <1>3, <1>4, <1>5, <1>6 DEF SameAnswer

(* What is remembered of the search in hand is added, and nothing else changes. *)
LEMMA FoundIsAdded ==
  ASSUME LookupInv, Finds
  PROVE  \E r \in Results :
           /\ r.end = "found" => r.at \in AllPlaces
           /\ Right(Memo(seeking), r, located[Memo(Launching(Command))].at, PossibleLayers, probed')
           /\ seeking \in Tokens /\ r.end \in Conclusive => lower # None \/ Key \in DOMAIN custom.emulators
           /\ DOMAIN located' = DOMAIN located \union {Memo(seeking)}
           /\ located'[Memo(seeking)] = r
           /\ \A slot \in DOMAIN located : slot # Memo(seeking) => located'[slot] = located[slot]
           /\ \A slot \in DOMAIN located : seeking # "core" => slot # Memo(seeking)
           /\ step' = "located" /\ candidates' = <<>>
BY DEF Finds, Locate, With, Unfound

(* The types are kept. *)
LEMMA TypesStep ==
  ASSUME LookupInv, [LookupNext]_lookupVars
  PROVE  TypesInv'
<1>1. TypesInv
  BY DEF LookupInv
<1>2. CASE Prepares
  <2>1. /\ located' = <<>> /\ verdicts' = <<>> /\ probed' = <<>>
        /\ DOMAIN located' = {} /\ DOMAIN probed' = {} /\ Len(verdicts') = 0
    BY <1>2 DEF Prepares
  <2>2. verdicts' \in Seq(Verdicts)
    BY <2>1, EmptySeq
  <2>3. \A i \in 1 .. Len(verdicts') : FALSE
    BY <2>1
  <2> QED
    BY <1>1, <1>2, <2>1, <2>2, <2>3 DEF Prepares, TypesInv, Early
<1>3. CASE Turns
  <2>1. SameAnswer /\ UNCHANGED <<commands, candidates, probed, located, verdicts>>
    BY <1>3, FormsStay
  <2>2. step \in {"command", "located"} /\ step' = "seek" /\ seeking' \in Kinds
    BY <1>3 DEF Turns, Seek
  <2> QED
    BY <1>1, <2>1, <2>2, LayersStay DEF TypesInv, SameAnswer, InHand
<1>4. CASE Remembered
  <2>1. SameAnswer /\ UNCHANGED <<commands, candidates, probed, located, verdicts>>
    BY <1>4, FormsStay
  <2>2. step = "seek" /\ step' = "located" /\ seeking' = seeking
    BY <1>4 DEF Remembered
  <2> QED
    BY <1>1, <2>1, <2>2, LayersStay DEF TypesInv, SameAnswer, InHand
<1>5. CASE Looks
  <2>1. SameAnswer /\ UNCHANGED <<commands, seeking, located, verdicts>>
    BY <1>5, FormsStay
  <2>2. step \in {"seek", "search"} /\ step' = "search" /\ candidates' \in Seq(AllPlaces) /\ ProbesTyped
    BY <1>5 DEF Looks, Searching
  <2> QED
    BY <1>1, <2>1, <2>2, LayersStay DEF TypesInv, SameAnswer, InHand, ProbesTyped
<1>6. CASE Finds
  <2>1. SameAnswer /\ UNCHANGED <<commands, seeking, verdicts>>
    BY <1>6, FormsStay
  <2>2. /\ step \in {"seek", "search"} /\ step' = "located" /\ candidates' \in Seq(AllPlaces)
        /\ ProbesTyped
    BY <1>6, FoundIsAdded, EmptySeq DEF Finds
  <2>3. \A slot \in DOMAIN located' :
          located'[slot] \in Results /\ (located'[slot].end = "found" => located'[slot].at \in AllPlaces)
    BY <1>1, <1>6, FoundIsAdded DEF TypesInv
  <2> QED
    BY <1>1, <2>1, <2>2, <2>3, LayersStay DEF TypesInv, SameAnswer, InHand, ProbesTyped
<1>7. CASE Concludes
  <2>1. SameAnswer /\ UNCHANGED <<candidates, probed>>
    BY <1>7, FormsStay
  <2>2. PICK v \in Verdicts : Gives(v)
    BY <1>7 DEF Concludes
  <2>3. /\ step \in {"command", "located"} /\ commands' = Tail(commands) /\ seeking' = None
        /\ step' = IF Len(commands) = 1 THEN "answered" ELSE "command"
        /\ \A slot \in DOMAIN located' : slot \in DOMAIN located /\ located'[slot] = located[slot]
    BY <1>7 DEF Concludes
  <2>4. commands' \in Seq(Commands) /\ (step' # "answered" => commands' # <<>>)
    BY <1>1, <2>3, CommandIsTyped DEF TypesInv
  <2>5. /\ verdicts' \in Seq(Verdicts)
        /\ \A i \in 1 .. Len(verdicts') : verdicts'[i].says = "startable" <=> verdicts'[i].launcher # None
    <3>1. verdicts \in Seq(Verdicts) /\ verdicts' = Append(verdicts, v)
      BY <1>1, <2>2 DEF TypesInv, Gives
    <3>2. /\ verdicts' \in Seq(Verdicts) /\ Len(verdicts') = Len(verdicts) + 1 /\ Len(verdicts) \in Nat
          /\ verdicts'[Len(verdicts) + 1] = v
          /\ \A i \in 1 .. Len(verdicts) : verdicts'[i] = verdicts[i]
      BY <3>1
    <3> QED
      BY <1>1, <2>2, <3>2 DEF TypesInv, Gives
  <2>6. step' \in {"command", "answered"}
    BY <2>3
  <2> QED
    BY <1>1, <2>1, <2>3, <2>4, <2>5, <2>6, LayersStay DEF TypesInv, SameAnswer, InHand
<1>8. CASE UNCHANGED lookupVars
  BY <1>1, <1>8 DEF lookupVars, TypesInv, LayersTyped
<1> QED
  BY <1>2, <1>3, <1>4, <1>5, <1>6, <1>7, <1>8, StepsAre

(* An answer begins with nothing remembered. *)
LEMMA FreshStep ==
  ASSUME LookupInv, [LookupNext]_lookupVars
  PROVE  FreshInv'
<1>1. Prepares => FreshInv'
  BY DEF Prepares, FreshInv
<1>2. Turns => step' \notin Early
  BY DEF Turns, Seek, Early
<1>3. Looks => step' \notin Early
  BY DEF Looks, Searching, Early
<1>4. Finds => step' \notin Early
  BY DEF Finds, Locate, Early
<1>5. Concludes => step' \notin Early
  BY DEF Concludes, Early
<1>6. Remembered => step' \notin Early
  BY DEF Remembered, Early
<1>7. UNCHANGED lookupVars => FreshInv'
  BY DEF lookupVars, FreshInv, LookupInv
<1> QED
  BY <1>1, <1>2, <1>3, <1>4, <1>5, <1>6, <1>7, StepsAre DEF FreshInv

(* What may be sought stays so while what was found stays found. *)
LEMMA MaySeekStays ==
  ASSUME commands' = commands, NEW kind, MaySeek(kind),
         \A k \in {"precommand", "emulator", "program"} : IsFound(k) => IsFound(k)'
  PROVE  MaySeek(kind)'
<1>1. Launching(Command) \in {"precommand", "emulator", "program"}
  BY DEF Launching
<1>2. Command' = Command /\ Unsupported' = Unsupported /\ Launching(Command)' = Launching(Command)
  BY CommandStays
<1>3. IsFound(Launching(Command)) => IsFound(Launching(Command))'
  <2>1. CASE Launching(Command) = "emulator"
    BY <1>2, <2>1 DEF IsFound, Memo
  <2>2. CASE Launching(Command) = "program"
    BY <1>2, <2>2 DEF IsFound, Memo
  <2> QED
    BY <2>1, <2>2 DEF Launching
<1> QED
  BY <1>2, <1>3 DEF MaySeek

(* What is looked for is what may be. *)
LEMMA FlowStep ==
  ASSUME LookupInv, [LookupNext]_lookupVars
  PROVE  FlowInv'
<1>1. FlowInv
  BY DEF LookupInv
<1>2. CASE Prepares
  BY <1>2 DEF Prepares, FlowInv, InHand, Early
<1>3. CASE Turns
  <2>1. SameAnswer /\ UNCHANGED <<commands, candidates, probed, located, verdicts>>
    BY <1>3, FormsStay
  <2>2. PICK kind \in Kinds : step' = "seek" /\ seeking' = kind /\ MaySeek(kind)
    BY <1>3 DEF Turns, Seek
  <2>3. \A k \in {"precommand", "emulator", "program"} : IsFound(k) => IsFound(k)'
    BY <2>1, CommandStays DEF IsFound
  <2>4. MaySeek(kind)'
    BY <2>1, <2>2, <2>3, MaySeekStays
  <2> QED
    BY <2>2, <2>4 DEF FlowInv, MaySeek
<1>4. CASE Remembered
  <2>1. SameAnswer /\ UNCHANGED <<commands, candidates, probed, located, verdicts>>
    BY <1>4, FormsStay
  <2>2. /\ step \in InHand /\ step' = "located" /\ seeking' = seeking
        /\ Memo(seeking) \in DOMAIN located
    BY <1>4 DEF Remembered, InHand
  <2> QED
    BY <1>1, <2>1, <2>2 DEF FlowInv, MaySeek, IsFound, Memo, Command, Launching, Unsupported
<1>5. CASE Looks
  <2>1. SameAnswer /\ UNCHANGED <<commands, seeking, located, verdicts>>
    BY <1>5, FormsStay
  <2>2. step \in InHand /\ step' = "search"
    BY <1>5 DEF Looks, Searching, InHand
  <2> QED
    BY <1>1, <2>1, <2>2 DEF FlowInv, MaySeek, IsFound, Memo, Command, Launching, Unsupported
<1>6. CASE Finds
  <2>1. SameAnswer /\ UNCHANGED <<commands, seeking, verdicts>>
    BY <1>6, FormsStay
  <2>2. step \in InHand /\ step' = "located"
    BY <1>6 DEF Finds, Locate, InHand
  <2>3. /\ DOMAIN located' = DOMAIN located \union {Memo(seeking)}
        /\ \A slot \in DOMAIN located : slot # Memo(seeking) => located'[slot] = located[slot]
        /\ \A slot \in DOMAIN located : seeking # "core" => slot # Memo(seeking)
    BY <1>6, FoundIsAdded
  <2>4. ASSUME NEW k \in {"precommand", "emulator", "program"}, IsFound(k)
        PROVE  IsFound(k)'
    <3>1. Memo(k) \in DOMAIN located /\ Memo(k)' = Memo(k)
      BY <2>1, <2>4, CommandStays DEF IsFound
    <3>2. Memo(k) # Memo(seeking)
      BY <2>3, <3>1 DEF Memo
    <3> QED
      BY <2>3, <2>4, <3>1, <3>2 DEF IsFound
  <2> QED
    BY <1>1, <2>1, <2>2, <2>3, <2>4 DEF FlowInv, MaySeek, IsFound, Memo, Command, Launching, Unsupported
<1>7. CASE Concludes
  BY <1>7 DEF Concludes, FlowInv, InHand
<1>8. CASE UNCHANGED lookupVars
  BY <1>1, <1>8 DEF lookupVars, FlowInv, MaySeek, IsFound, Memo, Command, Launching, Unsupported
<1> QED
  BY <1>2, <1>3, <1>4, <1>5, <1>6, <1>7, <1>8, StepsAre

(* What is left of a search remains of the places sought. *)
LEMMA SearchStep ==
  ASSUME LookupInv, [LookupNext]_lookupVars
  PROVE  SearchInv'
<1>1. CASE Looks
  <2>1. SameAnswer /\ UNCHANGED <<commands, seeking, located, verdicts>>
    BY <1>1, FormsStay
  <2>2. Command' = Command /\ Launching(Command)' = Launching(Command) /\ Rules' = Rules
    BY <2>1, CommandStays, LayersStay
  <2>3. Key' = Key /\ Sought' = Sought
    BY <2>1, <2>2 DEF Key, Sought, Memo
  <2>4. Unfound' /\ RulesKnown'
    BY <1>1, <2>1, <2>2, <2>3 DEF Looks, Unfound, RulesKnown, SameAnswer, Memo
  <2>5. Remaining(candidates', Sought, probed')
    BY <1>1 DEF Looks, Searching
  <2> QED
    BY <2>3, <2>4, <2>5 DEF SearchInv
<1>2. CASE UNCHANGED lookupVars
  <2>1. UNCHANGED <<step, candidates, probed, commands, seeking, located, custom, lower>>
    BY <1>2 DEF lookupVars
  <2> QED
    BY <2>1 DEF LookupInv, SearchInv, Unfound, RulesKnown, Sought, Key, Memo, Rules, Command, Launching
<1>3. Prepares => step' # "search"
  BY DEF Prepares, Early
<1>4. Turns => step' # "search"
  BY DEF Turns, Seek
<1>5. Finds => step' # "search"
  BY DEF Finds, Locate
<1>6. Concludes => step' # "search"
  BY DEF Concludes
<1>7. Remembered => step' # "search"
  BY DEF Remembered
<1> QED
  BY <1>1, <1>2, <1>3, <1>4, <1>5, <1>6, <1>7, StepsAre DEF SearchInv

(* What is remembered apart from a core stays right whatever is in hand. *)
LEMMA RememberedStays ==
  ASSUME LookupInv, SameAnswer, NEW slot \in DOMAIN located, slot[1] # "core", NEW emulator
  PROVE  /\ Right(slot, located[slot], emulator, PossibleLayers', probed')
         /\ slot[1] = "token" /\ located[slot].end \in Conclusive =>
              lower' # None \/ slot[2] \in DOMAIN custom'.emulators
<1>1. /\ Right(slot, located[slot], located[Memo(Launching(Command))].at, PossibleLayers, probed)
      /\ slot[1] = "token" /\ located[slot].end \in Conclusive =>
           lower # None \/ slot[2] \in DOMAIN custom.emulators
  BY DEF LookupInv, LocatedInv
<1>2. Right(slot, located[slot], emulator, PossibleLayers, probed)
  BY <1>1 DEF Right
<1>3. Right(slot, located[slot], emulator, PossibleLayers, probed')
  BY <1>2, RightStays DEF SameAnswer, Grows
<1> QED
  BY <1>1, <1>3, LayersStay DEF SameAnswer

(* No core is remembered before it was looked for. *)
LEMMA NoCoreBefore ==
  ASSUME LookupInv, ~ (step = "located" /\ seeking = "core"), NEW slot \in DOMAIN located
  PROVE  slot[1] # "core"
BY DEF LookupInv, LocatedInv

(* What is remembered is kept right. *)
LEMMA LocatedStep ==
  ASSUME LookupInv, [LookupNext]_lookupVars
  PROVE  LocatedInv'
<1>1. CASE Prepares
  <2>1. DOMAIN located' = {}
    BY <1>1 DEF Prepares
  <2> QED
    BY <2>1 DEF LocatedInv
<1>2. ASSUME SameAnswer,
             \A slot \in DOMAIN located' :
               slot \in DOMAIN located /\ located'[slot] = located[slot] /\ slot[1] # "core"
      PROVE  LocatedInv'
  BY <1>2, RememberedStays DEF LocatedInv
<1>3. CASE Turns
  BY <1>2, <1>3, FormsStay, NoCoreBefore DEF Turns
<1>4. CASE Remembered
  BY <1>2, <1>4, FormsStay, NoCoreBefore DEF Remembered
<1>5. CASE Looks
  BY <1>2, <1>5, FormsStay, NoCoreBefore DEF Looks
<1>6. CASE Concludes
  BY <1>2, <1>6, FormsStay DEF Concludes
<1>7. CASE Finds
  <2>1. SameAnswer /\ UNCHANGED <<commands, seeking, verdicts>> /\ step \in {"seek", "search"}
    BY <1>7, FormsStay DEF Finds
  <2>2. PICK r \in Results :
          /\ Right(Memo(seeking), r, located[Memo(Launching(Command))].at, PossibleLayers, probed')
          /\ seeking \in Tokens /\ r.end \in Conclusive => lower # None \/ Key \in DOMAIN custom.emulators
          /\ DOMAIN located' = DOMAIN located \union {Memo(seeking)}
          /\ located'[Memo(seeking)] = r
          /\ \A slot \in DOMAIN located : slot # Memo(seeking) => located'[slot] = located[slot]
          /\ step' = "located"
    BY <1>7, FoundIsAdded
  <2> DEFINE emulator == located'[Memo(Launching(Command))'].at
  <2>3. ASSUME NEW slot \in DOMAIN located', slot # Memo(seeking)
        PROVE  /\ Right(slot, located'[slot], emulator, PossibleLayers', probed')
               /\ slot[1] = "token" /\ located'[slot].end \in Conclusive =>
                    lower' # None \/ slot[2] \in DOMAIN custom'.emulators
               /\ slot[1] # "core"
    <3>1. slot \in DOMAIN located /\ slot[1] # "core" /\ located'[slot] = located[slot]
      BY <2>1, <2>2, <2>3, NoCoreBefore
    <3> HIDE DEF emulator
    <3> QED
      BY <2>1, <3>1, RememberedStays
  <2>4. /\ Right(Memo(seeking), r, emulator, PossibleLayers', probed')
        /\ Memo(seeking)[1] = "token" /\ r.end \in Conclusive =>
             lower' # None \/ Memo(seeking)[2] \in DOMAIN custom'.emulators
        /\ Memo(seeking)[1] = "core" => seeking = "core"
    <3>1. Launching(Command)' = Launching(Command) /\ Memo(Launching(Command))' = Memo(Launching(Command))
      BY <2>1, CommandStays DEF Memo
    <3>2. Memo(seeking)[1] # "core" \/ emulator = located[Memo(Launching(Command))].at
      <4>1. CASE seeking = "core"
        <5>1. Memo(Launching(Command)) \in DOMAIN located
          BY <2>1, <4>1, InHandIsTyped DEF MaySeek, IsFound
        <5>2. Memo(Launching(Command)) # Memo(seeking)
          BY <4>1 DEF Memo, Launching
        <5> QED
          BY <2>2, <3>1, <5>1, <5>2
      <4>2. CASE seeking # "core"
        BY <2>1, <4>2, InHandIsTyped DEF Tokens, Kinds
      <4> QED
        BY <4>1, <4>2
    <3> HIDE DEF emulator
    <3>3. Right(Memo(seeking), r, emulator, PossibleLayers, probed')
      BY <2>2, <3>2 DEF Right
    <3>4. /\ Memo(seeking)[1] = "token" => seeking \in Tokens /\ Memo(seeking)[2] = Key
          /\ Memo(seeking)[1] = "core" => seeking = "core"
      BY <2>1, InHandIsTyped DEF Tokens, Kinds
    <3> QED
      BY <2>1, <2>2, <3>3, <3>4, LayersStay DEF SameAnswer
  <2>5. Memo(seeking) = Memo(seeking)' /\ (seeking = "core" => Memo(seeking) = Memo("core")')
    BY <2>1, CommandStays DEF Memo
  <2> QED
    BY <2>1, <2>2, <2>3, <2>4, <2>5 DEF LocatedInv
<1>8. CASE UNCHANGED lookupVars
  <2>1. UNCHANGED <<step, probed, commands, seeking, located, custom, lower>>
    BY <1>8 DEF lookupVars
  <2> QED
    BY <2>1 DEF LookupInv, LocatedInv, Memo, Command, Launching, PossibleLayers
<1> QED
  BY <1>1, <1>3, <1>4, <1>5, <1>6, <1>7, <1>8, StepsAre

(* What was answered stays right of every machine that still agrees. *)
LEMMA VerdictsStep ==
  ASSUME LookupInv, [LookupNext]_lookupVars
  PROVE  VerdictsInv'
<1>1. ASSUME SameAnswer, NEW v, NEW environments, Holds(v, environments, PossibleLayers, probed)
      PROVE  Holds(v, environments, PossibleLayers', probed')
  <2>1. Holds(v, environments, PossibleLayers, probed')
    BY <1>1, HoldsStays DEF SameAnswer, Grows
  <2> QED
    BY <1>1, <2>1, LayersStay
<1>2. CASE Prepares
  <2>1. Len(verdicts') = 0
    BY <1>2 DEF Prepares
  <2> QED
    BY <2>1 DEF VerdictsInv
<1>3. CASE Turns \/ Remembered \/ Looks \/ Finds
  <2>1. SameAnswer /\ UNCHANGED <<pathKnown, verdicts>>
    BY <1>3, FormsStay DEF SameAnswer
  <2> QED
    BY <1>1, <2>1 DEF VerdictsInv, LookupInv
<1>4. CASE Concludes
  <2>1. SameAnswer /\ pathKnown' = pathKnown
    BY <1>4, FormsStay DEF SameAnswer
  <2>2. PICK v \in Verdicts : Gives(v)
    BY <1>4 DEF Concludes
  <2>3. verdicts \in Seq(Verdicts) /\ verdicts' = Append(verdicts, v)
    BY <2>2 DEF Gives, LookupInv, TypesInv
  <2>4. /\ Len(verdicts') = Len(verdicts) + 1 /\ Len(verdicts) \in Nat
        /\ verdicts'[Len(verdicts) + 1] = v
        /\ \A i \in 1 .. Len(verdicts) : verdicts'[i] = verdicts[i]
    BY <2>3
  <2>5. ASSUME NEW i \in 1 .. Len(verdicts')
        PROVE  /\ Holds(verdicts'[i], {Assumed}, PossibleLayers, probed)
               /\ ~pathKnown /\ ~verdicts'[i].assumed =>
                    Holds(verdicts'[i], Environments, PossibleLayers, probed)
    <3>1. CASE i \in 1 .. Len(verdicts)
      BY <2>4, <3>1 DEF LookupInv, VerdictsInv
    <3>2. CASE i = Len(verdicts) + 1
      BY <2>2, <2>4, <3>2 DEF Gives
    <3> QED
      BY <2>4, <3>1, <3>2
  <2> QED
    BY <1>1, <2>1, <2>5 DEF VerdictsInv
<1>5. CASE UNCHANGED lookupVars
  BY <1>5 DEF lookupVars, LookupInv, VerdictsInv, PossibleLayers
<1> QED
  BY <1>2, <1>3, <1>4, <1>5, StepsAre
-----------------------------------------------------------------------------
(* The lookup starts so. *)
LEMMA LookupStarts == LookupInit => LookupInv
<1> SUFFICES ASSUME LookupInit PROVE LookupInv
  OBVIOUS
<1> USE DEF LookupInit
<1>1. DOMAIN located = {} /\ DOMAIN probed = {} /\ Len(verdicts) = 0
  OBVIOUS
<1>2. commands \in Seq(Commands) /\ candidates \in Seq(AllPlaces) /\ verdicts \in Seq(Verdicts)
  BY EmptySeq
<1>3. TypesInv
  BY <1>1, <1>2 DEF TypesInv, LayersTyped, Early
<1>4. FreshInv /\ FlowInv /\ SearchInv /\ LocatedInv /\ VerdictsInv
  BY <1>1 DEF FreshInv, FlowInv, InHand, SearchInv, LocatedInv, VerdictsInv
<1> QED
  BY <1>3, <1>4 DEF LookupInv

(* The inductive invariant: the search in hand has missed every place before  *)
(* what is left of it, and what was found and answered is what ES-DE does.    *)
THEOREM LookupAlways == LookupSpec => []LookupInv
<1>1. LookupInv /\ [LookupNext]_lookupVars => LookupInv'
  BY TypesStep, FreshStep, FlowStep, SearchStep, LocatedStep, VerdictsStep DEF LookupInv
<1> QED
  BY LookupStarts, <1>1, PTL DEF LookupSpec

(* The type invariant of the lookup: a verdict names a launcher exactly where *)
(* it says the entry can be started.                                         *)
THEOREM LookupTypes == LookupSpec => []LookupTypeOK
<1>1. ASSUME LookupInv PROVE LookupTypeOK
  <2> USE <1>1 DEF LookupInv, TypesInv
  <2>1. \A i \in DOMAIN verdicts :
          /\ verdicts[i] \in Verdicts
          /\ verdicts[i].says = "startable" <=> verdicts[i].launcher # None
    OBVIOUS
  <2>2. \A i \in DOMAIN verdicts :
          /\ verdicts[i].says \in {"startable", "not-installed", "unestablished"}
          /\ verdicts[i].says = "startable" <=> verdicts[i].launcher # None
    BY <2>1 DEF Verdicts
  <2>3. \A k \in DOMAIN located : located[k].end \in Ends
    BY DEF Results
  <2> QED
    BY <2>2, <2>3 DEF LayersTyped, LookupTypeOK, Ends, Early, InHand
<1> QED
  BY <1>1, LookupAlways, PTL

(* The files an answer leaves possible agree with every probe. *)
LEMMA PossibleFilesAgree ==
  ASSUME NEW places, NEW files \in PossibleFiles(places)
  PROVE  Agrees(probed, files)
BY DEF PossibleFiles, Agrees

(* So what holds of every machine that agrees holds of those left possible. *)
LEMMA HoldsWhereverPossible ==
  ASSUME NEW v, NEW environments, Holds(v, environments, PossibleLayers, probed), Definite(v)
  PROVE  HoldsIn(environments, v)
BY PossibleFilesAgree DEF Holds, HoldsIn

(* A definite verdict is what ES-DE does on every machine that agrees with    *)
(* what was seen: it starts that launcher and core, or refuses (launch.py).   *)
THEOREM VerdictsAreTheFrontends == LookupSpec => []VerdictIsTheFrontends
<1>1. ASSUME LookupInv, NEW i \in DOMAIN verdicts, Definite(verdicts[i])
      PROVE  HoldsIn({Assumed}, verdicts[i])
  <2>1. i \in 1 .. Len(verdicts)
    BY <1>1 DEF LookupInv, TypesInv
  <2>2. Holds(verdicts[i], {Assumed}, PossibleLayers, probed)
    BY <1>1, <2>1 DEF LookupInv, VerdictsInv
  <2> QED
    BY <1>1, <2>2, HoldsWhereverPossible
<1>2. LookupInv => VerdictIsTheFrontends
  BY <1>1 DEF VerdictIsTheFrontends
<1> QED
  BY <1>2, LookupAlways, PTL

(* A definite verdict that notes no assumption holds in every environment the *)
(* frontend may have been started in (LaunchLookup._command_notes).           *)
THEOREM AssumptionsNoted == LookupSpec => []AssumptionsAreNoted
<1>1. LookupInv => AssumptionsAreNoted
  BY HoldsWhereverPossible DEF LookupInv, TypesInv, VerdictsInv, AssumptionsAreNoted
<1> QED
  BY <1>1, LookupAlways, PTL
=============================================================================
