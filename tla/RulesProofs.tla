---------------------------- MODULE RulesProofs -----------------------------
(***************************************************************************)
(* Lemmas that the proofs about the provenance graph and the callback      *)
(* share: induction over the naturals as a fact about sets, sequences, the *)
(* walk of ancestors() and the sort of explain() over a causal graph, and  *)
(* sums.                                                                   *)
(***************************************************************************)
EXTENDS ProvenanceRules, WellFoundedInduction, SequenceTheorems,
        FiniteSetTheorems, TLAPS

-----------------------------------------------------------------------------
(* Induction.  The library states it for an operator; here a set takes the *)
(* operator's place, which the provers can instantiate.                    *)

Less == {pair \in Nat \X Nat : pair[1] < pair[2]}

\* Every non-empty set of naturals has a smallest member.
LEMMA Smallest ==
    ASSUME NEW T, T \subseteq Nat, T # {}
    PROVE  \E n \in T : \A m \in T : n <= m
<1>1. IsWellFoundedOn(Less, Nat)
  BY NatLessThanWellFounded DEF OpToRel, Less
<1>2. PICK n \in T : \A m \in T : <<m, n>> \notin Less
  BY <1>1, WFMin
<1>3. ASSUME NEW m \in T PROVE n <= m
  <2>1. m \in Nat /\ n \in Nat
    OBVIOUS
  <2>2. ~ (<<m, n>> \in Less)
    BY <1>2
  <2>3. ~ (m < n)
    BY <2>1, <2>2 DEF Less
  <2> QED BY <2>1, <2>3
<1> QED BY <1>2, <1>3

\* A set that holds 0 and the successor of each of its members holds them all.
LEMMA Induction ==
    ASSUME NEW S, 0 \in S, \A n \in Nat : n \in S => n + 1 \in S
    PROVE  Nat \subseteq S
<1> SUFFICES ASSUME Nat \ S # {} PROVE FALSE
  OBVIOUS
<1>1. PICK n \in Nat \ S : \A m \in Nat \ S : n <= m
  BY Smallest
<1>2. n - 1 \in Nat /\ n - 1 \in S
  BY <1>1
<1> QED BY <1>1, <1>2

-----------------------------------------------------------------------------
(* Sequences *)

Sequence(s) == \E S : s \in Seq(S)

\* What Append does, member by member.
LEMMA Appended ==
    ASSUME NEW s, Sequence(s), NEW e
    PROVE  /\ Sequence(Append(s, e))
           /\ Len(s) \in Nat /\ Len(Append(s, e)) = Len(s) + 1
           /\ DOMAIN s = 1..Len(s)
           /\ DOMAIN Append(s, e) = 1..(Len(s) + 1)
           /\ \A i \in 1..Len(s) : Append(s, e)[i] = s[i]
           /\ Append(s, e)[Len(s) + 1] = e
<1>1. PICK S : s \in Seq(S)
  BY DEF Sequence
<1>2. s \in Seq(S \cup {e}) /\ e \in S \cup {e}
  BY <1>1
<1>3. Append(s, e) \in Seq(S \cup {e})
  BY <1>2
<1> QED BY <1>1, <1>2, <1>3 DEF Sequence

\* What replacing one member does to the others.
LEMMA Replaced ==
    ASSUME NEW s, Sequence(s), NEW i \in DOMAIN s, NEW e
    PROVE  /\ Sequence([s EXCEPT ![i] = e])
           /\ Len([s EXCEPT ![i] = e]) = Len(s)
           /\ DOMAIN [s EXCEPT ![i] = e] = DOMAIN s
           /\ [s EXCEPT ![i] = e][i] = e
           /\ \A j \in DOMAIN s : j # i => [s EXCEPT ![i] = e][j] = s[j]
<1>1. PICK S : s \in Seq(S)
  BY DEF Sequence
<1>2. s \in Seq(S \cup {e}) /\ e \in S \cup {e}
  BY <1>1
<1>3. /\ [s EXCEPT ![i] = e] \in Seq(S \cup {e})
      /\ Len([s EXCEPT ![i] = e]) = Len(s)
  BY <1>2, ExceptSeq
<1> QED BY <1>2, <1>3 DEF Sequence

\* Taking the last member off.
LEMMA Popped ==
    ASSUME NEW S, NEW s \in Seq(S), s # <<>>
    PROVE  /\ Front(s) \in Seq(S) /\ Last(s) \in S
           /\ Len(s) \in Nat \ {0} /\ Len(Front(s)) = Len(s) - 1
           /\ \A i \in 1..(Len(s) - 1) : Front(s)[i] = s[i]
           /\ ToSet(s) = ToSet(Front(s)) \cup {Last(s)}
<1>1. Len(s) \in Nat \ {0} /\ DOMAIN s = 1..Len(s)
  OBVIOUS
<1>2. /\ Front(s) \in Seq(S)
      /\ Len(Front(s)) = Len(s) - 1
      /\ \A i \in 1..(Len(s) - 1) : Front(s)[i] = s[i]
  <2>1. \A i \in 1..(Len(s) - 1) : s[i] \in S
    BY <1>1
  <2>2. /\ SubSeq(s, 1, Len(s) - 1) \in Seq(S)
        /\ Len(SubSeq(s, 1, Len(s) - 1)) =
             IF 1 <= Len(s) - 1 THEN (Len(s) - 1) - 1 + 1 ELSE 0
        /\ \A i \in 1..((Len(s) - 1) - 1 + 1) :
             SubSeq(s, 1, Len(s) - 1)[i] = s[1 + i - 1]
    BY <1>1, <2>1, SubSeqProperties
  <2> QED BY <1>1, <2>2 DEF Front
<1>3. Last(s) = s[Len(s)] /\ Last(s) \in S
  BY <1>1 DEF Last
<1>4. DOMAIN Front(s) = 1..(Len(s) - 1)
  BY <1>1, <1>2
<1>5. ToSet(s) = ToSet(Front(s)) \cup {Last(s)}
  <2>1. ASSUME NEW i \in 1..Len(s)
        PROVE  s[i] \in ToSet(Front(s)) \cup {Last(s)}
    <3>1. CASE i = Len(s)
      BY <1>3, <3>1
    <3>2. CASE i \in 1..(Len(s) - 1)
      BY <1>2, <1>4, <3>2 DEF ToSet
    <3>3. \A n \in Nat : \A k \in 1..n : k = n \/ k \in 1..(n - 1)
      OBVIOUS
    <3> QED BY <1>1, <3>1, <3>2, <3>3
  <2>2. ToSet(Front(s)) \subseteq ToSet(s)
    BY <1>1, <1>2, <1>4 DEF ToSet
  <2>3. Last(s) \in ToSet(s)
    BY <1>1, <1>3 DEF ToSet
  <2>4. ToSet(s) \subseteq ToSet(Front(s)) \cup {Last(s)}
    BY <1>1, <2>1 DEF ToSet
  <2> QED BY <2>2, <2>3, <2>4
<1> QED BY <1>1, <1>2, <1>3, <1>5

-----------------------------------------------------------------------------
(* Causal graphs *)

\* What append guarantees of a graph: no id twice, and parents, each named as
\* often as one likes, before their children.
Causal(graph) ==
    /\ Sequence(graph)
    /\ \A i, j \in DOMAIN graph : graph[i].id = graph[j].id => i = j
    /\ \A i \in DOMAIN graph :
         /\ Sequence(graph[i].parents)
         /\ ToSet(graph[i].parents) \subseteq {graph[j].id : j \in 1..(i - 1)}

ParentList(graph, id) == EventOf(graph, id).parents

\* The place of an event in the graph.
PlaceOf(graph, id) == CHOOSE i \in DOMAIN graph : graph[i].id = id

LEMMA Located ==
    ASSUME NEW graph, NEW id \in Ids(graph)
    PROVE  /\ PlaceOf(graph, id) \in DOMAIN graph
           /\ graph[PlaceOf(graph, id)].id = id
           /\ EventOf(graph, id) = graph[PlaceOf(graph, id)]
BY DEF Ids, PlaceOf, EventOf

\* The parents of an event are a sequence of earlier events.
LEMMA ParentsAreEarlier ==
    ASSUME NEW graph, Causal(graph), NEW id \in Ids(graph)
    PROVE  /\ ParentList(graph, id) \in Seq(Ids(graph))
           /\ \A p \in ToSet(ParentList(graph, id)) :
                p \in Ids(graph) /\ PlaceOf(graph, p) < PlaceOf(graph, id)
<1> DEFINE i == PlaceOf(graph, id)
           list == ParentList(graph, id)
<1>1. i \in DOMAIN graph /\ list = graph[i].parents
  BY Located DEF ParentList
<1>2. DOMAIN graph = 1..Len(graph) /\ Len(graph) \in Nat
  BY DEF Causal, Sequence
<1>3. /\ Sequence(list)
      /\ ToSet(list) \subseteq {graph[j].id : j \in 1..(i - 1)}
  BY <1>1 DEF Causal
<1> HIDE DEF i, list
<1>4. ASSUME NEW p \in ToSet(list)
      PROVE  p \in Ids(graph) /\ PlaceOf(graph, p) < i
  <2>1. PICK j \in 1..(i - 1) : graph[j].id = p
    BY <1>3
  <2>2. j \in DOMAIN graph /\ j < i
    BY <1>1, <1>2
  <2>3. p \in Ids(graph)
    BY <2>1, <2>2 DEF Ids
  <2>4. PlaceOf(graph, p) = j
    BY <2>1, <2>2, <2>3, Located DEF Causal
  <2> QED BY <2>2, <2>3, <2>4
<1>5. list \in Seq(Ids(graph))
  <2>1. PICK S : list \in Seq(S)
    BY <1>3 DEF Sequence
  <2>2. \A k \in 1..Len(list) : list[k] \in Ids(graph)
    BY <1>4, <2>1 DEF ToSet
  <2> QED BY <2>1, <2>2
<1> QED BY <1>3, <1>4, <1>5 DEF i, list

-----------------------------------------------------------------------------
(* The walk of ancestors(), turn by turn *)

Closed(graph, ids) ==
    \A id \in ids : ToSet(ParentList(graph, id)) \subseteq ids

\* What has been visited, with what is still on the stack, is what an ancestor
\* of the root has to be, and lacks no parent of what has been visited.
Explores(graph, root, walk) ==
    /\ walk = [stack |-> walk.stack, visited |-> walk.visited]
    /\ walk.stack \in Seq(Ids(graph)) /\ walk.visited \in Seq(Ids(graph))
    /\ IsInjective(walk.visited)
    /\ \A id \in ToSet(walk.visited) \cup {root} :
         ToSet(ParentList(graph, id))
           \subseteq ToSet(walk.visited) \cup ToSet(walk.stack)
    /\ \A ids \in SUBSET Ids(graph) :
         ToSet(ParentList(graph, root)) \subseteq ids /\ Closed(graph, ids)
         => ToSet(walk.visited) \cup ToSet(walk.stack) \subseteq ids

\* Each turn takes one mention of a parent off the stack for good: those taken
\* in n turns are n, and those on the stack are others.
Spends(graph, root, walk, n) ==
    \E spent \in SUBSET Mentioned(graph),
       mention \in [DOMAIN walk.stack -> Mentioned(graph)] :
      /\ IsFiniteSet(spent) /\ Cardinality(spent) = n
      /\ \A m \in spent : m[1] \in ToSet(walk.visited) \cup {root}
      /\ \A k \in DOMAIN walk.stack :
           /\ mention[k] \notin spent
           /\ mention[k][1] \in ToSet(walk.visited) \cup {root}
           /\ \A l \in DOMAIN walk.stack : mention[k] = mention[l] => k = l

\* The mentions of a graph are finitely many, and those of one event are its
\* id with the places in its list of parents.
LEMMA MentionsAreFinite ==
    ASSUME NEW graph, Causal(graph)
    PROVE  /\ IsFiniteSet(Mentioned(graph)) /\ MaxTurns(graph) \in Nat
           /\ \A id \in Ids(graph) : \A k \in DOMAIN ParentList(graph, id) :
                <<id, k>> \in Mentioned(graph)
<1> DEFINE Of(i) == {graph[i].id} \X DOMAIN graph[i].parents
           all == {Of(i) : i \in DOMAIN graph}
<1>1. IsFiniteSet(DOMAIN graph)
  <2>1. DOMAIN graph = 1..Len(graph) /\ Len(graph) \in Nat
    BY DEF Causal, Sequence
  <2> QED BY <2>1, FS_Interval
<1>2. ASSUME NEW i \in DOMAIN graph
      PROVE  IsFiniteSet(Of(i))
  <2>1. DOMAIN graph[i].parents = 1..Len(graph[i].parents) /\ Len(graph[i].parents) \in Nat
    BY DEF Causal, Sequence
  <2>2. IsFiniteSet(DOMAIN graph[i].parents)
    BY <2>1, FS_Interval
  <2>3. IsFiniteSet({graph[i].id})
    BY FS_Singleton
  <2> QED BY <2>2, <2>3, FS_Product
<1> HIDE DEF Of
<1>3. IsFiniteSet(all)
  <2> DEFINE f == [i \in DOMAIN graph |-> Of(i)]
  <2>1. f \in Surjection(DOMAIN graph, all)
    BY DEF Surjection
  <2> QED BY <1>1, <2>1, FS_Surjection
<1>4. \A T \in all : IsFiniteSet(T)
  BY <1>2
<1>5. Mentioned(graph) = UNION all
  BY DEF Mentioned, Of
<1> HIDE DEF all
<1>6. IsFiniteSet(Mentioned(graph))
  BY <1>3, <1>4, <1>5, FS_UNION
<1>7. ASSUME NEW id \in Ids(graph), NEW k \in DOMAIN ParentList(graph, id)
      PROVE  <<id, k>> \in Mentioned(graph)
  <2>1. PlaceOf(graph, id) \in DOMAIN graph /\ graph[PlaceOf(graph, id)].id = id
    BY Located
  <2>2. ParentList(graph, id) = graph[PlaceOf(graph, id)].parents
    BY Located DEF ParentList
  <2> QED BY <2>1, <2>2 DEF Mentioned
<1> QED BY <1>6, <1>7, FS_CardinalityType DEF MaxTurns

\* One turn, in its two cases.
LEMMA TurnCases ==
    ASSUME NEW graph, NEW root, NEW walk, Explores(graph, root, walk),
           walk.stack # <<>>
    PROVE  LET id == Last(walk.stack)
           IN  /\ id \in Ids(graph)
               /\ id \in ToSet(walk.visited) =>
                    Visit(graph, walk) =
                      [stack |-> Front(walk.stack), visited |-> walk.visited]
               /\ id \notin ToSet(walk.visited) =>
                    Visit(graph, walk) =
                      [stack |-> Front(walk.stack) \o ParentList(graph, id),
                       visited |-> Append(walk.visited, id)]
<1> DEFINE id == Last(walk.stack)
           Done == Front(walk.stack)
<1>1. id \in Ids(graph)
  BY Popped DEF Explores
<1>2. Contains(walk.visited, id) <=> id \in ToSet(walk.visited)
  BY DEF Explores, Contains, ToSet
<1>3. [walk EXCEPT !.stack = Done] = [stack |-> Done, visited |-> walk.visited]
  BY DEF Explores
<1> QED BY <1>1, <1>2, <1>3 DEF Visit, ParentList

\* Concatenation, member by member.
LEMMA Joined ==
    ASSUME NEW S, NEW s \in Seq(S), NEW t \in Seq(S)
    PROVE  /\ s \o t \in Seq(S) /\ Len(s \o t) = Len(s) + Len(t)
           /\ \A i \in 1..Len(s) : (s \o t)[i] = s[i]
           /\ \A i \in 1..Len(t) : (s \o t)[Len(s) + i] = t[i]
           /\ ToSet(s \o t) = ToSet(s) \cup ToSet(t)
<1>1. /\ Len(s) \in Nat /\ DOMAIN s = 1..Len(s)
      /\ Len(t) \in Nat /\ DOMAIN t = 1..Len(t)
  OBVIOUS
<1>2. /\ s \o t \in Seq(S) /\ Len(s \o t) = Len(s) + Len(t)
      /\ \A i \in 1..(Len(s) + Len(t)) :
           (s \o t)[i] = IF i <= Len(s) THEN s[i] ELSE t[i - Len(s)]
  BY ConcatProperties
<1>3. DOMAIN (s \o t) = 1..(Len(s) + Len(t))
  BY <1>2
<1>4. /\ \A i \in 1..Len(s) : (s \o t)[i] = s[i]
      /\ \A i \in 1..Len(t) : (s \o t)[Len(s) + i] = t[i]
  BY <1>1, <1>2
<1>5. ASSUME NEW i \in DOMAIN (s \o t)
      PROVE  (s \o t)[i] \in ToSet(s) \cup ToSet(t)
  <2>1. CASE i <= Len(s)
    BY <1>1, <1>3, <1>4, <2>1 DEF ToSet
  <2>2. CASE i > Len(s)
    <3>1. i - Len(s) \in 1..Len(t)
      BY <1>1, <1>3, <2>2
    <3>2. (s \o t)[i] = t[i - Len(s)]
      BY <1>1, <1>2, <1>3, <2>2
    <3> QED BY <1>1, <3>1, <3>2 DEF ToSet
  <2> QED BY <1>1, <1>3, <2>1, <2>2
<1>6. ToSet(s) \subseteq ToSet(s \o t)
  BY <1>1, <1>3, <1>4 DEF ToSet
<1>7. ASSUME NEW i \in 1..Len(t)
      PROVE  t[i] \in ToSet(s \o t)
  <2>1. Len(s) + i \in DOMAIN (s \o t)
    BY <1>1, <1>3
  <2> QED BY <1>4, <2>1 DEF ToSet
<1>8. ToSet(t) \subseteq ToSet(s \o t)
  BY <1>1, <1>7 DEF ToSet
<1>9. ToSet(s \o t) \subseteq ToSet(s) \cup ToSet(t)
  BY <1>5 DEF ToSet
<1> QED BY <1>2, <1>4, <1>6, <1>8, <1>9

LEMMA AppendedSet ==
    ASSUME NEW S, NEW s \in Seq(S), NEW e \in S
    PROVE  /\ Append(s, e) \in Seq(S)
           /\ ToSet(Append(s, e)) = ToSet(s) \cup {e}
           /\ IsInjective(s) /\ e \notin ToSet(s) => IsInjective(Append(s, e))
<1>1. Sequence(s) /\ Append(s, e) \in Seq(S)
  BY DEF Sequence
<1>2. /\ Len(s) \in Nat /\ DOMAIN s = 1..Len(s)
      /\ DOMAIN Append(s, e) = 1..(Len(s) + 1)
      /\ \A i \in 1..Len(s) : Append(s, e)[i] = s[i]
      /\ Append(s, e)[Len(s) + 1] = e
  BY <1>1, Appended
<1>3. DOMAIN Append(s, e) = DOMAIN s \cup {Len(s) + 1}
  BY <1>2
<1>4. \A i \in DOMAIN s : Append(s, e)[i] = s[i]
  BY <1>2
<1>5. ToSet(Append(s, e)) = ToSet(s) \cup {e}
  BY <1>2, <1>3, <1>4 DEF ToSet
<1>6. IsInjective(s) /\ e \notin ToSet(s) => IsInjective(Append(s, e))
  BY <1>2, <1>3, <1>4 DEF IsInjective, ToSet
<1> QED BY <1>1, <1>5, <1>6

\* A turn goes on exploring.
LEMMA TurnExplores ==
    ASSUME NEW graph, Causal(graph), NEW root \in Ids(graph), NEW walk,
           Explores(graph, root, walk), walk.stack # <<>>
    PROVE  Explores(graph, root, Visit(graph, walk))
<1> DEFINE id == Last(walk.stack)
           rest == Front(walk.stack)
           list == ParentList(graph, id)
           next == Visit(graph, walk)
<1>1. /\ walk.stack \in Seq(Ids(graph)) /\ walk.visited \in Seq(Ids(graph))
      /\ IsInjective(walk.visited)
      /\ \A v \in ToSet(walk.visited) \cup {root} :
           ToSet(ParentList(graph, v))
             \subseteq ToSet(walk.visited) \cup ToSet(walk.stack)
      /\ \A ids \in SUBSET Ids(graph) :
           ToSet(ParentList(graph, root)) \subseteq ids /\ Closed(graph, ids)
           => ToSet(walk.visited) \cup ToSet(walk.stack) \subseteq ids
  BY DEF Explores
<1>2. /\ rest \in Seq(Ids(graph)) /\ id \in Ids(graph)
      /\ ToSet(walk.stack) = ToSet(rest) \cup {id}
  BY <1>1, Popped
<1>3. list \in Seq(Ids(graph))
  BY <1>2, ParentsAreEarlier
<1>4. CASE id \in ToSet(walk.visited)
  <2>1. next = [stack |-> rest, visited |-> walk.visited]
    BY <1>4, TurnCases
  <2> HIDE DEF next, rest, id, list
  <2>2. next.stack = rest /\ next.visited = walk.visited
    BY <2>1
  <2>3. ToSet(next.visited) \cup ToSet(next.stack) =
          ToSet(walk.visited) \cup ToSet(walk.stack)
    BY <1>2, <1>4, <2>2
  <2>4. Explores(graph, root, next)
    BY <1>1, <1>2, <2>1, <2>2, <2>3 DEF Explores
  <2> QED BY <2>4 DEF next
<1>5. CASE id \notin ToSet(walk.visited)
  <2>1. next = [stack |-> rest \o list, visited |-> Append(walk.visited, id)]
    BY <1>5, TurnCases
  <2> HIDE DEF next, rest, id
  <2>2. /\ next.stack = rest \o list /\ next.stack \in Seq(Ids(graph))
        /\ ToSet(next.stack) = ToSet(rest) \cup ToSet(list)
    BY <1>2, <1>3, <2>1, Joined
  <2>3. /\ next.visited = Append(walk.visited, id)
        /\ next.visited \in Seq(Ids(graph))
        /\ ToSet(next.visited) = ToSet(walk.visited) \cup {id}
        /\ IsInjective(next.visited)
    BY <1>1, <1>2, <1>5, <2>1, AppendedSet
  <2>4. ToSet(next.visited) \cup ToSet(next.stack) =
          ToSet(walk.visited) \cup ToSet(walk.stack) \cup ToSet(list)
    BY <1>2, <2>2, <2>3
  <2>5. ASSUME NEW v \in ToSet(next.visited) \cup {root}
        PROVE  ToSet(ParentList(graph, v))
                 \subseteq ToSet(next.visited) \cup ToSet(next.stack)
    BY <1>1, <2>3, <2>4
  <2>6. ASSUME NEW ids \in SUBSET Ids(graph),
               ToSet(ParentList(graph, root)) \subseteq ids, Closed(graph, ids)
        PROVE  ToSet(next.visited) \cup ToSet(next.stack) \subseteq ids
    <3>1. ToSet(walk.visited) \cup ToSet(walk.stack) \subseteq ids
      BY <1>1, <2>6
    <3>2. ToSet(list) \subseteq ids
      BY <1>2, <2>6, <3>1 DEF Closed
    <3> QED BY <2>4, <3>1, <3>2
  <2>7. next = [stack |-> next.stack, visited |-> next.visited]
    BY <2>1
  <2>8. Explores(graph, root, next)
    BY <2>2, <2>3, <2>5, <2>6, <2>7 DEF Explores
  <2> QED BY <2>8 DEF next
<1> QED BY <1>4, <1>5

\* Whatever the walk meets stands before the root: the events that do are
\* closed under parents.
LEMMA WalkStaysBefore ==
    ASSUME NEW graph, Causal(graph), NEW root \in Ids(graph), NEW walk,
           Explores(graph, root, walk)
    PROVE  \A id \in ToSet(walk.visited) \cup ToSet(walk.stack) :
             id \in Ids(graph) /\ PlaceOf(graph, id) < PlaceOf(graph, root)
<1> DEFINE earlier == {id \in Ids(graph) : PlaceOf(graph, id) < PlaceOf(graph, root)}
<1>1. \A id \in Ids(graph) : PlaceOf(graph, id) \in Int
  <2>1. DOMAIN graph \subseteq Int
    BY DEF Causal, Sequence
  <2> QED BY <2>1, Located
<1>2. Closed(graph, earlier)
  <2> SUFFICES ASSUME NEW id \in earlier, NEW p \in ToSet(ParentList(graph, id))
               PROVE  p \in earlier
    BY DEF Closed
  <2>1. p \in Ids(graph) /\ PlaceOf(graph, p) < PlaceOf(graph, id)
    BY ParentsAreEarlier
  <2> QED BY <1>1, <2>1
<1>3. ToSet(ParentList(graph, root)) \subseteq earlier
  BY ParentsAreEarlier
<1>4. earlier \in SUBSET Ids(graph)
  OBVIOUS
<1> HIDE DEF earlier
<1>5. ToSet(walk.visited) \cup ToSet(walk.stack) \subseteq earlier
  BY <1>2, <1>3, <1>4 DEF Explores
<1> QED BY <1>5 DEF earlier

\* A turn spends one mention, and pushes only mentions that were not spent.
LEMMA TurnSpends ==
    ASSUME NEW graph, Causal(graph), NEW root \in Ids(graph), NEW walk,
           Explores(graph, root, walk), walk.stack # <<>>,
           NEW n \in Nat, Spends(graph, root, walk, n)
    PROVE  Spends(graph, root, Visit(graph, walk), n + 1)
<1> DEFINE id == Last(walk.stack)
           rest == Front(walk.stack)
           list == ParentList(graph, id)
           next == Visit(graph, walk)
           len == Len(walk.stack)
           all == Mentioned(graph)
           known == ToSet(walk.visited) \cup {root}
<1>1. PICK spent \in SUBSET all, mention \in [DOMAIN walk.stack -> all] :
        /\ IsFiniteSet(spent) /\ Cardinality(spent) = n
        /\ \A m \in spent : m[1] \in known
        /\ \A k \in DOMAIN walk.stack :
             /\ mention[k] \notin spent /\ mention[k][1] \in known
             /\ \A l \in DOMAIN walk.stack : mention[k] = mention[l] => k = l
  BY DEF Spends
<1>2. walk.stack \in Seq(Ids(graph)) /\ walk.visited \in Seq(Ids(graph))
  BY DEF Explores
<1>3. /\ len \in Nat \ {0} /\ DOMAIN walk.stack = 1..len
      /\ id \in Ids(graph)
      /\ rest \in Seq(Ids(graph)) /\ Len(rest) = len - 1
  <2>1. DOMAIN walk.stack = 1..len
    BY <1>2
  <2> QED BY <1>2, <2>1, Popped
<1>4. DOMAIN rest = 1..(len - 1) /\ len \in DOMAIN walk.stack
  BY <1>3
<1>5. \A k \in 1..(len - 1) : k \in DOMAIN walk.stack /\ k # len
  <2>1. \A m \in Nat \ {0} : \A k \in 1..(m - 1) : k \in 1..m /\ k # m
    OBVIOUS
  <2> QED BY <1>3, <2>1
<1> DEFINE spentAfter == spent \cup {mention[len]}
<1>6. /\ mention[len] \in all /\ mention[len] \notin spent
      /\ mention[len][1] \in known
  BY <1>1, <1>4
<1>7. /\ spentAfter \in SUBSET all
      /\ IsFiniteSet(spentAfter) /\ Cardinality(spentAfter) = n + 1
      /\ \A m \in spentAfter : m[1] \in known
  BY <1>1, <1>6, FS_AddElement
<1>8. \A k \in 1..(len - 1) :
        /\ mention[k] \in all /\ mention[k] \notin spentAfter
        /\ mention[k][1] \in known
        /\ \A l \in 1..(len - 1) : mention[k] = mention[l] => k = l
  BY <1>1, <1>4, <1>5
<1>9. CASE id \in ToSet(walk.visited)
  <2>1. next.stack = rest /\ next.visited = walk.visited
    BY <1>9, TurnCases
  <2> DEFINE after == [k \in 1..(len - 1) |-> mention[k]]
  <2> HIDE DEF spentAfter, next, rest, len, all
  <2>2. after \in [DOMAIN next.stack -> all]
    BY <1>4, <1>8, <2>1
  <2>3. /\ \A m \in spentAfter : m[1] \in ToSet(next.visited) \cup {root}
        /\ \A k \in DOMAIN next.stack :
             /\ after[k] \notin spentAfter
             /\ after[k][1] \in ToSet(next.visited) \cup {root}
             /\ \A l \in DOMAIN next.stack : after[k] = after[l] => k = l
    BY <1>4, <1>7, <1>8, <2>1
  <2> HIDE DEF after
  <2>4. Spends(graph, root, next, n + 1)
    BY <1>7, <2>2, <2>3 DEF Spends, all
  <2> QED BY <2>4 DEF next
<1>10. CASE id \notin ToSet(walk.visited)
  <2>1. next.stack = rest \o list /\ next.visited = Append(walk.visited, id)
    BY <1>10, TurnCases
  <2>2. list \in Seq(Ids(graph))
    BY <1>3, ParentsAreEarlier
  <2>3. id # root
    <3>1. id \in ToSet(walk.stack)
      BY <1>2, Popped
    <3>2. PlaceOf(graph, id) < PlaceOf(graph, root)
      BY <3>1, WalkStaysBefore
    <3>3. PlaceOf(graph, root) \in Int
      BY Located DEF Causal, Sequence
    <3> QED BY <3>2, <3>3
  <2>4. id \notin known
    BY <1>10, <2>3
  <2>5. ToSet(next.visited) = ToSet(walk.visited) \cup {id}
    BY <1>2, <1>3, <2>1, AppendedSet
  <2>6. \A k \in DOMAIN list : <<id, k>> \in all
    BY <1>3, MentionsAreFinite
  <2>7. /\ Len(list) \in Nat /\ DOMAIN list = 1..Len(list)
        /\ DOMAIN next.stack = 1..(len - 1 + Len(list))
    <3> HIDE DEF next, rest, list, len
    <3>1. rest \o list \in Seq(Ids(graph)) /\ Len(rest \o list) = Len(rest) + Len(list)
      BY <1>3, <2>2, Joined
    <3>2. DOMAIN (rest \o list) = 1..Len(rest \o list)
      BY <3>1
    <3> QED BY <1>3, <2>1, <2>2, <3>1, <3>2
  <2> HIDE DEF next, rest, list, len, id, spentAfter, all, known
  <2> DEFINE after == [k \in DOMAIN next.stack |->
                         IF k \in 1..(len - 1) THEN mention[k]
                         ELSE <<id, k - (len - 1)>>]
  <2>8. ASSUME NEW k \in DOMAIN next.stack, k \notin 1..(len - 1)
        PROVE  k - (len - 1) \in DOMAIN list
    BY <1>3, <2>7, <2>8
  <2>9. ASSUME NEW k \in DOMAIN next.stack
        PROVE  /\ after[k] \in all /\ after[k] \notin spentAfter
               /\ after[k][1] \in known \cup {id}
    <3>1. CASE k \in 1..(len - 1)
      BY <1>8, <3>1
    <3>2. CASE k \notin 1..(len - 1)
      BY <1>7, <2>4, <2>6, <2>8, <3>2
    <3> QED BY <3>1, <3>2
  <2>10. ASSUME NEW k \in DOMAIN next.stack, NEW l \in DOMAIN next.stack,
                after[k] = after[l]
         PROVE  k = l
    <3>1. CASE k \in 1..(len - 1) /\ l \in 1..(len - 1)
      BY <1>8, <2>10, <3>1
    <3>2. CASE k \notin 1..(len - 1) /\ l \notin 1..(len - 1)
      <4>1. k - (len - 1) = l - (len - 1)
        BY <2>10, <3>2
      <4>2. k \in Int /\ l \in Int /\ len \in Int
        BY <1>3, <2>7
      <4> QED BY <4>1, <4>2
    <3>3. CASE k \in 1..(len - 1) /\ l \notin 1..(len - 1)
      <4>1. after[k][1] \in known /\ after[l][1] = id
        BY <1>8, <3>3
      <4> QED BY <2>4, <2>10, <4>1
    <3>4. CASE k \notin 1..(len - 1) /\ l \in 1..(len - 1)
      <4>1. after[l][1] \in known /\ after[k][1] = id
        BY <1>8, <3>4
      <4> QED BY <2>4, <2>10, <4>1
    <3> QED BY <3>1, <3>2, <3>3, <3>4
  <2>11. after \in [DOMAIN next.stack -> all]
    BY <2>9
  <2> HIDE DEF after
  <2>12. ToSet(next.visited) \cup {root} = known \cup {id}
    BY <2>5 DEF known
  <2>13. Spends(graph, root, next, n + 1)
    BY <1>7, <2>9, <2>10, <2>11, <2>12 DEF Spends, all
  <2> QED BY <2>13 DEF next
<1> QED BY <1>9, <1>10

Turn(graph, walk) ==
    IF walk.stack = <<>> THEN walk ELSE Visit(graph, walk)

IsWalk(graph, start, N, walk) ==
    walk = [n \in 0..N |->
              IF n = 0 THEN [stack |-> start, visited |-> <<>>]
              ELSE Turn(graph, walk[n - 1])]

\* A walk of any length exists: one turn more is appended to a shorter one.
LEMMA WalkExists ==
    ASSUME NEW graph, NEW start, NEW N \in Nat
    PROVE  \E walk : IsWalk(graph, start, N, walk)
<1> DEFINE first == [stack |-> start, visited |-> <<>>]
           S == {n \in Nat : \E walk : IsWalk(graph, start, n, walk)}
<1>1. 0 \in S
  <2> DEFINE walk == [n \in 0..0 |-> first]
  <2>1. walk = [n \in 0..0 |-> IF n = 0 THEN first ELSE Turn(graph, walk[n - 1])]
    OBVIOUS
  <2>2. IsWalk(graph, start, 0, walk)
    BY <2>1 DEF IsWalk
  <2> QED BY <2>2
<1>2. ASSUME NEW n \in Nat, n \in S PROVE n + 1 \in S
  <2>1. PICK walk : IsWalk(graph, start, n, walk)
    BY <1>2
  <2> DEFINE longer == [k \in 0..(n + 1) |->
                          IF k = n + 1 THEN Turn(graph, walk[n]) ELSE walk[k]]
             then(k) == IF k = 0 THEN first ELSE Turn(graph, longer[k - 1])
  <2>2. ASSUME NEW k \in 0..(n + 1) PROVE longer[k] = then(k)
    <3>1. CASE k = n + 1
      BY <3>1
    <3>2. CASE k \in 0..n
      <4>1. walk[k] = IF k = 0 THEN first ELSE Turn(graph, walk[k - 1])
        BY <2>1, <3>2 DEF IsWalk
      <4>2. longer[k] = walk[k]
        BY <3>2
      <4>3. k # 0 => longer[k - 1] = walk[k - 1]
        BY <3>2
      <4> QED BY <4>1, <4>2, <4>3
    <3>3. k = n + 1 \/ k \in 0..n
      OBVIOUS
    <3> QED BY <3>1, <3>2, <3>3
  <2>3. longer = [k \in 0..(n + 1) |-> longer[k]]
    OBVIOUS
  <2>4. longer = [k \in 0..(n + 1) |-> then(k)]
    <3> HIDE DEF longer, then
    <3> QED BY <2>2, <2>3
  <2>5. IsWalk(graph, start, n + 1, longer)
    <3> HIDE DEF longer
    <3> QED BY <2>4 DEF IsWalk
  <2> QED BY <2>5
<1> HIDE DEF S
<1>3. N \in S
  BY <1>1, <1>2, Induction
<1> QED BY <1>3 DEF S

\* Visited() follows such a walk to its end.
LEMMA VisitedIsWalked ==
    ASSUME NEW graph, NEW id, MaxTurns(graph) \in Nat
    PROVE  \E walk :
             /\ walk[0] = [stack |-> EventOf(graph, id).parents, visited |-> <<>>]
             /\ \A n \in 0..(MaxTurns(graph) - 1) :
                  walk[n + 1] = Turn(graph, walk[n])
             /\ Visited(graph, id) = walk[MaxTurns(graph)].visited
<1> DEFINE N == MaxTurns(graph)
           start == EventOf(graph, id).parents
           walk == CHOOSE w : IsWalk(graph, start, N, w)
<1>1. Visited(graph, id) = walk[N].visited
  BY DEF Visited, IsWalk, Turn
<1>2. IsWalk(graph, start, N, walk)
  BY WalkExists
<1> HIDE DEF walk
<1>3. walk[0] = [stack |-> start, visited |-> <<>>]
  BY <1>2 DEF IsWalk
<1>4. ASSUME NEW n \in 0..(N - 1)
      PROVE  walk[n + 1] = Turn(graph, walk[n])
  <2>1. n + 1 \in 0..N /\ n + 1 # 0 /\ (n + 1) - 1 = n
    OBVIOUS
  <2> QED BY <1>2, <2>1 DEF IsWalk
<1> QED BY <1>1, <1>3, <1>4

\* ancestors() finds, each once, the members of the least closed set that
\* holds the parents, and it ends: one turn for each mention is enough.
LEMMA AncestorsFound ==
    ASSUME NEW graph, Causal(graph), NEW root \in Ids(graph)
    PROVE  LET found == Visited(graph, root)
               parents == ToSet(ParentList(graph, root))
           IN  /\ found \in Seq(Ids(graph)) /\ IsInjective(found)
               /\ parents \subseteq ToSet(found) /\ Closed(graph, ToSet(found))
               /\ \A ids \in SUBSET Ids(graph) :
                    parents \subseteq ids /\ Closed(graph, ids)
                    => ToSet(found) \subseteq ids
               /\ \A id \in ToSet(found) :
                    PlaceOf(graph, id) < PlaceOf(graph, root)
<1> DEFINE N == MaxTurns(graph)
           start == ParentList(graph, root)
<1>1. IsFiniteSet(Mentioned(graph)) /\ N = Cardinality(Mentioned(graph))
  BY MentionsAreFinite DEF MaxTurns
<1>2. N \in Nat
  BY MentionsAreFinite
<1>3. PICK walk :
        /\ walk[0] = [stack |-> start, visited |-> <<>>]
        /\ \A n \in 0..(N - 1) : walk[n + 1] = Turn(graph, walk[n])
        /\ Visited(graph, root) = walk[N].visited
  BY <1>2, VisitedIsWalked DEF ParentList
<1> HIDE DEF N
<1> DEFINE S == {n \in Nat : n <= N =>
                   /\ Explores(graph, root, walk[n])
                   /\ walk[n].stack # <<>> => Spends(graph, root, walk[n], n)}
<1>4. 0 \in S
  <2>1. /\ walk[0].stack = start /\ walk[0].visited = <<>>
        /\ walk[0] = [stack |-> walk[0].stack, visited |-> walk[0].visited]
    BY <1>3
  <2>2. start \in Seq(Ids(graph))
    BY ParentsAreEarlier
  <2>3. ToSet(<<>>) = {} /\ <<>> \in Seq(Ids(graph)) /\ IsInjective(<<>>)
    BY DEF ToSet, IsInjective
  <2>4. Explores(graph, root, walk[0])
    BY <2>1, <2>2, <2>3 DEF Explores
  <2>5. Spends(graph, root, walk[0], 0)
    <3> DEFINE mention == [k \in DOMAIN start |-> <<root, k>>]
    <3>1. \A k \in DOMAIN start : <<root, k>> \in Mentioned(graph)
      BY MentionsAreFinite
    <3>2. /\ mention \in [DOMAIN walk[0].stack -> Mentioned(graph)]
          /\ \A k \in DOMAIN walk[0].stack : mention[k] = <<root, k>>
      BY <2>1, <3>1
    <3>3. IsFiniteSet({}) /\ Cardinality({}) = 0
      BY FS_EmptySet
    <3> HIDE DEF mention
    <3>4. \A k \in DOMAIN walk[0].stack :
            /\ mention[k] \notin {}
            /\ mention[k][1] \in ToSet(walk[0].visited) \cup {root}
            /\ \A l \in DOMAIN walk[0].stack : mention[k] = mention[l] => k = l
      BY <3>2
    <3> QED BY <3>2, <3>3, <3>4 DEF Spends
  <2> QED BY <2>4, <2>5
<1>5. ASSUME NEW n \in Nat, n \in S PROVE n + 1 \in S
  <2> SUFFICES ASSUME n + 1 <= N
               PROVE  /\ Explores(graph, root, walk[n + 1])
                      /\ walk[n + 1].stack # <<>> =>
                           Spends(graph, root, walk[n + 1], n + 1)
    OBVIOUS
  <2>1. /\ Explores(graph, root, walk[n])
        /\ walk[n].stack # <<>> => Spends(graph, root, walk[n], n)
    BY <1>2, <1>5
  <2>2. walk[n + 1] = Turn(graph, walk[n])
    BY <1>2, <1>3
  <2>3. CASE walk[n].stack = <<>>
    BY <2>1, <2>2, <2>3 DEF Turn
  <2>4. CASE walk[n].stack # <<>>
    BY <2>1, <2>2, <2>4, TurnExplores, TurnSpends DEF Turn
  <2> QED BY <2>3, <2>4
<1>6. /\ Explores(graph, root, walk[N])
      /\ walk[N].stack # <<>> => Spends(graph, root, walk[N], N)
  <2> HIDE DEF S
  <2>1. N \in S
    BY <1>2, <1>4, <1>5, Induction
  <2> QED BY <1>2, <2>1 DEF S
<1>7. walk[N].stack = <<>>
  <2> SUFFICES ASSUME walk[N].stack # <<>> PROVE FALSE
    OBVIOUS
  <2> DEFINE stack == walk[N].stack
  <2>1. PICK spent \in SUBSET Mentioned(graph),
             mention \in [DOMAIN stack -> Mentioned(graph)] :
          /\ IsFiniteSet(spent) /\ Cardinality(spent) = N
          /\ \A k \in DOMAIN stack : mention[k] \notin spent
    BY <1>6 DEF Spends
  <2>2. 1 \in DOMAIN stack
    BY <1>6 DEF Explores
  <2>3. spent = Mentioned(graph)
    BY <1>1, <2>1, FS_Subset
  <2> QED BY <2>1, <2>2, <2>3
<1>8. ToSet(walk[N].stack) = {}
  BY <1>7 DEF ToSet
<1> QED BY <1>3, <1>6, <1>8, WalkStaysBefore DEF Explores, Closed

-----------------------------------------------------------------------------
(* sorted(): what Chronological makes of a list of events *)

\* i stands no later than j in the sorted list: by timestamp, then by place.
NoLater(chain, i, j) ==
    \/ chain[i].timestamp < chain[j].timestamp
    \/ chain[i].timestamp = chain[j].timestamp /\ i <= j

UpToPlace(chain, j) == {i \in DOMAIN chain : NoLater(chain, i, j)}

Timed(chain) == \A i \in DOMAIN chain : chain[i].timestamp \in Int

\* A place's rank is how many places stand no later, and ranks tell places
\* apart in their order.
LEMMA RanksOrder ==
    ASSUME NEW chain, Sequence(chain), Timed(chain)
    PROVE  /\ \A i \in DOMAIN chain : Cardinality(UpToPlace(chain, i)) \in 1..Len(chain)
           /\ \A i, j \in DOMAIN chain :
                i # j /\ NoLater(chain, i, j) =>
                  Cardinality(UpToPlace(chain, i)) < Cardinality(UpToPlace(chain, j))
<1> DEFINE places == DOMAIN chain
<1>1. Len(chain) \in Nat /\ places = 1..Len(chain)
  BY DEF Sequence
<1>2. IsFiniteSet(places) /\ Cardinality(places) = Len(chain)
  <2>1. \A n \in Nat : IsFiniteSet(1..n) /\ Cardinality(1..n) = n
    BY FS_Interval
  <2> QED BY <1>1, <2>1
<1>3. \A i \in places : chain[i].timestamp \in Int /\ i \in Int
  BY <1>1 DEF Timed
<1>4. ASSUME NEW i \in places
      PROVE  /\ IsFiniteSet(UpToPlace(chain, i))
             /\ Cardinality(UpToPlace(chain, i)) \in Nat
             /\ Cardinality(UpToPlace(chain, i)) <= Len(chain)
             /\ i \in UpToPlace(chain, i)
  <2>1. UpToPlace(chain, i) \in SUBSET places /\ i \in UpToPlace(chain, i)
    BY <1>3 DEF UpToPlace, NoLater
  <2> QED BY <1>2, <2>1, FS_Subset, FS_CardinalityType
<1>5. ASSUME NEW i \in places
      PROVE  Cardinality(UpToPlace(chain, i)) \in 1..Len(chain)
  <2>1. Cardinality(UpToPlace(chain, i)) # 0
    BY <1>4, FS_EmptySet
  <2> QED BY <1>1, <1>4, <2>1
<1>6. ASSUME NEW i \in places, NEW j \in places, i # j, NoLater(chain, i, j)
      PROVE  Cardinality(UpToPlace(chain, i)) < Cardinality(UpToPlace(chain, j))
  <2>1. UpToPlace(chain, i) \subseteq UpToPlace(chain, j)
    BY <1>3, <1>6 DEF UpToPlace, NoLater
  <2>2. j \in UpToPlace(chain, j) /\ j \notin UpToPlace(chain, i)
    BY <1>3, <1>6 DEF UpToPlace, NoLater
  <2>3. /\ Cardinality(UpToPlace(chain, i)) <= Cardinality(UpToPlace(chain, j))
        /\ Cardinality(UpToPlace(chain, j)) = Cardinality(UpToPlace(chain, i))
             => UpToPlace(chain, j) = UpToPlace(chain, i)
    BY <1>4, <2>1, FS_Subset
  <2> QED BY <1>4, <2>2, <2>3
<1> QED BY <1>5, <1>6

\* The sorted list is a rearrangement of the list, in order of time, and
\* stable: place[k] is where its k-th event comes from.
LEMMA SortedByTime ==
    ASSUME NEW chain, Sequence(chain), Timed(chain)
    PROVE  \E place \in [DOMAIN chain -> DOMAIN chain] :
             /\ \A i \in DOMAIN chain : \E k \in DOMAIN chain : place[k] = i
             /\ \A k, l \in DOMAIN chain :
                  k < l => place[k] # place[l] /\ NoLater(chain, place[k], place[l])
             /\ Chronological(chain) = [k \in DOMAIN chain |-> chain[place[k]]]
<1> DEFINE places == DOMAIN chain
           rank == [i \in places |-> Cardinality(UpToPlace(chain, i))]
           place == [k \in places |-> CHOOSE i \in places :
                                        Cardinality(UpToPlace(chain, i)) = k]
<1>1. Len(chain) \in Nat /\ places = 1..Len(chain)
  BY DEF Sequence
<1>2. IsFiniteSet(places)
  BY <1>1, FS_Interval
<1>3. \A i, j \in places : NoLater(chain, i, j) \/ NoLater(chain, j, i)
  <2>1. \A i \in places : chain[i].timestamp \in Int /\ i \in Int
    BY <1>1 DEF Timed
  <2> QED BY <2>1 DEF NoLater
<1>4. /\ rank \in [places -> places]
      /\ \A i, j \in places : i # j /\ NoLater(chain, i, j) => rank[i] < rank[j]
  BY <1>1, RanksOrder
<1> HIDE DEF rank
<1>5. \A i, j \in places : rank[i] = rank[j] => i = j
  BY <1>1, <1>3, <1>4
<1>6. \A k \in places : \E i \in places : rank[i] = k
  <2>1. rank \in Injection(places, places)
    BY <1>4, <1>5 DEF Injection, IsInjective
  <2>2. rank \in Surjection(places, places)
    BY <1>2, <2>1, FS_Injection
  <2> QED BY <2>2 DEF Surjection
<1>7. \A k \in places : place[k] \in places /\ rank[place[k]] = k
  BY <1>6 DEF rank
<1>8. Chronological(chain) = [k \in places |-> chain[place[k]]]
  BY DEF Chronological, UpToPlace, NoLater
<1> HIDE DEF place
<1>9. place \in [places -> places]
  BY <1>7 DEF place
<1>10. \A i \in places : \E k \in places : place[k] = i
  BY <1>4, <1>5, <1>7
<1>11. ASSUME NEW k \in places, NEW l \in places, k < l
       PROVE  place[k] # place[l] /\ NoLater(chain, place[k], place[l])
  <2>1. place[k] # place[l]
    BY <1>1, <1>7, <1>11
  <2>2. ~ NoLater(chain, place[l], place[k])
    BY <1>1, <1>4, <1>7, <1>11, <2>1
  <2> QED BY <1>3, <1>7, <2>1, <2>2
<1> QED BY <1>8, <1>9, <1>10, <1>11

\* No event is older than its parents.
Forward(graph) ==
    /\ Timed(graph)
    /\ \A i \in DOMAIN graph : \A p \in ToSet(graph[i].parents) :
         EventOf(graph, p).timestamp <= graph[i].timestamp

\* Time runs forward from ancestors too, however far back they are.
LEMMA AncestorsAreOlder ==
    ASSUME NEW graph, Causal(graph), Forward(graph), NEW root \in Ids(graph)
    PROVE  \A id \in ToSet(Visited(graph, root)) :
             /\ id \in Ids(graph)
             /\ EventOf(graph, id).timestamp <= EventOf(graph, root).timestamp
<1> DEFINE T(id) == EventOf(graph, id).timestamp
           older == {id \in Ids(graph) : T(id) <= T(root)}
<1>1. \A id \in Ids(graph) : T(id) \in Int
  BY Located DEF Forward, Timed
<1>2. ASSUME NEW id \in Ids(graph), NEW p \in ToSet(ParentList(graph, id))
      PROVE  p \in Ids(graph) /\ T(p) <= T(id)
  <2>1. p \in Ids(graph)
    BY ParentsAreEarlier
  <2>2. T(p) <= T(id)
    BY Located DEF Forward, ParentList
  <2> QED BY <2>1, <2>2
<1> HIDE DEF T
<1>3. Closed(graph, older)
  BY <1>1, <1>2 DEF Closed
<1>4. ToSet(ParentList(graph, root)) \subseteq older
  BY <1>2
<1>5. older \in SUBSET Ids(graph)
  OBVIOUS
<1> HIDE DEF older
<1>6. ToSet(Visited(graph, root)) \subseteq older
  BY <1>3, <1>4, <1>5, AncestorsFound
<1> QED BY <1>6 DEF older, T

\* The list that explain() sorts: the ancestors, each once, and the event.
LEMMA ToExplain ==
    ASSUME NEW graph, Causal(graph), Forward(graph), NEW root \in Ids(graph)
    PROVE  LET all == Append(Ancestors(graph, root), EventOf(graph, root))
               found == Visited(graph, root)
               last == Len(found) + 1
           IN  /\ Sequence(all) /\ Len(found) \in Nat
               /\ DOMAIN all = 1..last /\ Len(all) = last
               /\ all[last] = EventOf(graph, root)
               /\ \A k \in 1..Len(found) : \E id \in ToSet(found) :
                    all[k] = EventOf(graph, id)
               /\ \A id \in ToSet(found) : \E k \in 1..Len(found) :
                    all[k] = EventOf(graph, id)
<1> DEFINE found == Visited(graph, root)
           list == [k \in DOMAIN found |-> EventOf(graph, found[k])]
           anc == Ancestors(graph, root)
<1>1. found \in Seq(Ids(graph))
  BY AncestorsFound
<1>2. Len(found) \in Nat /\ DOMAIN found = 1..Len(found)
  BY <1>1
<1>3. \A k \in 1..Len(found) : found[k] \in Ids(graph)
  BY <1>1
<1>4. anc = Chronological(list)
  BY DEF Ancestors
<1>5. /\ list \in Seq({EventOf(graph, id) : id \in Ids(graph)})
      /\ DOMAIN list = 1..Len(found)
  BY <1>2, <1>3
<1>6. Sequence(list)
  BY <1>5 DEF Sequence
<1>7. Timed(list)
  <2>1. \A id \in Ids(graph) : EventOf(graph, id).timestamp \in Int
    BY Located DEF Forward, Timed
  <2> QED BY <1>2, <1>3, <2>1 DEF Timed
<1> HIDE DEF anc
<1>8. PICK place \in [DOMAIN list -> DOMAIN list] :
        /\ \A i \in DOMAIN list : \E k \in DOMAIN list : place[k] = i
        /\ anc = [k \in DOMAIN list |-> list[place[k]]]
  <2> HIDE DEF list
  <2> QED BY <1>4, <1>6, <1>7, SortedByTime
<1>9. \A k \in 1..Len(found) :
        place[k] \in 1..Len(found) /\ anc[k] = EventOf(graph, found[place[k]])
  BY <1>2, <1>5, <1>8
<1>10. anc \in Seq({EventOf(graph, id) : id \in Ids(graph)}) /\ Len(anc) = Len(found)
  <2>1. \A k \in 1..Len(found) : anc[k] \in {EventOf(graph, id) : id \in Ids(graph)}
    BY <1>3, <1>9
  <2>2. anc = [k \in 1..Len(found) |-> anc[k]]
    BY <1>5, <1>8
  <2> HIDE DEF found, list
  <2> QED BY <1>2, <2>1, <2>2
<1>11. Sequence(anc)
  BY <1>10 DEF Sequence
<1> DEFINE all == Append(anc, EventOf(graph, root))
<1>12. /\ Sequence(all) /\ Len(all) = Len(found) + 1
       /\ DOMAIN all = 1..(Len(found) + 1)
       /\ \A k \in 1..Len(found) : all[k] = anc[k]
       /\ all[Len(found) + 1] = EventOf(graph, root)
  <2> HIDE DEF found
  <2> QED BY <1>10, <1>11, Appended
<1> HIDE DEF all
<1>13. ASSUME NEW k \in 1..Len(found)
       PROVE  \E id \in ToSet(found) : all[k] = EventOf(graph, id)
  BY <1>2, <1>9, <1>12 DEF ToSet
<1>14. ASSUME NEW id \in ToSet(found)
       PROVE  \E k \in 1..Len(found) : all[k] = EventOf(graph, id)
  <2>1. PICK i \in 1..Len(found) : found[i] = id
    BY <1>2 DEF ToSet
  <2>2. PICK k \in 1..Len(found) : place[k] = i
    BY <1>5, <1>8
  <2> QED BY <1>9, <1>12, <2>1, <2>2
<1> QED BY <1>2, <1>12, <1>13, <1>14 DEF all, anc

\* explain() is in order of time, ends with the event asked about, tells of it
\* and of its ancestors and of nothing else, and puts no event after one of its
\* children unless they share a moment.
LEMMA ExplainedInOrder ==
    ASSUME NEW graph, Causal(graph), Forward(graph), NEW root \in Ids(graph)
    PROVE  LET chain == Explain(graph, root)
           IN  /\ Len(chain) = Len(Visited(graph, root)) + 1
               /\ DOMAIN chain = 1..Len(chain)
               /\ Len(chain) \in Nat
               /\ chain[Len(chain)] = EventOf(graph, root)
               /\ \A k \in DOMAIN chain : \E id \in Ids(graph) :
                    chain[k] = EventOf(graph, id)
               /\ \A k \in DOMAIN chain : \A parent \in ToSet(chain[k].parents) :
                    \E j \in DOMAIN chain :
                      /\ chain[j] = EventOf(graph, parent)
                      /\ j < k \/ chain[j].timestamp = chain[k].timestamp
               /\ \A k, l \in DOMAIN chain :
                    k < l => chain[k].timestamp <= chain[l].timestamp
<1> DEFINE found == Visited(graph, root)
           all == Append(Ancestors(graph, root), EventOf(graph, root))
           last == Len(found) + 1
           chain == Explain(graph, root)
           T(id) == EventOf(graph, id).timestamp
<1>1. /\ Sequence(all) /\ Len(found) \in Nat
      /\ DOMAIN all = 1..last /\ Len(all) = last
      /\ all[last] = EventOf(graph, root)
      /\ \A k \in 1..Len(found) : \E id \in ToSet(found) : all[k] = EventOf(graph, id)
      /\ \A id \in ToSet(found) : \E k \in 1..Len(found) : all[k] = EventOf(graph, id)
  BY ToExplain
<1>2. chain = Chronological(all)
  BY DEF Explain
<1>3. /\ \A id \in ToSet(found) : id \in Ids(graph) /\ T(id) <= T(root)
      /\ \A id \in Ids(graph) : T(id) \in Int
  BY AncestorsAreOlder, Located DEF Forward, Timed
<1>4. \A id \in ToSet(found) \cup {root} : ToSet(ParentList(graph, id)) \subseteq ToSet(found)
  BY AncestorsFound DEF Closed
<1> HIDE DEF found, all, chain
<1>5. \A k \in 1..last : k = last \/ k \in 1..Len(found)
  BY <1>1
<1>6. \A k \in 1..last : \E id \in ToSet(found) \cup {root} : all[k] = EventOf(graph, id)
  BY <1>1, <1>5
<1>7. Timed(all)
  BY <1>1, <1>3, <1>6 DEF Timed
<1>8. PICK place \in [DOMAIN all -> DOMAIN all] :
        /\ \A i \in DOMAIN all : \E k \in DOMAIN all : place[k] = i
        /\ \A k, l \in DOMAIN all :
             k < l => place[k] # place[l] /\ NoLater(all, place[k], place[l])
        /\ chain = [k \in DOMAIN all |-> all[place[k]]]
  <2>1. Sequence(all)
    BY <1>1
  <2> HIDE DEF T, last
  <2> QED BY <1>2, <1>7, <2>1, SortedByTime
<1>9. /\ DOMAIN chain = 1..last /\ chain = [k \in 1..last |-> all[place[k]]]
      /\ \A k \in 1..last : place[k] \in 1..last /\ chain[k] = all[place[k]]
  BY <1>1, <1>8
<1>10. Len(chain) = last
  BY <1>1, <1>9
<1>11. \A k \in 1..last : all[k].timestamp \in Int /\ all[k].timestamp <= all[last].timestamp
  <2>1. \A id \in ToSet(found) \cup {root} : T(id) \in Int /\ T(id) <= T(root)
    BY <1>3
  <2> QED BY <1>1, <1>6, <2>1
<1>12. chain[last] = EventOf(graph, root)
  <2>1. last \in 1..last
    BY <1>1
  <2>2. PICK k \in 1..last : place[k] = last
    BY <1>1, <1>8, <2>1
  <2>3. CASE k = last
    BY <1>1, <1>9, <2>1, <2>2, <2>3
  <2>4. CASE k < last
    <3>1. place[last] # last /\ NoLater(all, last, place[last])
      BY <1>1, <1>8, <2>1, <2>2, <2>4
    <3>2. place[last] \in 1..last
      BY <1>9, <2>1
    <3> QED BY <1>1, <1>11, <3>1, <3>2 DEF NoLater
  <2> QED BY <1>1, <2>3, <2>4
<1>13. ASSUME NEW k \in 1..last
       PROVE  /\ \E id \in Ids(graph) : chain[k] = EventOf(graph, id)
              /\ \A parent \in ToSet(chain[k].parents) : \E j \in 1..last :
                   /\ chain[j] = EventOf(graph, parent)
                   /\ j < k \/ chain[j].timestamp = chain[k].timestamp
  <2>1. PICK id \in ToSet(found) \cup {root} : chain[k] = EventOf(graph, id)
    BY <1>6, <1>9
  <2>2. id \in Ids(graph)
    BY <1>3, <2>1
  <2>3. ASSUME NEW parent \in ToSet(chain[k].parents)
        PROVE  \E j \in 1..last :
                 /\ chain[j] = EventOf(graph, parent)
                 /\ j < k \/ chain[j].timestamp = chain[k].timestamp
    <3>1. parent \in ToSet(ParentList(graph, id))
      BY <2>1 DEF ParentList
    <3>2. parent \in ToSet(found)
      BY <1>4, <3>1
    <3>3. PICK i \in 1..Len(found) : all[i] = EventOf(graph, parent)
      BY <1>1, <3>2
    <3>4. i \in 1..last
      BY <1>1
    <3>5. PICK j \in 1..last : place[j] = i
      BY <1>1, <1>8, <3>4
    <3>6. chain[j] = EventOf(graph, parent)
      BY <1>9, <3>3, <3>5
    <3>7. T(parent) <= T(id)
      BY <2>2, <3>1, Located DEF Forward, ParentList
    <3>8. ASSUME k < j PROVE chain[j].timestamp = chain[k].timestamp
      <4>1. NoLater(all, place[k], place[j])
        BY <1>1, <1>8, <3>8
      <4>2. chain[k].timestamp <= chain[j].timestamp
        <5>1. /\ all[place[k]].timestamp \in Int /\ all[place[j]].timestamp \in Int
              /\ chain[k] = all[place[k]] /\ chain[j] = all[place[j]]
          BY <1>9, <1>11
        <5>2. all[place[k]].timestamp <= all[place[j]].timestamp
          BY <4>1, <5>1 DEF NoLater
        <5> QED BY <5>1, <5>2
      <4>3. chain[j].timestamp <= chain[k].timestamp
        BY <2>1, <3>6, <3>7
      <4>4. chain[j].timestamp \in Int /\ chain[k].timestamp \in Int
        BY <1>9, <1>11
      <4> QED BY <4>2, <4>3, <4>4
    <3>9. j < k \/ k < j \/ j = k
      BY <1>1
    <3> QED BY <3>6, <3>8, <3>9
  <2> QED BY <2>1, <2>2, <2>3
<1>14. Len(chain) \in Nat
  BY <1>1, <1>10
<1>15. /\ Len(chain) = Len(found) + 1
       /\ DOMAIN chain = 1..Len(chain)
       /\ chain[Len(chain)] = EventOf(graph, root)
       /\ \A k \in DOMAIN chain : \E id \in Ids(graph) : chain[k] = EventOf(graph, id)
       /\ \A k \in DOMAIN chain : \A parent \in ToSet(chain[k].parents) :
            \E j \in DOMAIN chain :
              /\ chain[j] = EventOf(graph, parent)
              /\ j < k \/ chain[j].timestamp = chain[k].timestamp
  <2>1. DOMAIN chain = 1..last /\ Len(chain) = last
    BY <1>9, <1>10
  <2> HIDE DEF T, last
  <2>2. \A k \in DOMAIN chain : \E id \in Ids(graph) : chain[k] = EventOf(graph, id)
    BY <1>13, <2>1
  <2>3. \A k \in DOMAIN chain : \A parent \in ToSet(chain[k].parents) :
          \E j \in DOMAIN chain :
            /\ chain[j] = EventOf(graph, parent)
            /\ j < k \/ chain[j].timestamp = chain[k].timestamp
    BY <1>13, <2>1
  <2> QED BY <1>12, <2>1, <2>2, <2>3 DEF last
<1>16. \A k, l \in DOMAIN chain : k < l => chain[k].timestamp <= chain[l].timestamp
  <2>1. ASSUME NEW k \in 1..last, NEW l \in 1..last, k < l
        PROVE  chain[k].timestamp <= chain[l].timestamp
    <3>1. NoLater(all, place[k], place[l])
      BY <1>1, <1>8, <2>1
    <3>2. /\ all[place[k]].timestamp \in Int /\ all[place[l]].timestamp \in Int
          /\ chain[k] = all[place[k]] /\ chain[l] = all[place[l]]
      BY <1>9, <1>11
    <3> QED BY <3>1, <3>2 DEF NoLater
  <2> QED BY <1>9, <2>1
<1> QED BY <1>14, <1>15, <1>16 DEF chain, found
-----------------------------------------------------------------------------
(* Sums.  SumFunction takes the members of the domain in an order that     *)
(* nothing fixes; the lemmas say that the order does not matter.           *)

Picked(s) == CHOOSE x \in s : TRUE

UpToSize(D, n) == {s \in SUBSET D : Cardinality(s) <= n}

\* The definition of SumFunction, on the sets of at most n members.
Accumulates(f, D, n, sum) ==
    /\ sum \in [UpToSize(D, n) -> Int]
    /\ \A s \in UpToSize(D, n) :
         sum[s] = IF s = {} THEN 0
                  ELSE f[Picked(s)] + sum[s \ {Picked(s)}]

\* Taking an element out of a finite set.
LEMMA Smaller ==
    ASSUME NEW D, IsFiniteSet(D), NEW s \in SUBSET D, NEW x \in s
    PROVE  /\ s \ {x} \in SUBSET D
           /\ Cardinality(s) \in Nat \ {0}
           /\ Cardinality(s \ {x}) = Cardinality(s) - 1
<1>1. IsFiniteSet(s)
  BY FS_Subset
<1>2. Cardinality(s \ {x}) = Cardinality(s) - 1 /\ IsFiniteSet(s \ {x})
  BY <1>1, FS_RemoveElement
<1>3. Cardinality(s) \in Nat /\ Cardinality(s \ {x}) \in Nat
  BY <1>1, <1>2, FS_CardinalityType
<1> QED BY <1>2, <1>3

\* A finite set is empty exactly if it has no member to count.
LEMMA SizeTellsEmpty ==
    ASSUME NEW D, IsFiniteSet(D), NEW s \in SUBSET D
    PROVE  s = {} <=> Cardinality(s) = 0
BY FS_Subset, FS_EmptySet

\* The recursion has a solution on the sets of any bounded size.
LEMMA SumsExist ==
    ASSUME NEW D, IsFiniteSet(D), NEW f \in [D -> Int], NEW N \in Nat
    PROVE  \E sum : Accumulates(f, D, N, sum)
<1> DEFINE S == {n \in Nat : \E sum : Accumulates(f, D, n, sum)}
<1>1. 0 \in S
  <2> DEFINE sum == [s \in UpToSize(D, 0) |-> 0]
  <2>1. \A s \in UpToSize(D, 0) : s = {}
    <3> SUFFICES ASSUME NEW s \in UpToSize(D, 0), s # {} PROVE FALSE
      OBVIOUS
    <3>1. s \in SUBSET D /\ Cardinality(s) <= 0
      BY DEF UpToSize
    <3>2. PICK x \in s : TRUE
      OBVIOUS
    <3>3. Cardinality(s) \in Nat \ {0}
      BY <3>1, <3>2, Smaller
    <3> QED BY <3>1, <3>3
  <2>2. sum \in [UpToSize(D, 0) -> Int] /\ \A s \in UpToSize(D, 0) : sum[s] = 0
    OBVIOUS
  <2> HIDE DEF sum
  <2>3. Accumulates(f, D, 0, sum)
    BY <2>1, <2>2 DEF Accumulates
  <2> QED BY <2>3
<1>2. ASSUME NEW n \in Nat, n \in S PROVE n + 1 \in S
  <2>1. PICK sum : Accumulates(f, D, n, sum)
    BY <1>2
  <2> DEFINE then(s) == IF s = {} THEN 0 ELSE f[Picked(s)] + sum[s \ {Picked(s)}]
             more == [s \in UpToSize(D, n + 1) |-> then(s)]
  <2>2. ASSUME NEW s \in UpToSize(D, n + 1), s # {}
        PROVE  /\ Picked(s) \in s /\ Picked(s) \in D
               /\ s \ {Picked(s)} \in UpToSize(D, n)
               /\ s \ {Picked(s)} \in UpToSize(D, n + 1)
    <3>1. Picked(s) \in s /\ s \in SUBSET D /\ Cardinality(s) <= n + 1
      BY <2>2 DEF Picked, UpToSize
    <3>2. /\ s \ {Picked(s)} \in SUBSET D /\ Cardinality(s) \in Nat
          /\ Cardinality(s \ {Picked(s)}) = Cardinality(s) - 1
      BY <3>1, Smaller
    <3> QED BY <3>1, <3>2 DEF UpToSize
  <2>3. ASSUME NEW s \in UpToSize(D, n + 1) PROVE then(s) \in Int
    BY <2>1, <2>2 DEF Accumulates
  <2>4. \A s \in UpToSize(D, n) : s \in UpToSize(D, n + 1) /\ more[s] = sum[s]
    <3> SUFFICES ASSUME NEW s \in UpToSize(D, n)
                 PROVE  s \in UpToSize(D, n + 1) /\ more[s] = sum[s]
      OBVIOUS
    <3>1. IsFiniteSet(s)
      BY FS_Subset DEF UpToSize
    <3>2. s \in UpToSize(D, n + 1)
      BY <3>1, FS_CardinalityType DEF UpToSize
    <3> QED BY <2>1, <3>2 DEF Accumulates
  <2>5. ASSUME NEW s \in UpToSize(D, n + 1)
        PROVE  more[s] = IF s = {} THEN 0
                         ELSE f[Picked(s)] + more[s \ {Picked(s)}]
    <3>1. more[s] = then(s)
      OBVIOUS
    <3>2. s # {} => more[s \ {Picked(s)}] = sum[s \ {Picked(s)}]
      BY <2>2, <2>4
    <3> HIDE DEF more
    <3> QED BY <3>1, <3>2
  <2>6. more \in [UpToSize(D, n + 1) -> Int]
    <3> HIDE DEF then
    <3> QED BY <2>3
  <2>7. Accumulates(f, D, n + 1, more)
    <3> HIDE DEF more
    <3> QED BY <2>5, <2>6 DEF Accumulates
  <2> QED BY <2>7
<1> HIDE DEF S
<1>3. N \in S
  BY <1>1, <1>2, Induction
<1> QED BY <1>3 DEF S

\* What a table of the sums of f over the subsets of D satisfies: an element
\* may be taken out in any order.
Sums(f, D, sum) ==
    /\ sum \in [SUBSET D -> Int]
    /\ sum[{}] = 0
    /\ \A s \in SUBSET D : \A x \in s : sum[s] = f[x] + sum[s \ {x}]

\* The recursion takes a fixed element out first; any other will do.
LEMMA OrderIsFree ==
    ASSUME NEW D, IsFiniteSet(D), NEW f \in [D -> Int],
           NEW sum \in [SUBSET D -> Int], sum[{}] = 0,
           \A s \in SUBSET D : s # {} => sum[s] = f[Picked(s)] + sum[s \ {Picked(s)}]
    PROVE  Sums(f, D, sum)
<1> DEFINE free(s) == \A x \in s : sum[s] = f[x] + sum[s \ {x}]
           S == {n \in Nat : \A s \in SUBSET D : Cardinality(s) = n => free(s)}
<1>1. 0 \in S
  <2> SUFFICES ASSUME NEW s \in SUBSET D, Cardinality(s) = 0, NEW x \in s
               PROVE  FALSE
    OBVIOUS
  <2> QED BY Smaller
<1>2. ASSUME NEW n \in Nat, n \in S PROVE n + 1 \in S
  <2> SUFFICES ASSUME NEW s \in SUBSET D, Cardinality(s) = n + 1, NEW x \in s
               PROVE  sum[s] = f[x] + sum[s \ {x}]
    OBVIOUS
  <2> DEFINE c == Picked(s)
  <2>1. c \in s /\ sum[s] = f[c] + sum[s \ {c}]
    BY DEF Picked
  <2> HIDE DEF c
  <2>2. CASE x = c
    BY <2>1, <2>2
  <2>3. CASE x # c
    <3>1. /\ s \ {c} \in SUBSET D /\ Cardinality(s \ {c}) = n
          /\ s \ {x} \in SUBSET D /\ Cardinality(s \ {x}) = n
      BY <2>1, Smaller
    <3>2. free(s \ {c}) /\ free(s \ {x})
      BY <1>2, <3>1
    <3>3. x \in s \ {c} /\ c \in s \ {x}
      BY <2>1, <2>3
    <3>4. (s \ {c}) \ {x} = (s \ {x}) \ {c}
      OBVIOUS
    <3>5. sum[s \ {c}] = f[x] + sum[(s \ {c}) \ {x}]
      BY <3>2, <3>3
    <3>6. sum[s \ {x}] = f[c] + sum[(s \ {c}) \ {x}]
      BY <3>2, <3>3, <3>4
    <3>7. f[x] \in Int /\ f[c] \in Int /\ sum[(s \ {c}) \ {x}] \in Int
      BY <2>1
    <3> QED BY <2>1, <3>5, <3>6, <3>7
  <2> QED BY <2>2, <2>3
<1> HIDE DEF S
<1>3. \A s \in SUBSET D : Cardinality(s) \in S
  <2>1. \A s \in SUBSET D : Cardinality(s) \in Nat
    BY FS_Subset, FS_CardinalityType
  <2> QED BY <1>1, <1>2, <2>1, Induction
<1>4. \A s \in SUBSET D : free(s)
  BY <1>3 DEF S
<1> QED BY <1>4 DEF Sums

\* SumFunction is such a table's entry for the whole domain.
LEMMA SumIsTabled ==
    ASSUME NEW D, IsFiniteSet(D), NEW f \in [D -> Int]
    PROVE  \E sum : Sums(f, D, sum) /\ SumFunction(f) = sum[D]
<1> DEFINE N == Cardinality(D)
           iter == CHOOSE sum : sum = [s \in SUBSET D |->
                     IF s = {} THEN 0 ELSE f[Picked(s)] + sum[s \ {Picked(s)}]]
<1>1. SumFunction(f) = iter[D]
  BY DEF SumFunction, SumFunctionOnSet, FoldFunction, FoldFunctionOnSet,
         MapThenFoldSet, Picked
<1>2. N \in Nat
  BY FS_CardinalityType
<1>3. UpToSize(D, N) = SUBSET D
  BY FS_Subset DEF UpToSize
<1>4. PICK sum : Accumulates(f, D, N, sum)
  BY <1>2, SumsExist
<1> DEFINE then(table, s) ==
             IF s = {} THEN 0 ELSE f[Picked(s)] + table[s \ {Picked(s)}]
<1>5. /\ sum \in [SUBSET D -> Int]
      /\ \A s \in SUBSET D : sum[s] = then(sum, s)
  BY <1>3, <1>4 DEF Accumulates
<1>6. sum = [s \in SUBSET D |-> then(sum, s)]
  <2>1. sum = [s \in SUBSET D |-> sum[s]]
    BY <1>5
  <2> HIDE DEF then
  <2> QED BY <1>5, <2>1
<1>7. iter = [s \in SUBSET D |-> then(iter, s)]
  BY <1>6
<1> HIDE DEF iter
<1>8. \A s \in SUBSET D : iter[s] = then(iter, s)
  BY <1>7
<1> DEFINE S == {n \in Nat : \A s \in SUBSET D : Cardinality(s) = n => iter[s] = sum[s]}
<1>9. 0 \in S
  <2> SUFFICES ASSUME NEW s \in SUBSET D, Cardinality(s) = 0
               PROVE  iter[s] = sum[s]
    OBVIOUS
  <2>1. s = {}
    BY Smaller
  <2> QED BY <1>5, <1>8, <2>1
<1>10. ASSUME NEW n \in Nat, n \in S PROVE n + 1 \in S
  <2> SUFFICES ASSUME NEW s \in SUBSET D, Cardinality(s) = n + 1
               PROVE  iter[s] = sum[s]
    OBVIOUS
  <2>1. s # {}
    BY FS_EmptySet
  <2>2. Picked(s) \in s
    BY <2>1 DEF Picked
  <2>3. s \ {Picked(s)} \in SUBSET D /\ Cardinality(s \ {Picked(s)}) = n
    BY <2>2, Smaller
  <2>4. iter[s \ {Picked(s)}] = sum[s \ {Picked(s)}]
    BY <1>10, <2>3
  <2> QED BY <1>5, <1>8, <2>1, <2>4
<1> HIDE DEF S
<1>11. N \in S
  BY <1>2, <1>9, <1>10, Induction
<1>12. iter[D] = sum[D]
  BY <1>11 DEF S
<1>13. Sums(f, D, sum)
  <2>1. sum[{}] = 0
    BY <1>5
  <2>2. \A s \in SUBSET D : s # {} => sum[s] = f[Picked(s)] + sum[s \ {Picked(s)}]
    BY <1>5
  <2> HIDE DEF then
  <2>3. sum \in [SUBSET D -> Int]
    BY <1>5
  <2> QED BY <2>1, <2>2, <2>3, OrderIsFree
<1> QED BY <1>1, <1>12, <1>13

\* Two functions that agree on a set have the same sum over it.
LEMMA SumsAgree ==
    ASSUME NEW D, IsFiniteSet(D), NEW f, NEW sum, Sums(f, D, sum),
           NEW E, NEW g, NEW other, Sums(g, E, other),
           NEW s \in SUBSET D, s \in SUBSET E, \A x \in s : f[x] = g[x]
    PROVE  sum[s] = other[s]
<1> DEFINE S == {n \in Nat : \A t \in SUBSET s : Cardinality(t) = n => sum[t] = other[t]}
<1>1. 0 \in S
  <2> SUFFICES ASSUME NEW t \in SUBSET s, Cardinality(t) = 0
               PROVE  sum[t] = other[t]
    OBVIOUS
  <2>1. t = {}
    BY Smaller
  <2> QED BY <2>1 DEF Sums
<1>2. ASSUME NEW n \in Nat, n \in S PROVE n + 1 \in S
  <2> SUFFICES ASSUME NEW t \in SUBSET s, Cardinality(t) = n + 1
               PROVE  sum[t] = other[t]
    OBVIOUS
  <2>1. t # {}
    BY FS_EmptySet
  <2>2. PICK x \in t : TRUE
    BY <2>1
  <2>3. t \ {x} \in SUBSET s /\ Cardinality(t \ {x}) = n
    BY Smaller
  <2>4. sum[t \ {x}] = other[t \ {x}]
    BY <1>2, <2>3
  <2> QED BY <2>4 DEF Sums
<1> HIDE DEF S
<1>3. Cardinality(s) \in S
  <2>1. Cardinality(s) \in Nat
    BY FS_Subset, FS_CardinalityType
  <2> QED BY <1>1, <1>2, <2>1, Induction
<1> QED BY <1>3 DEF S

\* The sum of nothing.
LEMMA SumOfNone ==
    ASSUME NEW f, DOMAIN f = {}, f \in [{} -> Int]
    PROVE  SumFunction(f) = 0
<1>1. PICK sum : Sums(f, {}, sum) /\ SumFunction(f) = sum[{}]
  BY FS_EmptySet, SumIsTabled
<1> QED BY <1>1 DEF Sums

\* g is f with one more member.
HasOneMore(f, D, x, g) ==
    /\ IsFiniteSet(D) /\ f \in [D -> Int]
    /\ x \notin D /\ g \in [D \cup {x} -> Int] /\ \A d \in D : g[d] = f[d]

\* A new member adds its value.
LEMMA SumWithMore ==
    ASSUME NEW D, NEW f, NEW x, NEW g, HasOneMore(f, D, x, g)
    PROVE  SumFunction(g) = SumFunction(f) + g[x]
<1> USE DEF HasOneMore
<1> DEFINE E == D \cup {x}
<1>1. IsFiniteSet(E)
  BY FS_AddElement
<1>2. PICK sum : Sums(f, D, sum) /\ SumFunction(f) = sum[D]
  BY SumIsTabled
<1>3. PICK other : Sums(g, E, other) /\ SumFunction(g) = other[E]
  BY <1>1, SumIsTabled
<1>4. E \ {x} = D /\ x \in E /\ D \in SUBSET E /\ g[x] \in Int
  OBVIOUS
<1>5. other[E] = g[x] + other[D]
  <2> HIDE DEF E
  <2> QED BY <1>3, <1>4 DEF Sums
<1>6. sum[D] = other[D]
  <2>1. \A d \in D : f[d] = g[d]
    OBVIOUS
  <2> HIDE DEF E
  <2> QED BY <1>2, <1>3, <1>4, <2>1, SumsAgree
<1>7. sum[D] \in Int
  BY <1>2 DEF Sums
<1> QED BY <1>2, <1>3, <1>4, <1>5, <1>6, <1>7

\* Sums are integers; sums of naturals are naturals, and grow with the domain.
LEMMA SumsGrow ==
    ASSUME NEW D, IsFiniteSet(D), NEW f \in [D -> Nat], NEW s \in SUBSET D,
           NEW g \in [s -> Nat], \A x \in s : g[x] = f[x]
    PROVE  /\ SumFunction(f) \in Nat /\ SumFunction(g) \in Nat
           /\ SumFunction(g) <= SumFunction(f)
<1>1. IsFiniteSet(s)
  BY FS_Subset
<1>2. f \in [D -> Int] /\ g \in [s -> Int]
  OBVIOUS
<1>3. PICK sum : Sums(f, D, sum) /\ SumFunction(f) = sum[D]
  BY <1>2, SumIsTabled
<1>4. PICK other : Sums(g, s, other) /\ SumFunction(g) = other[s]
  BY <1>1, <1>2, SumIsTabled
<1>5. sum[s] = other[s]
  BY <1>3, <1>4, SumsAgree
<1> DEFINE S == {n \in Nat : \A t, u \in SUBSET D :
                   t \subseteq u /\ Cardinality(u) = n =>
                     sum[t] \in Nat /\ sum[u] \in Nat /\ sum[t] <= sum[u]}
<1>6. 0 \in S
  <2> SUFFICES ASSUME NEW t \in SUBSET D, NEW u \in SUBSET D, t \subseteq u,
                      Cardinality(u) = 0
               PROVE  sum[t] \in Nat /\ sum[u] \in Nat /\ sum[t] <= sum[u]
    OBVIOUS
  <2>1. u = {} /\ t = {}
    BY SizeTellsEmpty
  <2> QED BY <1>3, <2>1 DEF Sums
<1>7. ASSUME NEW n \in Nat, n \in S PROVE n + 1 \in S
  <2> SUFFICES ASSUME NEW t \in SUBSET D, NEW u \in SUBSET D, t \subseteq u,
                      Cardinality(u) = n + 1
               PROVE  sum[t] \in Nat /\ sum[u] \in Nat /\ sum[t] <= sum[u]
    OBVIOUS
  <2>0. \A v \in SUBSET D : Cardinality(v) = n => sum[v] \in Nat
    BY <1>7
  <2>1. \A x \in u : /\ u \ {x} \in SUBSET D /\ Cardinality(u \ {x}) = n
                     /\ sum[u] = f[x] + sum[u \ {x}] /\ f[x] \in Nat
    BY <1>3, Smaller DEF Sums
  <2>2. u # {}
    BY SizeTellsEmpty
  <2>3. sum[u] \in Nat
    <3>1. PICK x \in u : TRUE
      BY <2>2
    <3>2. sum[u \ {x}] \in Nat
      BY <2>0, <2>1
    <3>3. sum[u] = f[x] + sum[u \ {x}] /\ f[x] \in Nat
      BY <2>1
    <3> QED BY <3>2, <3>3
  <2>4. CASE t = u
    BY <2>3, <2>4
  <2>5. CASE t # u
    <3>1. PICK x \in u : x \notin t
      BY <2>5
    <3>2. t \subseteq u \ {x}
      BY <3>1
    <3>3. /\ sum[t] \in Nat /\ sum[u \ {x}] \in Nat
          /\ sum[t] <= sum[u \ {x}]
      BY <1>7, <2>1, <3>2
    <3>4. sum[u] = f[x] + sum[u \ {x}] /\ f[x] \in Nat
      BY <2>1
    <3> QED BY <2>3, <3>3, <3>4
  <2> QED BY <2>4, <2>5
<1> HIDE DEF S
<1>8. Cardinality(D) \in S
  BY <1>6, <1>7, FS_CardinalityType, Induction
<1>9. D \in SUBSET D /\ s \subseteq D
  OBVIOUS
<1>10. sum[s] \in Nat /\ sum[D] \in Nat /\ sum[s] <= sum[D]
  BY <1>8, <1>9 DEF S
<1> QED BY <1>3, <1>4, <1>5, <1>10

\* The sum of a list with one more member.
LEMMA SumOfAppended ==
    ASSUME NEW list \in Seq(Int), NEW e \in Int
    PROVE  SumFunction(Append(list, e)) = SumFunction(list) + e
<1> DEFINE n == Len(list)
           places == 1..n
           longer == Append(list, e)
<1>1. n \in Nat /\ list \in [places -> Int]
  OBVIOUS
<1>2. IsFiniteSet(places)
  BY <1>1, FS_Interval
<1>3. n + 1 \notin places
  BY <1>1
<1>4. places \cup {n + 1} = 1..(n + 1)
  <2>1. \A m \in Nat : 1..m \cup {m + 1} = 1..(m + 1)
    OBVIOUS
  <2> QED BY <1>1, <2>1
<1>5. longer \in Seq(Int) /\ Len(longer) = n + 1
  OBVIOUS
<1>6. longer \in [1..(n + 1) -> Int]
  <2> HIDE DEF n, longer
  <2> QED BY <1>1, <1>5
<1>7. (\A d \in places : longer[d] = list[d]) /\ longer[n + 1] = e
  OBVIOUS
<1> HIDE DEF n, places, longer
<1>8. longer \in [places \cup {n + 1} -> Int]
  BY <1>4, <1>6
<1>9. SumFunction(longer) = SumFunction(list) + longer[n + 1]
  <2> DEFINE x == n + 1
  <2>1. x \notin places /\ longer \in [places \cup {x} -> Int]
    BY <1>3, <1>8
  <2>2. list \in [places -> Int] /\ \A d \in places : longer[d] = list[d]
    BY <1>1, <1>7
  <2> HIDE DEF x
  <2>3. HasOneMore(list, places, x, longer)
    BY <1>2, <2>1, <2>2 DEF HasOneMore
  <2>4. SumFunction(longer) = SumFunction(list) + longer[x]
    BY <2>3, SumWithMore
  <2> QED BY <2>4 DEF x
<1> QED BY <1>7, <1>9 DEF longer
=============================================================================
