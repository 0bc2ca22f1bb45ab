-------------------------- MODULE ProvenanceProofs --------------------------
(***************************************************************************)
(* The provenance graph's theorems, for every number of events, origins    *)
(* and alterations, whatever order events are appended in.                 *)
(***************************************************************************)
EXTENDS Provenance, RulesProofs

-----------------------------------------------------------------------------
(* The inductive invariant *)

\* An event has exactly these members.
Shaped(e) ==
    e = [id |-> e.id, parents |-> e.parents, content |-> e.content,
         policy |-> e.policy, timestamp |-> e.timestamp,
         signature |-> e.signature]

\* Every event was made by new_event of some graph, under the next fresh id,
\* and names as parents events made before it.
BuiltAreMinted ==
    /\ Sequence(built)
    /\ \A i \in DOMAIN built :
         /\ \E origin \in Origins :
              built[i] = MintedEvent(origin[1], origin[2], i, built[i].parents,
                                     built[i].content, built[i].timestamp)
         /\ built[i].content \in Contents
         /\ built[i].parents \in ParentLists
         /\ ToSet(built[i].parents) \subseteq 1..(i - 1)
         /\ built[i].timestamp \in Int

\* A stored event is the one that was built under its id, up to its content.
IsStored(e) ==
    /\ Shaped(e)
    /\ e.id \in DOMAIN built
    /\ e.parents = built[e.id].parents
    /\ e.policy = built[e.id].policy
    /\ e.timestamp = built[e.id].timestamp
    /\ e.signature = built[e.id].signature
    /\ e.content \in {built[e.id].content, Altered}

EventsAreStored ==
    /\ Sequence(events)
    /\ \A i \in DOMAIN events : IsStored(events[i])

GraphInv ==
    /\ clock \in Int
    /\ BuiltAreMinted
    /\ EventsAreStored
    /\ DOMAIN children = Ids(events)
    /\ ParentsPrecede

-----------------------------------------------------------------------------
(* Events *)

\* A minted event says what it was made of.
LEMMA MintedMembers ==
    ASSUME NEW key, NEW policy, NEW id, NEW parents, NEW content, NEW timestamp
    PROVE  LET e == MintedEvent(key, policy, id, parents, content, timestamp)
           IN  /\ Shaped(e)
               /\ e.id = id /\ e.parents = parents /\ e.content = content
               /\ e.policy = policy /\ e.timestamp = timestamp
               /\ e.signature = <<key, <<id, parents, content, policy, timestamp>>>>
BY DEF MintedEvent, Shaped, Sign, Canonical

\* Altering what an event says leaves its other members alone.
LEMMA AlteredMembers ==
    ASSUME NEW e, Shaped(e), NEW content
    PROVE  LET a == [e EXCEPT !.content = content]
           IN  /\ Shaped(a)
               /\ a.id = e.id /\ a.parents = e.parents /\ a.content = content
               /\ a.policy = e.policy /\ a.timestamp = e.timestamp
               /\ a.signature = e.signature
<1>1. [e EXCEPT !.content = content] =
          [id |-> e.id, parents |-> e.parents, content |-> content,
           policy |-> e.policy, timestamp |-> e.timestamp,
           signature |-> e.signature]
  BY DEF Shaped
<1> QED BY <1>1 DEF Shaped

-----------------------------------------------------------------------------
(* Each action *)

\* Appending changes the graph at its end.
LEMMA AppendedGraph ==
    ASSUME Sequence(events), NEW event, AppendEvent(event)
    PROVE  /\ Sequence(events')
           /\ DOMAIN events = 1..Len(events) /\ Len(events) \in Nat
           /\ DOMAIN events' = 1..(Len(events) + 1)
           /\ \A i \in 1..Len(events) : events'[i] = events[i]
           /\ events'[Len(events) + 1] = event
           /\ Ids(events') = Ids(events) \cup {event.id}
<1>1. events' = Append(events, event)
  BY DEF AppendEvent
<1>2. /\ Sequence(events')
      /\ DOMAIN events = 1..Len(events) /\ Len(events) \in Nat
      /\ DOMAIN events' = 1..(Len(events) + 1)
      /\ \A i \in 1..Len(events) : events'[i] = events[i]
      /\ events'[Len(events) + 1] = event
  BY <1>1, Appended
<1>3. Ids(events') = Ids(events) \cup {event.id}
  BY <1>2 DEF Ids
<1> QED BY <1>2, <1>3

\* Altering changes what one event says, and nothing else.
LEMMA AlteredGraph ==
    ASSUME EventsAreStored, NEW i \in DOMAIN events, Alter(i)
    PROVE  /\ Sequence(events')
           /\ DOMAIN events' = DOMAIN events
           /\ \A j \in DOMAIN events :
                /\ Shaped(events'[j])
                /\ events'[j].id = events[j].id
                /\ events'[j].parents = events[j].parents
                /\ events'[j].policy = events[j].policy
                /\ events'[j].timestamp = events[j].timestamp
                /\ events'[j].signature = events[j].signature
                /\ events'[j].content \in {events[j].content, Altered}
           /\ Ids(events') = Ids(events)
<1>1. Sequence(events)
  BY DEF EventsAreStored
<1>2. events' = [events EXCEPT ![i] = [events[i] EXCEPT !.content = Altered]]
  BY DEF Alter
<1> DEFINE a == [events[i] EXCEPT !.content = Altered]
<1>3. Shaped(events[i])
  BY DEF EventsAreStored, IsStored
<1>4. /\ Shaped(a)
      /\ a.id = events[i].id /\ a.parents = events[i].parents
      /\ a.policy = events[i].policy /\ a.timestamp = events[i].timestamp
      /\ a.signature = events[i].signature /\ a.content = Altered
  BY <1>3, AlteredMembers
<1>5. /\ Sequence(events')
      /\ DOMAIN events' = DOMAIN events
      /\ events'[i] = a
      /\ \A j \in DOMAIN events : j # i => events'[j] = events[j]
  <2> HIDE DEF a
  <2>1. events' = [events EXCEPT ![i] = a]
    BY <1>2 DEF a
  <2> QED BY <1>1, <2>1, Replaced
<1>6. \A j \in DOMAIN events : Shaped(events[j])
  BY DEF EventsAreStored, IsStored
<1> HIDE DEF a
<1>7. Ids(events') = Ids(events)
  BY <1>4, <1>5 DEF Ids
<1> QED BY <1>4, <1>5, <1>6, <1>7

\* The guard and the fresh id keep parents before children.
LEMMA ParentsStayBefore ==
    ASSUME GraphInv, [Next]_vars
    PROVE  ParentsPrecede'
<1>1. ASSUME NEW k \in DOMAIN built, AppendEvent(built[k])
      PROVE  ParentsPrecede'
  <2> DEFINE event == built[k]
  <2>1. Sequence(events) /\ ParentsPrecede
    BY DEF GraphInv, EventsAreStored
  <2>2. /\ DOMAIN events = 1..Len(events) /\ Len(events) \in Nat
        /\ DOMAIN events' = 1..(Len(events) + 1)
        /\ \A i \in 1..Len(events) : events'[i] = events[i]
        /\ events'[Len(events) + 1] = event
    BY <1>1, <2>1, AppendedGraph
  <2>3. event.id \notin Ids(events) /\ ToSet(event.parents) \subseteq Ids(events)
    BY <1>1 DEF AppendEvent, CanAppend
  <2> HIDE DEF event
  <2>4. \A i, j \in DOMAIN events' : events'[i].id = events'[j].id => i = j
    BY <2>1, <2>2, <2>3 DEF ParentsPrecede, Ids
  <2>5. ASSUME NEW i \in DOMAIN events'
        PROVE  ToSet(events'[i].parents) \subseteq {events'[j].id : j \in 1..(i - 1)}
    <3>1. {events'[j].id : j \in 1..(i - 1)} = {events[j].id : j \in 1..(i - 1)}
      BY <2>2
    <3>2. CASE i = Len(events) + 1
      BY <2>2, <2>3, <3>1, <3>2 DEF Ids
    <3>3. CASE i \in 1..Len(events)
      BY <2>1, <2>2, <3>1, <3>3 DEF ParentsPrecede
    <3> QED BY <2>2, <3>2, <3>3
  <2> QED BY <2>4, <2>5 DEF ParentsPrecede
<1>2. ASSUME NEW k \in DOMAIN events, Alter(k)
      PROVE  ParentsPrecede'
  <2>1. EventsAreStored /\ ParentsPrecede
    BY DEF GraphInv
  <2>2. /\ DOMAIN events' = DOMAIN events
        /\ \A j \in DOMAIN events : /\ events'[j].id = events[j].id
                                    /\ events'[j].parents = events[j].parents
    BY <1>2, <2>1, AlteredGraph
  <2>3. DOMAIN events = 1..Len(events) /\ Len(events) \in Nat
    BY <2>1 DEF EventsAreStored, Sequence
  <2>4. ASSUME NEW i \in DOMAIN events
        PROVE  {events'[j].id : j \in 1..(i - 1)} = {events[j].id : j \in 1..(i - 1)}
    BY <2>2, <2>3
  <2> QED BY <2>1, <2>2, <2>4 DEF ParentsPrecede
<1>3. ASSUME UNCHANGED events
      PROVE  ParentsPrecede'
  BY <1>3 DEF ParentsPrecede, GraphInv
<1> QED BY <1>1, <1>2, <1>3 DEF Next, NewEvent, vars

\* new_event makes a fresh event of earlier parents.
LEMMA MintingKeepsBuilt ==
    ASSUME BuiltAreMinted, clock \in Int,
           NEW origin \in Origins, NEW content \in Contents,
           NEW parents \in ParentLists, NEW step \in ClockSteps,
           NewEvent(origin, content, parents, step)
    PROVE  /\ BuiltAreMinted' /\ clock' \in Int
           /\ DOMAIN built \subseteq DOMAIN built'
           /\ \A i \in DOMAIN built : built'[i] = built[i]
<1> DEFINE e == MintedEvent(origin[1], origin[2], Len(built) + 1, parents,
                            content, clock')
<1>1. clock' \in Int
  BY StepAssumption DEF NewEvent
<1>2. built' = Append(built, e) /\ ToSet(parents) \subseteq DOMAIN built
  BY DEF NewEvent
<1>3. /\ e.id = Len(built) + 1 /\ e.parents = parents /\ e.content = content
      /\ e.timestamp = clock'
  BY MintedMembers
<1>4. e = MintedEvent(origin[1], origin[2], Len(built) + 1, e.parents, e.content,
                      e.timestamp)
  BY <1>3
<1> HIDE DEF e
<1>5. Sequence(built)
  BY DEF BuiltAreMinted
<1>6. /\ Sequence(built') /\ Len(built) \in Nat
      /\ DOMAIN built = 1..Len(built) /\ DOMAIN built' = 1..(Len(built) + 1)
      /\ \A i \in 1..Len(built) : built'[i] = built[i]
      /\ built'[Len(built) + 1] = e
  BY <1>2, <1>5, Appended
<1>7. ASSUME NEW i \in DOMAIN built'
      PROVE  /\ \E o \in Origins :
                  built'[i] = MintedEvent(o[1], o[2], i, built'[i].parents,
                                          built'[i].content, built'[i].timestamp)
             /\ built'[i].content \in Contents
             /\ built'[i].parents \in ParentLists
             /\ ToSet(built'[i].parents) \subseteq 1..(i - 1)
             /\ built'[i].timestamp \in Int
  <2>1. CASE i \in 1..Len(built)
    BY <1>6, <2>1 DEF BuiltAreMinted
  <2>2. CASE i = Len(built) + 1
    BY <1>1, <1>2, <1>3, <1>4, <1>6, <2>2
  <2> QED BY <1>6, <2>1, <2>2
<1>8. ParentLists' = ParentLists
  BY DEF ParentLists, EventIds
<1>9. BuiltAreMinted'
  BY <1>6, <1>7, <1>8 DEF BuiltAreMinted
<1> QED BY <1>1, <1>6, <1>9

\* What is stored stays what was built.
LEMMA StoredStayAsBuilt ==
    ASSUME GraphInv, [Next]_vars
    PROVE  EventsAreStored'
<1> USE DEF GraphInv
<1>1. ASSUME NEW origin \in Origins, NEW content \in Contents,
             NEW parents \in ParentLists, NEW step \in ClockSteps,
             NewEvent(origin, content, parents, step)
      PROVE  EventsAreStored'
  <2>1. /\ DOMAIN built \subseteq DOMAIN built'
        /\ \A i \in DOMAIN built : built'[i] = built[i]
    BY <1>1, MintingKeepsBuilt
  <2>2. events' = events
    BY <1>1 DEF NewEvent
  <2>3. ASSUME NEW i \in DOMAIN events PROVE IsStored(events[i])'
    <3>1. IsStored(events[i])
      BY DEF EventsAreStored
    <3> QED BY <2>1, <2>2, <3>1 DEF IsStored, Shaped
  <2> QED BY <2>2, <2>3 DEF EventsAreStored
<1>2. ASSUME NEW k \in DOMAIN built, AppendEvent(built[k])
      PROVE  EventsAreStored'
  <2>1. Sequence(events)
    BY DEF EventsAreStored
  <2>2. /\ Sequence(events')
        /\ DOMAIN events = 1..Len(events)
        /\ DOMAIN events' = 1..(Len(events) + 1)
        /\ \A i \in 1..Len(events) : events'[i] = events[i]
        /\ events'[Len(events) + 1] = built[k]
    BY <1>2, <2>1, AppendedGraph
  <2>3. built' = built
    BY <1>2 DEF AppendEvent
  <2>4. Shaped(built[k]) /\ built[k].id = k
    BY MintedMembers DEF BuiltAreMinted
  <2>5. IsStored(built[k])
    BY <2>4 DEF IsStored
  <2>6. ASSUME NEW i \in DOMAIN events' PROVE IsStored(events[i])'
    <3>1. IsStored(events'[i])
      BY <2>2, <2>5 DEF EventsAreStored
    <3> QED BY <2>3, <3>1 DEF IsStored
  <2> QED BY <2>2, <2>6 DEF EventsAreStored
<1>3. ASSUME NEW k \in DOMAIN events, Alter(k)
      PROVE  EventsAreStored'
  <2>1. /\ Sequence(events')
        /\ DOMAIN events' = DOMAIN events
        /\ \A j \in DOMAIN events :
             /\ Shaped(events'[j])
             /\ events'[j].id = events[j].id
             /\ events'[j].parents = events[j].parents
             /\ events'[j].policy = events[j].policy
             /\ events'[j].timestamp = events[j].timestamp
             /\ events'[j].signature = events[j].signature
             /\ events'[j].content \in {events[j].content, Altered}
    BY <1>3, AlteredGraph
  <2>2. built' = built
    BY <1>3 DEF Alter
  <2>3. ASSUME NEW i \in DOMAIN events PROVE IsStored(events[i])'
    <3>1. IsStored(events[i])
      BY DEF EventsAreStored
    <3> QED BY <2>1, <2>2, <3>1 DEF IsStored
  <2> QED BY <2>1, <2>3 DEF EventsAreStored
<1>4. ASSUME UNCHANGED vars
      PROVE  EventsAreStored'
  BY <1>4 DEF EventsAreStored, IsStored, vars
<1> QED BY <1>1, <1>2, <1>3, <1>4 DEF Next

\* The index has an entry for each event, from its appending on.
LEMMA EveryEventIsIndexed ==
    ASSUME GraphInv, [Next]_vars
    PROVE  (DOMAIN children = Ids(events))'
<1> USE DEF GraphInv
<1>1. ASSUME NEW k \in DOMAIN built, AppendEvent(built[k])
      PROVE  (DOMAIN children = Ids(events))'
  <2>1. Ids(events') = Ids(events) \cup {built[k].id}
    BY <1>1, AppendedGraph DEF EventsAreStored
  <2> QED BY <1>1, <2>1 DEF AppendEvent, ChildrenAfter
<1>2. ASSUME NEW k \in DOMAIN events, Alter(k)
      PROVE  (DOMAIN children = Ids(events))'
  <2>1. Ids(events') = Ids(events) /\ children' = children
    BY <1>2, AlteredGraph DEF Alter
  <2> QED BY <2>1
<1> QED BY <1>1, <1>2 DEF Next, NewEvent, vars, Ids

LEMMA GraphInvHolds == Spec => []GraphInv
<1>1. Init => GraphInv
  <2> SUFFICES ASSUME Init PROVE GraphInv
    OBVIOUS
  <2>1. Sequence(<<>>)
    BY DEF Sequence
  <2>2. clock = 0 /\ built = <<>> /\ events = <<>> /\ DOMAIN children = {}
    BY DEF Init
  <2> QED BY <2>1, <2>2 DEF GraphInv, BuiltAreMinted, EventsAreStored,
                            ParentsPrecede, Ids
<1>2. GraphInv /\ [Next]_vars => GraphInv'
  <2> SUFFICES ASSUME GraphInv, [Next]_vars PROVE GraphInv'
    OBVIOUS
  <2>1. BuiltAreMinted' /\ clock' \in Int
    <3>1. ASSUME UNCHANGED <<clock, built>>
          PROVE  BuiltAreMinted' /\ clock' \in Int
      BY <3>1 DEF GraphInv, BuiltAreMinted, ParentLists, EventIds
    <3> QED BY <3>1, MintingKeepsBuilt
            DEF GraphInv, Next, AppendEvent, Alter, vars
  <2> QED BY <2>1, StoredStayAsBuilt, EveryEventIsIndexed, ParentsStayBefore
          DEF GraphInv
<1> QED BY <1>1, <1>2, PTL DEF Spec

-----------------------------------------------------------------------------
(* The theorems *)

\* Every reachable state is well typed: events keep the ids they were made
\* with, only events that were made are stored, and each stored event, and no
\* other, has an entry in the children index.
THEOREM TypeCorrect == Spec => []TypeOK
<1>1. GraphInv => TypeOK
  <2> SUFFICES ASSUME GraphInv PROVE TypeOK
    OBVIOUS
  <2>1. \A i \in DOMAIN built : built[i].id = i
    BY MintedMembers DEF GraphInv, BuiltAreMinted
  <2>2. Ids(events) \subseteq DOMAIN built
    BY DEF GraphInv, EventsAreStored, IsStored, Ids
  <2> QED BY <2>1, <2>2 DEF GraphInv, TypeOK
<1> QED BY <1>1, GraphInvHolds, PTL

\* For every graph and every order of appending: a parent stands before its
\* children, and no event stands twice.
THEOREM CausalityIsAcyclic == Spec => []ParentsPrecede
<1>1. GraphInv => ParentsPrecede
  BY DEF GraphInv
<1> QED BY <1>1, GraphInvHolds, PTL

\* The event found under an id.
LEMMA FoundByItsId ==
    ASSUME ParentsPrecede, NEW i \in DOMAIN events
    PROVE  EventOf(events, events[i].id) = events[i]
BY DEF ParentsPrecede, EventOf

\* A stored event passes verification exactly if this graph minted it and
\* nobody altered it since.
LEMMA VerifiedIsMinted ==
    ASSUME GraphInv, NEW i \in DOMAIN events
    PROVE  VerifyEvent(Key, Policy, events[i]) <=>
             events[i] = MintedEvent(Key, Policy, events[i].id, events[i].parents,
                                     built[events[i].id].content,
                                     events[i].timestamp)
<1> DEFINE e == events[i]
           b == built[e.id]
           said == b.content
<1>1. IsStored(e)
  BY DEF GraphInv, EventsAreStored
<1>2. PICK origin \in Origins :
        b = MintedEvent(origin[1], origin[2], e.id, b.parents, said, b.timestamp)
  BY <1>1 DEF GraphInv, BuiltAreMinted, IsStored
<1>3. said \in Contents
  BY <1>1 DEF GraphInv, BuiltAreMinted, IsStored
<1>4. /\ b.policy = origin[2]
      /\ b.signature = <<origin[1], <<e.id, b.parents, said, origin[2],
                                      b.timestamp>>>>
  BY <1>2, MintedMembers
<1> HIDE DEF said, b, e
<1>5. /\ e.parents = b.parents /\ e.policy = origin[2]
      /\ e.timestamp = b.timestamp
      /\ e.signature = <<origin[1], <<e.id, e.parents, said, origin[2],
                                      e.timestamp>>>>
      /\ e.content \in {said, Altered}
      /\ Shaped(e)
  BY <1>1, <1>4 DEF IsStored, b, said
<1>6. said # Altered
  BY <1>3, AlteredAssumption
<1>7. Sign(Key, e) = <<Key, <<e.id, e.parents, e.content, origin[2], e.timestamp>>>>
  BY <1>5 DEF Sign, Canonical
<1>8. VerifyEvent(Key, Policy, e) <=>
        origin[1] = Key /\ origin[2] = Policy /\ e.content = said
  BY <1>5, <1>7 DEF VerifyEvent
<1> DEFINE minted == MintedEvent(Key, Policy, e.id, e.parents, said, e.timestamp)
<1>9. /\ Shaped(minted)
      /\ minted.id = e.id /\ minted.parents = e.parents /\ minted.content = said
      /\ minted.policy = Policy /\ minted.timestamp = e.timestamp
      /\ minted.signature = <<Key, <<e.id, e.parents, said, Policy, e.timestamp>>>>
  BY MintedMembers
<1> HIDE DEF minted
<1>10. e = minted <=> origin[1] = Key /\ origin[2] = Policy /\ e.content = said
  <2>1. ASSUME e = minted
        PROVE  origin[1] = Key /\ origin[2] = Policy /\ e.content = said
    BY <1>5, <1>9, <2>1
  <2>2. ASSUME origin[1] = Key, origin[2] = Policy, e.content = said
        PROVE  e = minted
    <3>1. e.signature = minted.signature /\ e.policy = minted.policy
      BY <1>5, <1>9, <2>2
    <3> QED BY <1>5, <1>9, <2>2, <3>1 DEF Shaped
  <2> QED BY <2>1, <2>2
<1> QED BY <1>8, <1>10 DEF minted, said, b, e

\* For every key, policy and history of alterations: verify_all reports the
\* stored events that new_event of this graph did not return as they are.
THEOREM VerifyAllIsExact == Spec => []BrokenAreExactlyTheForeign
<1>1. GraphInv => BrokenAreExactlyTheForeign
  <2> SUFFICES ASSUME GraphInv PROVE BrokenAreExactlyTheForeign
    OBVIOUS
  <2> DEFINE Broken(id) ==
               EventOf(events, id) #
                 MintedEvent(Key, Policy, id, EventOf(events, id).parents,
                             built[id].content, EventOf(events, id).timestamp)
  <2>1. ASSUME NEW i \in DOMAIN events
        PROVE  ~ VerifyEvent(Key, Policy, events[i]) <=> Broken(events[i].id)
    BY FoundByItsId, VerifiedIsMinted DEF GraphInv
  <2>2. VerifyAll(Key, Policy, events) = {id \in Ids(events) : Broken(id)}
    <3> HIDE DEF Broken
    <3> QED BY <2>1 DEF VerifyAll, Ids
  <2> QED BY <2>2 DEF BrokenAreExactlyTheForeign
<1> QED BY <1>1, GraphInvHolds, PTL

-----------------------------------------------------------------------------
(* The children index *)

\* An entry holds the ids of the graph's events, each as often as the event
\* names id, in the order of the graph.
Mirrors(entry, graph, id) ==
    /\ Sequence(entry)
    /\ ToSet(entry) \subseteq Ids(graph)
    /\ \A i \in DOMAIN graph :
         Cardinality(Entries(entry, graph[i].id)) =
           Cardinality(Mentions(graph[i], id))
    /\ \A k, l \in DOMAIN entry, i, j \in DOMAIN graph :
         entry[k] = graph[i].id /\ entry[l] = graph[j].id /\ k < l => i <= j

IndexInv == \A id \in Ids(events) : Mirrors(children[id], events, id)

\* What append puts at the end of an entry: one id as often as it is named.
LEMMA EntryAfter ==
    ASSUME NEW s, Sequence(s), NEW e, NEW m \in Nat
    PROVE  LET longer == s \o [k \in 1..m |-> e]
           IN  /\ Sequence(longer) /\ Len(s) \in Nat /\ DOMAIN s = 1..Len(s)
               /\ DOMAIN longer = 1..(Len(s) + m)
               /\ \A k \in 1..Len(s) : longer[k] = s[k]
               /\ \A k \in 1..(Len(s) + m) : k \notin 1..Len(s) => longer[k] = e
<1> DEFINE added == [k \in 1..m |-> e]
           longer == s \o added
<1>1. PICK S : s \in Seq(S)
  BY DEF Sequence
<1>2. s \in Seq(S \cup {e}) /\ added \in Seq(S \cup {e}) /\ Len(added) = m
  BY <1>1
<1>3. \A k \in 1..m : added[k] = e
  OBVIOUS
<1> HIDE DEF added
<1>4. /\ longer \in Seq(S \cup {e}) /\ Len(longer) = Len(s) + m
      /\ \A k \in 1..Len(s) : longer[k] = s[k]
      /\ \A k \in 1..m : longer[Len(s) + k] = e
  <2> DEFINE U == S \cup {e}
  <2> HIDE DEF longer, U
  <2>1. /\ s \o added \in Seq(U) /\ Len(s \o added) = Len(s) + Len(added)
        /\ \A k \in 1..Len(s) : (s \o added)[k] = s[k]
        /\ \A k \in 1..Len(added) : (s \o added)[Len(s) + k] = added[k]
    <3>1. s \in Seq(U) /\ added \in Seq(U)
      BY <1>2 DEF U
    <3> QED BY <3>1, Joined
  <2>2. longer = s \o added
    BY DEF longer
  <2>3. longer \in Seq(S \cup {e}) /\ Len(longer) = Len(s) + m
    BY <1>2, <2>1, <2>2, Zenon DEF U
  <2>4. \A k \in 1..Len(s) : longer[k] = s[k]
    BY <2>1, <2>2, Zenon
  <2>5. ASSUME NEW k \in 1..m PROVE longer[Len(s) + k] = e
    <3>1. k \in 1..Len(added) /\ added[k] = e
      BY <1>2, <1>3
    <3> QED BY <2>1, <2>2, <3>1, Zenon
  <2> QED BY <2>3, <2>4, <2>5
<1> HIDE DEF longer
<1>5. Len(s) \in Nat /\ DOMAIN s = 1..Len(s)
  BY <1>1
<1>6. Sequence(longer) /\ DOMAIN longer = 1..(Len(s) + m)
  BY <1>4 DEF Sequence
<1>7. ASSUME NEW k \in 1..(Len(s) + m), k \notin 1..Len(s)
      PROVE  longer[k] = e
  <2>1. k - Len(s) \in 1..m /\ Len(s) + (k - Len(s)) = k
    BY <1>5, <1>7
  <2> QED BY <1>4, <2>1
<1> QED BY <1>4, <1>5, <1>6, <1>7 DEF longer, added

\* The places of an event in a list are as many as the mentions make them.
LEMMA MentionsCount ==
    ASSUME NEW event, Sequence(event.parents), NEW id
    PROVE  /\ Cardinality(Mentions(event, id)) \in Nat
           /\ id \notin ToSet(event.parents) => Cardinality(Mentions(event, id)) = 0
<1>1. DOMAIN event.parents = 1..Len(event.parents) /\ Len(event.parents) \in Nat
  BY DEF Sequence
<1>2. IsFiniteSet(DOMAIN event.parents)
  BY <1>1, FS_Interval
<1>3. Mentions(event, id) \subseteq DOMAIN event.parents
  BY DEF Mentions
<1>4. id \notin ToSet(event.parents) => Mentions(event, id) = {}
  BY DEF Mentions, ToSet
<1> QED BY <1>2, <1>3, <1>4, FS_Subset, FS_CardinalityType, FS_EmptySet

\* An entry stays exact when an event of a new id is appended.
LEMMA EntryStaysExact ==
    ASSUME NEW entry, NEW graph, NEW after, NEW id, NEW event,
           Sequence(graph), Mirrors(entry, graph, id), Sequence(event.parents),
           after = Append(graph, event), event.id \notin Ids(graph)
    PROVE  Mirrors(entry \o [k \in 1..Cardinality(Mentions(event, id)) |-> event.id],
                   after, id)
<1> DEFINE e == event.id
           m == Cardinality(Mentions(event, id))
           longer == entry \o [k \in 1..m |-> e]
           n == Len(entry)
           last == Len(graph) + 1
<1>1. m \in Nat
  BY MentionsCount
<1> HIDE DEF m, e
<1>2. /\ Sequence(longer) /\ n \in Nat /\ DOMAIN entry = 1..n
      /\ DOMAIN longer = 1..(n + m)
      /\ \A k \in 1..n : longer[k] = entry[k]
      /\ \A k \in 1..(n + m) : k \notin 1..n => longer[k] = e
  BY <1>1, EntryAfter DEF Mirrors
<1>3. /\ Len(graph) \in Nat /\ DOMAIN graph = 1..Len(graph)
      /\ DOMAIN after = 1..last
      /\ \A i \in 1..Len(graph) : after[i] = graph[i]
      /\ after[last] = event
  BY Appended
<1> HIDE DEF longer
<1>4. Ids(after) = Ids(graph) \cup {e}
  <2>1. DOMAIN after = DOMAIN graph \cup {last}
    BY <1>3
  <2> QED BY <1>3, <2>1 DEF Ids, e
<1>5. e \notin Ids(graph)
  BY DEF e
<1>6. \A k \in 1..n : entry[k] \in Ids(graph)
  BY <1>2 DEF Mirrors, ToSet
<1>7. \A k \in 1..n : k \in 1..(n + m)
  BY <1>1, <1>2
<1>8. ToSet(longer) \subseteq Ids(after)
  <2>1. ASSUME NEW k \in 1..(n + m) PROVE longer[k] \in Ids(graph) \cup {e}
    BY <1>2, <1>6
  <2> QED BY <1>2, <1>4, <2>1 DEF ToSet
<1>9. ASSUME NEW i \in DOMAIN after
      PROVE  Cardinality(Entries(longer, after[i].id)) =
               Cardinality(Mentions(after[i], id))
  <2>1. CASE i \in 1..Len(graph)
    <3>1. graph[i].id \in Ids(graph)
      BY <1>3, <2>1 DEF Ids
    <3>2. graph[i].id # e
      BY <1>5, <3>1
    <3>3. Entries(longer, graph[i].id) = Entries(entry, graph[i].id)
      BY <1>2, <1>7, <3>2 DEF Entries
    <3>4. after[i] = graph[i]
      BY <1>3, <2>1
    <3>5. Cardinality(Entries(entry, graph[i].id)) = Cardinality(Mentions(graph[i], id))
      BY <1>3, <2>1 DEF Mirrors
    <3> QED BY <3>3, <3>4, <3>5
  <2>2. CASE i = last
    <3>1. after[i] = event
      BY <1>3, <2>2
    <3>2. Entries(longer, e) = (n + 1)..(n + m)
      <4>1. Entries(longer, e) = {k \in 1..(n + m) : k \notin 1..n}
        BY <1>2, <1>5, <1>6 DEF Entries
      <4>2. {k \in 1..(n + m) : k \notin 1..n} = (n + 1)..(n + m)
        BY <1>1, <1>2
      <4> QED BY <4>1, <4>2
    <3>3. Cardinality((n + 1)..(n + m)) = m
      <4>1. n + 1 \in Int /\ n + m \in Int
        BY <1>1, <1>2
      <4>2. Cardinality((n + 1)..(n + m)) =
              IF n + 1 > n + m THEN 0 ELSE (n + m) - (n + 1) + 1
        BY <4>1, FS_Interval
      <4> QED BY <1>1, <1>2, <4>2
    <3> QED BY <3>1, <3>2, <3>3 DEF e, m
  <2> QED BY <1>3, <2>1, <2>2
<1>10. ASSUME NEW k \in DOMAIN longer, NEW l \in DOMAIN longer,
              NEW i \in DOMAIN after, NEW j \in DOMAIN after,
              longer[k] = after[i].id, longer[l] = after[j].id, k < l
       PROVE  i <= j
  <2>1. CASE j = last
    BY <1>3, <2>1
  <2>2. CASE j \in 1..Len(graph)
    <3>1. after[j].id \in Ids(graph)
      BY <1>3, <2>2 DEF Ids
    <3>2. l \in 1..n
      BY <1>2, <1>5, <1>10, <3>1
    <3>3. k \in 1..n
      BY <1>2, <1>10, <3>2
    <3>4. i \in 1..Len(graph)
      <4>1. after[i].id \in Ids(graph)
        BY <1>2, <1>6, <1>10, <3>3
      <4> QED BY <1>3, <1>5, <4>1 DEF e
    <3>5. entry[k] = graph[i].id /\ entry[l] = graph[j].id
      BY <1>2, <1>3, <1>10, <2>2, <3>2, <3>3, <3>4
    <3>6. \A p, q \in 1..n, x, y \in 1..Len(graph) :
            entry[p] = graph[x].id /\ entry[q] = graph[y].id /\ p < q => x <= y
      BY <1>2, <1>3 DEF Mirrors
    <3> QED BY <1>10, <2>2, <3>2, <3>3, <3>4, <3>5, <3>6
  <2> QED BY <1>3, <2>1, <2>2
<1>11. Mirrors(longer, after, id)
  BY <1>2, <1>8, <1>9, <1>10 DEF Mirrors
<1> QED BY <1>11 DEF longer, m, e

\* Nothing is named after an id before it is appended.
LEMMA EmptyMirrors ==
    ASSUME NEW graph, NEW id,
           \A i \in DOMAIN graph : /\ Sequence(graph[i].parents)
                                   /\ id \notin ToSet(graph[i].parents)
    PROVE  Mirrors(<<>>, graph, id)
<1>1. Sequence(<<>>) /\ DOMAIN <<>> = {} /\ ToSet(<<>>) = {}
  BY DEF Sequence, ToSet
<1>2. \A i \in DOMAIN graph : Cardinality(Mentions(graph[i], id)) = 0
  BY MentionsCount
<1>3. \A e : Entries(<<>>, e) = {}
  BY <1>1 DEF Entries
<1>4. Cardinality({}) = 0
  BY FS_EmptySet
<1> QED BY <1>1, <1>2, <1>3, <1>4 DEF Mirrors

\* The parents of what is built, and of what is stored, are sequences.
LEMMA ParentsAreListed ==
    ASSUME GraphInv
    PROVE  /\ \A i \in DOMAIN built : Sequence(built[i].parents)
           /\ \A i \in DOMAIN events : Sequence(events[i].parents)
<1>1. ASSUME NEW list \in ParentLists PROVE Sequence(list)
  <2>1. PICK n \in 0..MaxParents : list \in [1..n -> EventIds]
    BY DEF ParentLists
  <2>2. n \in Nat
    OBVIOUS
  <2>3. list \in Seq(EventIds)
    BY <2>1, <2>2
  <2> QED BY <2>3 DEF Sequence
<1> QED BY <1>1 DEF GraphInv, EventsAreStored, IsStored, BuiltAreMinted

\* For every order of appending: the index is the parent relation reversed.
THEOREM IndexIsExact == Spec => []ChildrenMirrorParents
<1>1. Init => IndexInv
  BY DEF Init, IndexInv, Ids
<1>2. GraphInv /\ IndexInv /\ [Next]_vars => IndexInv'
  <2> SUFFICES ASSUME GraphInv, IndexInv, [Next]_vars PROVE IndexInv'
    OBVIOUS
  <2>1. ASSUME NEW k \in DOMAIN built, AppendEvent(built[k])
        PROVE  IndexInv'
    <3> DEFINE event == built[k]
    <3>1. /\ Sequence(events')
          /\ DOMAIN events = 1..Len(events) /\ Len(events) \in Nat
          /\ DOMAIN events' = 1..(Len(events) + 1)
          /\ \A i \in 1..Len(events) : events'[i] = events[i]
          /\ events'[Len(events) + 1] = event
          /\ Ids(events') = Ids(events) \cup {event.id}
      BY <2>1, AppendedGraph DEF GraphInv, EventsAreStored
    <3>2. /\ event.id \notin Ids(events) /\ ToSet(event.parents) \subseteq Ids(events)
          /\ children' = ChildrenAfter(children, event)
          /\ DOMAIN children = Ids(events)
      BY <2>1 DEF AppendEvent, CanAppend, GraphInv
    <3>3. ASSUME NEW i \in DOMAIN events
          PROVE  ToSet(events[i].parents) \subseteq Ids(events)
      <4>1. ToSet(events[i].parents) \subseteq {events[j].id : j \in 1..(i - 1)}
        BY DEF GraphInv, ParentsPrecede
      <4> QED BY <3>1, <4>1 DEF Ids
    <3>4. /\ Sequence(event.parents) /\ Sequence(events)
          /\ \A i \in DOMAIN events : Sequence(events[i].parents)
      BY ParentsAreListed DEF GraphInv, EventsAreStored
    <3>5. events' = Append(events, event)
      BY <2>1 DEF AppendEvent
    <3> HIDE DEF event
    <3>6. ASSUME NEW id \in Ids(events')
          PROVE  Mirrors(children'[id], events', id)
      <4> DEFINE before == IF id \in Ids(events) THEN children[id] ELSE <<>>
      <4>1. children'[id] = before \o
              [n \in 1..Cardinality(Mentions(event, id)) |-> event.id]
        BY <3>1, <3>2 DEF ChildrenAfter
      <4>2. Mirrors(before, events, id)
        <5>1. CASE id \in Ids(events)
          BY <5>1 DEF IndexInv
        <5>2. CASE id \notin Ids(events)
          <6>1. \A i \in DOMAIN events : id \notin ToSet(events[i].parents)
            BY <3>3, <5>2
          <6> QED BY <3>4, <5>2, <6>1, EmptyMirrors
        <5> QED BY <5>1, <5>2
      <4> HIDE DEF before
      <4>3. Mirrors(before \o
                      [n \in 1..Cardinality(Mentions(event, id)) |-> event.id],
                    events', id)
        BY <3>2, <3>4, <3>5, <4>2, EntryStaysExact
      <4> QED BY <4>1, <4>3
    <3> QED BY <3>6 DEF IndexInv
  <2>2. ASSUME NEW k \in DOMAIN events, Alter(k)
        PROVE  IndexInv'
    <3>1. /\ DOMAIN events' = DOMAIN events
          /\ \A j \in DOMAIN events : /\ events'[j].id = events[j].id
                                      /\ events'[j].parents = events[j].parents
          /\ Ids(events') = Ids(events)
          /\ children' = children
      BY <2>2, AlteredGraph DEF GraphInv, Alter
    <3>2. ASSUME NEW id \in Ids(events)
          PROVE  Mirrors(children'[id], events', id)
      <4>1. Mirrors(children[id], events, id)
        BY DEF IndexInv
      <4>2. \A i \in DOMAIN events : Mentions(events'[i], id) = Mentions(events[i], id)
        BY <3>1 DEF Mentions
      <4> QED BY <3>1, <4>1, <4>2 DEF Mirrors
    <3> QED BY <3>1, <3>2 DEF IndexInv
  <2>3. ASSUME UNCHANGED <<events, children>>
        PROVE  IndexInv'
    BY <2>3 DEF IndexInv
  <2> QED BY <2>1, <2>2, <2>3 DEF Next, NewEvent, vars
<1>3. IndexInv => ChildrenMirrorParents
  BY DEF IndexInv, Mirrors, ChildrenMirrorParents
<1> QED BY <1>1, <1>2, <1>3, GraphInvHolds, PTL DEF Spec

-----------------------------------------------------------------------------
(* The causal queries *)

\* The graph is causal in the sense the walk needs.
LEMMA EventsAreCausal ==
    ASSUME GraphInv
    PROVE  Causal(events)
BY ParentsAreListed DEF GraphInv, EventsAreStored, ParentsPrecede, Causal

\* For every graph: ancestors() ends, and finds the least set that holds the
\* event's parents and is closed under parents, each member once.
THEOREM WalkIsExact == Spec => []AncestorsAreExact
<1>1. GraphInv => AncestorsAreExact
  <2> SUFFICES ASSUME GraphInv, NEW id \in Ids(events)
               PROVE  LET found == Visited(events, id)
                          parents == ToSet(EventOf(events, id).parents)
                      IN  /\ IsInjective(found)
                          /\ parents \subseteq ToSet(found) /\ IsClosed(ToSet(found))
                          /\ \A ids \in SUBSET ToSet(found) :
                               parents \subseteq ids /\ IsClosed(ids)
                               => ids = ToSet(found)
    BY DEF AncestorsAreExact
  <2> DEFINE found == Visited(events, id)
             parents == ToSet(EventOf(events, id).parents)
  <2>1. /\ found \in Seq(Ids(events)) /\ IsInjective(found)
        /\ parents \subseteq ToSet(found) /\ Closed(events, ToSet(found))
        /\ \A ids \in SUBSET Ids(events) :
             parents \subseteq ids /\ Closed(events, ids) => ToSet(found) \subseteq ids
    BY EventsAreCausal, AncestorsFound DEF ParentList
  <2> HIDE DEF found, parents
  <2>2. ToSet(found) \subseteq Ids(events)
    BY <2>1 DEF ToSet
  <2>3. \A ids : IsClosed(ids) <=> Closed(events, ids)
    BY DEF IsClosed, Closed, ParentList
  <2> QED BY <2>1, <2>2, <2>3 DEF found, parents
<1> QED BY <1>1, GraphInvHolds, PTL

\* What a clock that never goes back adds: events are built in order of time.
TimeInv ==
    /\ \A i \in DOMAIN built : built[i].timestamp <= clock
    /\ \A i, j \in DOMAIN built :
         i < j => built[i].timestamp <= built[j].timestamp

LEMMA TimeInvHolds ==
    ASSUME ClockSteps \subseteq Nat
    PROVE  Spec => []TimeInv
<1>1. Init => TimeInv
  BY DEF Init, TimeInv
<1>2. GraphInv /\ TimeInv /\ [Next]_vars => TimeInv'
  <2> SUFFICES ASSUME GraphInv, TimeInv, [Next]_vars PROVE TimeInv'
    OBVIOUS
  <2>1. ASSUME NEW origin \in Origins, NEW content \in Contents,
               NEW parents \in ParentLists, NEW step \in ClockSteps,
               NewEvent(origin, content, parents, step)
        PROVE  TimeInv'
    <3> DEFINE e == MintedEvent(origin[1], origin[2], Len(built) + 1, parents,
                                content, clock')
    <3>1. e.timestamp = clock'
      BY MintedMembers
    <3>2. built' = Append(built, e) /\ clock' = clock + step
      BY <2>1 DEF NewEvent
    <3> HIDE DEF e
    <3>3. Sequence(built)
      BY DEF GraphInv, BuiltAreMinted
    <3>4. /\ Len(built) \in Nat
          /\ DOMAIN built = 1..Len(built) /\ DOMAIN built' = 1..(Len(built) + 1)
          /\ \A i \in 1..Len(built) : built'[i] = built[i]
          /\ built'[Len(built) + 1] = e
      BY <3>2, <3>3, Appended
    <3>5. clock \in Int /\ step \in Nat
      BY DEF GraphInv
    <3>6. \A i \in 1..Len(built) : built[i].timestamp \in Int /\ built[i].timestamp <= clock
      BY <3>4 DEF GraphInv, BuiltAreMinted, TimeInv
    <3>7. \A i \in DOMAIN built' : built'[i].timestamp <= clock'
      BY <3>1, <3>2, <3>4, <3>5, <3>6
    <3>8. ASSUME NEW i \in DOMAIN built', NEW j \in DOMAIN built', i < j
          PROVE  built'[i].timestamp <= built'[j].timestamp
      <4>1. i \in 1..Len(built)
        BY <3>4, <3>8
      <4>2. CASE j = Len(built) + 1
        BY <3>1, <3>4, <3>7, <4>2
      <4>3. CASE j \in 1..Len(built)
        BY <3>4, <3>8, <4>1, <4>3 DEF TimeInv
      <4> QED BY <3>4, <4>2, <4>3
    <3> QED BY <3>7, <3>8 DEF TimeInv
  <2>2. ASSUME UNCHANGED <<clock, built>>
        PROVE  TimeInv'
    BY <2>2 DEF TimeInv
  <2> QED BY <2>1, <2>2 DEF Next, AppendEvent, Alter, vars
<1> QED BY <1>1, <1>2, GraphInvHolds, PTL DEF Spec

\* Stored events are no older than their parents.
LEMMA EventsGoForward ==
    ASSUME GraphInv, TimeInv
    PROVE  Forward(events)
<1>1. ASSUME NEW i \in DOMAIN events
      PROVE  /\ events[i].id \in DOMAIN built
             /\ events[i].timestamp = built[events[i].id].timestamp
             /\ events[i].timestamp \in Int
             /\ ToSet(events[i].parents) \subseteq 1..(events[i].id - 1)
  BY DEF GraphInv, EventsAreStored, IsStored, BuiltAreMinted
<1>2. DOMAIN built \subseteq Nat
  BY DEF GraphInv, BuiltAreMinted, Sequence
<1>3. ASSUME NEW i \in DOMAIN events, NEW p \in ToSet(events[i].parents)
      PROVE  EventOf(events, p).timestamp <= events[i].timestamp
  <2>1. events[i].id \in Ids(events)
    BY DEF Ids
  <2>2. EventOf(events, events[i].id) = events[i]
    BY FoundByItsId DEF GraphInv
  <2>3. p \in Ids(events)
    BY <2>1, <2>2, EventsAreCausal, ParentsAreEarlier DEF ParentList
  <2>4. PICK j \in DOMAIN events : events[j].id = p
    BY <2>3 DEF Ids
  <2>5. EventOf(events, p) = events[j]
    BY <2>4, FoundByItsId DEF GraphInv
  <2>6. p \in DOMAIN built /\ events[j].timestamp = built[p].timestamp
    BY <1>1, <2>4
  <2>7. p < events[i].id /\ events[i].id \in DOMAIN built
    BY <1>1, <1>2
  <2>8. built[p].timestamp <= built[events[i].id].timestamp
    BY <2>6, <2>7 DEF TimeInv
  <2> QED BY <1>1, <2>5, <2>6, <2>8
<1> QED BY <1>1, <1>3 DEF Forward, Timed

\* For every graph, if the clock never goes back: explain() tells of the event
\* and its ancestors, the event last, and of no event before one of its parents
\* unless both have the same timestamp.
THEOREM ExplanationIsCausal ==
    ASSUME ClockSteps \subseteq Nat
    PROVE  Spec => []ExplainIsCausal
<1>1. GraphInv /\ TimeInv => ExplainIsCausal
  <2> SUFFICES ASSUME GraphInv, TimeInv, NEW id \in Ids(events)
               PROVE  LET chain == Explain(events, id)
                      IN  /\ Len(chain) = Len(Visited(events, id)) + 1
                          /\ Last(chain).id = id
                          /\ \A k \in DOMAIN chain :
                               \A parent \in ToSet(chain[k].parents) :
                                 \E j \in DOMAIN chain :
                                   /\ chain[j].id = parent
                                   /\ j < k \/ chain[j].timestamp = chain[k].timestamp
    BY DEF ExplainIsCausal
  <2> DEFINE chain == Explain(events, id)
  <2>1. Causal(events) /\ Forward(events)
    BY EventsAreCausal, EventsGoForward
  <2>2. /\ Len(chain) = Len(Visited(events, id)) + 1
        /\ chain[Len(chain)] = EventOf(events, id)
        /\ \A k \in DOMAIN chain : \E e \in Ids(events) : chain[k] = EventOf(events, e)
        /\ \A k \in DOMAIN chain : \A parent \in ToSet(chain[k].parents) :
             \E j \in DOMAIN chain :
               /\ chain[j] = EventOf(events, parent)
               /\ j < k \/ chain[j].timestamp = chain[k].timestamp
    BY <2>1, ExplainedInOrder
  <2> HIDE DEF chain
  <2>3. \A e \in Ids(events) : EventOf(events, e).id = e
    BY Located
  <2>4. Last(chain).id = id
    BY <2>2, <2>3 DEF Last
  <2>5. ASSUME NEW k \in DOMAIN chain, NEW parent \in ToSet(chain[k].parents)
        PROVE  parent \in Ids(events)
    BY <2>1, <2>2, ParentsAreEarlier DEF ParentList
  <2> QED BY <2>2, <2>3, <2>4, <2>5 DEF chain
<1> QED BY <1>1, GraphInvHolds, TimeInvHolds, PTL
=============================================================================
