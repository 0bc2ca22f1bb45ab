-------------------------- MODULE ProvenanceRules ---------------------------
(***************************************************************************)
(* The rules of the provenance graph (humanist_core/provenance.py) as pure *)
(* functions of a graph.  A graph is the insertion-ordered dictionary      *)
(* ProvenanceGraph._events, here a sequence of events                      *)
(*                                                                         *)
(*   [id, parents, content, policy, timestamp, signature]                  *)
(*                                                                         *)
(* where parents is a sequence of ids and content stands for the type, the *)
(* actor, the payload digest and the metadata together.  HMAC and SHA-256  *)
(* are taken as injective: a signature is the key with the signed fields.  *)
(***************************************************************************)
EXTENDS Integers, FiniteSets, SequencesExt

Canonical(event) ==
    <<event.id, event.parents, event.content, event.policy, event.timestamp>>

\* EventSigner.sign; the signature itself is not among the signed fields.
Sign(key, event) == <<key, Canonical(event)>>

\* ProvenanceGraph.new_event for a graph with the given key and policy.
MintedEvent(key, policy, id, parents, content, timestamp) ==
    LET event == [id |-> id, parents |-> parents, content |-> content,
                  policy |-> policy, timestamp |-> timestamp]
    IN  [id |-> id, parents |-> parents, content |-> content,
         policy |-> policy, timestamp |-> timestamp,
         signature |-> Sign(key, event)]

Ids(graph) == {graph[i].id : i \in DOMAIN graph}

EventOf(graph, id) ==
    graph[CHOOSE i \in DOMAIN graph : graph[i].id = id]

-----------------------------------------------------------------------------
(* append: both checks come before the first mutation, so a rejected event *)
(* leaves the graph and the children index as they were.                   *)

CanAppend(graph, event) ==
    /\ event.id \notin Ids(graph)
    /\ ToSet(event.parents) \subseteq Ids(graph)

\* Where the event names id as a parent: nothing keeps a caller from naming
\* one parent twice.
Mentions(event, id) == {i \in DOMAIN event.parents : event.parents[i] = id}

Mutant_NoOwnEntry(children, event) ==
    [id \in DOMAIN children \cup ToSet(event.parents) |->
       (IF id \in DOMAIN children THEN children[id] ELSE <<>>)
         \o [k \in 1..Cardinality(Mentions(event, id)) |-> event.id]]

\* _children, an index from an event to the events that name it as parent, as
\* many times as they do.
ChildrenAfter(children, event) ==
    [id \in DOMAIN children \cup {event.id} |->
       (IF id \in DOMAIN children THEN children[id] ELSE <<>>)
         \o [k \in 1..Cardinality(Mentions(event, id)) |-> event.id]]

-----------------------------------------------------------------------------
(* Integrity *)

Mutant_PolicyUnchecked(key, policy, event) ==
    event.signature = Sign(key, event)

VerifyEvent(key, policy, event) ==
    /\ event.signature = Sign(key, event)
    /\ event.policy = policy

VerifyAll(key, policy, graph) ==
    {graph[i].id : i \in {j \in DOMAIN graph :
                            ~ VerifyEvent(key, policy, graph[j])}}

-----------------------------------------------------------------------------
(* Causal queries.  The walk pops the last id of its stack, so it is depth *)
(* first; each step of the function below is one turn of the while loop.   *)

Mutant_VisitOnce(graph, walk) ==
    LET id == Last(walk.stack)
    IN  IF Contains(walk.visited, id) \/ id \notin Ids(graph)
        THEN [walk EXCEPT !.stack = <<>>]
        ELSE [stack |-> Front(walk.stack) \o EventOf(graph, id).parents,
              visited |-> Append(walk.visited, id)]

Visit(graph, walk) ==
    LET id == Last(walk.stack)
    IN  IF Contains(walk.visited, id) \/ id \notin Ids(graph)
        THEN [walk EXCEPT !.stack = Front(@)]
        ELSE [stack |-> Front(walk.stack) \o EventOf(graph, id).parents,
              visited |-> Append(walk.visited, id)]

\* Every place in every event's list of parents.
Mentioned(graph) ==
    UNION {{graph[i].id} \X DOMAIN graph[i].parents : i \in DOMAIN graph}

\* An event's list of parents is pushed once at most, and parents are earlier
\* events, so the loop ends within this many turns.
MaxTurns(graph) == Cardinality(Mentioned(graph))

Visited(graph, id) ==
    LET walk[n \in 0..MaxTurns(graph)] ==
          IF n = 0 THEN [stack |-> EventOf(graph, id).parents, visited |-> <<>>]
          ELSE LET before == walk[n - 1]
               IN  IF before.stack = <<>> THEN before ELSE Visit(graph, before)
    IN  walk[MaxTurns(graph)].visited

\* sorted(..., key=timestamp): stable, so ties keep the order they came in.
Chronological(chain) ==
    LET UpTo(i) ==
          {j \in DOMAIN chain :
             \/ chain[j].timestamp < chain[i].timestamp
             \/ chain[j].timestamp = chain[i].timestamp /\ j <= i}
    IN  [k \in DOMAIN chain |->
           chain[CHOOSE i \in DOMAIN chain : Cardinality(UpTo(i)) = k]]

Ancestors(graph, id) ==
    LET visited == Visited(graph, id)
    IN  Chronological([k \in DOMAIN visited |-> EventOf(graph, visited[k])])

Mutant_EventFirst(graph, id) ==
    IF id \notin Ids(graph) THEN <<>>
    ELSE <<EventOf(graph, id)>> \o Ancestors(graph, id)

Explain(graph, id) ==
    IF id \notin Ids(graph) THEN <<>>
    ELSE Chronological(Append(Ancestors(graph, id), EventOf(graph, id)))

FindRoot(graph, id) == Explain(graph, id)[1]
=============================================================================
