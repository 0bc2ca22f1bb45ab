----------------------------- MODULE Provenance -----------------------------
(***************************************************************************)
(* The causal provenance graph of humanist_core/provenance.py and its      *)
(* callers: events are built (new_event) and appended (append) in separate *)
(* calls, so they may be appended in another order than they were built,   *)
(* twice, or before their parents; events built by a graph with another    *)
(* key or policy may be appended too, since append checks neither; and a   *)
(* stored event may be altered, which verify_all is there to report.       *)
(***************************************************************************)
EXTENDS ProvenanceRules

CONSTANTS
    Key, Policy,        \* this graph's signing key and policy digest
    Origins,            \* the (key, policy) pairs of the graphs in the program
    Contents,           \* what events may say
    Altered,            \* what an altered event says instead
    ClockSteps,         \* by how much time.time() moves between two new_events
    MaxParents,         \* bound: parents of one event
    MaxEvents,          \* bound: events built
    MaxForeign,         \* bound: events of another origin
    MaxAltered          \* bound: alterations

ASSUME OriginAssumption == <<Key, Policy>> \in Origins

ASSUME StepAssumption == ClockSteps \subseteq Int

ASSUME AlteredAssumption == Altered \notin Contents

VARIABLES
    clock,              \* the last time.time()
    built,              \* every event built, in order; ids are fresh (uuid4)
    events,             \* ProvenanceGraph._events
    children            \* ProvenanceGraph._children

vars == <<clock, built, events, children>>

EventIds == 1..MaxEvents

\* The parents a caller names: events that exist, in any order, one of them
\* maybe more than once.
ParentLists == UNION {[1..n -> EventIds] : n \in 0..MaxParents}

TypeOK ==
    /\ clock \in Int
    /\ \A i \in DOMAIN built : built[i].id = i
    /\ Ids(events) \subseteq DOMAIN built
    /\ DOMAIN children = Ids(events)

-----------------------------------------------------------------------------
\* The events that another graph built, and those altered once stored.
Foreign == {i \in DOMAIN built : ~ VerifyEvent(Key, Policy, built[i])}

AlteredEvents == {i \in DOMAIN events : events[i].content = Altered}

Init ==
    /\ clock = 0
    /\ built = <<>>
    /\ events = <<>>
    /\ children = [id \in {} |-> <<>>]

NewEvent(origin, content, parents, step) ==
    /\ Len(built) < MaxEvents
    /\ origin = <<Key, Policy>> \/ Cardinality(Foreign) < MaxForeign
    /\ ToSet(parents) \subseteq DOMAIN built
    /\ clock' = clock + step
    /\ built' = Append(built, MintedEvent(origin[1], origin[2], Len(built) + 1,
                                          parents, content, clock'))
    /\ UNCHANGED <<events, children>>

Mutant_AppendUnlinked(event) ==
    /\ event.id \notin Ids(events)
    /\ events' = Append(events, event)
    /\ children' = ChildrenAfter(children, event)
    /\ UNCHANGED <<clock, built>>

Mutant_IndexForgotten(event) ==
    /\ CanAppend(events, event)
    /\ events' = Append(events, event)
    /\ children' = ChildrenAfter(children, [event EXCEPT !.parents = <<>>])
    /\ UNCHANGED <<clock, built>>

AppendEvent(event) ==
    /\ CanAppend(events, event)
    /\ events' = Append(events, event)
    /\ children' = ChildrenAfter(children, event)
    /\ UNCHANGED <<clock, built>>

\* A stored event is replaced by one that says something else.
Alter(i) ==
    /\ i \notin AlteredEvents /\ Cardinality(AlteredEvents) < MaxAltered
    /\ events' = [events EXCEPT ![i].content = Altered]
    /\ UNCHANGED <<clock, built, children>>

Next ==
    \/ \E origin \in Origins, content \in Contents, parents \in ParentLists,
          step \in ClockSteps : NewEvent(origin, content, parents, step)
    \/ \E i \in DOMAIN built : AppendEvent(built[i])
    \/ \E i \in DOMAIN events : Alter(i)

Spec == Init /\ [][Next]_vars

-----------------------------------------------------------------------------
(* Properties *)

\* Whatever order callers append in, every parent stands in the graph before
\* its children, and no event stands twice: causality has no cycle (append,
\* provenance.py:168).
ParentsPrecede ==
    /\ \A i, j \in DOMAIN events : events[i].id = events[j].id => i = j
    /\ \A i \in DOMAIN events :
         ToSet(events[i].parents) \subseteq {events[j].id : j \in 1..(i - 1)}

\* Where a list of children names an event.
Entries(list, id) == {k \in DOMAIN list : list[k] = id}

\* The children index is the parent relation read backwards: an event stands
\* among another's children exactly as often as it names it as a parent, in
\* the order of appending, and nothing else does (provenance.py:177-179).
ChildrenMirrorParents ==
    \A id \in Ids(events) :
      /\ ToSet(children[id]) \subseteq Ids(events)
      /\ \A i \in DOMAIN events :
           Cardinality(Entries(children[id], events[i].id)) =
             Cardinality(Mentions(events[i], id))
      /\ \A k, l \in DOMAIN children[id], i, j \in DOMAIN events :
           /\ children[id][k] = events[i].id /\ children[id][l] = events[j].id
           /\ k < l
           => i <= j

\* A set of events closed under parents.
IsClosed(ids) ==
    \A id \in ids : ToSet(EventOf(events, id).parents) \subseteq ids

\* The walk with its stack and its visited map finds exactly the least set
\* that holds the event's parents and their ancestors, each once
\* (ancestors, provenance.py:207-221).
AncestorsAreExact ==
    \A id \in Ids(events) :
      LET found == Visited(events, id)
          parents == ToSet(EventOf(events, id).parents)
      IN  /\ IsInjective(found)
          /\ parents \subseteq ToSet(found) /\ IsClosed(ToSet(found))
          /\ \A ids \in SUBSET ToSet(found) :
               parents \subseteq ids /\ IsClosed(ids) => ids = ToSet(found)

\* explain() tells the whole story once, ends with the event asked about, and
\* puts an event after its parents wherever the clock told them apart; so
\* find_root's event is a root, or has parents of the very same moment
\* (provenance.py:223-238).
ExplainIsCausal ==
    \A id \in Ids(events) :
      LET chain == Explain(events, id)
      IN  /\ Len(chain) = Len(Visited(events, id)) + 1
          /\ Last(chain).id = id
          /\ \A k \in DOMAIN chain : \A parent \in ToSet(chain[k].parents) :
               \E j \in DOMAIN chain :
                  /\ chain[j].id = parent
                  /\ j < k \/ chain[j].timestamp = chain[k].timestamp

\* verify_all() reports exactly the stored events that are not, field by
\* field, what new_event of this graph once returned (provenance.py:183-197).
BrokenAreExactlyTheForeign ==
    VerifyAll(Key, Policy, events) =
      {id \in Ids(events) :
         LET e == EventOf(events, id)
         IN  e # MintedEvent(Key, Policy, id, e.parents, built[id].content,
                             e.timestamp)}
=============================================================================
