-------------------------- MODULE BoundedAuthority --------------------------
(***************************************************************************)
(* What the authority core promises, without envelopes' bounds, tokens'    *)
(* order or the clock: authority is a set of (envelope, action) pairs that *)
(* grows only when a human grants an intent or approves one operation for  *)
(* one actor, and that time can only shrink.                               *)
(***************************************************************************)
CONSTANTS
    ProposedActions     \* the actions an agent may propose

VARIABLES
    granted,            \* the envelopes issued so far
    authorized          \* the (envelope, action) pairs that may execute now

vars == <<granted, authorized>>

\* The pairs that a step adds.
Gained == authorized' \ authorized

Init == granted = {} /\ authorized = {}

\* A human grants an intent: authority appears under that envelope only.
Grant(envelope) ==
    /\ granted' = granted \cup {envelope}
    /\ authorized \subseteq authorized'
    /\ Gained \subseteq {envelope} \X ProposedActions

\* A human approves one operation: no other operation and no other actor
\* gains anything, and nobody loses anything.
Approve(actor, operation) ==
    /\ UNCHANGED granted
    /\ authorized \subseteq authorized'
    /\ \A gain \in Gained : /\ gain[1].actor = actor
                            /\ gain[2].operation = operation

\* Time passes: authority lapses, and lapsed authority does not come back.
Lapse ==
    /\ UNCHANGED granted
    /\ authorized' \subseteq authorized

Next ==
    \/ \E envelope \in granted' : Grant(envelope)
    \/ \E envelope \in granted, action \in ProposedActions :
          Approve(envelope.actor, action.operation)
    \/ Lapse

Spec == Init /\ [][Next]_vars
=============================================================================
