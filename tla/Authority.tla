----------------------------- MODULE Authority ------------------------------
(***************************************************************************)
(* The AgencyKernel of humanist_core/authority.py over its lifetime: humans *)
(* authorize intents and issue decision tokens, the clock advances, and at *)
(* every moment the kernel's answer to a proposed action is                *)
(* Decision(envelope, action).  evaluate() changes no state, so it is a    *)
(* state function and not an action.                                       *)
(***************************************************************************)
EXTENDS AuthorityRules, FiniteSets

CONSTANTS
    Actors,             \* the human principals
    Grants,             \* the arguments of authorize_intent
    Ttls,               \* its ttl argument: None or a number
    Approvals,          \* the arguments of issue_decision_token
    ProposedActions,    \* the actions agents may propose
    HumanHorizon,       \* bound: humans act until this time
    MaxTime,            \* bound: the clock stops here
    MaxEnvelopes,       \* bound: envelopes issued
    MaxTokens           \* bound: tokens issued

ASSUME ClockAssumption ==
    /\ Ttls \subseteq Int \cup {None}
    /\ \A terms \in Approvals : terms.expiresIn \in Nat
    /\ None \notin Int

VARIABLES
    now,                \* time.time()
    envelopes,          \* the envelopes handed out so far
    tokens              \* AgencyKernel._tokens, in the order of issue

vars == <<now, envelopes, tokens>>

Envelope == [actor : Actors, grant : Grants, issuedAt : Nat,
             ttl : Ttls, expiresAt : Int \cup {None}]

Token == [actor : Actors, parentIntent : {g.objective : g \in Grants},
          terms : Approvals, issuedAt : Nat]

TypeOK ==
    /\ now \in Nat
    /\ envelopes \subseteq Envelope
    /\ tokens \in Seq(Token)

Decision(envelope, action) == Evaluate(tokens, envelope, action, now)

IsPermitted(envelope, action) == Decision(envelope, action) \in Permitting

-----------------------------------------------------------------------------
Init ==
    /\ now = 0
    /\ envelopes = {}
    /\ tokens = <<>>

\* A ttl of zero is falsy: the envelope gets no expiry at all.
ExpiryFor(ttl) == IF ttl \in {None, 0} THEN None ELSE now + ttl

AuthorizeIntent(actor, grant, ttl) ==
    /\ now <= HumanHorizon /\ Cardinality(envelopes) < MaxEnvelopes
    /\ envelopes' = envelopes \cup
         {[actor |-> actor, grant |-> grant, issuedAt |-> now,
           ttl |-> ttl, expiresAt |-> ExpiryFor(ttl)]}
    /\ UNCHANGED <<now, tokens>>

Mutant_ActorAsParent(envelope, terms) ==
    /\ now <= HumanHorizon /\ Len(tokens) < MaxTokens
    /\ tokens' = Append(tokens, [actor |-> envelope.actor,
                                 parentIntent |-> envelope.actor,
                                 terms |-> terms, issuedAt |-> now])
    /\ UNCHANGED <<now, envelopes>>

\* Nothing asks whether the envelope is still in force.
IssueDecisionToken(envelope, terms) ==
    /\ now <= HumanHorizon /\ Len(tokens) < MaxTokens
    /\ tokens' = Append(tokens, [actor |-> envelope.actor,
                                 parentIntent |-> envelope.grant.objective,
                                 terms |-> terms, issuedAt |-> now])
    /\ UNCHANGED <<now, envelopes>>

Tick ==
    /\ now < MaxTime
    /\ now' = now + 1
    /\ UNCHANGED <<envelopes, tokens>>

Next ==
    \/ \E actor \in Actors, grant \in Grants, ttl \in Ttls :
          AuthorizeIntent(actor, grant, ttl)
    \/ \E envelope \in envelopes, terms \in Approvals :
          IssueDecisionToken(envelope, terms)
    \/ Tick

Spec == Init /\ [][Next]_vars

\* Time passes whatever humans and agents do.
FairSpec == Spec /\ WF_vars(Tick)

-----------------------------------------------------------------------------
(* Properties *)

\* The tokens that this step issues.
Issued == DOMAIN tokens' \ DOMAIN tokens

\* The kernel's answer about an existing envelope moves for two reasons only:
\* a token was issued to the envelope's actor that covers the action, or time
\* passed, and then it moves to REAUTHORIZE.  In particular no envelope and
\* no token of another actor, operation or resource changes it, and lapsed
\* authority never revives by itself (evaluate, authority.py:191).
MoveIsReasoned ==
    \A envelope \in envelopes, action \in ProposedActions :
      Decision(envelope, action)' # Decision(envelope, action) =>
        \/ \E i \in Issued : /\ tokens'[i].actor = envelope.actor
                             /\ Covers(tokens'[i], action)
        \/ /\ now' > now
           /\ Decision(envelope, action)' = "REAUTHORIZE"

AuthorityMovesForAReason == [][MoveIsReasoned]_vars

\* Once humans stop acting, what they granted for a limited time ends: every
\* action under an envelope that has an expiry eventually needs renewed
\* authority, whichever tokens were issued to its actor meanwhile.
TimeBoundedAuthorityLapses ==
    <>[](\A envelope \in envelopes, action \in ProposedActions :
           envelope.expiresAt # None => ~ IsPermitted(envelope, action))

AuthorizedPairs ==
    {pair \in envelopes \X ProposedActions : IsPermitted(pair[1], pair[2])}

Promise == INSTANCE BoundedAuthority
             WITH granted <- envelopes, authorized <- AuthorizedPairs

\* The kernel implements BoundedAuthority: only a human's grant or approval
\* extends authority, and no further than what was granted or approved.
ImplementsBoundedAuthority == Promise!Spec

-----------------------------------------------------------------------------
(* What the documents say and the code does not do. *)

\* authority.py:195 "A fresh, covering Decision Token is bounded human
\* authority."
FreshTokenHonoured ==
    \A envelope \in envelopes, action \in ProposedActions :
      (\E i \in Covering(tokens, envelope, action) : IsValid(tokens[i], now))
      => IsPermitted(envelope, action)
=============================================================================
