-------------------------- MODULE AuthorityProofs ---------------------------
(***************************************************************************)
(* Authority's theorems, for all actors, grants, approvals, actions and    *)
(* bounds.  Two facts carry them: a token appended to the list never       *)
(* overrides one that already covers the action, and the passing of time   *)
(* turns a decision into REAUTHORIZE or leaves it alone.                   *)
(***************************************************************************)
EXTENDS Authority, TLAPS

-----------------------------------------------------------------------------
(* Type correctness *)

\* Every reachable state is well typed: envelopes and tokens are built from
\* the arguments authorize_intent and issue_decision_token were given.
THEOREM TypeCorrect == Spec => []TypeOK
<1>1. Init => TypeOK
  BY DEF Init, TypeOK
<1>2. TypeOK /\ [Next]_vars => TypeOK'
  <2> SUFFICES ASSUME TypeOK, [Next]_vars PROVE TypeOK'
    OBVIOUS
  <2> USE DEF TypeOK
  <2>1. ASSUME NEW actor \in Actors, NEW grant \in Grants, NEW ttl \in Ttls,
               AuthorizeIntent(actor, grant, ttl)
        PROVE  TypeOK'
    <3>1. ExpiryFor(ttl) \in Int \cup {None}
      BY ClockAssumption DEF ExpiryFor
    <3>2. [actor |-> actor, grant |-> grant, issuedAt |-> now, ttl |-> ttl,
           expiresAt |-> ExpiryFor(ttl)] \in Envelope
      BY <3>1 DEF Envelope
    <3> QED BY <2>1, <3>2 DEF AuthorizeIntent
  <2>2. ASSUME NEW envelope \in envelopes, NEW terms \in Approvals,
               IssueDecisionToken(envelope, terms)
        PROVE  TypeOK'
    <3>1. envelope \in Envelope
      OBVIOUS
    <3>2. [actor |-> envelope.actor, parentIntent |-> envelope.grant.objective,
           terms |-> terms, issuedAt |-> now] \in Token
      BY <3>1 DEF Envelope, Token
    <3> QED BY <2>2, <3>2 DEF IssueDecisionToken
  <2>3. CASE Tick
    BY <2>3 DEF Tick
  <2>4. CASE UNCHANGED vars
    BY <2>4 DEF vars
  <2> QED BY <2>1, <2>2, <2>3, <2>4 DEF Next
<1> QED BY <1>1, <1>2, PTL DEF Spec

-----------------------------------------------------------------------------
(* The evaluation order *)

\* Appending a token adds its own index to the covering ones, if it covers
\* the action at all, and leaves the other tokens where they were.
LEMMA CoveringAfterIssue ==
  ASSUME NEW toks \in Seq(Token), NEW token \in Token,
         NEW envelope, NEW action
  PROVE  LET old == Covering(toks, envelope, action)
             new == Covering(Append(toks, token), envelope, action)
         IN  /\ old \subseteq new
             /\ new \subseteq old \cup {Len(toks) + 1}
             /\ Len(toks) + 1 \in new <=> /\ token.actor = envelope.actor
                                          /\ Covers(token, action)
             /\ \A i \in old : /\ i \in 1..Len(toks)
                               /\ Append(toks, token)[i] = toks[i]
BY DEF Covering

\* A token that comes second decides nothing: the answer changes only if no
\* older token covered the action and the new one does.
LEMMA OlderTokenDecides ==
  ASSUME NEW toks \in Seq(Token), NEW token \in Token,
         NEW envelope, NEW action, NEW at,
         Evaluate(Append(toks, token), envelope, action, at)
           # Evaluate(toks, envelope, action, at)
  PROVE  /\ Covering(toks, envelope, action) = {}
         /\ Covering(Append(toks, token), envelope, action) = {Len(toks) + 1}
<1> DEFINE old == Covering(toks, envelope, action)
           new == Covering(Append(toks, token), envelope, action)
<1>1. /\ old \subseteq new
      /\ new \subseteq old \cup {Len(toks) + 1}
      /\ \A i \in old : /\ i \in 1..Len(toks)
                        /\ Append(toks, token)[i] = toks[i]
  BY CoveringAfterIssue
<1>2. CASE old # {}
  <2>1. FirstIsValid(Append(toks, token), new, at) <=> FirstIsValid(toks, old, at)
    <3>1. PICK k \in old : TRUE
      BY <1>2
    <3>2. \A i \in new : (\A j \in new : i <= j) => i \in old
      BY <1>1, <3>1
    <3>3. \A i \in old : (\A j \in new : i <= j) <=> (\A j \in old : i <= j)
      BY <1>1
    <3> QED BY <1>1, <3>2, <3>3 DEF FirstIsValid, IsValid
  <2>2. new # {}
    BY <1>1, <1>2
  <2> QED BY <1>2, <2>1, <2>2 DEF Evaluate
<1>3. CASE old = {} /\ new = {}
  BY <1>3 DEF Evaluate
<1> QED BY <1>1, <1>2, <1>3

\* One tick later the answer is the same, or authority must be renewed.
LEMMA TimeOnlyLapses ==
  ASSUME NEW toks \in Seq(Token), NEW envelope \in Envelope, NEW action,
         NEW at \in Nat
  PROVE  LET before == Evaluate(toks, envelope, action, at)
             after == Evaluate(toks, envelope, action, at + 1)
         IN  after = before \/ after = "REAUTHORIZE"
<1> DEFINE covering == Covering(toks, envelope, action)
<1>1. \A i \in covering : IsValid(toks[i], at + 1) => IsValid(toks[i], at)
  <2> SUFFICES ASSUME NEW i \in DOMAIN toks
               PROVE  IsValid(toks[i], at + 1) => IsValid(toks[i], at)
    BY DEF Covering
  <2>1. toks[i] \in Token
    OBVIOUS
  <2>2. toks[i].issuedAt \in Int /\ toks[i].terms.expiresIn \in Int
    BY <2>1, ClockAssumption DEF Token
  <2> QED BY <2>2 DEF IsValid
<1>2. FirstIsValid(toks, covering, at + 1) => FirstIsValid(toks, covering, at)
  BY <1>1 DEF FirstIsValid
<1>3. IsExpired(envelope, at) => IsExpired(envelope, at + 1)
  BY DEF IsExpired, Envelope
<1>4. \/ ScopeDecision(envelope, action, at + 1) = ScopeDecision(envelope, action, at)
      \/ ScopeDecision(envelope, action, at + 1) = "REAUTHORIZE"
  BY <1>3 DEF ScopeDecision
<1> QED BY <1>2, <1>4 DEF Evaluate

-----------------------------------------------------------------------------
(* What a step does to decisions *)

\* Issuing a token moves a decision only if the token covers the action for
\* the envelope's actor, and then the action becomes permitted.
LEMMA IssueMovesOnlyCovered ==
  ASSUME TypeOK, NEW envelope \in envelopes, NEW action,
         NEW parent \in envelopes, NEW terms \in Approvals,
         IssueDecisionToken(parent, terms),
         Decision(envelope, action)' # Decision(envelope, action)
  PROVE  /\ Len(tokens) + 1 \in Issued
         /\ tokens'[Len(tokens) + 1].actor = envelope.actor
         /\ tokens'[Len(tokens) + 1].actor = parent.actor
         /\ Covers(tokens'[Len(tokens) + 1], action)
         /\ action.operation = terms.permits
         /\ IsPermitted(envelope, action)'
<1> DEFINE token == [actor |-> parent.actor,
                     parentIntent |-> parent.grant.objective,
                     terms |-> terms, issuedAt |-> now]
<1>1. /\ tokens \in Seq(Token) /\ now \in Nat
      /\ token \in Token
      /\ tokens' = Append(tokens, token) /\ now' = now
  BY DEF TypeOK, Token, Envelope, IssueDecisionToken
<1> HIDE DEF token
<1>2. Evaluate(Append(tokens, token), envelope, action, now)
        # Evaluate(tokens, envelope, action, now)
  BY <1>1 DEF Decision
<1>3. Covering(tokens', envelope, action) = {Len(tokens) + 1}
  BY <1>1, <1>2, OlderTokenDecides
<1>4. tokens'[Len(tokens) + 1] = token /\ Len(tokens) + 1 \in Issued
  BY <1>1 DEF Issued
<1>5. token.actor = envelope.actor /\ Covers(token, action)
  BY <1>3, <1>4 DEF Covering
<1>6. IsValid(token, now)
  <2>1. terms.expiresIn \in Nat
    BY ClockAssumption
  <2> QED BY <1>1, <2>1 DEF IsValid, token
<1>7. Decision(envelope, action)' = "ALLOW_WITH_AUDIT"
  <2>1. FirstIsValid(tokens', {Len(tokens) + 1}, now')
    BY <1>1, <1>4, <1>6 DEF FirstIsValid
  <2> QED BY <1>3, <2>1 DEF Decision, Evaluate
<1> QED BY <1>4, <1>5, <1>7 DEF IsPermitted, Permitting, Covers, token

\* A tick leaves a decision alone or turns it into REAUTHORIZE.
LEMMA TickOnlyLapses ==
  ASSUME TypeOK, Tick, NEW envelope \in envelopes, NEW action
  PROVE  \/ Decision(envelope, action)' = Decision(envelope, action)
         \/ Decision(envelope, action)' = "REAUTHORIZE"
<1>1. /\ tokens \in Seq(Token) /\ envelope \in Envelope /\ now \in Nat
      /\ tokens' = tokens /\ now' = now + 1
  BY DEF TypeOK, Tick
<1> QED BY <1>1, TimeOnlyLapses DEF Decision

\* Granting an intent, or nothing at all, moves no decision.
LEMMA GrantMovesNothing ==
  ASSUME UNCHANGED <<now, tokens>>, NEW envelope, NEW action
  PROVE  /\ Decision(envelope, action)' = Decision(envelope, action)
         /\ IsPermitted(envelope, action)' = IsPermitted(envelope, action)
BY DEF Decision, IsPermitted

-----------------------------------------------------------------------------
(* The two theorems *)

\* For every instance: a decision about an existing envelope changes only
\* because a covering token was issued to its actor, or by lapsing with time.
THEOREM MovesForAReason == Spec => AuthorityMovesForAReason
<1>1. TypeOK /\ [Next]_vars => [MoveIsReasoned]_vars
  <2> SUFFICES ASSUME TypeOK, Next,
                      NEW envelope \in envelopes, NEW action \in ProposedActions,
                      Decision(envelope, action)' # Decision(envelope, action)
               PROVE  \/ \E i \in Issued : /\ tokens'[i].actor = envelope.actor
                                           /\ Covers(tokens'[i], action)
                      \/ /\ now' > now
                         /\ Decision(envelope, action)' = "REAUTHORIZE"
    BY DEF MoveIsReasoned
  <2>1. ASSUME NEW actor \in Actors, NEW grant \in Grants, NEW ttl \in Ttls,
               AuthorizeIntent(actor, grant, ttl)
        PROVE  FALSE
    BY <2>1, GrantMovesNothing DEF AuthorizeIntent
  <2>2. ASSUME NEW parent \in envelopes, NEW terms \in Approvals,
               IssueDecisionToken(parent, terms)
        PROVE  \E i \in Issued : /\ tokens'[i].actor = envelope.actor
                                 /\ Covers(tokens'[i], action)
    BY <2>2, IssueMovesOnlyCovered
  <2>3. CASE Tick
    <3>1. now' > now
      BY <2>3 DEF Tick, TypeOK
    <3> QED BY <2>3, <3>1, TickOnlyLapses
  <2> QED BY <2>1, <2>2, <2>3 DEF Next
<1> QED BY <1>1, TypeCorrect, PTL DEF Spec, AuthorityMovesForAReason

\* For every instance: the kernel implements BoundedAuthority.
THEOREM Implements == Spec => ImplementsBoundedAuthority
<1>1. Init => Promise!Init
  BY DEF Init, Promise!Init, AuthorizedPairs
<1>2. TypeOK /\ [Next]_vars => [Promise!Next]_(Promise!vars)
  <2> SUFFICES ASSUME TypeOK, [Next]_vars
               PROVE  Promise!Next \/ UNCHANGED Promise!vars
    OBVIOUS
  <2>1. ASSUME NEW actor \in Actors, NEW grant \in Grants, NEW ttl \in Ttls,
               AuthorizeIntent(actor, grant, ttl)
        PROVE  Promise!Next
    <3>1. PICK envelope : envelopes' = envelopes \cup {envelope}
      BY <2>1 DEF AuthorizeIntent
    <3>2. \A e, a : IsPermitted(e, a)' = IsPermitted(e, a)
      BY <2>1, GrantMovesNothing DEF AuthorizeIntent
    <3>3. Promise!Grant(envelope)
      BY <3>1, <3>2 DEF Promise!Grant, Promise!Gained, AuthorizedPairs
    <3> QED BY <3>1, <3>3 DEF Promise!Next
  <2>2. ASSUME NEW parent \in envelopes, NEW terms \in Approvals,
               IssueDecisionToken(parent, terms)
        PROVE  Promise!Next
    <3>1. envelopes' = envelopes
      BY <2>2 DEF IssueDecisionToken
    <3>2. ASSUME NEW e \in envelopes, NEW a, IsPermitted(e, a)
          PROVE  IsPermitted(e, a)'
      BY <2>2, <3>2, IssueMovesOnlyCovered DEF IsPermitted
    <3>3. ASSUME NEW e \in envelopes, NEW a, ~ IsPermitted(e, a),
                 IsPermitted(e, a)'
          PROVE  e.actor = parent.actor /\ a.operation = terms.permits
      BY <2>2, <3>3, IssueMovesOnlyCovered DEF IsPermitted
    <3>4. AuthorizedPairs \subseteq AuthorizedPairs'
      BY <3>1, <3>2 DEF AuthorizedPairs
    <3>5. CASE Promise!Gained = {}
      BY <3>1, <3>5 DEF Promise!Gained, Promise!Lapse, Promise!Next
    <3>6. CASE Promise!Gained # {}
      <4>1. \A gain \in Promise!Gained :
               /\ gain[1] \in envelopes /\ gain[2] \in ProposedActions
               /\ gain[1].actor = parent.actor
               /\ gain[2].operation = terms.permits
        BY <3>1, <3>3 DEF Promise!Gained, AuthorizedPairs
      <4>2. PICK pair \in Promise!Gained : TRUE
        BY <3>6
      <4>3. Promise!Approve(pair[1].actor, pair[2].operation)
        BY <3>1, <3>4, <4>1, <4>2 DEF Promise!Approve
      <4> QED BY <4>1, <4>2, <4>3 DEF Promise!Next
    <3> QED BY <3>5, <3>6
  <2>3. CASE Tick
    <3>1. envelopes' = envelopes
      BY <2>3 DEF Tick
    <3>2. ASSUME NEW e \in envelopes, NEW a, IsPermitted(e, a)'
          PROVE  IsPermitted(e, a)
      BY <2>3, <3>2, TickOnlyLapses DEF IsPermitted, Permitting
    <3> QED BY <3>1, <3>2 DEF AuthorizedPairs, Promise!Lapse, Promise!Next
  <2>4. CASE UNCHANGED vars
    <3>1. \A e, a : IsPermitted(e, a)' = IsPermitted(e, a)
      BY <2>4, GrantMovesNothing DEF vars
    <3> QED BY <2>4, <3>1 DEF vars, AuthorizedPairs, Promise!vars
  <2> QED BY <2>1, <2>2, <2>3, <2>4 DEF Next
<1> QED BY <1>1, <1>2, TypeCorrect, PTL DEF Spec, ImplementsBoundedAuthority, Promise!Spec
=============================================================================
