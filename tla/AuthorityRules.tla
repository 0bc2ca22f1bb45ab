--------------------------- MODULE AuthorityRules ---------------------------
(***************************************************************************)
(* The rules of the authority core (humanist_core/authority.py): what an   *)
(* intent envelope grants, what a decision token covers, and the order in  *)
(* which AgencyKernel.evaluate consults them.  Everything here is a pure   *)
(* function of its arguments; Authority and HumanistCallback supply the    *)
(* state.  An operator named Mutant_X is the definition after it with one  *)
(* plausible mistake; the runs show that the properties notice it.         *)
(*                                                                         *)
(*   grant    [objective, operations, forbidden, systems, maxQuantity]     *)
(*   envelope [actor, grant, issuedAt, ttl, expiresAt]                     *)
(*   terms    [permits, resource, maxQuantity, expiresIn]                  *)
(*   token    [actor, parentIntent, terms, issuedAt]                       *)
(*   action   [operation, resource, system, audience, effect, quantity]    *)
(*                                                                         *)
(* None stands for the empty string and for Python's None: a dimension     *)
(* that the caller left unstated.                                          *)
(***************************************************************************)
EXTENDS Integers, Sequences

CONSTANTS
    None,               \* an unstated dimension, an absent bound
    AuditOperations     \* AgencyKernel.audit_operations

Decisions == {"ALLOW", "ALLOW_WITH_AUDIT", "CHECKPOINT", "REAUTHORIZE", "DENY"}

\* The decisions on which the caller goes on to execute the action.
Permitting == {"ALLOW", "ALLOW_WITH_AUDIT"}

ExternalEffects == {"reputational", "financial", "legal"}

\* A bound is exceeded only by a stated quantity.
Exceeds(quantity, limit) ==
    limit # None /\ quantity # None /\ quantity > limit

-----------------------------------------------------------------------------
IsExpired(envelope, now) ==
    envelope.expiresAt # None /\ now > envelope.expiresAt

IsValid(token, now) == now <= token.issuedAt + token.terms.expiresIn

Mutant_AnyOperation(token, action) ==
    /\ \/ None \in {token.terms.resource, action.resource}
       \/ action.resource = token.terms.resource
    /\ ~ Exceeds(action.quantity, token.terms.maxQuantity)

Covers(token, action) ==
    /\ action.operation = token.terms.permits
    /\ \/ None \in {token.terms.resource, action.resource}
       \/ action.resource = token.terms.resource
    /\ ~ Exceeds(action.quantity, token.terms.maxQuantity)

-----------------------------------------------------------------------------
(* ScopeGuard.evaluate *)

OutsideGrant(grant, action) ==
    \/ action.operation \notin grant.operations
    \/ grant.systems # {} /\ action.system \notin grant.systems \cup {None}

NeedsJudgment(grant, action) ==
    \/ Exceeds(action.quantity, grant.maxQuantity)
    \/ action.effect \in ExternalEffects
    \/ action.audience \notin {None, "requester", "self"}

Mutant_ExpiryIgnored(envelope, action, now) ==
    IF action.operation \in envelope.grant.forbidden THEN "DENY"
    ELSE IF OutsideGrant(envelope.grant, action) THEN "REAUTHORIZE"
    ELSE IF NeedsJudgment(envelope.grant, action) THEN "CHECKPOINT"
    ELSE "ALLOW"

ScopeDecision(envelope, action, now) ==
    IF IsExpired(envelope, now) THEN "REAUTHORIZE"
    ELSE IF action.operation \in envelope.grant.forbidden THEN "DENY"
    ELSE IF OutsideGrant(envelope.grant, action) THEN "REAUTHORIZE"
    ELSE IF NeedsJudgment(envelope.grant, action) THEN "CHECKPOINT"
    ELSE "ALLOW"

-----------------------------------------------------------------------------
(* AgencyKernel.evaluate: the oldest covering token of the envelope's actor *)
(* decides, whether it is still valid or not; without one the scope guard  *)
(* does.                                                                   *)

Mutant_AnyActor(tokens, envelope, action) ==
    {i \in DOMAIN tokens : Covers(tokens[i], action)}

Covering(tokens, envelope, action) ==
    {i \in DOMAIN tokens : /\ tokens[i].actor = envelope.actor
                           /\ Covers(tokens[i], action)}

FirstIsValid(tokens, indexes, now) ==
    \E i \in indexes : /\ \A j \in indexes : i <= j
                       /\ IsValid(tokens[i], now)

Evaluate(tokens, envelope, action, now) ==
    LET covering == Covering(tokens, envelope, action)
        scope == ScopeDecision(envelope, action, now)
    IN  IF covering # {}
        THEN IF FirstIsValid(tokens, covering, now)
             THEN "ALLOW_WITH_AUDIT" ELSE "REAUTHORIZE"
        ELSE IF scope = "ALLOW" /\ action.operation \in AuditOperations
             THEN "ALLOW_WITH_AUDIT" ELSE scope
=============================================================================
