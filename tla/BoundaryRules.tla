---------------------------- MODULE BoundaryRules ---------------------------
(***************************************************************************)
(* Boundary detection (humanist_core/boundary.py) as pure functions: which *)
(* dimensions change between two semantic actions, which boundary that is, *)
(* and what an operation costs.                                            *)
(*                                                                         *)
(*   semantic action [verb, object, effect, audience, reversibility, scope]*)
(***************************************************************************)
EXTENDS Integers

ReadVerbs == {"read", "analyse", "summarize"}

OwnAudiences == {"requester", "self"}

\* SemanticDeltaGuard._get_category for the verb and audience dimensions.
VerbCategory(verb) == IF verb \in ReadVerbs THEN "read_write" ELSE "other"

AudienceCategory(audience) ==
    IF audience \in OwnAudiences THEN "internal_external" ELSE "other"

When(condition, dimension) == IF condition THEN {dimension} ELSE {}

\* SemanticDeltaGuard.compare: the dimensions that changed.  An effect that
\* is left empty ("") is not a change; the object is never compared.
Delta(original, proposed) ==
    When(VerbCategory(original.verb) # VerbCategory(proposed.verb), "verb")
      \cup When(AudienceCategory(original.audience)
                  # AudienceCategory(proposed.audience), "audience")
      \cup When(proposed.effect \notin {original.effect, ""}, "effect")
      \cup When(original.reversibility # proposed.reversibility, "reversibility")
      \cup When(original.scope # proposed.scope, "scope")

BoundaryTypes == {"read_write", "internal_external", "reversible_irreversible",
                  "other"}

BoundaryType(changes) ==
    IF "verb" \in changes THEN "read_write"
    ELSE IF {"audience", "scope"} \cap changes # {} THEN "internal_external"
    ELSE IF "reversibility" \in changes THEN "reversible_irreversible"
    ELSE "other"

-----------------------------------------------------------------------------
(* RiskEngine.evaluate and ActionRisk.autonomy_cost *)

Profile(irreversibility, externality, privacy, privilege) ==
    [irreversibility |-> irreversibility, externality |-> externality,
     privacy |-> privacy, privilege |-> privilege]

OperationRisk ==
    [read |-> Profile(0, 0, 0, 1), analyse |-> Profile(0, 0, 0, 1),
     summarize |-> Profile(0, 0, 0, 1), classify |-> Profile(0, 0, 0, 2),
     modify |-> Profile(2, 1, 1, 4), delete |-> Profile(8, 2, 2, 6),
     send |-> Profile(4, 8, 4, 4), publish |-> Profile(6, 10, 6, 8),
     execute |-> Profile(8, 8, 4, 10)]

BaseRisk(verb) ==
    IF verb \in DOMAIN OperationRisk THEN OperationRisk[verb]
    ELSE Profile(5, 5, 5, 5)

Total(risk) ==
    risk.irreversibility + risk.externality + risk.privacy + risk.privilege

SensitiveData == {"pii", "financial", "credentials"}

Surcharge(condition, points) == IF condition THEN points ELSE 0

\* The total over all dimensions; the context adds to externality, to
\* privacy and legal, and to blast radius.
AutonomyCost(verb, audience, scope, dataClass, quantity) ==
    Total(BaseRisk(verb))
      + Surcharge(audience \notin OwnAudiences \cup {""}, 4)
      + Surcharge(scope = "external", 6)
      + Surcharge(dataClass \in SensitiveData, 6 + 4)
      + Surcharge(quantity > 1000, 4)
=============================================================================
