----------------------- MODULE HumanistCallbackProofs -----------------------
(***************************************************************************)
(* The callback's theorems, for all tools, intents, approvals, budgets and *)
(* bounds: first of HumanistCallback, then of ThreadedCallback for any     *)
(* finite number of threads.                                               *)
(*                                                                         *)
(* BoundariesNeedRenewal is not inductive: it says nothing of the baseline *)
(* with which a new call is compared instead of with the calls that ran.   *)
(* BaselineSpeaksForCompared adds that.  ScopeInv adds that no token was   *)
(* issued in the future, CallbackInv that the graph has one root and what  *)
(* each running call's result will be linked to, Chronicled that the       *)
(* events are in order of time.                                            *)
(*                                                                         *)
(* Of the threads, ThreadInv says that each starting call is one thread's; *)
(* KindsInv, PaidInv, RecordInv and StopsInv say what a thread between two *)
(* steps has done already; AloneInv, SlotInv, SerialKindInv and            *)
(* SerialBudgetInv say it where threads enter one at a time.               *)
(***************************************************************************)
EXTENDS ThreadedCallback, RulesProofs, TLAPS

-----------------------------------------------------------------------------
(* What a tool's name determines *)

\* Two tools differ meaningfully exactly if their operations fall into
\* different verb categories or have different effects; the other dimensions
\* are the same for every call the callback describes.
LEMMA SameKind ==
  ASSUME NEW t \in Tools, NEW u \in Tools
  PROVE  Delta(Semantic(t), Semantic(u)) = {} <=>
           /\ VerbCategory(Semantic(t).verb) = VerbCategory(Semantic(u).verb)
           /\ Semantic(t).effect = Semantic(u).effect
<1>1. Semantic(u).effect # ""
  BY DEF Semantic, InferEffect
<1>2. /\ Semantic(t).audience = Semantic(u).audience
      /\ Semantic(t).reversibility = Semantic(u).reversibility
      /\ Semantic(t).scope = Semantic(u).scope
  BY DEF Semantic
<1> QED BY <1>1, <1>2 DEF Delta, When

\* The heuristic knows six operations.
LEMMA OperationIsKnown ==
  ASSUME NEW tool
  PROVE  ExtractOperation(tool) \in Operations
BY DEF ExtractOperation, Operations

\* Every call costs at least one unit of the budget.
LEMMA CostIsPositive ==
  ASSUME NEW tool \in Tools
  PROVE  Cost[tool] \in Nat /\ Cost[tool] >= 1
<1>1. ExtractOperation(tool) \in Operations
  BY OperationIsKnown
<1>2. Cost[tool] = Total(BaseRisk(ExtractOperation(tool)))
  <2>1. Total(BaseRisk(ExtractOperation(tool))) \in Int
    BY <1>1 DEF Operations, Total, BaseRisk, OperationRisk, Profile
  <2> QED BY <2>1 DEF Cost, AutonomyCost, Surcharge, OwnAudiences, SensitiveData
<1> QED BY <1>1, <1>2 DEF Operations, Total, BaseRisk, OperationRisk, Profile

-----------------------------------------------------------------------------
(* Type correctness *)

\* Every reachable state of the callback is well typed.
THEOREM TypeCorrect == Spec => []TypeOK
<1>1. Init => TypeOK
  <2>1. ASSUME Init
        PROVE  Event(Intent, [kind |-> "intent"], <<>>) \in GraphEvent
    <3>1. [kind |-> "intent"] \in Content
      BY DEF Content
    <3>2. <<>> \in Seq(Nat) /\ Intent \in Nat /\ now \in Nat
      BY <2>1 DEF Intent, Init
    <3> QED BY <3>1, <3>2 DEF Event, GraphEvent
  <2>2. ASSUME Init PROVE graph \in Seq(GraphEvent)
    BY <2>1, <2>2 DEF Init
  <2>3. ASSUME Init
        PROVE  tokens \in Seq(Token) /\ spent \in Seq(Nat) /\ calls \in Seq(Call)
    BY <2>3 DEF Init
  <2>4. ASSUME Init
        PROVE  /\ now \in Nat /\ consumed \in Nat /\ resets \in Nat
               /\ baseline = None /\ lastTool = None
    BY <2>4 DEF Init
  <2> QED BY <2>2, <2>3, <2>4 DEF TypeOK
<1>2. TypeOK /\ [Next]_vars => TypeOK'
  <2> SUFFICES ASSUME TypeOK, [Next]_vars PROVE TypeOK'
    OBVIOUS
  <2> USE DEF TypeOK, kernelVars, budgetVars
  <2>1. ASSUME NEW tool \in Tools
        PROVE  /\ ToolCall(tool) \in GraphEvent
               /\ Checkpoint([kind |-> "checkpoint"]) \in GraphEvent
               /\ \A b \in BoundaryTypes :
                    Checkpoint([kind |-> "semantic_delta", boundary |-> b])
                      \in GraphEvent
    BY DEF ToolCall, Checkpoint, Event, NextId, Intent, GraphEvent, Content
  <2>2. ASSUME NEW tool \in Tools, NEW outcome, StartCall(tool, outcome),
               outcome \in {"exhausted", "crossing", "refused", "running"}
        PROVE  calls' \in Seq(Call) /\ lastTool' \in Nat /\ UNCHANGED kernelVars
    BY <2>2, OperationIsKnown DEF StartCall, Call, NextId
  <2>3. ASSUME NEW tool \in Tools, Consume(tool)
        PROVE  consumed' \in Nat /\ spent' \in Seq(Nat) /\ resets' = resets
    BY <2>3, CostIsPositive DEF Consume
  <2>4. ASSUME NEW tool \in Tools, StartExhausted(tool) PROVE TypeOK'
    BY <2>1, <2>2, <2>4 DEF StartExhausted, Record
  <2>5. ASSUME NEW tool \in Tools, StartCrossing(tool) PROVE TypeOK'
    <3>1. BoundaryType(Delta(baseline, Semantic(tool))) \in BoundaryTypes
      BY DEF BoundaryType, BoundaryTypes
    <3> QED BY <2>1, <2>2, <2>3, <2>5, <3>1 DEF StartCrossing, Record
  <2>6. ASSUME NEW tool \in Tools, StartRefused(tool) PROVE TypeOK'
    BY <2>1, <2>2, <2>3, <2>6 DEF StartRefused, Record
  <2>7. ASSUME NEW tool \in Tools, StartAdmitted(tool) PROVE TypeOK'
    BY <2>1, <2>2, <2>3, <2>7 DEF StartAdmitted, Record
  <2>8. ASSUME NEW i \in DOMAIN calls, OnToolEnd(i) PROVE TypeOK'
    <3>1. calls' \in Seq(Call)
      <4>1. calls[i] \in Call
        OBVIOUS
      <4>2. [calls[i] EXCEPT !.outcome = "done"] \in Call
        BY <4>1 DEF Call
      <4>3. calls' = [calls EXCEPT ![i] = [calls[i] EXCEPT !.outcome = "done"]]
        BY <2>8 DEF OnToolEnd
      <4> QED BY <4>2, <4>3
    <3>2. Event(NextId, [kind |-> "tool_result", call |-> i],
                IF lastTool = None THEN <<>> ELSE <<lastTool>>) \in GraphEvent
      BY DEF Event, NextId, GraphEvent, Content
    <3> QED BY <2>8, <3>1, <3>2 DEF OnToolEnd, Record
  <2>9. CASE OnAgentFinish
    <3>1. Event(NextId, [kind |-> "action"], <<Intent>>) \in GraphEvent
      BY DEF Event, NextId, Intent, GraphEvent, Content
    <3> QED BY <2>9, <3>1 DEF OnAgentFinish, Record
  <2>10. ASSUME NEW terms \in Approvals, IssueDecisionToken(terms) PROVE TypeOK'
    BY <2>10 DEF IssueDecisionToken, Token
  <2>11. CASE ResetBudget
    BY <2>11 DEF ResetBudget
  <2>12. CASE Tick
    BY <2>12 DEF Tick
  <2>13. CASE UNCHANGED vars
    BY <2>13 DEF vars
  <2> QED BY <2>4, <2>5, <2>6, <2>7, <2>8, <2>9, <2>10, <2>11, <2>12, <2>13
          DEF Next, OnToolStart
<1> QED BY <1>1, <1>2, PTL DEF Spec

-----------------------------------------------------------------------------
(* Boundaries between calls *)

\* The calls that were compared with the baseline and became it.
Compared == {i \in DOMAIN calls : calls[i].outcome \in {"refused", "running", "done"}}

\* What makes BoundariesNeedRenewal inductive: once a call got past the
\* boundary there is a baseline, and it is of the same kind as every such call.
BaselineSpeaksForCompared ==
    \A i \in Compared :
      /\ baseline # None
      /\ Delta(baseline, Semantic(calls[i].tool)) = {}

\* A baseline is what some tool means.
LEMMA BaselineIsOfATool ==
  ASSUME TypeOK, baseline # None
  PROVE  \E first \in Tools : baseline = Semantic(first)
<1>1. baseline \in {Semantic(tool) : tool \in Tools} \cup {None}
  BY DEF TypeOK
<1>2. baseline \in {Semantic(tool) : tool \in Tools}
  BY <1>1
<1> QED BY <1>2, Zenon

\* A call is of one of the agent's tools.
LEMMA CallsAreOfTools ==
  ASSUME TypeOK, NEW i \in DOMAIN calls
  PROVE  calls[i].tool \in Tools
<1>1. calls \in Seq(Call)
  BY DEF TypeOK
<1>2. calls[i] \in Call
  BY <1>1
<1> QED BY <1>2 DEF Call

\* A call that does not cross the boundary keeps the baseline's kind, and the
\* tools that run after it are the old ones and possibly its own.
LEMMA AdmittingKeepsKind ==
  ASSUME TypeOK, BaselineSpeaksForCompared, NEW tool \in Tools, NEW outcome,
         ~ CrossesBoundary(tool), baseline' = Semantic(tool),
         StartCall(tool, outcome)
  PROVE  BaselineSpeaksForCompared'
<1> SUFFICES ASSUME NEW i \in Compared'
             PROVE  /\ baseline' # None
                    /\ Delta(baseline', Semantic(calls'[i].tool)) = {}
  BY DEF BaselineSpeaksForCompared
<1>1. baseline' # None
  BY NoneAssumption
<1>2. /\ calls \in Seq(Call)
      /\ i \in 1..(Len(calls) + 1)
      /\ i \in 1..Len(calls) => calls'[i] = calls[i]
      /\ i = Len(calls) + 1 => calls'[i].tool = tool
  BY DEF TypeOK, StartCall, Compared
<1>3. CASE i = Len(calls) + 1
  BY <1>1, <1>2, <1>3, SameKind
<1>4. CASE i \in 1..Len(calls)
  <2>1. i \in Compared
    BY <1>2, <1>4 DEF Compared
  <2>2. baseline # None /\ Delta(baseline, Semantic(calls[i].tool)) = {}
    BY <2>1 DEF BaselineSpeaksForCompared
  <2>3. Delta(baseline, Semantic(tool)) = {}
    BY <2>2 DEF CrossesBoundary
  <2>4. PICK first \in Tools : baseline = Semantic(first)
    BY <2>2, BaselineIsOfATool
  <2>5. calls[i].tool \in Tools
    BY <1>2, <1>4, CallsAreOfTools
  <2>6. Delta(Semantic(tool), Semantic(calls[i].tool)) = {}
    BY <2>2, <2>3, <2>4, <2>5, SameKind
  <2> QED BY <1>1, <1>2, <1>4, <2>6
<1> QED BY <1>2, <1>3, <1>4

\* A call stopped at the budget or the boundary leaves the others as they were.
LEMMA StoppingComparesNothing ==
  ASSUME TypeOK, NEW tool, NEW outcome, outcome \in {"exhausted", "crossing"},
         StartCall(tool, outcome)
  PROVE  /\ Compared' = Compared
         /\ \A i \in Compared : calls'[i] = calls[i]
BY DEF TypeOK, StartCall, Compared

\* A running tool that ends has run before and after.
LEMMA EndingAdmitsNothing ==
  ASSUME TypeOK, NEW k \in DOMAIN calls, OnToolEnd(k)
  PROVE  /\ Admitted' = Admitted /\ Compared' = Compared
         /\ \A i \in DOMAIN calls : calls'[i].tool = calls[i].tool
<1>1. /\ DOMAIN calls' = DOMAIN calls
      /\ \A i \in DOMAIN calls : i # k => calls'[i] = calls[i]
      /\ calls'[k].outcome = "done" /\ calls[k].outcome = "running"
      /\ calls'[k].tool = calls[k].tool
  <2>1. calls[k] \in Call /\ calls \in Seq(Call)
    BY DEF TypeOK
  <2>2. calls' = [calls EXCEPT ![k] = [calls[k] EXCEPT !.outcome = "done"]]
    BY DEF OnToolEnd
  <2>3. /\ [calls[k] EXCEPT !.outcome = "done"].outcome = "done"
        /\ [calls[k] EXCEPT !.outcome = "done"].tool = calls[k].tool
    BY <2>1 DEF Call
  <2>4. calls[k].outcome = "running"
    BY DEF OnToolEnd
  <2> QED BY <2>1, <2>2, <2>3, <2>4
<1> QED BY <1>1 DEF Admitted, Compared

\* For every agent: a call that differs in kind from a tool that ran is stopped
\* unless authority was renewed since, however calls, results, approvals, resets
\* and time interleave.
THEOREM OnlyRenewedAuthorityCrosses == Spec => []BoundariesNeedRenewal
<1>1. Init => BaselineSpeaksForCompared
  BY DEF Init, BaselineSpeaksForCompared, Compared
<1>2. TypeOK /\ BaselineSpeaksForCompared /\ [Next]_vars => BaselineSpeaksForCompared'
  <2> SUFFICES ASSUME TypeOK, BaselineSpeaksForCompared, [Next]_vars
               PROVE  BaselineSpeaksForCompared'
    OBVIOUS
  <2> USE DEF kernelVars, budgetVars
  <2>1. ASSUME NEW tool \in Tools, StartExhausted(tool)
        PROVE  BaselineSpeaksForCompared'
    BY <2>1, StoppingComparesNothing DEF StartExhausted, BaselineSpeaksForCompared
  <2>2. ASSUME NEW tool \in Tools, StartCrossing(tool)
        PROVE  BaselineSpeaksForCompared'
    BY <2>2, StoppingComparesNothing DEF StartCrossing, BaselineSpeaksForCompared
  <2>3. ASSUME NEW tool \in Tools, StartRefused(tool)
        PROVE  BaselineSpeaksForCompared'
    BY <2>3, AdmittingKeepsKind DEF StartRefused
  <2>4. ASSUME NEW tool \in Tools, StartAdmitted(tool)
        PROVE  BaselineSpeaksForCompared'
    BY <2>4, AdmittingKeepsKind DEF StartAdmitted
  <2>5. ASSUME NEW i \in DOMAIN calls, OnToolEnd(i)
        PROVE  BaselineSpeaksForCompared'
    <3>1. baseline' = baseline
      BY <2>5 DEF OnToolEnd
    <3> QED BY <2>5, <3>1, EndingAdmitsNothing
             DEF BaselineSpeaksForCompared, Compared
  <2>6. ASSUME UNCHANGED <<baseline, calls>>
        PROVE  BaselineSpeaksForCompared'
    BY <2>6 DEF BaselineSpeaksForCompared, Compared
  <2> QED BY <2>1, <2>2, <2>3, <2>4, <2>5, <2>6
          DEF Next, OnToolStart, OnAgentFinish, IssueDecisionToken, ResetBudget,
              Tick, vars
<1>3. TypeOK /\ BaselineSpeaksForCompared => BoundariesNeedRenewal
  <2> SUFFICES ASSUME TypeOK, BaselineSpeaksForCompared,
                      NEW i \in Admitted, NEW j \in DOMAIN calls,
                      calls[j].outcome \notin {"exhausted", "crossing"}
               PROVE  Delta(Semantic(calls[i].tool), Semantic(calls[j].tool)) = {}
    BY DEF BoundariesNeedRenewal
  <2>1. i \in Compared /\ j \in Compared
    <3>1. calls[j] \in Call
      BY DEF TypeOK
    <3> QED BY <3>1 DEF Admitted, Compared, Call
  <2>2. PICK first \in Tools : baseline = Semantic(first)
    BY <2>1, BaselineIsOfATool DEF BaselineSpeaksForCompared
  <2>3. calls[i].tool \in Tools /\ calls[j].tool \in Tools
    BY <2>1, CallsAreOfTools DEF Compared
  <2> QED BY <2>1, <2>2, <2>3, SameKind DEF BaselineSpeaksForCompared
<1> QED BY <1>1, <1>2, <1>3, TypeCorrect, PTL DEF Spec

-----------------------------------------------------------------------------
(* The budget *)

\* For every budget and every agent: calls that got past the budget since the
\* last reset are no more than the units consumed, which stay within the
\* limit; so an agent without a human stops after BudgetLimit calls.
THEOREM BoundedAutonomy == Spec => []AutonomyIsBounded
<1>1. Init => AutonomyIsBounded
  BY LimitAssumption DEF Init, AutonomyIsBounded
<1>2. TypeOK /\ AutonomyIsBounded /\ [Next]_vars => AutonomyIsBounded'
  <2> SUFFICES ASSUME TypeOK, AutonomyIsBounded, [Next]_vars
               PROVE  AutonomyIsBounded'
    OBVIOUS
  <2>1. ASSUME NEW tool \in Tools, Consume(tool)
        PROVE  AutonomyIsBounded'
    <3>1. /\ consumed \in Nat /\ spent \in Seq(Nat)
          /\ consumed' = consumed + Cost[tool]
          /\ consumed + Cost[tool] <= BudgetLimit
          /\ spent' = Append(spent, Cost[tool])
      BY <2>1 DEF TypeOK, Consume, CanAct
    <3>2. Len(spent') = Len(spent) + 1
      BY <3>1, CostIsPositive
    <3> QED BY <3>1, <3>2, CostIsPositive DEF AutonomyIsBounded
  <2>2. ASSUME UNCHANGED <<consumed, spent>>
        PROVE  AutonomyIsBounded'
    BY <2>2 DEF AutonomyIsBounded
  <2>3. CASE ResetBudget
    BY <2>3, LimitAssumption DEF ResetBudget, AutonomyIsBounded
  <2>4. ASSUME NEW tool \in Tools, OnToolStart(tool)
        PROVE  AutonomyIsBounded'
    BY <2>1, <2>2, <2>4 DEF OnToolStart, StartExhausted, StartCrossing,
                            StartRefused, StartAdmitted, budgetVars
  <2> QED BY <2>2, <2>3, <2>4 DEF Next, OnToolEnd, OnAgentFinish,
             IssueDecisionToken, Tick, vars, budgetVars
<1> QED BY <1>1, <1>2, TypeCorrect, PTL DEF Spec
-----------------------------------------------------------------------------
(* The scope *)

\* No token is issued in the future, and every tool that ran had its reason in
\* the intent or in a token.  The first part is what makes the second one
\* inductive: a valid token was issued before the call that it permits.
ScopeInv ==
    /\ \A k \in DOMAIN tokens : tokens[k].issuedAt <= now
    /\ NoSilentScopeExpansion

\* The reason a call had, for given tokens.
Justified(given, call) ==
    \/ call.operation \in Grant.operations \ Grant.forbidden
    \/ \E k \in Covering(given, Envelope, Proposed(call.tool)) :
         /\ given[k].issuedAt <= call.at
         /\ IsValid(given[k], call.at)

\* The kernel permits only what the intent grants and what a covering, valid
\* token permits.
LEMMA PermittedForAReason ==
    ASSUME NEW tool, Decision(tool) \in Permitting
    PROVE  \/ ExtractOperation(tool) \in Grant.operations \ Grant.forbidden
           \/ \E k \in Covering(tokens, Envelope, Proposed(tool)) :
                IsValid(tokens[k], now)
<1> DEFINE covering == Covering(tokens, Envelope, Proposed(tool))
           scope == ScopeDecision(Envelope, Proposed(tool), now)
<1>1. CASE covering # {}
  <2>1. FirstIsValid(tokens, covering, now)
    BY <1>1 DEF Decision, Evaluate, Permitting
  <2> QED BY <2>1 DEF FirstIsValid
<1>2. CASE covering = {}
  <2>1. scope \in {"ALLOW", "ALLOW_WITH_AUDIT"}
    BY <1>2 DEF Decision, Evaluate, Permitting
  <2>2. /\ Proposed(tool).operation = ExtractOperation(tool)
        /\ Envelope.grant = Grant
    BY DEF Proposed, Envelope
  <2>3. ExtractOperation(tool) \in Grant.operations \ Grant.forbidden
    BY <2>1, <2>2 DEF ScopeDecision, OutsideGrant
  <2> QED BY <2>3
<1> QED BY <1>1, <1>2

\* A token stays where it is issued, and so does every reason it is for.
LEMMA ReasonsLast ==
    ASSUME NEW given, Sequence(given), NEW token, NEW call, Justified(given, call)
    PROVE  Justified(Append(given, token), call)
<1> DEFINE more == Append(given, token)
<1>1. /\ DOMAIN given \subseteq DOMAIN more
      /\ \A k \in DOMAIN given : more[k] = given[k]
  <2>1. /\ DOMAIN given = 1..Len(given) /\ Len(given) \in Nat
        /\ DOMAIN more = 1..(Len(given) + 1)
        /\ \A k \in 1..Len(given) : more[k] = given[k]
    BY Appended
  <2> QED BY <2>1
<1> HIDE DEF more
<1>2. \A action : Covering(given, Envelope, action) \subseteq Covering(more, Envelope, action)
  BY <1>1 DEF Covering
<1>3. \A action : Covering(given, Envelope, action) \subseteq DOMAIN given
  BY DEF Covering
<1> QED BY <1>1, <1>2, <1>3 DEF Justified, more

\* For every intent and every set of approvals: whatever ran outside the
\* intent ran on a token of this human that covered it and was valid then,
\* whichever calls, approvals, resets and time came in between.
THEOREM NothingSilentlyExpands == Spec => []NoSilentScopeExpansion
<1>1. Init => ScopeInv
  BY DEF Init, ScopeInv, NoSilentScopeExpansion, Admitted
<1>2. TypeOK /\ ScopeInv /\ [Next]_vars => ScopeInv'
  <2> SUFFICES ASSUME TypeOK, ScopeInv, [Next]_vars PROVE ScopeInv'
    OBVIOUS
  <2>1. /\ now \in Nat /\ calls \in Seq(Call) /\ tokens \in Seq(Token)
        /\ \A k \in DOMAIN tokens : tokens[k].issuedAt \in Nat
    <3>1. now \in Nat /\ calls \in Seq(Call) /\ tokens \in Seq(Token)
      BY DEF TypeOK
    <3>2. \A k \in DOMAIN tokens : tokens[k] \in Token
      BY <3>1
    <3> QED BY <3>1, <3>2 DEF Token
  <2>2. \A i \in Admitted : Justified(tokens, calls[i])
    BY DEF ScopeInv, NoSilentScopeExpansion, Justified
  <2>3. ASSUME NEW tool \in Tools, NEW outcome, StartCall(tool, outcome),
               outcome \in {"running", "done"} => Decision(tool) \in Permitting
        PROVE  ScopeInv'
    <3>1. /\ calls' = Append(calls, [tool |-> tool,
                         operation |-> ExtractOperation(tool), at |-> now,
                         outcome |-> outcome, event |-> NextId])
          /\ tokens' = tokens /\ now' = now
      BY <2>3 DEF StartCall, kernelVars
    <3> DEFINE n == Len(calls)
    <3>2. /\ DOMAIN calls = 1..n /\ n \in Nat /\ DOMAIN calls' = 1..(n + 1)
          /\ \A i \in 1..n : calls'[i] = calls[i]
          /\ calls'[n + 1].tool = tool /\ calls'[n + 1].at = now
          /\ calls'[n + 1].operation = ExtractOperation(tool)
          /\ calls'[n + 1].outcome = outcome
      BY <2>1, <3>1
    <3> HIDE DEF n
    <3>3. ASSUME NEW i \in Admitted' PROVE Justified(tokens, calls'[i])
      <4>1. CASE i = n + 1
        <5>1. Decision(tool) \in Permitting
          BY <2>3, <3>2, <4>1 DEF Admitted
        <5>2. \A k \in Covering(tokens, Envelope, Proposed(tool)) :
                tokens[k].issuedAt <= now
          BY DEF Covering, ScopeInv
        <5> QED BY <3>2, <4>1, <5>1, <5>2, PermittedForAReason DEF Justified
      <4>2. CASE i \in 1..n
        <5>1. i \in Admitted
          BY <3>2, <4>2 DEF Admitted
        <5> QED BY <2>2, <3>2, <4>2, <5>1
      <4>3. i \in 1..(n + 1)
        BY <3>2 DEF Admitted
      <4> QED BY <3>2, <4>1, <4>2, <4>3
    <3> QED BY <3>1, <3>3 DEF ScopeInv, NoSilentScopeExpansion, Justified
  <2>4. ASSUME NEW i \in DOMAIN calls, OnToolEnd(i) PROVE ScopeInv'
    <3>1. tokens' = tokens /\ now' = now
      BY <2>4 DEF OnToolEnd, kernelVars
    <3>2. Admitted' = Admitted
      BY <2>4, EndingAdmitsNothing
    <3>3. ASSUME NEW j \in Admitted
          PROVE  /\ calls'[j].operation = calls[j].operation
                 /\ calls'[j].tool = calls[j].tool /\ calls'[j].at = calls[j].at
      <4>1. calls' = [calls EXCEPT ![i] = [calls[i] EXCEPT !.outcome = "done"]]
        BY <2>4 DEF OnToolEnd
      <4>2. j \in DOMAIN calls /\ calls[i] \in Call
        BY <2>1 DEF Admitted
      <4> DEFINE ended == [calls[i] EXCEPT !.outcome = "done"]
      <4>3. /\ ended.operation = calls[i].operation
            /\ ended.tool = calls[i].tool /\ ended.at = calls[i].at
        BY <4>2 DEF Call
      <4> HIDE DEF ended
      <4>4. calls'[j] = IF j = i THEN ended ELSE calls[j]
        BY <2>1, <4>1, <4>2 DEF ended
      <4> QED BY <4>3, <4>4
    <3>4. \A j \in Admitted' : Justified(tokens, calls'[j])
      BY <2>2, <3>2, <3>3 DEF Justified
    <3> QED BY <3>1, <3>4 DEF ScopeInv, NoSilentScopeExpansion, Justified
  <2>5. ASSUME NEW terms \in Approvals, IssueDecisionToken(terms) PROVE ScopeInv'
    <3> DEFINE token == [actor |-> Envelope.actor, parentIntent |-> Grant.objective,
                         terms |-> terms, issuedAt |-> now]
    <3>1. tokens' = Append(tokens, token) /\ now' = now /\ calls' = calls
      BY <2>5 DEF IssueDecisionToken
    <3>2. token.issuedAt = now
      OBVIOUS
    <3> HIDE DEF token
    <3>3. Sequence(tokens)
      BY <2>1 DEF Sequence
    <3>4. \A j \in Admitted' : Justified(tokens', calls'[j])
      BY <2>2, <3>1, <3>3, ReasonsLast DEF Admitted
    <3>5. \A k \in DOMAIN tokens' : tokens'[k].issuedAt <= now
      <4>1. /\ DOMAIN tokens = 1..Len(tokens) /\ Len(tokens) \in Nat
            /\ DOMAIN tokens' = 1..(Len(tokens) + 1)
            /\ \A k \in 1..Len(tokens) : tokens'[k] = tokens[k]
            /\ tokens'[Len(tokens) + 1] = token
        BY <3>1, <3>3, Appended
      <4>2. \A n \in Nat : \A k \in 1..(n + 1) : k = n + 1 \/ k \in 1..n
        OBVIOUS
      <4>3. \A k \in 1..Len(tokens) : tokens[k].issuedAt <= now
        BY <4>1 DEF ScopeInv
      <4> QED BY <2>1, <3>2, <4>1, <4>2, <4>3
    <3> QED BY <3>1, <3>4, <3>5 DEF ScopeInv, NoSilentScopeExpansion, Justified
  <2>6. ASSUME UNCHANGED <<tokens, calls>>, now' \in {now, now + 1} PROVE ScopeInv'
    <3>1. \A k \in DOMAIN tokens' : tokens'[k].issuedAt <= now'
      BY <2>1, <2>6 DEF ScopeInv
    <3> QED BY <2>6, <3>1 DEF ScopeInv, NoSilentScopeExpansion, Admitted
  <2>7. ASSUME NEW tool \in Tools, OnToolStart(tool) PROVE ScopeInv'
    BY <2>3, <2>7 DEF OnToolStart, StartExhausted, StartCrossing, StartRefused,
                      StartAdmitted
  <2> QED BY <2>4, <2>5, <2>6, <2>7
          DEF Next, OnAgentFinish, ResetBudget, Tick, vars, kernelVars
<1>3. ScopeInv => NoSilentScopeExpansion
  BY DEF ScopeInv
<1> QED BY <1>1, <1>2, <1>3, TypeCorrect, PTL DEF Spec

-----------------------------------------------------------------------------
(* The graph that the callback builds *)

\* Ids count the events, the intent comes first, and every other event names
\* one event before it.
Rooted(g) ==
    /\ g \in Seq(GraphEvent) /\ Len(g) >= 1
    /\ \A i \in DOMAIN g :
         /\ g[i].id = i
         /\ i = 1 => g[i].parents = <<>> /\ g[i].content.kind = "intent"
         /\ i # 1 => \E p \in 1..(i - 1) : g[i].parents = <<p>>

\* An event that can come next in such a graph.
Follows(g, event) ==
    /\ event \in GraphEvent
    /\ event.id = Len(g) + 1
    /\ \E p \in 1..Len(g) : event.parents = <<p>>

LEMMA RootedGrows ==
    ASSUME NEW g, Rooted(g), NEW event, Follows(g, event)
    PROVE  Rooted(Append(g, event))
<1> DEFINE n == Len(g)
           more == Append(g, event)
<1>1. g \in Seq(GraphEvent) /\ n \in Nat /\ n >= 1 /\ event \in GraphEvent
  BY DEF Rooted, Follows
<1>2. /\ DOMAIN g = 1..n /\ DOMAIN more = 1..(n + 1) /\ Len(more) = n + 1
      /\ more \in Seq(GraphEvent)
      /\ \A i \in 1..n : more[i] = g[i]
      /\ more[n + 1] = event
  BY <1>1
<1>3. \A i \in 1..(n + 1) : i \in 1..n \/ i = n + 1
  BY <1>1
<1> HIDE DEF more, n
<1>4. ASSUME NEW i \in 1..(n + 1)
      PROVE  /\ more[i].id = i
             /\ i = 1 => more[i].parents = <<>> /\ more[i].content.kind = "intent"
             /\ i # 1 => \E p \in 1..(i - 1) : more[i].parents = <<p>>
  <2>1. CASE i \in 1..n
    BY <1>2, <2>1 DEF Rooted
  <2>2. CASE i = n + 1
    <3>1. /\ event.id = n + 1
          /\ \E p \in 1..n : event.parents = <<p>>
      BY DEF Follows, n
    <3>2. i # 1 /\ i - 1 = n
      BY <1>1, <2>2
    <3> QED BY <1>2, <2>2, <3>1, <3>2
  <2> QED BY <1>3, <2>1, <2>2
<1>5. Rooted(more)
  <2>1. Len(more) >= 1
    BY <1>1, <1>2
  <2> QED BY <1>2, <1>4, <2>1 DEF Rooted
<1> QED BY <1>5 DEF more

\* Recording one event, or an event and one below it.
LEMMA Recorded ==
    ASSUME NEW g \in Seq(GraphEvent), NEW a \in GraphEvent, NEW b \in GraphEvent
    PROVE  /\ g \o <<a>> = Append(g, a)
           /\ g \o <<a, b>> = Append(Append(g, a), b)
OBVIOUS

\* Events are in order of time, and none is later than t.
Chronicle(g, t) ==
    \A i \in DOMAIN g :
      g[i].timestamp <= t /\ \A j \in 1..i : g[j].timestamp <= g[i].timestamp

\* Such a graph is one that explain() deals with.
LEMMA RootedIsCausal ==
    ASSUME NEW g, Rooted(g), NEW t, Chronicle(g, t)
    PROVE  Causal(g) /\ Forward(g)
<1>1. /\ g \in Seq(GraphEvent) /\ DOMAIN g = 1..Len(g) /\ Len(g) \in Nat
  BY DEF Rooted
<1>2. Sequence(g)
  BY <1>1 DEF Sequence
<1>3. \A i \in DOMAIN g :
        /\ g[i].id = i /\ i \in Nat
        /\ g[i].parents = <<>> \/ \E p \in 1..(i - 1) : g[i].parents = <<p>>
  BY <1>1 DEF Rooted
<1>4. ASSUME NEW i \in DOMAIN g
      PROVE  /\ Sequence(g[i].parents)
             /\ ToSet(g[i].parents) \subseteq 1..(i - 1)
  <2>1. CASE g[i].parents = <<>>
    BY <2>1 DEF Sequence, ToSet
  <2>2. CASE \E p \in 1..(i - 1) : g[i].parents = <<p>>
    <3>1. PICK p \in 1..(i - 1) : g[i].parents = <<p>>
      BY <2>2
    <3>2. <<p>> \in Seq({p}) /\ DOMAIN <<p>> = {1} /\ <<p>>[1] = p
      OBVIOUS
    <3> QED BY <3>1, <3>2 DEF Sequence, ToSet
  <2> QED BY <1>3, <2>1, <2>2
<1>5. ASSUME NEW i \in DOMAIN g, NEW p \in 1..(i - 1)
      PROVE  p \in DOMAIN g /\ g[p].id = p /\ p < i /\ p \in 1..i
  BY <1>1, <1>3
<1>6. \A i \in DOMAIN g : 1..(i - 1) \subseteq {g[j].id : j \in 1..(i - 1)}
  <2> SUFFICES ASSUME NEW i \in DOMAIN g, NEW p \in 1..(i - 1)
               PROVE  p \in {g[j].id : j \in 1..(i - 1)}
    OBVIOUS
  <2> QED BY <1>5
<1>7. Causal(g)
  <2>1. \A i, j \in DOMAIN g : g[i].id = g[j].id => i = j
    BY <1>3
  <2>2. \A i \in DOMAIN g : ToSet(g[i].parents) \subseteq {g[j].id : j \in 1..(i - 1)}
    BY <1>4, <1>6
  <2> QED BY <1>2, <1>4, <2>1, <2>2 DEF Causal
<1>8. ASSUME NEW i \in DOMAIN g, NEW p \in ToSet(g[i].parents)
      PROVE  EventOf(g, p).timestamp <= g[i].timestamp
  <2>1. p \in 1..(i - 1)
    BY <1>4
  <2>2. p \in DOMAIN g /\ g[p].id = p /\ p \in 1..i
    BY <1>5, <2>1
  <2>3. p \in Ids(g)
    BY <2>2 DEF Ids
  <2>4. EventOf(g, p) = g[p]
    BY <1>3, <2>2, <2>3, Located
  <2> QED BY <2>2, <2>4 DEF Chronicle
<1>9. Timed(g)
  <2>1. \A event \in GraphEvent : event.timestamp \in Int
    BY DEF GraphEvent
  <2> QED BY <1>1, <2>1 DEF Timed
<1> QED BY <1>7, <1>8, <1>9 DEF Forward

\* An explanation reaches back to the intent, because everything else it tells
\* of has a parent that it tells of too; and it begins at the intent's moment,
\* because nothing is older.
LEMMA ReachesIntent ==
    ASSUME NEW g, Rooted(g), NEW t, Chronicle(g, t), NEW id \in Ids(g)
    PROVE  LET chain == Explain(g, id)
           IN  \E k \in DOMAIN chain :
                 /\ chain[k] = EventOf(g, Intent)
                 /\ FindRoot(g, id).timestamp = chain[k].timestamp
<1> DEFINE chain == Explain(g, id)
<1>1. Causal(g) /\ Forward(g)
  BY RootedIsCausal
<1>2. /\ Len(chain) = Len(Visited(g, id)) + 1 /\ DOMAIN chain = 1..Len(chain)
      /\ Len(chain) \in Nat
      /\ \A k \in DOMAIN chain : \E other \in Ids(g) : chain[k] = EventOf(g, other)
      /\ \A k \in DOMAIN chain : \A parent \in ToSet(chain[k].parents) :
           \E j \in DOMAIN chain : chain[j] = EventOf(g, parent)
      /\ \A k, l \in DOMAIN chain : k < l => chain[k].timestamp <= chain[l].timestamp
  BY <1>1, ExplainedInOrder
<1>3. 1 \in DOMAIN chain
  <2>1. Visited(g, id) \in Seq(Ids(g))
    BY <1>1, AncestorsFound
  <2>2. Len(Visited(g, id)) \in Nat
    BY <2>1
  <2> QED BY <1>2, <2>2
<1> HIDE DEF chain
<1>4. /\ g \in Seq(GraphEvent) /\ DOMAIN g = 1..Len(g) /\ Len(g) \in Nat
      /\ \A i \in DOMAIN g : g[i].id = i /\ i \in Nat
  BY DEF Rooted
<1>5. \A i \in DOMAIN g : i \in Ids(g) /\ EventOf(g, i) = g[i]
  BY <1>4, Located DEF Ids
<1> DEFINE told == {i \in DOMAIN g : \E k \in DOMAIN chain : chain[k] = g[i]}
<1>6. ASSUME NEW k \in DOMAIN chain PROVE \E i \in told : chain[k] = g[i]
  <2>1. PICK other \in Ids(g) : chain[k] = EventOf(g, other)
    BY <1>2
  <2>2. PlaceOf(g, other) \in DOMAIN g /\ chain[k] = g[PlaceOf(g, other)]
    BY <2>1, Located
  <2> QED BY <2>2
<1>7. told \subseteq Nat /\ told # {}
  BY <1>3, <1>4, <1>6
<1>8. PICK first \in told : \A i \in told : first <= i
  <2> HIDE DEF told
  <2> QED BY <1>7, Smallest
<1>9. first = 1
  <2> SUFFICES ASSUME first # 1 PROVE FALSE
    OBVIOUS
  <2>1. PICK k \in DOMAIN chain : chain[k] = g[first]
    OBVIOUS
  <2>2. PICK p \in 1..(first - 1) : g[first].parents = <<p>>
    BY DEF Rooted
  <2>3. p \in ToSet(chain[k].parents)
    <3>1. DOMAIN <<p>> = {1} /\ <<p>>[1] = p
      OBVIOUS
    <3> QED BY <2>1, <2>2, <3>1 DEF ToSet
  <2>4. PICK j \in DOMAIN chain : chain[j] = EventOf(g, p)
    BY <1>2, <2>3
  <2>5. p \in DOMAIN g /\ ~ (first <= p)
    BY <1>4, <2>2
  <2> QED BY <1>5, <1>8, <2>4, <2>5
<1>10. PICK k \in DOMAIN chain : chain[k] = g[1]
  BY <1>9
<1>11. 1 \in DOMAIN g /\ chain[k] = EventOf(g, Intent)
  BY <1>5, <1>9, <1>10 DEF Intent
<1>12. PICK i \in DOMAIN g : chain[1] = g[i]
  <2>1. \E i \in told : chain[1] = g[i]
    BY <1>3, <1>6
  <2> QED BY <2>1
<1>13. chain[1].timestamp \in Int /\ chain[k].timestamp \in Int
  <2>1. \A event \in GraphEvent : event.timestamp \in Int
    BY DEF GraphEvent
  <2>2. g[i] \in GraphEvent /\ g[1] \in GraphEvent
    BY <1>4, <1>11, <1>12
  <2> QED BY <1>10, <1>12, <2>1, <2>2
<1>14. chain[1].timestamp <= chain[k].timestamp
  <2>1. k = 1 \/ 1 < k
    BY <1>2
  <2> QED BY <1>2, <1>3, <1>13, <2>1
<1>15. chain[k].timestamp <= chain[1].timestamp
  <2>1. 1 \in 1..i
    BY <1>4
  <2> QED BY <1>10, <1>12, <2>1 DEF Chronicle
<1>16. FindRoot(g, id) = chain[1]
  BY DEF FindRoot, chain
<1> QED BY <1>11, <1>13, <1>14, <1>15, <1>16 DEF chain

\* The events that the callback records can come next.
LEMMA NextEvents ==
    ASSUME Rooted(graph), now \in Nat
    PROVE  /\ \A tool \in Tools : Follows(graph, ToolCall(tool))
           /\ \A content \in Content : \A p \in DOMAIN graph :
                Follows(graph, Event(NextId, content, <<p>>))
           /\ \A tool \in Tools : \A content \in Content :
                Follows(Append(graph, ToolCall(tool)), Checkpoint(content))
<1>1. graph \in Seq(GraphEvent) /\ DOMAIN graph = 1..Len(graph) /\ Len(graph) \in Nat
  BY DEF Rooted
<1>2. Len(graph) >= 1
  BY DEF Rooted
<1>3. ASSUME NEW content \in Content, NEW id \in Nat, NEW p \in Nat
      PROVE  /\ Event(id, content, <<p>>) \in GraphEvent
             /\ Event(id, content, <<p>>).id = id
             /\ Event(id, content, <<p>>).parents = <<p>>
             /\ Event(id, content, <<p>>).content = content
  BY DEF Event, GraphEvent
<1>4. ASSUME NEW content \in Content, NEW p \in DOMAIN graph
      PROVE  Follows(graph, Event(NextId, content, <<p>>))
  <2>1. NextId \in Nat /\ NextId = Len(graph) + 1 /\ p \in Nat /\ p \in 1..Len(graph)
    BY <1>1 DEF NextId
  <2> QED BY SMTT(30), <1>3, <2>1 DEF Follows
<1>5. ASSUME NEW tool \in Tools PROVE Follows(graph, ToolCall(tool))
  <2>1. [kind |-> "tool_call", tool |-> tool] \in Content
    BY DEF Content
  <2>2. Intent \in DOMAIN graph
    BY <1>1, <1>2 DEF Intent
  <2> QED BY <1>4, <2>1, <2>2 DEF ToolCall
<1>6. ASSUME NEW tool \in Tools, NEW content \in Content
      PROVE  Follows(Append(graph, ToolCall(tool)), Checkpoint(content))
  <2>1. Len(Append(graph, ToolCall(tool))) = Len(graph) + 1
    BY <1>1
  <2>2. NextId + 1 \in Nat /\ NextId = Len(graph) + 1 /\ NextId \in Nat
    BY <1>1 DEF NextId
  <2>3. NextId \in 1..(Len(graph) + 1)
    BY <1>1, <2>2
  <2> QED BY <1>3, <2>1, <2>2, <2>3 DEF Follows, Checkpoint
<1> QED BY <1>4, <1>5, <1>6

\* What on_tool_start adds to the graph: the call, and below it at most one
\* event that tells why it was stopped.
LEMMA StartRecords ==
    ASSUME Rooted(graph), now \in Nat, NEW tool \in Tools, OnToolStart(tool)
    PROVE  /\ Rooted(graph')
           /\ DOMAIN graph \subseteq DOMAIN graph'
           /\ \A i \in DOMAIN graph : graph'[i] = graph[i]
           /\ \A i \in DOMAIN graph' \ DOMAIN graph :
                graph'[i].content.kind # "tool_result" /\ graph'[i].timestamp = now
           /\ NextId \in DOMAIN graph'
<1> DEFINE call == ToolCall(tool)
           once == Append(graph, call)
<1>1. graph \in Seq(GraphEvent) /\ DOMAIN graph = 1..Len(graph) /\ Len(graph) \in Nat
  BY DEF Rooted
<1>2. call \in GraphEvent /\ Follows(graph, call)
  BY NextEvents DEF Follows
<1>3. call.content.kind = "tool_call" /\ call.timestamp = now
  BY DEF ToolCall, Event
<1>4. Rooted(once)
  BY <1>2, RootedGrows
<1>5. NextId = Len(graph) + 1
  BY DEF NextId
<1> HIDE DEF call
<1>6. /\ once \in Seq(GraphEvent) /\ Len(once) = Len(graph) + 1
      /\ DOMAIN once = 1..(Len(graph) + 1)
      /\ \A i \in 1..Len(graph) : once[i] = graph[i]
      /\ once[Len(graph) + 1] = call
  BY <1>1, <1>2
<1> HIDE DEF once
<1>7. \A i \in 1..(Len(graph) + 1) : i \in 1..Len(graph) \/ i = Len(graph) + 1
  BY <1>1
<1>8. CASE graph' = once
  BY <1>1, <1>3, <1>4, <1>5, <1>6, <1>7, <1>8
<1>9. ASSUME NEW content \in Content, content.kind # "tool_result",
             graph' = Append(once, Checkpoint(content))
      PROVE  /\ Rooted(graph')
             /\ DOMAIN graph \subseteq DOMAIN graph'
             /\ \A i \in DOMAIN graph : graph'[i] = graph[i]
             /\ \A i \in DOMAIN graph' \ DOMAIN graph :
                  graph'[i].content.kind # "tool_result" /\ graph'[i].timestamp = now
             /\ NextId \in DOMAIN graph'
  <2> DEFINE check == Checkpoint(content)
  <2>1. Follows(once, check) /\ check \in GraphEvent
    BY NextEvents DEF Follows, once, call
  <2>2. check.content = content /\ check.timestamp = now
    BY DEF Checkpoint, Event
  <2> HIDE DEF check
  <2>3. Rooted(graph')
    BY <1>4, <1>9, <2>1, RootedGrows DEF check
  <2>4. /\ DOMAIN graph' = 1..(Len(graph) + 2)
        /\ \A i \in 1..(Len(graph) + 1) : graph'[i] = once[i]
        /\ graph'[Len(graph) + 2] = check
    <3>1. graph' = Append(once, check)
      BY <1>9 DEF check
    <3> QED BY <1>1, <1>6, <2>1, <3>1
  <2>5. \A i \in 1..(Len(graph) + 2) : i \in 1..(Len(graph) + 1) \/ i = Len(graph) + 2
    BY <1>1
  <2>6. 1..Len(graph) \subseteq 1..(Len(graph) + 1) /\ 1..(Len(graph) + 1) \subseteq 1..(Len(graph) + 2)
    BY <1>1
  <2>7. Len(graph) + 1 \in 1..(Len(graph) + 2)
    BY <1>1
  <2>8. \A i \in 1..(Len(graph) + 2) \ 1..Len(graph) :
          graph'[i].content.kind # "tool_result" /\ graph'[i].timestamp = now
    BY <1>3, <1>6, <1>7, <1>9, <2>2, <2>4, <2>5
  <2> QED BY <1>1, <1>5, <1>6, <2>3, <2>4, <2>6, <2>7, <2>8
<1>10. graph' = once \/ \E content \in Content :
         content.kind # "tool_result" /\ graph' = Append(once, Checkpoint(content))
  <2>1. ASSUME NEW content \in Content,
               graph' = graph \o <<ToolCall(tool), Checkpoint(content)>>
        PROVE  graph' = Append(once, Checkpoint(content))
    <3>1. Checkpoint(content) \in GraphEvent
      BY NextEvents DEF Follows
    <3> QED BY <1>1, <1>2, <2>1, <3>1, Recorded DEF once, call
  <2>2. graph \o <<ToolCall(tool)>> = once
    BY <1>1, <1>2, Recorded DEF once, call
  <2>3. [kind |-> "checkpoint"] \in Content /\ [kind |-> "checkpoint"].kind # "tool_result"
    BY DEF Content
  <2>4. \A b \in BoundaryTypes :
          /\ [kind |-> "semantic_delta", boundary |-> b] \in Content
          /\ [kind |-> "semantic_delta", boundary |-> b].kind # "tool_result"
    BY DEF Content
  <2>5. \A delta : BoundaryType(delta) \in BoundaryTypes
    BY DEF BoundaryType, BoundaryTypes
  <2>6. CASE StartExhausted(tool)
    BY <2>1, <2>3, <2>6 DEF StartExhausted, Record
  <2>7. CASE StartCrossing(tool)
    BY <2>1, <2>4, <2>5, <2>7 DEF StartCrossing, Record
  <2>8. CASE StartRefused(tool)
    BY <2>1, <2>2, <2>3, <2>8 DEF StartRefused, Record
  <2>9. CASE StartAdmitted(tool)
    BY <2>2, <2>9 DEF StartAdmitted, Record
  <2> QED BY <2>6, <2>7, <2>8, <2>9 DEF OnToolStart
<1> QED BY <1>8, <1>9, <1>10

-----------------------------------------------------------------------------
(* Which result is linked to which call *)

\* Every result is linked to its own call, or another call started before it
\* came.
Linked(g, cs) ==
    /\ \A i \in DOMAIN cs : cs[i].event \in DOMAIN g
    /\ \A r \in DOMAIN g : g[r].content.kind = "tool_result" =>
         LET own == g[r].content.call
         IN  /\ own \in DOMAIN cs
             /\ \/ g[r].parents = <<cs[own].event>>
                \/ \E j \in DOMAIN cs : j > own /\ ~ (cs[j].event > g[r].id)

\* Further calls, and further events that are no results, change nothing.
LEMMA LinksLast ==
    ASSUME NEW g, NEW cs, Linked(g, cs), NEW h, NEW ds,
           DOMAIN g \subseteq DOMAIN h, \A i \in DOMAIN g : h[i] = g[i],
           \A i \in DOMAIN h \ DOMAIN g : h[i].content.kind # "tool_result",
           DOMAIN cs \subseteq DOMAIN ds,
           \A i \in DOMAIN cs : ds[i].event = cs[i].event,
           \A i \in DOMAIN ds \ DOMAIN cs : ds[i].event \in DOMAIN h
    PROVE  Linked(h, ds)
<1>1. \A i \in DOMAIN ds : ds[i].event \in DOMAIN h
  BY DEF Linked
<1>2. ASSUME NEW r \in DOMAIN h, h[r].content.kind = "tool_result"
      PROVE  LET own == h[r].content.call
             IN  /\ own \in DOMAIN ds
                 /\ \/ h[r].parents = <<ds[own].event>>
                    \/ \E j \in DOMAIN ds : j > own /\ ~ (ds[j].event > h[r].id)
  <2>1. r \in DOMAIN g /\ h[r] = g[r]
    BY <1>2
  <2>2. LET own == g[r].content.call
        IN  /\ own \in DOMAIN cs
            /\ \/ g[r].parents = <<cs[own].event>>
               \/ \E j \in DOMAIN cs : j > own /\ ~ (cs[j].event > g[r].id)
    BY <1>2, <2>1 DEF Linked
  <2> QED BY <2>1, <2>2
<1> QED BY <1>1, <1>2 DEF Linked

\* The result of the last call that started is linked to it.
LEMMA LinkedOnArrival ==
    ASSUME NEW g, Rooted(g), NEW cs, Sequence(cs), Linked(g, cs),
           NEW i \in DOMAIN cs, NEW event, Follows(g, event),
           event.content = [kind |-> "tool_result", call |-> i],
           i = Len(cs) => event.parents = <<cs[i].event>>
    PROVE  Linked(Append(g, event), cs)
<1> DEFINE n == Len(g)
           h == Append(g, event)
<1>1. /\ g \in Seq(GraphEvent) /\ n \in Nat /\ DOMAIN g = 1..n
      /\ event \in GraphEvent /\ event.id = n + 1
  BY DEF Rooted, Follows
<1>2. /\ DOMAIN h = 1..(n + 1)
      /\ \A k \in 1..n : h[k] = g[k]
      /\ h[n + 1] = event
  BY <1>1
<1>3. \A k \in 1..(n + 1) : k \in 1..n \/ k = n + 1
  BY <1>1
<1>4. Len(cs) \in Nat /\ DOMAIN cs = 1..Len(cs)
  BY DEF Sequence
<1> HIDE DEF n, h
<1>5. \A j \in DOMAIN cs : cs[j].event \in DOMAIN h /\ ~ (cs[j].event > n + 1)
  <2>1. 1..n \subseteq 1..(n + 1) /\ \A k \in 1..n : ~ (k > n + 1)
    BY <1>1
  <2> QED BY <1>1, <1>2, <2>1 DEF Linked
<1>6. ASSUME NEW r \in DOMAIN h, h[r].content.kind = "tool_result"
      PROVE  LET own == h[r].content.call
             IN  /\ own \in DOMAIN cs
                 /\ \/ h[r].parents = <<cs[own].event>>
                    \/ \E j \in DOMAIN cs : j > own /\ ~ (cs[j].event > h[r].id)
  <2>1. CASE r \in 1..n
    BY <1>1, <1>2, <1>6, <2>1 DEF Linked
  <2>2. CASE r = n + 1
    <3>1. h[r] = event /\ h[r].content.call = i /\ h[r].id = n + 1
      BY <1>1, <1>2, <2>2
    <3>2. i = Len(cs) \/ Len(cs) > i
      BY <1>4
    <3>3. Len(cs) > i => Len(cs) \in DOMAIN cs
      BY <1>4
    <3> QED BY <1>5, <3>1, <3>2, <3>3
  <2> QED BY <1>2, <1>3, <2>1, <2>2
<1>7. Linked(h, cs)
  BY <1>5, <1>6 DEF Linked
<1> QED BY <1>7 DEF h

\* What on_tool_end adds to the graph, once a call has been published.
LEMMA EndRecords ==
    ASSUME Rooted(graph), now \in Nat, NEW i \in Nat, OnToolEnd(i), lastTool \in DOMAIN graph
    PROVE  LET event == Event(NextId, [kind |-> "tool_result", call |-> i], <<lastTool>>)
           IN  /\ Follows(graph, event) /\ graph' = Append(graph, event)
               /\ event.content = [kind |-> "tool_result", call |-> i]
               /\ event.parents = <<lastTool>>
<1> DEFINE content == [kind |-> "tool_result", call |-> i]
           event == Event(NextId, content, <<lastTool>>)
<1>1. content \in Content
  BY DEF Content
<1>2. event.content = content /\ event.parents = <<lastTool>>
  BY DEF Event
<1>3. lastTool # None
  BY NoneAssumption DEF Rooted
<1>4. graph' = graph \o <<event>>
  BY <1>3 DEF OnToolEnd, Record
<1> HIDE DEF content
<1>5. Follows(graph, event)
  BY <1>1, NextEvents
<1> HIDE DEF event
<1>6. event \in GraphEvent /\ graph \in Seq(GraphEvent)
  BY <1>5 DEF Follows, Rooted
<1>7. graph' = Append(graph, event)
  BY <1>4, <1>6, Recorded
<1> QED BY <1>2, <1>5, <1>7 DEF event, content

\* What on_agent_finish adds to the graph.
LEMMA FinishRecords ==
    ASSUME Rooted(graph), now \in Nat, OnAgentFinish
    PROVE  LET event == Event(NextId, [kind |-> "action"], <<Intent>>)
           IN  /\ Follows(graph, event) /\ graph' = Append(graph, event)
               /\ event.content = [kind |-> "action"]
<1> DEFINE content == [kind |-> "action"]
           event == Event(NextId, content, <<Intent>>)
<1>1. content \in Content /\ Intent \in DOMAIN graph
  BY DEF Content, Intent, Rooted
<1>2. event.content = content
  BY DEF Event
<1>3. graph' = graph \o <<event>>
  BY DEF OnAgentFinish, Record
<1> HIDE DEF content
<1>4. Follows(graph, event)
  BY <1>1, NextEvents
<1> HIDE DEF event
<1>5. event \in GraphEvent /\ graph \in Seq(GraphEvent)
  BY <1>4 DEF Follows, Rooted
<1>6. graph' = Append(graph, event)
  BY <1>3, <1>5, Recorded
<1> QED BY <1>2, <1>4, <1>6 DEF event, content

\* A call whose outcome changes keeps everything else, and so do the others.
IsCall(call) ==
    call = [tool |-> call.tool, operation |-> call.operation, at |-> call.at,
            outcome |-> call.outcome, event |-> call.event]

OutcomeSet(cs, i, outcome, ds) ==
    /\ DOMAIN ds = DOMAIN cs /\ Len(ds) = Len(cs) /\ Sequence(ds)
    /\ \A j \in DOMAIN cs :
         /\ ds[j].event = cs[j].event /\ ds[j].tool = cs[j].tool
         /\ ds[j].operation = cs[j].operation /\ ds[j].at = cs[j].at
         /\ ds[j].outcome = IF j = i THEN outcome ELSE cs[j].outcome
         /\ IsCall(ds[j])

LEMMA OutcomeChanges ==
    ASSUME NEW R, \A call \in R : IsCall(call), NEW cs \in Seq(R),
           NEW i \in DOMAIN cs, NEW outcome
    PROVE  OutcomeSet(cs, i, outcome, [cs EXCEPT ![i].outcome = outcome])
<1> DEFINE old == cs[i]
           new == [old EXCEPT !.outcome = outcome]
           ds == [cs EXCEPT ![i].outcome = outcome]
<1>1. ds = [cs EXCEPT ![i] = new]
  OBVIOUS
<1>2. \A j \in DOMAIN cs : IsCall(cs[j])
  OBVIOUS
<1>3. new = [tool |-> old.tool, operation |-> old.operation, at |-> old.at,
             outcome |-> outcome, event |-> old.event]
  BY <1>2 DEF IsCall
<1>4. /\ new.event = old.event /\ new.tool = old.tool
      /\ new.operation = old.operation /\ new.at = old.at
      /\ new.outcome = outcome /\ IsCall(new)
  BY <1>3 DEF IsCall
<1> HIDE DEF new
<1>5. Sequence(cs)
  BY DEF Sequence
<1>6. /\ DOMAIN ds = DOMAIN cs /\ Len(ds) = Len(cs) /\ Sequence(ds)
      /\ ds[i] = new
      /\ \A j \in DOMAIN cs : j # i => ds[j] = cs[j]
  BY <1>1, <1>5, Replaced
<1> HIDE DEF ds
<1>7. ASSUME NEW j \in DOMAIN cs
      PROVE  /\ ds[j].event = cs[j].event /\ ds[j].tool = cs[j].tool
             /\ ds[j].operation = cs[j].operation /\ ds[j].at = cs[j].at
             /\ ds[j].outcome = IF j = i THEN outcome ELSE cs[j].outcome
             /\ IsCall(ds[j])
  BY <1>2, <1>4, <1>6
<1> QED BY <1>6, <1>7 DEF ds, OutcomeSet

-----------------------------------------------------------------------------
(* The callback's graph, its calls and the slot _last_tool_event_id *)

CallbackInv ==
    /\ Rooted(graph)
    /\ Linked(graph, calls)
    /\ calls # <<>> => lastTool = calls[Len(calls)].event

LEMMA CallbackInvInit ==
    ASSUME Init PROVE CallbackInv
<1> DEFINE event == Event(Intent, [kind |-> "intent"], <<>>)
<1>1. /\ event \in GraphEvent /\ event.id = 1
      /\ event.parents = <<>> /\ event.content.kind = "intent"
  <2>1. /\ [kind |-> "intent"] \in Content /\ <<>> \in Seq(Nat) /\ Intent = 1
        /\ now = 0
    BY DEF Content, Intent, Init
  <2> QED BY <2>1 DEF Event, GraphEvent
<1>2. graph = <<event>> /\ calls = <<>>
  BY DEF Init
<1> HIDE DEF event
<1>3. graph \in Seq(GraphEvent) /\ Len(graph) = 1 /\ DOMAIN graph = {1} /\ graph[1] = event
  BY <1>1, <1>2
<1>4. Rooted(graph)
  BY <1>1, <1>3 DEF Rooted
<1>5. Linked(graph, calls)
  BY <1>1, <1>2, <1>3 DEF Linked
<1> QED BY <1>2, <1>4, <1>5 DEF CallbackInv

LEMMA CallbackInvStep ==
    ASSUME TypeOK, CallbackInv, [Next]_vars PROVE CallbackInv'
<1>1. /\ Rooted(graph) /\ Linked(graph, calls)
      /\ calls # <<>> => lastTool = calls[Len(calls)].event
  BY DEF CallbackInv
<1>2. /\ calls \in Seq(Call) /\ Len(calls) \in Nat /\ DOMAIN calls = 1..Len(calls)
      /\ Sequence(calls)
  <2>1. calls \in Seq(Call)
    BY DEF TypeOK
  <2> QED BY <2>1 DEF Sequence
<1>3. ASSUME NEW tool \in Tools, OnToolStart(tool) PROVE CallbackInv'
  <2>1. PICK outcome : StartCall(tool, outcome)
    BY <1>3 DEF OnToolStart, StartExhausted, StartCrossing, StartRefused,
                StartAdmitted
  <2> DEFINE call == [tool |-> tool, operation |-> ExtractOperation(tool),
                      at |-> now, outcome |-> outcome, event |-> NextId]
  <2>2. calls' = Append(calls, call) /\ lastTool' = NextId /\ call.event = NextId
    BY <2>1 DEF StartCall
  <2> HIDE DEF call
  <2>3. /\ Len(calls') = Len(calls) + 1 /\ DOMAIN calls' = 1..(Len(calls) + 1)
        /\ \A i \in 1..Len(calls) : calls'[i] = calls[i]
        /\ calls'[Len(calls) + 1] = call
    BY <1>2, <2>2, Appended
  <2>4. /\ Rooted(graph') /\ DOMAIN graph \subseteq DOMAIN graph'
        /\ \A i \in DOMAIN graph : graph'[i] = graph[i]
        /\ \A i \in DOMAIN graph' \ DOMAIN graph :
             graph'[i].content.kind # "tool_result"
        /\ NextId \in DOMAIN graph'
    BY <1>1, <1>3, StartRecords DEF TypeOK
  <2>5. Linked(graph', calls')
    <3>1. DOMAIN calls \subseteq DOMAIN calls'
      BY <1>2, <2>3
    <3>2. \A i \in DOMAIN calls : calls'[i].event = calls[i].event
      BY <1>2, <2>3
    <3>3. \A i \in DOMAIN calls' \ DOMAIN calls : calls'[i].event = NextId
      <4>1. \A i \in 1..(Len(calls) + 1) : i \in 1..Len(calls) \/ i = Len(calls) + 1
        BY <1>2
      <4> QED BY <1>2, <2>2, <2>3, <4>1
    <3>4. \A i \in DOMAIN calls' \ DOMAIN calls : calls'[i].event \in DOMAIN graph'
      BY <2>4, <3>3
    <3> QED BY <1>1, <2>4, <3>1, <3>2, <3>4, LinksLast
  <2> QED BY <2>2, <2>3, <2>4, <2>5 DEF CallbackInv
<1>4. ASSUME NEW i \in DOMAIN calls, OnToolEnd(i) PROVE CallbackInv'
  <2> DEFINE event == Event(NextId, [kind |-> "tool_result", call |-> i], <<lastTool>>)
  <2>1. calls # <<>> /\ Len(calls) \in DOMAIN calls /\ i \in Nat
    BY <1>2
  <2>2. lastTool = calls[Len(calls)].event /\ lastTool \in DOMAIN graph
    BY <1>1, <2>1 DEF Linked
  <2>3. /\ Follows(graph, event) /\ graph' = Append(graph, event)
        /\ event.content = [kind |-> "tool_result", call |-> i]
        /\ event.parents = <<lastTool>>
    BY <1>1, <1>4, <2>1, <2>2, EndRecords DEF TypeOK
  <2> HIDE DEF event
  <2>4. Linked(graph', calls)
    BY <1>1, <1>2, <2>2, <2>3, LinkedOnArrival
  <2>5. \A call \in Call : IsCall(call)
    BY DEF Call, IsCall
  <2>6. /\ DOMAIN calls' = DOMAIN calls /\ Len(calls') = Len(calls)
        /\ \A j \in DOMAIN calls : calls'[j].event = calls[j].event
    <3>1. calls' = [calls EXCEPT ![i].outcome = "done"]
      BY <1>4 DEF OnToolEnd
    <3>2. OutcomeSet(calls, i, "done", calls')
      BY <1>2, <2>5, <3>1, OutcomeChanges
    <3> QED BY <3>2 DEF OutcomeSet
  <2>7. Linked(graph', calls')
    BY <2>4, <2>6, LinksLast
  <2>8. Rooted(graph')
    BY <1>1, <2>3, RootedGrows
  <2>9. lastTool' = lastTool
    BY <1>4 DEF OnToolEnd
  <2> QED BY <2>1, <2>2, <2>6, <2>7, <2>8, <2>9 DEF CallbackInv
<1>5. CASE OnAgentFinish
  <2> DEFINE event == Event(NextId, [kind |-> "action"], <<Intent>>)
  <2>1. /\ Follows(graph, event) /\ graph' = Append(graph, event)
        /\ event.content = [kind |-> "action"]
    BY <1>1, <1>5, FinishRecords DEF TypeOK
  <2> HIDE DEF event
  <2>2. Rooted(graph')
    BY <1>1, <2>1, RootedGrows
  <2>3. Sequence(graph)
    BY <1>1 DEF Rooted, Sequence
  <2>4. /\ Len(graph) \in Nat /\ DOMAIN graph = 1..Len(graph)
        /\ DOMAIN graph' = 1..(Len(graph) + 1)
        /\ \A j \in 1..Len(graph) : graph'[j] = graph[j]
        /\ graph'[Len(graph) + 1] = event
    BY <2>1, <2>3, Appended
  <2>5. /\ DOMAIN graph \subseteq DOMAIN graph'
        /\ \A j \in DOMAIN graph' \ DOMAIN graph : graph'[j].content.kind # "tool_result"
    <3>1. \A n \in Nat : /\ 1..n \subseteq 1..(n + 1)
                         /\ \A j \in 1..(n + 1) : j \notin 1..n => j = n + 1
      OBVIOUS
    <3> QED BY <2>1, <2>4, <3>1
  <2>6. calls' = calls /\ lastTool' = lastTool
    BY <1>5 DEF OnAgentFinish
  <2>7. Linked(graph', calls')
    BY <1>1, <2>4, <2>5, <2>6, LinksLast
  <2> QED BY <1>1, <2>2, <2>6, <2>7 DEF CallbackInv
<1>6. ASSUME UNCHANGED <<graph, calls, lastTool>> PROVE CallbackInv'
  BY <1>6 DEF CallbackInv
<1> QED BY <1>3, <1>4, <1>5, <1>6
        DEF Next, IssueDecisionToken, ResetBudget, Tick, vars

LEMMA CallbackInvHolds == Spec => []CallbackInv
BY TypeCorrect, CallbackInvInit, CallbackInvStep, PTL DEF Spec

\* The clock runs forward, so events are recorded in order of time.
Chronicled == Chronicle(graph, now)

LEMMA ChronicleGrows ==
    ASSUME NEW g \in Seq(GraphEvent), NEW t \in Nat, Chronicle(g, t),
           NEW h \in Seq(GraphEvent), DOMAIN g \subseteq DOMAIN h,
           \A i \in DOMAIN g : h[i] = g[i],
           \A i \in DOMAIN h \ DOMAIN g : h[i].timestamp = t
    PROVE  Chronicle(h, t)
<1>1. /\ DOMAIN g = 1..Len(g) /\ Len(g) \in Nat
      /\ DOMAIN h = 1..Len(h) /\ Len(h) \in Nat
  OBVIOUS
<1>2. \A i \in DOMAIN h : h[i].timestamp <= t
  BY DEF Chronicle
<1>3. ASSUME NEW i \in DOMAIN h, NEW j \in 1..i
      PROVE  h[j].timestamp <= h[i].timestamp
  <2>1. j \in DOMAIN h
    BY <1>1
  <2>2. CASE i \in DOMAIN g
    <3>1. j \in DOMAIN g
      BY <1>1, <2>2
    <3> QED BY <2>2, <3>1 DEF Chronicle
  <2>3. CASE i \notin DOMAIN g
    BY <1>2, <2>1, <2>3
  <2> QED BY <2>2, <2>3
<1> QED BY <1>2, <1>3 DEF Chronicle

LEMMA ChronicledStep ==
    ASSUME TypeOK, CallbackInv, CallbackInv', Chronicled, [Next]_vars
    PROVE  Chronicled'
<1>1. /\ now \in Nat /\ Rooted(graph) /\ Linked(graph, calls)
      /\ graph \in Seq(GraphEvent) /\ graph' \in Seq(GraphEvent)
  BY DEF TypeOK, CallbackInv, Rooted
<1>2. ASSUME NEW event, event.timestamp = now, graph' = Append(graph, event),
             now' = now
      PROVE  Chronicled'
  <2>1. Sequence(graph)
    BY <1>1 DEF Sequence
  <2>2. /\ DOMAIN graph = 1..Len(graph) /\ DOMAIN graph' = 1..(Len(graph) + 1)
        /\ \A i \in 1..Len(graph) : graph'[i] = graph[i]
        /\ graph'[Len(graph) + 1] = event
    BY <1>2, <2>1, Appended
  <2>3. Len(graph) \in Nat
    BY <1>1
  <2>4. /\ DOMAIN graph \subseteq DOMAIN graph'
        /\ \A i \in DOMAIN graph' \ DOMAIN graph : graph'[i].timestamp = now
    BY <1>2, <2>2, <2>3
  <2> QED BY <1>1, <1>2, <2>2, <2>4, ChronicleGrows DEF Chronicled
<1>3. ASSUME NEW tool \in Tools, OnToolStart(tool) PROVE Chronicled'
  <2>1. now' = now
    BY <1>3 DEF OnToolStart, StartExhausted, StartCrossing, StartRefused,
                StartAdmitted, StartCall, kernelVars
  <2>2. /\ DOMAIN graph \subseteq DOMAIN graph'
        /\ \A i \in DOMAIN graph : graph'[i] = graph[i]
        /\ \A i \in DOMAIN graph' \ DOMAIN graph : graph'[i].timestamp = now
    BY <1>1, <1>3, StartRecords
  <2> QED BY <1>1, <2>1, <2>2, ChronicleGrows DEF Chronicled
<1>4. ASSUME NEW i \in DOMAIN calls, OnToolEnd(i) PROVE Chronicled'
  <2> DEFINE event == Event(NextId, [kind |-> "tool_result", call |-> i], <<lastTool>>)
  <2>1. i \in Nat /\ lastTool = calls[Len(calls)].event /\ Len(calls) \in DOMAIN calls
    BY DEF TypeOK, CallbackInv
  <2>2. graph' = Append(graph, event)
    BY <1>1, <1>4, <2>1, EndRecords DEF Linked
  <2>3. event.timestamp = now
    BY DEF Event
  <2>4. now' = now
    BY <1>4 DEF OnToolEnd, kernelVars
  <2> QED BY <1>2, <2>2, <2>3, <2>4
<1>5. CASE OnAgentFinish
  <2> DEFINE event == Event(NextId, [kind |-> "action"], <<Intent>>)
  <2>1. graph' = Append(graph, event)
    BY <1>1, <1>5, FinishRecords
  <2>2. event.timestamp = now
    BY DEF Event
  <2>3. now' = now
    BY <1>5 DEF OnAgentFinish, kernelVars
  <2> QED BY <1>2, <2>1, <2>2, <2>3
<1>6. ASSUME graph' = graph, now' \in {now, now + 1} PROVE Chronicled'
  <2>1. \A i \in DOMAIN graph : graph[i].timestamp \in Nat
    <3>1. \A event \in GraphEvent : event.timestamp \in Nat
      BY DEF GraphEvent
    <3> QED BY <1>1, <3>1
  <2>2. \A i \in DOMAIN graph : graph[i].timestamp <= now'
    BY <1>1, <1>6, <2>1 DEF Chronicled, Chronicle
  <2> QED BY <1>6, <2>2 DEF Chronicled, Chronicle
<1> QED BY <1>3, <1>4, <1>5, <1>6
        DEF Next, IssueDecisionToken, ResetBudget, Tick, vars, kernelVars

\* Whatever the tools, the approvals and the bounds, and however coarse the
\* clock: every event of the graph is explained back to the intent.
THEOREM EveryExplanationReachesIntent == Spec => []EveryEventReachesIntent
<1>1. Init => Chronicled
  <2>1. ASSUME Init PROVE Chronicled
    <3> DEFINE event == Event(Intent, [kind |-> "intent"], <<>>)
    <3>1. graph = <<event>> /\ now = 0
      BY <2>1 DEF Init
    <3>2. event.timestamp = 0
      BY <3>1 DEF Event
    <3> HIDE DEF event
    <3>3. DOMAIN graph = {1} /\ graph[1] = event
      BY <3>1
    <3> QED BY <3>1, <3>2, <3>3 DEF Chronicled, Chronicle
  <2> QED BY <2>1
<1>2. CallbackInv /\ Chronicled => EveryEventReachesIntent
  BY ReachesIntent DEF CallbackInv, Chronicled, EveryEventReachesIntent
<1>3. TypeOK /\ CallbackInv /\ CallbackInv' /\ Chronicled /\ [Next]_vars => Chronicled'
  BY ChronicledStep
<1> QED BY <1>1, <1>2, <1>3, TypeCorrect, CallbackInvHolds, PTL DEF Spec

\* Linked says what SequentialResultsAreLinked says.
LEMMA LinkedMeansLinked ==
    ASSUME Linked(graph, calls) PROVE SequentialResultsAreLinked
BY DEF Linked, SequentialResultsAreLinked, Results

\* Whatever the tools, the approvals and the bounds: a result is linked to its
\* own call unless another call started before the result came.
THEOREM ResultsOfSequentialToolsAreLinked == Spec => []SequentialResultsAreLinked
<1>1. CallbackInv => SequentialResultsAreLinked
  BY LinkedMeansLinked DEF CallbackInv
<1> QED BY <1>1, CallbackInvHolds, PTL

-----------------------------------------------------------------------------
(* The budget and the graph *)

\* The tool calls of a graph that were not stopped by the budget, and what
\* they cost.
ChargedIn(g) ==
    {i \in DOMAIN g :
       /\ g[i].content.kind = "tool_call"
       /\ \A j \in DOMAIN g :
            g[j].parents = <<g[i].id>> => g[j].content.kind # "checkpoint"}

SpendIn(g) == SumFunction([i \in ChargedIn(g) |-> Cost[g[i].content.tool]])

\* The entries of a graph's bill.
LEMMA BillIsFinite ==
    ASSUME NEW g, Rooted(g)
    PROVE  /\ IsFiniteSet(ChargedIn(g)) /\ ChargedIn(g) \subseteq DOMAIN g
           /\ [i \in ChargedIn(g) |-> Cost[g[i].content.tool]] \in [ChargedIn(g) -> Nat]
           /\ \A i \in DOMAIN g : g[i].content.kind = "tool_call" =>
                g[i].content.tool \in Tools
<1>1. g \in Seq(GraphEvent) /\ DOMAIN g = 1..Len(g) /\ Len(g) \in Nat
  BY DEF Rooted
<1>2. ChargedIn(g) \subseteq DOMAIN g
  BY DEF ChargedIn
<1>3. IsFiniteSet(ChargedIn(g))
  <2>1. IsFiniteSet(DOMAIN g)
    BY <1>1, FS_Interval
  <2> QED BY <1>2, <2>1, FS_Subset
<1>4. ASSUME NEW i \in DOMAIN g, g[i].content.kind = "tool_call"
      PROVE  g[i].content.tool \in Tools
  <2>1. g[i] \in GraphEvent
    BY <1>1
  <2>2. g[i].content \in Content
    BY <2>1 DEF GraphEvent
  <2>3. g[i].content \in [kind : {"tool_call"}, tool : Tools]
    BY <1>4, <2>2 DEF Content
  <2> QED BY <2>3
<1>5. \A i \in ChargedIn(g) : Cost[g[i].content.tool] \in Nat
  BY <1>4, CostIsPositive DEF ChargedIn
<1> QED BY <1>2, <1>3, <1>4, <1>5

\* The places of a graph with one more event.
LEMMA OneMore ==
    ASSUME NEW g, Rooted(g), NEW event, Follows(g, event)
    PROVE  LET h == Append(g, event)
               n == Len(g)
           IN  /\ n \in Nat /\ DOMAIN g = 1..n /\ DOMAIN h = 1..(n + 1)
               /\ \A i \in 1..(n + 1) : i \in 1..n \/ i = n + 1
               /\ n + 1 \notin 1..n
               /\ \A i \in 1..n : h[i] = g[i] /\ i \in 1..(n + 1)
               /\ h[n + 1] = event
               /\ \A i \in 1..(n + 1) : h[i].id = i /\ h[i].parents # <<n + 1>>
<1> DEFINE h == Append(g, event)
           n == Len(g)
<1>1. g \in Seq(GraphEvent) /\ n \in Nat /\ DOMAIN g = 1..n
  BY DEF Rooted
<1>2. Rooted(h)
  BY RootedGrows
<1>3. /\ DOMAIN h = 1..(n + 1)
      /\ \A i \in 1..n : h[i] = g[i]
      /\ h[n + 1] = event
  BY <1>1
<1> HIDE DEF h, n
<1>4. /\ \A i \in 1..(n + 1) : i \in 1..n \/ i = n + 1
      /\ n + 1 \notin 1..n
      /\ \A i \in 1..n : i \in 1..(n + 1)
  BY <1>1
<1>5. ASSUME NEW i \in 1..(n + 1) PROVE h[i].id = i /\ h[i].parents # <<n + 1>>
  <2>1. h[i].id = i /\ i \in Nat /\ i <= n + 1
    BY <1>1, <1>2, <1>3 DEF Rooted
  <2>2. h[i].parents = <<>> \/ \E p \in 1..(i - 1) : h[i].parents = <<p>>
    BY <1>2, <1>3 DEF Rooted
  <2>3. CASE h[i].parents = <<>>
    <3>1. <<>> # <<n + 1>>
      OBVIOUS
    <3> QED BY <2>1, <2>3, <3>1
  <2>4. ASSUME NEW p \in 1..(i - 1), h[i].parents = <<p>> PROVE h[i].parents # <<n + 1>>
    <3>1. p # n + 1
      BY <1>1, <2>1
    <3>2. <<p>>[1] = p /\ <<n + 1>>[1] = n + 1
      OBVIOUS
    <3> QED BY <2>4, <3>1, <3>2
  <2> QED BY <2>1, <2>2, <2>3, <2>4
<1> QED BY <1>1, <1>3, <1>4, <1>5 DEF h, n

\* A recorded call is charged until the graph shows that it was not.
LEMMA CallIsCharged ==
    ASSUME NEW g, Rooted(g), NEW event, Follows(g, event), NEW tool \in Tools,
           event.content = [kind |-> "tool_call", tool |-> tool]
    PROVE  /\ ChargedIn(Append(g, event)) = ChargedIn(g) \cup {Len(g) + 1}
           /\ SpendIn(Append(g, event)) = SpendIn(g) + Cost[tool]
<1> DEFINE h == Append(g, event)
           n == Len(g)
           bill == [i \in ChargedIn(g) |-> Cost[g[i].content.tool]]
           more == [i \in ChargedIn(h) |-> Cost[h[i].content.tool]]
<1>1. /\ n \in Nat /\ DOMAIN g = 1..n /\ DOMAIN h = 1..(n + 1)
      /\ \A i \in 1..(n + 1) : i \in 1..n \/ i = n + 1
      /\ n + 1 \notin 1..n
      /\ \A i \in 1..n : h[i] = g[i] /\ i \in 1..(n + 1)
      /\ h[n + 1] = event
      /\ \A i \in 1..(n + 1) : h[i].id = i /\ h[i].parents # <<n + 1>>
  BY OneMore
<1>2. n + 1 \in 1..(n + 1)
  BY <1>1
<1>3. Rooted(h)
  BY RootedGrows
<1> HIDE DEF h, n
<1>4. event.content.kind = "tool_call" /\ event.content.tool = tool
  OBVIOUS
<1>5. ASSUME NEW i \in 1..n PROVE i \in ChargedIn(h) <=> i \in ChargedIn(g)
  <2>1. (\A j \in 1..(n + 1) : h[j].parents = <<i>> => h[j].content.kind # "checkpoint")
        <=> (\A j \in 1..n : g[j].parents = <<i>> => g[j].content.kind # "checkpoint")
    BY <1>1, <1>2, <1>4
  <2>2. g[i].id = i
    BY <1>1
  <2> QED BY <1>1, <2>1, <2>2 DEF ChargedIn
<1>6. n + 1 \in ChargedIn(h)
  <2>1. \A j \in 1..(n + 1) : h[j].parents # <<h[n + 1].id>>
    BY <1>1, <1>2
  <2> QED BY <1>1, <1>2, <1>4, <2>1 DEF ChargedIn
<1>7. ChargedIn(g) \subseteq 1..n /\ ChargedIn(h) \subseteq 1..(n + 1)
  BY <1>1 DEF ChargedIn
<1>8. ChargedIn(h) = ChargedIn(g) \cup {n + 1}
  BY <1>1, <1>5, <1>6, <1>7
<1>9. /\ IsFiniteSet(ChargedIn(g)) /\ bill \in [ChargedIn(g) -> Int]
      /\ more \in [ChargedIn(h) -> Int]
  BY <1>3, BillIsFinite
<1>10. \A i \in ChargedIn(g) : more[i] = bill[i]
  BY <1>1, <1>7, <1>8
<1>11. more[n + 1] = Cost[tool]
  BY <1>1, <1>4, <1>6
<1>12. n + 1 \notin ChargedIn(g)
  BY <1>1, <1>7
<1>13. SumFunction(more) = SumFunction(bill) + more[n + 1]
  <2> DEFINE x == n + 1
             D == ChargedIn(g)
  <2>1. x \notin D /\ more \in [D \cup {x} -> Int]
    BY <1>8, <1>9, <1>12
  <2>2. IsFiniteSet(D) /\ bill \in [D -> Int] /\ \A i \in D : more[i] = bill[i]
    BY <1>9, <1>10
  <2> HIDE DEF bill, more, x, D
  <2>3. HasOneMore(bill, D, x, more)
    BY <2>1, <2>2 DEF HasOneMore
  <2>4. SumFunction(more) = SumFunction(bill) + more[x]
    BY <2>3, SumWithMore
  <2> QED BY <2>4 DEF x
<1> QED BY <1>8, <1>11, <1>13 DEF SpendIn, h, n

\* A checkpoint takes the call that it is below off the bill.
LEMMA CheckpointIsNotCharged ==
    ASSUME NEW g, Rooted(g), NEW event, Follows(g, event),
           event.content.kind = "checkpoint",
           NEW p \in ChargedIn(g), event.parents = <<p>>
    PROVE  SpendIn(g) = SpendIn(Append(g, event)) + Cost[g[p].content.tool]
<1> DEFINE h == Append(g, event)
           n == Len(g)
           bill == [i \in ChargedIn(g) |-> Cost[g[i].content.tool]]
           less == [i \in ChargedIn(h) |-> Cost[h[i].content.tool]]
<1>1. /\ n \in Nat /\ DOMAIN g = 1..n /\ DOMAIN h = 1..(n + 1)
      /\ \A i \in 1..(n + 1) : i \in 1..n \/ i = n + 1
      /\ n + 1 \notin 1..n
      /\ \A i \in 1..n : h[i] = g[i] /\ i \in 1..(n + 1)
      /\ h[n + 1] = event
      /\ \A i \in 1..(n + 1) : h[i].id = i /\ h[i].parents # <<n + 1>>
  BY OneMore
<1>2. n + 1 \in 1..(n + 1)
  BY <1>1
<1>3. Rooted(h)
  BY RootedGrows
<1> HIDE DEF h, n
<1>4. ASSUME NEW i \in 1..n PROVE i \in ChargedIn(h) <=> i \in ChargedIn(g) /\ i # p
  <2>1. (\A j \in 1..(n + 1) : h[j].parents = <<i>> => h[j].content.kind # "checkpoint")
        <=> /\ \A j \in 1..n : g[j].parents = <<i>> => g[j].content.kind # "checkpoint"
            /\ <<p>> # <<i>>
    BY <1>1, <1>2
  <2>2. <<p>> = <<i>> <=> p = i
    <3>1. <<p>>[1] = p /\ <<i>>[1] = i
      OBVIOUS
    <3> QED BY <3>1
  <2>3. g[i].id = i
    BY <1>1
  <2> QED BY SMTT(30), <1>1, <2>1, <2>2, <2>3 DEF ChargedIn
<1>5. n + 1 \notin ChargedIn(h)
  BY <1>1 DEF ChargedIn
<1>6. ChargedIn(g) \subseteq 1..n /\ ChargedIn(h) \subseteq 1..(n + 1)
  BY <1>1 DEF ChargedIn
<1>7. ChargedIn(g) = ChargedIn(h) \cup {p} /\ p \notin ChargedIn(h)
  BY <1>1, <1>4, <1>5, <1>6
<1>8. /\ IsFiniteSet(ChargedIn(h)) /\ less \in [ChargedIn(h) -> Int]
      /\ bill \in [ChargedIn(h) \cup {p} -> Int]
  BY <1>3, <1>7, BillIsFinite
<1>9. \A i \in ChargedIn(h) : bill[i] = less[i]
  BY <1>1, <1>6, <1>7
<1>10. bill[p] = Cost[g[p].content.tool]
  OBVIOUS
<1>11. SumFunction(bill) = SumFunction(less) + bill[p]
  <2> DEFINE D == ChargedIn(h)
  <2>1. p \notin D /\ bill \in [D \cup {p} -> Int]
    BY <1>7, <1>8
  <2>2. IsFiniteSet(D) /\ less \in [D -> Int] /\ \A i \in D : bill[i] = less[i]
    BY <1>8, <1>9
  <2> HIDE DEF bill, less, D
  <2>3. HasOneMore(less, D, p, bill)
    BY <2>1, <2>2 DEF HasOneMore
  <2> QED BY <2>3, SumWithMore
<1> QED BY <1>10, <1>11 DEF SpendIn, h

\* Other events cost nothing.
LEMMA OthersAreFree ==
    ASSUME NEW g, Rooted(g), NEW event, Follows(g, event),
           event.content.kind \notin {"tool_call", "checkpoint"}
    PROVE  /\ SpendIn(Append(g, event)) = SpendIn(g)
           /\ ChargedIn(Append(g, event)) = ChargedIn(g)
<1> DEFINE h == Append(g, event)
           n == Len(g)
<1>1. /\ n \in Nat /\ DOMAIN g = 1..n /\ DOMAIN h = 1..(n + 1)
      /\ \A i \in 1..(n + 1) : i \in 1..n \/ i = n + 1
      /\ n + 1 \notin 1..n
      /\ \A i \in 1..n : h[i] = g[i] /\ i \in 1..(n + 1)
      /\ h[n + 1] = event
      /\ \A i \in 1..(n + 1) : h[i].id = i /\ h[i].parents # <<n + 1>>
  BY OneMore
<1>2. n + 1 \in 1..(n + 1)
  BY <1>1
<1> HIDE DEF h, n
<1>3. ASSUME NEW i \in 1..n PROVE i \in ChargedIn(h) <=> i \in ChargedIn(g)
  <2>1. (\A j \in 1..(n + 1) : h[j].parents = <<i>> => h[j].content.kind # "checkpoint")
        <=> (\A j \in 1..n : g[j].parents = <<i>> => g[j].content.kind # "checkpoint")
    BY <1>1, <1>2
  <2>2. g[i].id = i
    BY <1>1
  <2> QED BY <1>1, <2>1, <2>2 DEF ChargedIn
<1>4. n + 1 \notin ChargedIn(h)
  BY <1>1 DEF ChargedIn
<1>5. ChargedIn(g) \subseteq 1..n /\ ChargedIn(h) \subseteq 1..(n + 1)
  BY <1>1 DEF ChargedIn
<1>6. ChargedIn(h) = ChargedIn(g)
  BY <1>1, <1>3, <1>4, <1>5
<1>7. \A i \in ChargedIn(g) : h[i] = g[i]
  BY <1>1, <1>5
<1>8. [i \in ChargedIn(h) |-> Cost[h[i].content.tool]]
        = [i \in ChargedIn(g) |-> Cost[g[i].content.tool]]
  BY <1>6, <1>7
<1> QED BY <1>6, <1>8 DEF SpendIn, h

\* What the callback proposes never makes the kernel ask for a checkpoint: it
\* states no quantity, no effect and no audience.
LEMMA NeverACheckpoint ==
    ASSUME NEW tool PROVE Decision(tool) # "CHECKPOINT"
<1>1. ~ NeedsJudgment(Grant, Proposed(tool))
  <2>1. /\ Proposed(tool).quantity = None /\ Proposed(tool).effect = None
        /\ Proposed(tool).audience = None
    BY DEF Proposed
  <2> QED BY <2>1, NoneAssumption DEF NeedsJudgment, Exceeds
<1>2. ScopeDecision(Envelope, Proposed(tool), now) # "CHECKPOINT"
  <2>1. Envelope.grant = Grant
    BY DEF Envelope
  <2> QED BY <1>1, <2>1 DEF ScopeDecision
<1> QED BY <1>2 DEF Decision, Evaluate

\* A bill is a natural number.
LEMMA SpendIsNatural ==
    ASSUME NEW g, Rooted(g) PROVE SpendIn(g) \in Nat
<1> DEFINE bill == [i \in ChargedIn(g) |-> Cost[g[i].content.tool]]
           D == ChargedIn(g)
<1>1. IsFiniteSet(D) /\ bill \in [D -> Nat] /\ D \in SUBSET D
  BY BillIsFinite
<1> HIDE DEF bill, D
<1>2. SumFunction(bill) \in Nat
  BY <1>1, SumsGrow
<1> QED BY <1>2 DEF SpendIn, bill, D

\* The bill after an on_tool_start: the call's cost, unless the budget
\* stopped it.
LEMMA StartIsBilled ==
    ASSUME Rooted(graph), now \in Nat, NEW tool \in Tools, OnToolStart(tool)
    PROVE  \/ /\ SpendIn(graph') = SpendIn(graph) /\ UNCHANGED budgetVars
           \/ /\ SpendIn(graph') = SpendIn(graph) + Cost[tool] /\ Consume(tool)
<1> DEFINE call == ToolCall(tool)
           once == Append(graph, call)
<1>1. graph \in Seq(GraphEvent)
  BY DEF Rooted
<1>2. /\ Follows(graph, call) /\ call \in GraphEvent
      /\ call.content = [kind |-> "tool_call", tool |-> tool]
  <2>1. Follows(graph, call)
    BY NextEvents
  <2>2. call.content = [kind |-> "tool_call", tool |-> tool]
    BY DEF ToolCall, Event
  <2> QED BY <2>1, <2>2 DEF Follows
<1>3. /\ ChargedIn(once) = ChargedIn(graph) \cup {NextId}
      /\ SpendIn(once) = SpendIn(graph) + Cost[tool]
  <2> HIDE DEF call
  <2> QED BY <1>2, CallIsCharged DEF NextId
<1>4. Rooted(once)
  BY <1>2, RootedGrows
<1>5. graph \o <<call>> = once
  <2> HIDE DEF call
  <2> QED BY <1>1, <1>2, Recorded
<1>6. ASSUME NEW content \in Content
      PROVE  /\ graph \o <<call, Checkpoint(content)>>
                  = Append(once, Checkpoint(content))
             /\ Follows(once, Checkpoint(content))
             /\ Checkpoint(content).content = content
             /\ Checkpoint(content).parents = <<NextId>>
  <2>1. Follows(once, Checkpoint(content)) /\ Checkpoint(content) \in GraphEvent
    BY NextEvents DEF Follows
  <2>2. /\ Checkpoint(content).content = content
        /\ Checkpoint(content).parents = <<NextId>>
    BY DEF Checkpoint, Event
  <2> HIDE DEF call
  <2>3. graph \o <<call, Checkpoint(content)>> = Append(once, Checkpoint(content))
    BY <1>1, <1>2, <2>1, Recorded
  <2> QED BY <2>1, <2>2, <2>3
<1>7. once[NextId] = call
  <2> HIDE DEF call
  <2> QED BY <1>1, <1>2 DEF NextId
<1> HIDE DEF once
<1>8. CASE StartExhausted(tool)
  <2> DEFINE content == [kind |-> "checkpoint"]
             check == Checkpoint(content)
  <2>1. content \in Content /\ content.kind = "checkpoint"
    BY DEF Content
  <2>2. graph' = Append(once, check)
    BY <1>6, <1>8, <2>1 DEF StartExhausted, Record
  <2> HIDE DEF content
  <2>3. Follows(once, check) /\ check.content = content /\ check.parents = <<NextId>>
    BY <1>6, <2>1
  <2>4. NextId \in ChargedIn(once) /\ once[NextId].content.tool = tool
    BY <1>2, <1>3, <1>7
  <2> HIDE DEF check
  <2>5. SpendIn(once) = SpendIn(graph') + Cost[once[NextId].content.tool]
    BY <1>4, <2>1, <2>2, <2>3, <2>4, CheckpointIsNotCharged
  <2>6. SpendIn(graph) \in Int /\ SpendIn(graph') \in Int /\ Cost[tool] \in Int
    <3>1. Rooted(graph')
      BY <1>4, <2>2, <2>3, RootedGrows
    <3> QED BY <3>1, SpendIsNatural, CostIsPositive
  <2>7. SpendIn(graph') = SpendIn(graph)
    <3>1. SpendIn(once) = SpendIn(graph') + Cost[tool]
      BY <2>4, <2>5, Zenon
    <3>2. SpendIn(once) = SpendIn(graph) + Cost[tool]
      BY <1>3
    <3> DEFINE before == SpendIn(graph)
               after == SpendIn(graph')
               cost == Cost[tool]
    <3>3. before \in Int /\ after \in Int /\ cost \in Int
      BY <2>6
    <3>4. after + cost = before + cost
      BY <3>1, <3>2, Zenon
    <3> HIDE DEF before, after, cost
    <3>5. after = before
      BY <3>3, <3>4
    <3> QED BY <3>5 DEF before, after
  <2> QED BY <1>8, <2>7 DEF StartExhausted
<1>9. CASE StartCrossing(tool)
  <2> DEFINE content == [kind |-> "semantic_delta",
                         boundary |-> BoundaryType(Delta(baseline, Semantic(tool)))]
             check == Checkpoint(content)
  <2>1. content \in Content /\ content.kind = "semantic_delta"
    <3>1. BoundaryType(Delta(baseline, Semantic(tool))) \in BoundaryTypes
      BY DEF BoundaryType, BoundaryTypes
    <3> QED BY <3>1 DEF Content
  <2>2. graph' = Append(once, check)
    BY <1>6, <1>9, <2>1 DEF StartCrossing, Record
  <2> HIDE DEF content
  <2>3. Follows(once, check) /\ check.content = content
    BY <1>6, <2>1
  <2> HIDE DEF check
  <2>4. SpendIn(graph') = SpendIn(once)
    BY <1>4, <2>1, <2>2, <2>3, OthersAreFree
  <2> QED BY <1>3, <1>9, <2>4 DEF StartCrossing
<1>10. CASE StartRefused(tool)
  <2>1. graph' = once
    BY <1>5, <1>10, NeverACheckpoint DEF StartRefused, Record
  <2> QED BY <1>3, <1>10, <2>1 DEF StartRefused
<1>11. CASE StartAdmitted(tool)
  <2>1. graph' = once
    BY <1>5, <1>11 DEF StartAdmitted, Record
  <2> QED BY <1>3, <1>11, <2>1 DEF StartAdmitted
<1> QED BY <1>8, <1>9, <1>10, <1>11 DEF OnToolStart

\* Charging a call keeps the list of actions in step with the total.
LEMMA ChargingReconciles ==
    ASSUME TypeOK, consumed = SumFunction(spent), NEW tool \in Tools, Consume(tool)
    PROVE  consumed' = SumFunction(spent') /\ consumed' = consumed + Cost[tool]
                                           /\ resets' = resets
<1>1. spent \in Seq(Int) /\ Cost[tool] \in Int
  BY CostIsPositive DEF TypeOK
<1> QED BY <1>1, SumOfAppended DEF Consume

\* For every budget and every agent: the total is what the list of actions
\* adds up to, and without a reset it is what an auditor adds up from the graph.
THEOREM TheBudgetReconciles == Spec => []BudgetReconciles
<1>1. Init => BudgetReconciles
  <2> SUFFICES ASSUME Init PROVE BudgetReconciles
    OBVIOUS
  <2>1. SumFunction(<<>>) = 0
    <3>1. <<>> \in [{} -> Int] /\ DOMAIN <<>> = {}
      OBVIOUS
    <3> QED BY <3>1, SumOfNone
  <2>2. graph = <<Event(Intent, [kind |-> "intent"], <<>>)>>
    BY DEF Init
  <2>3. ChargedEvents = {}
    <3>1. DOMAIN graph = {1} /\ graph[1].content.kind = "intent"
      BY <2>2 DEF Event
    <3> QED BY <3>1 DEF ChargedEvents
  <2>4. SumFunction([i \in ChargedEvents |-> Cost[graph[i].content.tool]]) = 0
    <3> DEFINE bill == [i \in ChargedEvents |-> Cost[graph[i].content.tool]]
    <3>1. DOMAIN bill = {} /\ bill \in [{} -> Int]
      BY <2>3
    <3> HIDE DEF bill
    <3>2. SumFunction(bill) = 0
      BY <3>1, SumOfNone
    <3> QED BY <3>2 DEF bill
  <2> QED BY <2>1, <2>4 DEF Init, BudgetReconciles
<1>2. TypeOK /\ CallbackInv /\ BudgetReconciles /\ [Next]_vars => BudgetReconciles'
  <2> SUFFICES ASSUME TypeOK, CallbackInv, BudgetReconciles, [Next]_vars
               PROVE  BudgetReconciles'
    OBVIOUS
  <2>1. /\ Rooted(graph) /\ consumed = SumFunction(spent) /\ now \in Nat
        /\ resets = 0 => consumed = SpendIn(graph)
    BY DEF TypeOK, CallbackInv, BudgetReconciles, SpendIn, ChargedIn, ChargedEvents
  <2>2. ASSUME consumed' = SumFunction(spent'),
               resets' = 0 => consumed' = SpendIn(graph')
        PROVE  BudgetReconciles'
    BY <2>2 DEF BudgetReconciles, SpendIn, ChargedIn, ChargedEvents
  <2>3. ASSUME UNCHANGED budgetVars, SpendIn(graph') = SpendIn(graph)
        PROVE  BudgetReconciles'
    BY <2>1, <2>2, <2>3 DEF budgetVars
  <2>4. ASSUME NEW tool \in Tools, OnToolStart(tool) PROVE BudgetReconciles'
    <3>1. CASE Consume(tool) /\ SpendIn(graph') = SpendIn(graph) + Cost[tool]
      BY <2>1, <2>2, <3>1, ChargingReconciles
    <3> QED BY <2>1, <2>3, <2>4, <3>1, StartIsBilled
  <2>5. ASSUME NEW event, Follows(graph, event), graph' = Append(graph, event),
               event.content.kind \notin {"tool_call", "checkpoint"},
               UNCHANGED budgetVars
        PROVE  BudgetReconciles'
    BY <2>1, <2>3, <2>5, OthersAreFree
  <2>6. ASSUME NEW i \in DOMAIN calls, OnToolEnd(i) PROVE BudgetReconciles'
    <3>1. calls \in Seq(Call)
      BY DEF TypeOK
    <3>2. i \in Nat /\ calls # <<>> /\ Len(calls) \in DOMAIN calls
      BY <3>1
    <3>3. lastTool \in DOMAIN graph
      BY <3>2 DEF CallbackInv, Linked
    <3> DEFINE content == [kind |-> "tool_result", call |-> i]
               event == Event(NextId, content, <<lastTool>>)
    <3>4. /\ Follows(graph, event) /\ graph' = Append(graph, event)
          /\ event.content = content
      BY <2>1, <2>6, <3>2, <3>3, EndRecords
    <3>5. content.kind = "tool_result"
      OBVIOUS
    <3>6. UNCHANGED budgetVars
      BY <2>6 DEF OnToolEnd
    <3> HIDE DEF event, content
    <3> QED BY <2>5, <3>4, <3>5, <3>6
  <2>7. CASE OnAgentFinish
    <3> DEFINE content == [kind |-> "action"]
               event == Event(NextId, content, <<Intent>>)
    <3>1. /\ Follows(graph, event) /\ graph' = Append(graph, event)
          /\ event.content = content
      BY <2>1, <2>7, FinishRecords
    <3>2. content.kind = "action"
      OBVIOUS
    <3>3. UNCHANGED budgetVars
      BY <2>7 DEF OnAgentFinish
    <3> HIDE DEF event, content
    <3> QED BY <2>5, <3>1, <3>2, <3>3
  <2>8. CASE ResetBudget
    <3>1. SumFunction(<<>>) = 0
      <4>1. <<>> \in [{} -> Int] /\ DOMAIN <<>> = {}
        OBVIOUS
      <4> QED BY <4>1, SumOfNone
    <3>2. resets' # 0
      BY <2>8 DEF ResetBudget, TypeOK
    <3> QED BY <2>2, <2>8, <3>1, <3>2 DEF ResetBudget
  <2>9. CASE UNCHANGED <<budgetVars, graph>>
    BY <2>3, <2>9
  <2> QED BY <2>4, <2>6, <2>7, <2>8, <2>9
          DEF Next, IssueDecisionToken, Tick, vars, budgetVars
<1> QED BY <1>1, <1>2, TypeCorrect, CallbackInvHolds, PTL DEF Spec

-----------------------------------------------------------------------------
(* The callback called from several threads: type correctness *)

\* A frame that goes to another step.
LEMMA FrameChanges ==
    ASSUME frames \in [Threads -> Frame], NEW thread \in Threads, NEW frame,
           frames' = [frames EXCEPT ![thread] = frame]
    PROVE  \A t \in Threads : frames'[t] = IF t = thread THEN frame ELSE frames[t]
OBVIOUS

LEMMA FrameMoves ==
    ASSUME frames \in [Threads -> Frame], NEW thread \in Threads, NEW from, NEW to,
           Move(thread, from, to)
    PROVE  /\ \A t \in Threads : t # thread => frames'[t] = frames[t]
           /\ frames'[thread] = [step |-> to, call |-> frames[thread].call,
                                 decision |-> frames[thread].decision,
                                 loaded |-> frames[thread].loaded]
           /\ frames' \in [Threads -> Frame \cup {frames'[thread]}]
<1> DEFINE old == frames[thread]
           new == [old EXCEPT !.step = to]
<1>1. frames' = [frames EXCEPT ![thread] = new]
  BY DEF Move
<1>2. old \in Frame
  OBVIOUS
<1>3. new = [step |-> to, call |-> old.call, decision |-> old.decision,
             loaded |-> old.loaded]
  BY <1>2 DEF Frame
<1> HIDE DEF new, old
<1>4. /\ frames'[thread] = new
      /\ \A t \in Threads : t # thread => frames'[t] = frames[t]
      /\ frames' \in [Threads -> Frame \cup {new}]
  BY <1>1
<1> QED BY <1>3, <1>4 DEF old

\* What a thread inside on_tool_start holds.
LEMMA InsideStart ==
    ASSUME ThreadedTypeOK, NEW thread \in Threads, frames[thread].step # "idle"
    PROVE  /\ frames[thread] \in Frame /\ frames[thread] # Idle
           /\ frames[thread].call \in DOMAIN calls
           /\ calls[frames[thread].call] \in ThreadedCall
           /\ ToolOf(thread) \in Tools /\ EventOfCall(thread) \in Nat
<1>1. frames[thread] \in Frame /\ calls \in Seq(ThreadedCall)
  BY DEF ThreadedTypeOK
<1>2. frames[thread] # Idle
  BY DEF Idle
<1>3. frames[thread].call \in DOMAIN calls
  BY <1>2 DEF Busy, ThreadedTypeOK
<1>4. calls[frames[thread].call] \in ThreadedCall
  BY <1>1, <1>3
<1> QED BY <1>1, <1>2, <1>3, <1>4 DEF ToolOf, EventOfCall, ThreadedCall

LEMMA ThreadedCallIsCall ==
    \A call \in ThreadedCall : IsCall(call)
BY DEF ThreadedCall, IsCall

\* What leaving on_tool_start does to the calls and the frames.
LEMMA Leaving ==
    ASSUME ThreadedTypeOK, NEW thread \in Threads, frames[thread].step # "idle",
           NEW outcome \in {"exhausted", "crossing", "refused", "running"},
           Leave(thread, outcome)
    PROVE  /\ calls' \in Seq(ThreadedCall) /\ Len(calls') = Len(calls)
           /\ DOMAIN calls' = DOMAIN calls
           /\ \A j \in DOMAIN calls :
                /\ calls'[j].event = calls[j].event /\ calls'[j].tool = calls[j].tool
                /\ calls'[j].outcome = IF j = frames[thread].call THEN outcome
                                       ELSE calls[j].outcome
           /\ frames' \in [Threads -> Frame]
           /\ \A t \in Threads : frames'[t] = IF t = thread THEN Idle ELSE frames[t]
           /\ overlapped' = overlapped
<1> DEFINE i == frames[thread].call
<1>1. i \in DOMAIN calls /\ calls \in Seq(ThreadedCall) /\ frames \in [Threads -> Frame]
  BY InsideStart DEF ThreadedTypeOK
<1>2. calls' = [calls EXCEPT ![i].outcome = outcome]
  BY DEF Leave
<1>3. /\ DOMAIN calls' = DOMAIN calls /\ Len(calls') = Len(calls) /\ Sequence(calls')
      /\ \A j \in DOMAIN calls :
           /\ calls'[j].event = calls[j].event /\ calls'[j].tool = calls[j].tool
           /\ calls'[j].operation = calls[j].operation /\ calls'[j].at = calls[j].at
           /\ calls'[j].outcome = IF j = i THEN outcome ELSE calls[j].outcome
           /\ IsCall(calls'[j])
  <2> HIDE DEF i
  <2>1. OutcomeSet(calls, i, outcome, calls')
    BY <1>1, <1>2, ThreadedCallIsCall, OutcomeChanges
  <2> QED BY <2>1 DEF OutcomeSet
<1>4. \A j \in DOMAIN calls' : calls'[j] \in ThreadedCall
  <2> SUFFICES ASSUME NEW j \in DOMAIN calls PROVE calls'[j] \in ThreadedCall
    BY <1>3
  <2>1. calls[j] \in ThreadedCall
    BY <1>1
  <2> QED BY <1>3, <2>1 DEF IsCall, ThreadedCall
<1>5. calls' \in Seq(ThreadedCall)
  <2>1. Len(calls') \in Nat /\ DOMAIN calls' = 1..Len(calls')
        /\ calls' = [j \in 1..Len(calls') |-> calls'[j]]
    BY <1>3 DEF Sequence
  <2> QED BY <1>4, <2>1
<1>6. Idle \in Frame
  BY DEF Idle, Frame, Steps, Decisions
<1>7. frames' = [frames EXCEPT ![thread] = Idle] /\ overlapped' = overlapped
  BY DEF Leave
<1>8. /\ frames' \in [Threads -> Frame]
      /\ \A t \in Threads : frames'[t] = IF t = thread THEN Idle ELSE frames[t]
  BY <1>1, <1>6, <1>7
<1> QED BY <1>3, <1>5, <1>7, <1>8

\* What entering on_tool_start does to the calls, and to the frames.
LEMMA Entering ==
    ASSUME ThreadedTypeOK, NEW thread \in Threads, NEW tool \in Tools,
           Enter(thread, tool)
    PROVE  LET n == Len(calls)
           IN  /\ n \in Nat /\ DOMAIN calls = 1..n
               /\ calls' \in Seq(ThreadedCall) /\ Len(calls') = n + 1
               /\ DOMAIN calls' = 1..(n + 1)
               /\ \A j \in 1..n : calls'[j] = calls[j] /\ j \in 1..(n + 1)
               /\ \A j \in 1..(n + 1) : j \in 1..n \/ j = n + 1
               /\ n + 1 \notin 1..n /\ n + 1 \in 1..(n + 1)
               /\ calls'[n + 1].tool = tool /\ calls'[n + 1].event = NextId
               /\ calls'[n + 1].outcome = "starting"
<1> DEFINE n == Len(calls)
           call == [tool |-> tool, operation |-> ExtractOperation(tool), at |-> now,
                    outcome |-> "starting", event |-> NextId]
<1>1. calls \in Seq(ThreadedCall) /\ now \in Nat /\ NextId \in Nat
  BY DEF ThreadedTypeOK, NextId
<1>2. call \in ThreadedCall
  BY <1>1, OperationIsKnown DEF ThreadedCall
<1>3. calls' = Append(calls, call)
  BY DEF Enter
<1>4. /\ call.tool = tool /\ call.event = NextId /\ call.outcome = "starting"
  OBVIOUS
<1> HIDE DEF call
<1>5. /\ n \in Nat /\ DOMAIN calls = 1..n
      /\ calls' \in Seq(ThreadedCall) /\ Len(calls') = n + 1
      /\ DOMAIN calls' = 1..(n + 1)
      /\ \A j \in 1..n : calls'[j] = calls[j]
      /\ calls'[n + 1] = call
  BY <1>1, <1>2, <1>3
<1>6. \A m \in Nat : /\ \A j \in 1..m : j \in 1..(m + 1)
                     /\ \A j \in 1..(m + 1) : j \in 1..m \/ j = m + 1
                     /\ m + 1 \notin 1..m /\ m + 1 \in 1..(m + 1)
  OBVIOUS
<1> HIDE DEF n
<1> QED BY <1>4, <1>5, <1>6 DEF n

LEMMA EnteringFrames ==
    ASSUME ThreadedTypeOK, NEW thread \in Threads, NEW tool \in Tools,
           Enter(thread, tool)
    PROVE  /\ frames' \in [Threads -> Frame]
           /\ \A t \in Threads : t # thread => frames'[t] = frames[t]
           /\ frames'[thread].step = "publish"
           /\ frames'[thread].call = Len(calls) + 1
           /\ frames'[thread].decision = Decision(tool)
<1> DEFINE frame == [step |-> "publish", call |-> Len(calls) + 1,
                     decision |-> Decision(tool), loaded |-> 0]
<1>1. calls \in Seq(ThreadedCall) /\ frames \in [Threads -> Frame]
  BY DEF ThreadedTypeOK
<1>2. Decision(tool) \in Decisions
  BY DEF Decision, Evaluate, ScopeDecision, Decisions
<1>3. frame \in Frame
  BY <1>1, <1>2 DEF Frame, Steps
<1>4. /\ frame.step = "publish" /\ frame.call = Len(calls) + 1
      /\ frame.decision = Decision(tool)
  OBVIOUS
<1>5. frames' = [frames EXCEPT ![thread] = frame]
  BY DEF Enter
<1> HIDE DEF frame
<1>6. /\ frames' \in [Threads -> Frame] /\ frames'[thread] = frame
      /\ \A t \in Threads : t # thread => frames'[t] = frames[t]
  BY <1>1, <1>3, <1>5
<1> QED BY <1>4, <1>6

\* What a result does to the calls.
LEMMA Ending ==
    ASSUME ThreadedTypeOK, NEW i \in DOMAIN calls, OnToolEnd(i)
    PROVE  /\ calls' \in Seq(ThreadedCall) /\ Len(calls') = Len(calls)
           /\ DOMAIN calls' = DOMAIN calls
           /\ \A j \in DOMAIN calls :
                /\ calls'[j].event = calls[j].event /\ calls'[j].tool = calls[j].tool
                /\ calls'[j].outcome = IF j = i THEN "done" ELSE calls[j].outcome
           /\ calls[i].outcome = "running"
<1>1. calls \in Seq(ThreadedCall)
  BY DEF ThreadedTypeOK
<1>2. calls' = [calls EXCEPT ![i].outcome = "done"] /\ calls[i].outcome = "running"
  BY DEF OnToolEnd
<1>3. OutcomeSet(calls, i, "done", calls')
  BY <1>1, <1>2, ThreadedCallIsCall, OutcomeChanges
<1>4. \A j \in DOMAIN calls' : calls'[j] \in ThreadedCall
  <2> SUFFICES ASSUME NEW j \in DOMAIN calls PROVE calls'[j] \in ThreadedCall
    BY <1>3 DEF OutcomeSet
  <2>1. calls[j] \in ThreadedCall
    BY <1>1
  <2> QED BY <1>3, <2>1 DEF IsCall, ThreadedCall, OutcomeSet
<1>5. calls' \in Seq(ThreadedCall)
  <2>1. Len(calls') \in Nat /\ DOMAIN calls' = 1..Len(calls')
        /\ calls' = [j \in 1..Len(calls') |-> calls'[j]]
    BY <1>3 DEF Sequence, OutcomeSet
  <2> QED BY <1>4, <2>1
<1> QED BY <1>2, <1>3, <1>5 DEF OutcomeSet

\* The contents of what the callback records.
LEMMA Contents ==
    /\ [kind |-> "checkpoint"] \in Content
    /\ [kind |-> "action"] \in Content
    /\ \A tool \in Tools : [kind |-> "tool_call", tool |-> tool] \in Content
    /\ \A i \in Nat : [kind |-> "tool_result", call |-> i] \in Content
    /\ \A delta : [kind |-> "semantic_delta", boundary |-> BoundaryType(delta)]
                    \in Content
<1>1. \A delta : BoundaryType(delta) \in BoundaryTypes
  BY DEF BoundaryType, BoundaryTypes
<1> QED BY <1>1 DEF Content

\* Recording a typed event.
LEMMA RecordingTyped ==
    ASSUME graph \in Seq(GraphEvent), now \in Nat, NEW content \in Content,
           NEW parents \in Seq(Nat), Record(<<Event(NextId, content, parents)>>)
    PROVE  graph' \in Seq(GraphEvent)
<1>1. NextId \in Nat
  BY DEF NextId
<1>2. Event(NextId, content, parents) \in GraphEvent
  BY <1>1 DEF Event, GraphEvent
<1> QED BY <1>2 DEF Record

\* Every reachable state of the threaded callback is well typed.
THEOREM ThreadsAreTyped == ThreadedSpec => []ThreadedTypeOK
<1>1. ThreadedInit => ThreadedTypeOK
  <2> SUFFICES ASSUME ThreadedInit PROVE ThreadedTypeOK
    OBVIOUS
  <2>1. Event(Intent, [kind |-> "intent"], <<>>) \in GraphEvent
    <3>1. now = 0
      BY DEF ThreadedInit, Init
    <3> QED BY <3>1 DEF Event, GraphEvent, Content, Intent
  <2>2. graph \in Seq(GraphEvent)
    BY <2>1 DEF ThreadedInit, Init
  <2>3. Idle \in Frame
    BY DEF Idle, Frame, Steps, Decisions
  <2>4. frames \in [Threads -> Frame] /\ Busy = {} /\ overlapped \in BOOLEAN
    BY <2>3 DEF ThreadedInit, Busy
  <2>5. /\ now \in Nat /\ tokens \in Seq(Token)
        /\ consumed \in Nat /\ spent \in Seq(Nat) /\ resets \in Nat
        /\ baseline = None /\ lastTool = None /\ calls \in Seq(ThreadedCall)
    BY DEF ThreadedInit, Init
  <2> QED BY <2>2, <2>4, <2>5 DEF ThreadedTypeOK
<1>2. ThreadedTypeOK /\ [ThreadedNext]_<<vars, threadVars>> => ThreadedTypeOK'
  <2> SUFFICES ASSUME ThreadedTypeOK, [ThreadedNext]_<<vars, threadVars>>
               PROVE  ThreadedTypeOK'
    OBVIOUS
  <2> USE DEF kernelVars, budgetVars
  <2>1. /\ now \in Nat /\ tokens \in Seq(Token)
        /\ consumed \in Nat /\ spent \in Seq(Nat) /\ resets \in Nat
        /\ baseline \in {Semantic(tool) : tool \in Tools} \cup {None}
        /\ lastTool \in Nat \cup {None}
        /\ graph \in Seq(GraphEvent) /\ calls \in Seq(ThreadedCall)
        /\ frames \in [Threads -> Frame]
        /\ \A t \in Threads : frames[t] # Idle => frames[t].call \in DOMAIN calls
        /\ overlapped \in BOOLEAN
    BY DEF ThreadedTypeOK, Busy
  <2>2. ASSUME now' \in Nat, tokens' \in Seq(Token),
               consumed' \in Nat, spent' \in Seq(Nat), resets' \in Nat,
               baseline' \in {Semantic(tool) : tool \in Tools} \cup {None},
               lastTool' \in Nat \cup {None},
               graph' \in Seq(GraphEvent), calls' \in Seq(ThreadedCall),
               frames' \in [Threads -> Frame],
               \A t \in Threads : frames'[t] # Idle => frames'[t].call \in DOMAIN calls',
               overlapped' \in BOOLEAN
        PROVE  ThreadedTypeOK'
    BY <2>2 DEF ThreadedTypeOK, Busy
  <2>3. ASSUME NEW thread \in Threads, NEW tool \in Tools, Enter(thread, tool)
        PROVE  ThreadedTypeOK'
    <3>1. graph' \in Seq(GraphEvent)
      <4>1. <<Intent>> \in Seq(Nat) /\ [kind |-> "tool_call", tool |-> tool] \in Content
        BY Contents DEF Intent
      <4> QED BY <2>1, <2>3, <4>1, RecordingTyped DEF Enter, ToolCall
    <3>2. /\ calls' \in Seq(ThreadedCall) /\ frames' \in [Threads -> Frame]
          /\ \A t \in Threads : frames'[t] # Idle => frames'[t].call \in DOMAIN calls'
      <4>1. /\ calls' \in Seq(ThreadedCall) /\ DOMAIN calls' = 1..(Len(calls) + 1)
            /\ DOMAIN calls = 1..Len(calls)
            /\ \A j \in 1..Len(calls) : j \in 1..(Len(calls) + 1)
            /\ Len(calls) + 1 \in 1..(Len(calls) + 1)
        BY <2>3, Entering
      <4>2. /\ frames' \in [Threads -> Frame]
            /\ \A t \in Threads : t # thread => frames'[t] = frames[t]
            /\ frames'[thread].call = Len(calls) + 1
        BY <2>3, EnteringFrames
      <4> QED BY <2>1, <4>1, <4>2
    <3>3. /\ UNCHANGED <<kernelVars, budgetVars, baseline, lastTool>>
          /\ overlapped' \in BOOLEAN
      BY <2>1, <2>3 DEF Enter
    <3> QED BY <2>1, <2>2, <3>1, <3>2, <3>3
  <2>4. ASSUME NEW thread \in Threads, NEW from, NEW to \in Steps,
               from # "idle", Move(thread, from, to),
               UNCHANGED <<now, tokens, resets, baseline, graph, calls>>,
               consumed' \in Nat, spent' \in Seq(Nat), lastTool' \in Nat \cup {None}
        PROVE  ThreadedTypeOK'
    <3>1. frames[thread].step # "idle" /\ overlapped' = overlapped
      BY <2>4 DEF Move
    <3>2. frames[thread] \in Frame /\ frames[thread].call \in DOMAIN calls
      BY <3>1, InsideStart
    <3>3. /\ \A t \in Threads : t # thread => frames'[t] = frames[t]
          /\ frames'[thread] = [step |-> to, call |-> frames[thread].call,
                                decision |-> frames[thread].decision,
                                loaded |-> frames[thread].loaded]
          /\ frames' \in [Threads -> Frame \cup {frames'[thread]}]
      BY <2>1, <2>4, FrameMoves
    <3>4. frames'[thread] \in Frame /\ frames'[thread].call = frames[thread].call
      BY <3>2, <3>3 DEF Frame
    <3>5. frames' \in [Threads -> Frame]
      BY <3>3, <3>4
    <3>6. \A t \in Threads : frames'[t] # Idle => frames'[t].call \in DOMAIN calls'
      BY <2>1, <2>4, <3>2, <3>3, <3>4
    <3> QED BY <2>1, <2>2, <2>4, <3>1, <3>5, <3>6
  <2>5. ASSUME NEW thread \in Threads, PublishCall(thread) PROVE ThreadedTypeOK'
    <3>1. frames[thread].step # "idle"
      BY <2>5 DEF PublishCall, Move
    <3>2. EventOfCall(thread) \in Nat
      BY <3>1, InsideStart
    <3> QED BY <2>1, <2>4, <2>5, <3>2 DEF PublishCall, Steps
  <2>6. ASSUME NEW thread \in Threads, PassBudget(thread) PROVE ThreadedTypeOK'
    BY <2>1, <2>4, <2>6 DEF PassBudget, Steps
  <2>7. ASSUME NEW thread \in Threads, frames[thread].step # "idle",
               NEW outcome \in {"exhausted", "crossing", "refused", "running"},
               Leave(thread, outcome), graph' \in Seq(GraphEvent),
               baseline' \in {Semantic(tool) : tool \in Tools} \cup {None},
               UNCHANGED <<kernelVars, budgetVars, lastTool>>
        PROVE  ThreadedTypeOK'
    <3>1. /\ calls' \in Seq(ThreadedCall) /\ DOMAIN calls' = DOMAIN calls
          /\ frames' \in [Threads -> Frame]
          /\ \A t \in Threads : frames'[t] = IF t = thread THEN Idle ELSE frames[t]
          /\ overlapped' = overlapped
      BY <2>7, Leaving
    <3> QED BY <2>1, <2>2, <2>7, <3>1
  <2>8. ASSUME NEW thread \in Threads, frames[thread].step # "idle",
               NEW content \in Content, RecordBelow(thread, content)
        PROVE  graph' \in Seq(GraphEvent)
    <3>1. <<EventOfCall(thread)>> \in Seq(Nat)
      BY <2>8, InsideStart
    <3> QED BY <2>1, <2>8, <3>1, RecordingTyped DEF RecordBelow
  <2>9. ASSUME NEW thread \in Threads, StopExhausted(thread) PROVE ThreadedTypeOK'
    BY <2>1, <2>7, <2>8, <2>9, Contents DEF StopExhausted
  <2>10. ASSUME NEW thread \in Threads, LoadConsumed(thread) PROVE ThreadedTypeOK'
    <3>1. frames[thread].step # "idle" /\ UNCHANGED <<vars, overlapped>>
      BY <2>10 DEF LoadConsumed
    <3>2. frames[thread] \in Frame /\ frames[thread].call \in DOMAIN calls
      BY <3>1, InsideStart
    <3> DEFINE frame == [frames[thread] EXCEPT !.step = "store", !.loaded = consumed]
    <3>3. frames' = [frames EXCEPT ![thread] = frame]
      BY <2>10 DEF LoadConsumed
    <3>4. frame \in Frame /\ frame.call = frames[thread].call
      BY <2>1, <3>2 DEF Frame, Steps
    <3> HIDE DEF frame
    <3>5. /\ frames' \in [Threads -> Frame]
          /\ \A t \in Threads : frames'[t] # Idle => frames'[t].call \in DOMAIN calls
      BY <2>1, <3>2, <3>3, <3>4
    <3> QED BY <2>1, <2>2, <3>1, <3>5 DEF vars
  <2>11. ASSUME NEW thread \in Threads, StoreConsumed(thread) PROVE ThreadedTypeOK'
    <3>1. /\ frames[thread].step # "idle"
          /\ UNCHANGED <<kernelVars, spent, resets, baseline, lastTool, graph, calls,
                         overlapped>>
          /\ consumed' = frames[thread].loaded + Cost[ToolOf(thread)]
      BY <2>11 DEF StoreConsumed
    <3>2. /\ frames[thread] \in Frame /\ frames[thread].call \in DOMAIN calls
          /\ ToolOf(thread) \in Tools
      BY <3>1, InsideStart
    <3> DEFINE frame == [frames[thread] EXCEPT !.step = "log", !.loaded = 0]
    <3>3. frames' = [frames EXCEPT ![thread] = frame]
      BY <2>11 DEF StoreConsumed
    <3>4. frame \in Frame /\ frame.call = frames[thread].call
      BY <2>1, <3>2 DEF Frame, Steps
    <3>5. consumed' \in Nat
      <4>1. frames[thread].loaded \in Nat /\ Cost[ToolOf(thread)] \in Nat
        BY <3>2, CostIsPositive DEF Frame
      <4> QED BY <3>1, <4>1
    <3> HIDE DEF frame
    <3>6. /\ frames' \in [Threads -> Frame]
          /\ \A t \in Threads : frames'[t] # Idle => frames'[t].call \in DOMAIN calls
      BY <2>1, <3>2, <3>3, <3>4
    <3> QED BY <2>1, <2>2, <3>1, <3>5, <3>6
  <2>12. ASSUME NEW thread \in Threads, LogAction(thread) PROVE ThreadedTypeOK'
    <3>1. frames[thread].step # "idle"
      BY <2>12 DEF LogAction, Move
    <3>2. ToolOf(thread) \in Tools
      BY <3>1, InsideStart
    <3>3. spent' \in Seq(Nat)
      BY <2>1, <2>12, <3>2, CostIsPositive DEF LogAction
    <3> QED BY <2>1, <2>4, <2>12, <3>3 DEF LogAction, Steps
  <2>13. ASSUME NEW thread \in Threads, StopCrossing(thread) PROVE ThreadedTypeOK'
    BY <2>1, <2>7, <2>8, <2>13, Contents DEF StopCrossing
  <2>14. ASSUME NEW thread \in Threads, PassBoundary(thread) PROVE ThreadedTypeOK'
    BY <2>1, <2>4, <2>14 DEF PassBoundary, Steps
  <2>15. ASSUME NEW thread \in Threads, Settle(thread) PROVE ThreadedTypeOK'
    <3>1. frames[thread].step # "idle"
      BY <2>15 DEF Settle
    <3>2. graph' \in Seq(GraphEvent)
      BY <2>1, <2>8, <2>15, <3>1, Contents DEF Settle
    <3>3. baseline' \in {Semantic(tool) : tool \in Tools}
      BY <2>15, <3>1, InsideStart DEF Settle
    <3> QED BY <2>7, <2>15, <3>1, <3>2, <3>3 DEF Settle
  <2>16. CASE Reset
    BY <2>1, <2>2, <2>16 DEF Reset, ResetBudget
  <2>17. ASSUME NEW i \in DOMAIN calls, OnToolEnd(i), UNCHANGED threadVars
         PROVE  ThreadedTypeOK'
    <3>1. calls' \in Seq(ThreadedCall) /\ DOMAIN calls' = DOMAIN calls
      BY <2>17, Ending
    <3>2. graph' \in Seq(GraphEvent)
      <4>1. i \in Nat
        BY <2>1
      <4>2. [kind |-> "tool_result", call |-> i] \in Content
        BY <4>1, Contents
      <4>3. (IF lastTool = None THEN <<>> ELSE <<lastTool>>) \in Seq(Nat)
        BY <2>1
      <4> QED BY <2>1, <2>17, <4>2, <4>3, RecordingTyped DEF OnToolEnd
    <3> QED BY <2>1, <2>2, <2>17, <3>1, <3>2 DEF OnToolEnd, threadVars
  <2>18. ASSUME OnAgentFinish, UNCHANGED threadVars PROVE ThreadedTypeOK'
    <3>1. graph' \in Seq(GraphEvent)
      <4>1. <<Intent>> \in Seq(Nat)
        BY DEF Intent
      <4> QED BY <2>1, <2>18, <4>1, Contents, RecordingTyped DEF OnAgentFinish
    <3> QED BY <2>1, <2>2, <2>18, <3>1 DEF OnAgentFinish, threadVars
  <2>19. ASSUME NEW terms \in Approvals, IssueDecisionToken(terms),
                UNCHANGED threadVars
         PROVE  ThreadedTypeOK'
    <3>1. tokens' \in Seq(Token)
      BY <2>1, <2>19 DEF IssueDecisionToken, Token
    <3> QED BY <2>1, <2>2, <2>19, <3>1 DEF IssueDecisionToken, threadVars
  <2>20. ASSUME Tick, UNCHANGED threadVars PROVE ThreadedTypeOK'
    BY <2>1, <2>2, <2>20 DEF Tick, threadVars
  <2>21. CASE UNCHANGED <<vars, threadVars>>
    BY <2>1, <2>2, <2>21 DEF vars, threadVars
  <2> QED BY <2>3, <2>5, <2>6, <2>9, <2>10, <2>11, <2>12, <2>13, <2>14, <2>15,
             <2>16, <2>17, <2>18, <2>19, <2>20, <2>21
          DEF ThreadedNext, ToolStartStep, Elsewhere
<1> QED BY <1>1, <1>2, PTL DEF ThreadedSpec

-----------------------------------------------------------------------------
(* What a step does to the frames *)

Inside(thread) == frames[thread].step # "idle"

\* A thread goes on inside on_tool_start.
Advances(thread, to) ==
    /\ Inside(thread) /\ frames' \in [Threads -> Frame]
    /\ \A t \in Threads : t # thread => frames'[t] = frames[t]
    /\ frames'[thread].step = to /\ frames'[thread].call = frames[thread].call
    /\ frames'[thread].decision = frames[thread].decision
    /\ UNCHANGED <<graph, calls, resets, baseline, overlapped>>

\* The steps that go on, with what they charge.
LEMMA Advancing ==
    ASSUME ThreadedTypeOK, NEW thread \in Threads
    PROVE  /\ PublishCall(thread) =>
                /\ Advances(thread, "check") /\ frames[thread].step = "publish"
                /\ UNCHANGED <<consumed, spent>>
           /\ PassBudget(thread) =>
                /\ Advances(thread, "load") /\ frames[thread].step = "check"
                /\ UNCHANGED <<consumed, spent, lastTool>>
           /\ LoadConsumed(thread) =>
                /\ Advances(thread, "store") /\ frames[thread].step = "load"
                /\ frames'[thread].loaded = consumed
                /\ UNCHANGED <<consumed, spent, lastTool>>
           /\ StoreConsumed(thread) =>
                /\ Advances(thread, "log") /\ frames[thread].step = "store"
                /\ UNCHANGED <<spent, lastTool>>
           /\ LogAction(thread) =>
                /\ Advances(thread, "compare") /\ frames[thread].step = "log"
                /\ UNCHANGED <<consumed, lastTool>>
           /\ PassBoundary(thread) =>
                /\ Advances(thread, "settle") /\ frames[thread].step = "compare"
                /\ UNCHANGED <<consumed, spent, lastTool>>
<1> USE DEF budgetVars, kernelVars
<1>1. frames \in [Threads -> Frame] /\ frames[thread] \in Frame /\ consumed \in Nat
  BY DEF ThreadedTypeOK
<1>2. ASSUME NEW from, NEW to \in Steps, Move(thread, from, to), from # "idle",
             UNCHANGED <<graph, calls, resets, baseline>>
      PROVE  Advances(thread, to) /\ frames[thread].step = from
  <2>1. /\ \A t \in Threads : t # thread => frames'[t] = frames[t]
        /\ frames'[thread] = [step |-> to, call |-> frames[thread].call,
                              decision |-> frames[thread].decision,
                              loaded |-> frames[thread].loaded]
        /\ frames' \in [Threads -> Frame \cup {frames'[thread]}]
    BY <1>1, <1>2, FrameMoves
  <2>2. frames'[thread] \in Frame
    BY <1>1, <2>1 DEF Frame
  <2>3. frames[thread].step = from /\ overlapped' = overlapped
    BY <1>2 DEF Move
  <2> QED BY <1>2, <2>1, <2>2, <2>3 DEF Advances, Inside
<1>3. PublishCall(thread) =>
        /\ Advances(thread, "check") /\ frames[thread].step = "publish"
        /\ UNCHANGED <<consumed, spent>>
  BY <1>2 DEF PublishCall, Steps
<1>4. PassBudget(thread) =>
        /\ Advances(thread, "load") /\ frames[thread].step = "check"
        /\ UNCHANGED <<consumed, spent, lastTool>>
  BY <1>2 DEF PassBudget, Steps
<1>5. LogAction(thread) =>
        /\ Advances(thread, "compare") /\ frames[thread].step = "log"
        /\ UNCHANGED <<consumed, lastTool>>
  BY <1>2 DEF LogAction, Steps
<1>6. PassBoundary(thread) =>
        /\ Advances(thread, "settle") /\ frames[thread].step = "compare"
        /\ UNCHANGED <<consumed, spent, lastTool>>
  BY <1>2 DEF PassBoundary, Steps
<1>7. ASSUME LoadConsumed(thread)
      PROVE  /\ Advances(thread, "store") /\ frames[thread].step = "load"
             /\ frames'[thread].loaded = consumed
             /\ UNCHANGED <<consumed, spent, lastTool>>
  <2> DEFINE frame == [frames[thread] EXCEPT !.step = "store", !.loaded = consumed]
  <2>1. frames' = [frames EXCEPT ![thread] = frame]
    BY <1>7 DEF LoadConsumed
  <2>2. /\ frame \in Frame /\ frame.step = "store" /\ frame.loaded = consumed
        /\ frame.call = frames[thread].call
        /\ frame.decision = frames[thread].decision
    BY <1>1 DEF Frame, Steps
  <2> HIDE DEF frame
  <2>3. /\ frames' \in [Threads -> Frame] /\ frames'[thread] = frame
        /\ \A t \in Threads : t # thread => frames'[t] = frames[t]
    BY <1>1, <2>1, <2>2
  <2> QED BY <1>7, <2>2, <2>3 DEF LoadConsumed, Advances, Inside, vars
<1>8. ASSUME StoreConsumed(thread)
      PROVE  /\ Advances(thread, "log") /\ frames[thread].step = "store"
             /\ UNCHANGED <<spent, lastTool>>
  <2> DEFINE frame == [frames[thread] EXCEPT !.step = "log", !.loaded = 0]
  <2>1. frames' = [frames EXCEPT ![thread] = frame]
    BY <1>8 DEF StoreConsumed
  <2>2. /\ frame \in Frame /\ frame.step = "log"
        /\ frame.call = frames[thread].call
        /\ frame.decision = frames[thread].decision
    BY <1>1 DEF Frame, Steps
  <2> HIDE DEF frame
  <2>3. /\ frames' \in [Threads -> Frame] /\ frames'[thread] = frame
        /\ \A t \in Threads : t # thread => frames'[t] = frames[t]
    BY <1>1, <2>1, <2>2
  <2> QED BY <1>8, <2>2, <2>3 DEF StoreConsumed, Advances, Inside
<1> QED BY <1>3, <1>4, <1>5, <1>6, <1>7, <1>8

\* The steps that leave on_tool_start.
Leaves(thread, outcome) ==
    /\ Inside(thread) /\ Leave(thread, outcome)
    /\ outcome \in {"exhausted", "crossing", "refused", "running"}

\* Every step of a thread is one of these; every other step leaves the frames
\* alone.
LEMMA StepKinds ==
    ASSUME ThreadedTypeOK, [ThreadedNext]_<<vars, threadVars>>
    PROVE  \/ \E thread \in Threads, tool \in Tools : Enter(thread, tool)
           \/ \E thread \in Threads :
                \/ PublishCall(thread) \/ PassBudget(thread) \/ LoadConsumed(thread)
                \/ StoreConsumed(thread) \/ LogAction(thread) \/ PassBoundary(thread)
           \/ \E thread \in Threads :
                \/ StopExhausted(thread) \/ StopCrossing(thread) \/ Settle(thread)
           \/ Reset
           \/ \E i \in DOMAIN calls : OnToolEnd(i) /\ UNCHANGED threadVars
           \/ OnAgentFinish /\ UNCHANGED threadVars
           \/ UNCHANGED <<budgetVars, baseline, lastTool, graph, calls, threadVars>>
BY DEF ThreadedNext, ToolStartStep, Elsewhere, IssueDecisionToken, Tick, vars

\* A stop, and a settled call, leave with these outcomes.
LEMMA Stopping ==
    ASSUME NEW thread \in Threads
    PROVE  /\ StopExhausted(thread) =>
                /\ Leaves(thread, "exhausted") /\ frames[thread].step = "check"
           /\ StopCrossing(thread) =>
                /\ Leaves(thread, "crossing") /\ frames[thread].step = "compare"
           /\ Settle(thread) =>
                /\ \/ Leaves(thread, "running")
                   \/ Leaves(thread, "refused")
                /\ frames[thread].step = "settle"
BY DEF StopExhausted, StopCrossing, Settle, Leaves, Inside

-----------------------------------------------------------------------------
(* Threads and their calls *)

\* Each call that is being started is one thread's.
ThreadInv ==
    /\ \A t \in Threads : Inside(t) => calls[frames[t].call].outcome = "starting"
    /\ \A t, u \in Threads :
         Inside(t) /\ Inside(u) /\ frames[t].call = frames[u].call => t = u
    /\ \A t \in Threads : /\ frames[t].decision # "CHECKPOINT"
                          /\ frames[t] # Idle => Inside(t)

LEMMA ThreadInvHolds == ThreadedSpec => []ThreadInv
<1>1. ThreadedInit => ThreadInv
  BY DEF ThreadedInit, ThreadInv, Inside, Idle
<1>2. ThreadedTypeOK /\ ThreadInv /\ [ThreadedNext]_<<vars, threadVars>> => ThreadInv'
  <2> SUFFICES ASSUME ThreadedTypeOK, ThreadInv, [ThreadedNext]_<<vars, threadVars>>
               PROVE  ThreadInv'
    OBVIOUS
  <2>1. \A t \in Threads : Inside(t) => frames[t].call \in DOMAIN calls
    BY InsideStart DEF Inside
  <2>2. ASSUME NEW thread \in Threads, NEW tool \in Tools, Enter(thread, tool)
        PROVE  ThreadInv'
    <3> DEFINE n == Len(calls)
    <3>1. /\ n \in Nat /\ DOMAIN calls = 1..n /\ n + 1 \notin 1..n
          /\ \A j \in 1..n : calls'[j] = calls[j]
          /\ calls'[n + 1].outcome = "starting"
      BY <2>2, Entering
    <3>2. /\ \A t \in Threads : t # thread => frames'[t] = frames[t]
          /\ frames'[thread].step = "publish"
          /\ frames'[thread].call = n + 1
          /\ frames'[thread].decision = Decision(tool)
      BY <2>2, EnteringFrames
    <3>3. Decision(tool) # "CHECKPOINT"
      BY NeverACheckpoint
    <3> HIDE DEF n
    <3>4. \A t \in Threads : t # thread /\ Inside(t)' =>
            /\ Inside(t) /\ frames'[t].call \in 1..n
            /\ frames'[t].call = frames[t].call
      BY <2>1, <3>1, <3>2 DEF Inside
    <3>5. \A t \in Threads : Inside(t)' => calls'[frames'[t].call].outcome = "starting"
      BY <3>1, <3>2, <3>4 DEF ThreadInv
    <3>6. \A t, u \in Threads :
            Inside(t)' /\ Inside(u)' /\ frames'[t].call = frames'[u].call => t = u
      BY <3>1, <3>2, <3>4 DEF ThreadInv
    <3>7. \A t \in Threads : /\ frames'[t].decision # "CHECKPOINT"
                             /\ frames'[t] # Idle => Inside(t)'
      BY <3>2, <3>3 DEF ThreadInv, Inside
    <3> QED BY <3>5, <3>6, <3>7 DEF ThreadInv
  <2>3. ASSUME NEW thread \in Threads, NEW to, to # "idle", Advances(thread, to)
        PROVE  ThreadInv'
    BY <2>3 DEF ThreadInv, Advances, Inside
  <2>4. ASSUME NEW thread \in Threads, NEW outcome, Leaves(thread, outcome)
        PROVE  ThreadInv'
    <3>1. /\ \A j \in DOMAIN calls :
               calls'[j].outcome = IF j = frames[thread].call THEN outcome
                                   ELSE calls[j].outcome
          /\ \A t \in Threads : frames'[t] = IF t = thread THEN Idle ELSE frames[t]
      BY <2>4, Leaving DEF Leaves, Inside
    <3>2. Idle.step = "idle" /\ Idle.decision # "CHECKPOINT"
      BY DEF Idle
    <3>3. \A t \in Threads : Inside(t)' =>
            /\ t # thread /\ Inside(t) /\ frames'[t].call = frames[t].call
            /\ frames[t].call # frames[thread].call
      BY <2>4, <3>1, <3>2 DEF ThreadInv, Inside, Leaves
    <3> QED BY <2>1, <3>1, <3>2, <3>3 DEF ThreadInv, Inside
  <2>5. ASSUME NEW i \in DOMAIN calls, OnToolEnd(i), UNCHANGED threadVars
        PROVE  ThreadInv'
    <3>1. /\ \A j \in DOMAIN calls :
               calls'[j].outcome = IF j = i THEN "done" ELSE calls[j].outcome
          /\ calls[i].outcome = "running"
      BY <2>5, Ending
    <3> QED BY <2>1, <2>5, <3>1 DEF ThreadInv, Inside, threadVars
  <2>6. ASSUME UNCHANGED <<frames, calls>> PROVE ThreadInv'
    BY <2>6 DEF ThreadInv, Inside
  <2>7. ASSUME NEW thread \in Threads,
               \/ PublishCall(thread) \/ PassBudget(thread) \/ LoadConsumed(thread)
               \/ StoreConsumed(thread) \/ LogAction(thread) \/ PassBoundary(thread)
        PROVE  ThreadInv'
    BY <2>3, <2>7, Advancing
  <2>8. ASSUME NEW thread \in Threads,
               StopExhausted(thread) \/ StopCrossing(thread) \/ Settle(thread)
        PROVE  ThreadInv'
    BY <2>4, <2>8, Stopping
  <2>9. CASE Reset
    BY <2>6, <2>9 DEF Reset, ResetBudget
  <2>10. ASSUME OnAgentFinish, UNCHANGED threadVars PROVE ThreadInv'
    BY <2>6, <2>10 DEF OnAgentFinish, threadVars
  <2> QED BY <2>2, <2>5, <2>6, <2>7, <2>8, <2>9, <2>10, StepKinds DEF threadVars
<1> QED BY <1>1, <1>2, ThreadsAreTyped, PTL DEF ThreadedSpec

-----------------------------------------------------------------------------
(* Kinds of action, with threads *)

Settling == {t \in Threads : frames[t].step = "settle"}

\* The kinds that ran, that a thread has brought past the boundary, and that
\* the baseline stands for.  The set stops growing with the first baseline.
InPlay ==
    {KindOf(calls[i].tool) : i \in Admitted}
      \cup {KindOf(ToolOf(t)) : t \in Settling}
      \cup (IF baseline = None THEN {}
            ELSE {<<VerbCategory(baseline.verb), baseline.effect>>})

KindsInv ==
    /\ baseline = None => Admitted = {}
    /\ IsFiniteSet(InPlay) /\ Cardinality(InPlay) <= Cardinality(Threads)

\* A smaller set of kinds is within the bound too.
LEMMA NoNewKind ==
    ASSUME KindsInv, InPlay' \subseteq InPlay, baseline' = None => Admitted' = {}
    PROVE  KindsInv'
<1> DEFINE old == InPlay
           new == InPlay'
           most == Cardinality(Threads)
<1>1. IsFiniteSet(old) /\ Cardinality(old) <= most /\ new \in SUBSET old
  BY DEF KindsInv
<1>2. most \in Nat
  BY ThreadAssumption, FS_CardinalityType
<1> HIDE DEF old, new, most
<1>3. IsFiniteSet(new) /\ Cardinality(new) <= Cardinality(old)
  BY <1>1, FS_Subset
<1>4. Cardinality(new) \in Nat /\ Cardinality(old) \in Nat
  BY <1>1, <1>3, FS_CardinalityType
<1>5. Cardinality(new) <= most
  BY <1>1, <1>2, <1>3, <1>4
<1> QED BY <1>3, <1>5 DEF KindsInv, new, most

\* As long as there is no baseline, each kind is one of a settling thread.
LEMMA KindsOfThreads ==
    ASSUME NEW S \in SUBSET Threads,
           InPlay' \subseteq {KindOf(ToolOf(t)) : t \in S},
           baseline' # None \/ Admitted' = {}
    PROVE  KindsInv'
<1> DEFINE new == InPlay'
           kind(t) == KindOf(ToolOf(t))
           kinds == {kind(t) : t \in S}
           most == Cardinality(Threads)
<1>1. IsFiniteSet(S) /\ Cardinality(S) <= most /\ Cardinality(S) \in Nat
  BY ThreadAssumption, FS_Subset, FS_CardinalityType
<1>2. most \in Nat
  BY ThreadAssumption, FS_CardinalityType
<1>3. IsFiniteSet(kinds) /\ Cardinality(kinds) <= Cardinality(S)
  <2> DEFINE f == [t \in S |-> kind(t)]
  <2>1. f \in Surjection(S, kinds)
    BY DEF Surjection
  <2> HIDE DEF f, kinds
  <2> QED BY <1>1, <2>1, FS_Surjection
<1>4. new \in SUBSET kinds
  OBVIOUS
<1> HIDE DEF new, kinds, most
<1>5. IsFiniteSet(new) /\ Cardinality(new) <= Cardinality(kinds)
  BY <1>3, <1>4, FS_Subset
<1>6. Cardinality(new) \in Nat /\ Cardinality(kinds) \in Nat
  BY <1>3, <1>5, FS_CardinalityType
<1>7. Cardinality(new) <= most
  BY <1>1, <1>2, <1>3, <1>5, <1>6
<1> QED BY <1>5, <1>7 DEF KindsInv, new, most

\* Steps that admit nothing, settle nothing and leave the baseline alone.
LEMMA KindsStay ==
    ASSUME KindsInv, baseline' = baseline,
           \A i \in Admitted' : i \in Admitted /\ calls'[i].tool = calls[i].tool,
           \A t \in Settling' : t \in Settling /\ ToolOf(t)' = ToolOf(t)
    PROVE  KindsInv'
<1>1. {KindOf(calls'[i].tool) : i \in Admitted'} \subseteq {KindOf(calls[i].tool) : i \in Admitted}
  OBVIOUS
<1>2. {KindOf(ToolOf(t)') : t \in Settling'} \subseteq {KindOf(ToolOf(t)) : t \in Settling}
  OBVIOUS
<1>3. InPlay' \subseteq InPlay
  <2>1. InPlay' = {KindOf(calls'[i].tool) : i \in Admitted'}
           \cup {KindOf(ToolOf(t)') : t \in Settling'}
           \cup (IF baseline' = None THEN {}
                 ELSE {<<VerbCategory(baseline'.verb), baseline'.effect>>})
    BY DEF InPlay, KindOf, Semantic
  <2> QED BY <1>1, <1>2, <2>1 DEF InPlay
<1>4. baseline' = None => Admitted' = {}
  BY DEF KindsInv
<1> QED BY <1>3, <1>4, NoNewKind

\* For any number of threads: the tools that ever ran are of at most as many
\* kinds as there are threads.
THEOREM KindsAreBounded == ThreadedSpec => []KindsBoundedByThreads
<1>1. ThreadedInit => KindsInv
  <2> SUFFICES ASSUME ThreadedInit PROVE KindsInv
    OBVIOUS
  <2>1. InPlay = {} /\ Admitted = {}
    BY DEF ThreadedInit, Init, InPlay, Admitted, Settling, Idle
  <2>2. IsFiniteSet(InPlay) /\ Cardinality(InPlay) = 0
    BY <2>1, FS_EmptySet
  <2>3. Cardinality(Threads) \in Nat
    BY ThreadAssumption, FS_CardinalityType
  <2> QED BY <2>1, <2>2, <2>3 DEF KindsInv
<1>2. ThreadedTypeOK /\ KindsInv /\ [ThreadedNext]_<<vars, threadVars>> => KindsInv'
  <2> SUFFICES ASSUME ThreadedTypeOK, KindsInv, [ThreadedNext]_<<vars, threadVars>>
               PROVE  KindsInv'
    OBVIOUS
  <2>1. \A t \in Threads : Inside(t) =>
          frames[t].call \in DOMAIN calls /\ ToolOf(t) \in Tools
    BY InsideStart DEF Inside
  <2>2. \A t \in Settling : t \in Threads /\ Inside(t)
    BY DEF Settling, Inside
  <2>3. ASSUME NEW thread \in Threads, NEW tool \in Tools, Enter(thread, tool)
        PROVE  KindsInv'
    <3> DEFINE n == Len(calls)
    <3>1. /\ n \in Nat /\ DOMAIN calls = 1..n /\ DOMAIN calls' = 1..(n + 1)
          /\ \A j \in 1..n : calls'[j] = calls[j]
          /\ \A j \in 1..(n + 1) : j \in 1..n \/ j = n + 1
          /\ calls'[n + 1].outcome = "starting"
      BY <2>3, Entering
    <3>2. /\ \A t \in Threads : t # thread => frames'[t] = frames[t]
          /\ frames'[thread].step = "publish"
      BY <2>3, EnteringFrames
    <3> HIDE DEF n
    <3>3. \A i \in Admitted' : i \in Admitted /\ calls'[i].tool = calls[i].tool
      BY <3>1 DEF Admitted
    <3>4. \A t \in Settling' : t \in Settling /\ ToolOf(t)' = ToolOf(t)
      BY <2>1, <2>2, <3>1, <3>2 DEF Settling, ToolOf
    <3>5. baseline' = baseline
      BY <2>3 DEF Enter
    <3> QED BY <3>3, <3>4, <3>5, KindsStay
  <2>4. ASSUME NEW thread \in Threads, NEW to, to # "settle", Advances(thread, to)
        PROVE  KindsInv'
    <3>1. \A t \in Settling' : t \in Settling /\ ToolOf(t)' = ToolOf(t)
      BY <2>4 DEF Settling, ToolOf, Advances
    <3> QED BY <2>4, <3>1, KindsStay DEF Advances, Admitted
  <2>5. ASSUME NEW thread \in Threads, PassBoundary(thread) PROVE KindsInv'
    <3>1. /\ Inside(thread) /\ calls' = calls /\ baseline' = baseline
          /\ \A t \in Threads : t # thread => frames'[t] = frames[t]
          /\ frames'[thread].step = "settle"
          /\ frames'[thread].call = frames[thread].call
      BY <2>5, Advancing DEF Advances
    <3>2. Settling' = Settling \cup {thread}
      BY <3>1 DEF Settling
    <3>3. \A t \in Settling' : ToolOf(t)' = ToolOf(t)
      BY <2>2, <3>1, <3>2 DEF ToolOf
    <3>4. Admitted' = Admitted
      BY <3>1 DEF Admitted
    <3>5. InPlay' \subseteq InPlay \cup {KindOf(ToolOf(thread))}
      <4>1. InPlay' = {KindOf(calls[i].tool) : i \in Admitted}
               \cup {KindOf(ToolOf(t)) : t \in Settling'}
               \cup (IF baseline = None THEN {}
                     ELSE {<<VerbCategory(baseline.verb), baseline.effect>>})
        BY <3>1, <3>3, <3>4 DEF InPlay, KindOf, Semantic
      <4> QED BY <3>2, <4>1 DEF InPlay
    <3>6. CASE baseline = None
      <4>1. Admitted' = {}
        BY <3>4, <3>6 DEF KindsInv
      <4>2. InPlay' = {KindOf(ToolOf(t)') : t \in Settling'}
        BY <3>1, <3>6, <4>1 DEF InPlay, KindOf, Semantic
      <4>3. InPlay' \subseteq {KindOf(ToolOf(t)) : t \in Settling'}
        BY <3>3, <4>2
      <4>4. Settling' \in SUBSET Threads
        BY DEF Settling
      <4> QED BY <4>1, <4>3, <4>4, KindsOfThreads
    <3>7. CASE baseline # None
      <4>1. PICK first \in Tools : baseline = Semantic(first)
        <5>1. baseline \in {Semantic(tool) : tool \in Tools} \cup {None}
          BY DEF ThreadedTypeOK
        <5>2. baseline \in {Semantic(tool) : tool \in Tools}
          BY <3>7, <5>1
        <5> QED BY <5>2, Zenon
      <4>2. Delta(baseline, Semantic(ToolOf(thread))) = {}
        BY <2>5, <3>7 DEF PassBoundary, CrossesBoundary
      <4>3. ToolOf(thread) \in Tools
        BY <2>1, <3>1
      <4>4. KindOf(ToolOf(thread)) = <<VerbCategory(baseline.verb), baseline.effect>>
        BY <4>1, <4>2, <4>3, SameKind DEF KindOf
      <4>5. KindOf(ToolOf(thread)) \in InPlay
        BY <3>7, <4>4 DEF InPlay
      <4> QED BY <3>1, <3>5, <3>7, <4>5, NoNewKind
    <3> QED BY <3>6, <3>7
  <2>6. ASSUME NEW thread \in Threads, NEW outcome \in {"exhausted", "crossing"},
               Leaves(thread, outcome), baseline' = baseline
        PROVE  KindsInv'
    <3>1. /\ DOMAIN calls' = DOMAIN calls
          /\ \A j \in DOMAIN calls :
               /\ calls'[j].tool = calls[j].tool
               /\ calls'[j].outcome = IF j = frames[thread].call THEN outcome
                                      ELSE calls[j].outcome
          /\ \A t \in Threads : frames'[t] = IF t = thread THEN Idle ELSE frames[t]
      BY <2>6, Leaving DEF Leaves, Inside
    <3>2. \A i \in Admitted' : i \in Admitted /\ calls'[i].tool = calls[i].tool
      BY <2>6, <3>1 DEF Admitted
    <3>3. Idle.step # "settle"
      BY DEF Idle
    <3>4. \A t \in Settling' : t \in Settling /\ ToolOf(t)' = ToolOf(t)
      BY <2>1, <2>2, <3>1, <3>3 DEF Settling, ToolOf
    <3> QED BY <2>6, <3>2, <3>4, KindsStay
  <2>7. ASSUME NEW thread \in Threads, Settle(thread) PROVE KindsInv'
    <3> DEFINE tool == ToolOf(thread)
    <3>1. PICK outcome : Leaves(thread, outcome)
      BY <2>7, Stopping
    <3>2. /\ DOMAIN calls' = DOMAIN calls
          /\ \A j \in DOMAIN calls :
               /\ calls'[j].tool = calls[j].tool
               /\ calls'[j].outcome = IF j = frames[thread].call THEN outcome
                                      ELSE calls[j].outcome
          /\ \A t \in Threads : frames'[t] = IF t = thread THEN Idle ELSE frames[t]
      BY <3>1, Leaving DEF Leaves, Inside
    <3>3. thread \in Settling /\ tool \in Tools
      BY <2>1, <2>2, <2>7 DEF Settle, Settling
    <3>4. baseline' = Semantic(tool) /\ baseline' # None
      BY <2>7, <3>3, NoneAssumption DEF Settle
    <3>5. ASSUME NEW i \in Admitted'
          PROVE  \/ i \in Admitted /\ calls'[i].tool = calls[i].tool
                 \/ calls'[i].tool = tool
      BY <3>2 DEF Admitted, ToolOf
    <3>6. Idle.step # "settle"
      BY DEF Idle
    <3>7. \A t \in Settling' : t \in Settling /\ ToolOf(t)' = ToolOf(t)
      BY <2>1, <2>2, <3>2, <3>6 DEF Settling, ToolOf
    <3>8. <<VerbCategory(baseline'.verb), baseline'.effect>> = KindOf(tool)
      BY <3>4 DEF KindOf
    <3>9. ASSUME NEW kind \in InPlay'
          PROVE  \/ kind \in {KindOf(ToolOf(t)) : t \in Settling}
                 \/ kind \in {KindOf(calls[i].tool) : i \in Admitted}
      <4>1. \/ kind \in {KindOf(calls[i].tool) : i \in Admitted}'
            \/ kind \in {KindOf(ToolOf(t)) : t \in Settling}'
            \/ kind = KindOf(tool)
        BY <3>4, <3>8 DEF InPlay
      <4>2. KindOf(tool) \in {KindOf(ToolOf(t)) : t \in Settling}
        BY <3>3
      <4>3. ASSUME kind \in {KindOf(calls[i].tool) : i \in Admitted}'
            PROVE  kind \in {KindOf(calls[i].tool) : i \in Admitted} \/ kind = KindOf(tool)
        <5>1. PICK i \in Admitted' : kind = KindOf(calls'[i].tool)
          BY <4>3 DEF KindOf, Semantic
        <5> QED BY <3>5, <5>1
      <4>4. ASSUME kind \in {KindOf(ToolOf(t)) : t \in Settling}'
            PROVE  kind \in {KindOf(ToolOf(t)) : t \in Settling}
        <5>1. PICK t \in Settling' : kind = KindOf(ToolOf(t)')
          BY <4>4 DEF KindOf, Semantic
        <5> QED BY <3>7, <5>1
      <4> QED BY <4>1, <4>2, <4>3, <4>4
    <3>10. CASE baseline = None
      <4>1. Admitted = {}
        BY <3>10 DEF KindsInv
      <4>2. InPlay' \subseteq {KindOf(ToolOf(t)) : t \in Settling}
        BY <3>9, <4>1
      <4>3. Settling \in SUBSET Threads
        BY DEF Settling
      <4> QED BY <3>4, <4>2, <4>3, KindsOfThreads
    <3>11. CASE baseline # None
      <4>1. InPlay' \subseteq InPlay
        BY <3>9 DEF InPlay
      <4> QED BY <3>4, <4>1, NoNewKind
    <3> QED BY <3>10, <3>11
  <2>8. ASSUME NEW i \in DOMAIN calls, OnToolEnd(i), UNCHANGED threadVars
        PROVE  KindsInv'
    <3>1. /\ DOMAIN calls' = DOMAIN calls
          /\ \A j \in DOMAIN calls :
               /\ calls'[j].tool = calls[j].tool
               /\ calls'[j].outcome = IF j = i THEN "done" ELSE calls[j].outcome
          /\ calls[i].outcome = "running"
      BY <2>8, Ending
    <3>2. \A j \in Admitted' : j \in Admitted /\ calls'[j].tool = calls[j].tool
      BY <3>1 DEF Admitted
    <3>3. \A t \in Settling' : t \in Settling /\ ToolOf(t)' = ToolOf(t)
      BY <2>1, <2>2, <2>8, <3>1 DEF Settling, ToolOf, threadVars
    <3>4. baseline' = baseline
      BY <2>8 DEF OnToolEnd
    <3> QED BY <3>2, <3>3, <3>4, KindsStay
  <2>9. ASSUME UNCHANGED <<frames, calls, baseline>> PROVE KindsInv'
    <3>1. \A i \in Admitted' : i \in Admitted /\ calls'[i].tool = calls[i].tool
      BY <2>9 DEF Admitted
    <3>2. \A t \in Settling' : t \in Settling /\ ToolOf(t)' = ToolOf(t)
      BY <2>9 DEF Settling, ToolOf
    <3> QED BY <2>9, <3>1, <3>2, KindsStay
  <2>10. ASSUME NEW thread \in Threads,
                \/ PublishCall(thread) \/ PassBudget(thread) \/ LoadConsumed(thread)
                \/ StoreConsumed(thread) \/ LogAction(thread)
         PROVE  KindsInv'
    BY <2>4, <2>10, Advancing
  <2>11. ASSUME NEW thread \in Threads, StopExhausted(thread) \/ StopCrossing(thread)
         PROVE  KindsInv'
    BY <2>6, <2>11, Stopping DEF StopExhausted, StopCrossing
  <2>12. CASE Reset
    BY <2>9, <2>12 DEF Reset, ResetBudget
  <2>13. ASSUME OnAgentFinish, UNCHANGED threadVars PROVE KindsInv'
    BY <2>9, <2>13 DEF OnAgentFinish, threadVars
  <2> QED BY <2>3, <2>5, <2>7, <2>8, <2>9, <2>10, <2>11, <2>12, <2>13, StepKinds
          DEF threadVars
<1>3. KindsInv => KindsBoundedByThreads
  <2> SUFFICES ASSUME KindsInv PROVE KindsBoundedByThreads
    OBVIOUS
  <2> DEFINE ran == {KindOf(calls[i].tool) : i \in Admitted}
             most == Cardinality(Threads)
  <2>1. ran \in SUBSET InPlay /\ IsFiniteSet(InPlay) /\ Cardinality(InPlay) <= most
    BY DEF KindsInv, InPlay
  <2>2. most \in Nat /\ Cardinality(InPlay) \in Nat
    BY <2>1, ThreadAssumption, FS_CardinalityType
  <2> HIDE DEF ran, most
  <2>3. IsFiniteSet(ran) /\ Cardinality(ran) <= Cardinality(InPlay)
    BY <2>1, FS_Subset
  <2>4. Cardinality(ran) \in Nat
    BY <2>3, FS_CardinalityType
  <2>5. Cardinality(ran) <= most
    BY <2>1, <2>2, <2>3, <2>4
  <2> QED BY <2>5 DEF KindsBoundedByThreads, ran, most
<1> QED BY <1>1, <1>2, <1>3, ThreadsAreTyped, PTL DEF ThreadedSpec

-----------------------------------------------------------------------------
(* The budget, with threads *)

\* A thread whose `+=` has not written yet.
Unpaid(t) == frames[t].step \in {"publish", "check", "load", "store"}

\* The calls whose cost a `+=` has added to some total or other.
Paid == {i \in DOMAIN calls :
           /\ calls[i].outcome # "exhausted"
           /\ \A t \in Threads : Unpaid(t) => frames[t].call # i}

PaidCost == [i \in Paid |-> Cost[calls[i].tool]]

\* Neither the budget nor what a thread has read of it exceeds what was paid.
PaidInv ==
    /\ consumed <= SumFunction(PaidCost)
    /\ \A t \in Threads :
         frames[t].step = "store" => frames[t].loaded <= SumFunction(PaidCost)

LEMMA CallsHaveCosts ==
    ASSUME NEW list \in Seq(ThreadedCall), NEW s \in SUBSET DOMAIN list
    PROVE  IsFiniteSet(s) /\ [i \in s |-> Cost[list[i].tool]] \in [s -> Nat]
<1>1. DOMAIN list = 1..Len(list) /\ Len(list) \in Nat
  OBVIOUS
<1>2. IsFiniteSet(s)
  <2>1. IsFiniteSet(DOMAIN list)
    BY <1>1, FS_Interval
  <2> QED BY <2>1, FS_Subset
<1>3. ASSUME NEW i \in s PROVE Cost[list[i].tool] \in Nat
  <2>1. list[i] \in ThreadedCall
    BY <1>1
  <2> QED BY <2>1, CostIsPositive DEF ThreadedCall
<1> QED BY <1>2, <1>3

\* What was paid never shrinks.
LEMMA PaidGrows ==
    ASSUME ThreadedTypeOK, ThreadedTypeOK', Paid \subseteq Paid',
           \A i \in Paid : calls'[i].tool = calls[i].tool
    PROVE  /\ SumFunction(PaidCost) \in Nat /\ SumFunction(PaidCost') \in Nat
           /\ SumFunction(PaidCost) <= SumFunction(PaidCost')
<1> DEFINE D == Paid'
           s == Paid
           f == PaidCost'
           g == PaidCost
<1>1. calls \in Seq(ThreadedCall) /\ calls' \in Seq(ThreadedCall)
  BY DEF ThreadedTypeOK
<1>2. s \in SUBSET DOMAIN calls /\ D \in SUBSET DOMAIN calls'
  BY DEF Paid
<1>3. g = [i \in s |-> Cost[calls[i].tool]] /\ f = [i \in D |-> Cost[calls'[i].tool]]
  BY DEF PaidCost, Cost
<1>4. s \in SUBSET D /\ \A i \in s : calls'[i].tool = calls[i].tool
  OBVIOUS
<1> HIDE DEF D, s, f, g
<1>5. g \in [s -> Nat]
  BY <1>1, <1>2, <1>3, CallsHaveCosts
<1>6. IsFiniteSet(D) /\ f \in [D -> Nat]
  BY <1>1, <1>2, <1>3, CallsHaveCosts
<1>7. \A i \in s : g[i] = f[i]
  BY <1>3, <1>4
<1>8. /\ SumFunction(f) \in Nat /\ SumFunction(g) \in Nat
      /\ SumFunction(g) <= SumFunction(f)
  BY <1>4, <1>5, <1>6, <1>7, SumsGrow
<1> QED BY <1>8 DEF f, g

\* So a step that charges nothing keeps the bound.
LEMMA PaidStays ==
    ASSUME ThreadedTypeOK, ThreadedTypeOK', PaidInv, Paid \subseteq Paid',
           \A i \in Paid : calls'[i].tool = calls[i].tool,
           consumed' \in {0, consumed},
           \A t \in Threads : frames'[t].step = "store" =>
             \/ frames'[t].loaded = consumed
             \/ frames[t].step = "store" /\ frames'[t].loaded = frames[t].loaded
    PROVE  PaidInv'
<1> DEFINE before == SumFunction(PaidCost)
           after == SumFunction(PaidCost')
<1>1. before \in Nat /\ after \in Nat /\ before <= after
  BY PaidGrows
<1>2. consumed \in Nat /\ consumed <= before
  BY DEF PaidInv, ThreadedTypeOK
<1>3. ASSUME NEW t \in Threads, frames'[t].step = "store"
      PROVE  frames'[t].loaded \in Nat /\ frames'[t].loaded <= before
  <2>1. frames'[t] \in Frame
    BY DEF ThreadedTypeOK
  <2>2. frames'[t].loaded <= before
    BY <1>2, <1>3 DEF PaidInv
  <2> QED BY <2>1, <2>2 DEF Frame
<1> HIDE DEF before, after
<1>4. consumed' <= after
  BY <1>1, <1>2
<1>5. \A t \in Threads : frames'[t].step = "store" => frames'[t].loaded <= after
  BY <1>1, <1>3
<1> QED BY <1>4, <1>5 DEF PaidInv, after

\* Whatever threads and resets interleave: the budget never asks for more than
\* calls did cost.
THEOREM NoCallIsBilledTwice == ThreadedSpec => []BudgetNeverOvercharges
<1>1. ThreadedInit => PaidInv
  <2> SUFFICES ASSUME ThreadedInit PROVE PaidInv
    OBVIOUS
  <2>1. calls = <<>> /\ consumed = 0 /\ \A t \in Threads : frames[t].step # "store"
    BY DEF ThreadedInit, Init, Idle
  <2>2. DOMAIN calls = {}
    BY <2>1
  <2>3. PaidCost \in [{} -> Int] /\ DOMAIN PaidCost = {}
    BY <2>2 DEF PaidCost, Paid
  <2>4. SumFunction(PaidCost) = 0
    BY <2>3, SumOfNone
  <2> QED BY <2>1, <2>4 DEF PaidInv
<1>2. ThreadedTypeOK /\ ThreadedTypeOK' /\ ThreadInv /\ PaidInv
      /\ [ThreadedNext]_<<vars, threadVars>> => PaidInv'
  <2> SUFFICES ASSUME ThreadedTypeOK, ThreadedTypeOK', ThreadInv, PaidInv,
                      [ThreadedNext]_<<vars, threadVars>>
               PROVE  PaidInv'
    OBVIOUS
  <2>1. \A t \in Threads : Inside(t) => frames[t].call \in DOMAIN calls
    BY InsideStart DEF Inside
  <2>2. ASSUME NEW thread \in Threads, NEW tool \in Tools, Enter(thread, tool)
        PROVE  PaidInv'
    <3> DEFINE n == Len(calls)
    <3>1. /\ n \in Nat /\ DOMAIN calls = 1..n /\ DOMAIN calls' = 1..(n + 1)
          /\ \A j \in 1..n : calls'[j] = calls[j] /\ j \in 1..(n + 1)
          /\ n + 1 \notin 1..n
      BY <2>2, Entering
    <3>2. /\ \A t \in Threads : t # thread => frames'[t] = frames[t]
          /\ frames'[thread].step = "publish"
          /\ frames'[thread].call = n + 1
      BY <2>2, EnteringFrames
    <3> HIDE DEF n
    <3>3. Paid \subseteq Paid' /\ \A i \in Paid : calls'[i].tool = calls[i].tool
      BY <3>1, <3>2 DEF Paid, Unpaid
    <3>4. consumed' = consumed
      BY <2>2 DEF Enter, budgetVars
    <3> QED BY <3>2, <3>3, <3>4, PaidStays
  <2>3. ASSUME NEW thread \in Threads, NEW to, Advances(thread, to),
               to \in {"publish", "check", "load", "store"} => Unpaid(thread),
               consumed' = consumed, to = "store" => frames'[thread].loaded = consumed
        PROVE  PaidInv'
    <3>1. /\ \A t \in Threads : t # thread => frames'[t] = frames[t]
          /\ frames'[thread].step = to /\ frames'[thread].call = frames[thread].call
          /\ calls' = calls
      BY <2>3 DEF Advances
    <3>3. Paid \subseteq Paid' /\ \A i \in Paid : calls'[i].tool = calls[i].tool
      BY <2>3, <3>1 DEF Paid, Unpaid
    <3> QED BY <2>3, <3>1, <3>3, PaidStays
  <2>4. ASSUME NEW thread \in Threads, NEW outcome, Leaves(thread, outcome),
               outcome = "exhausted" => Unpaid(thread), consumed' = consumed
        PROVE  PaidInv'
    <3>1. /\ DOMAIN calls' = DOMAIN calls
          /\ \A j \in DOMAIN calls :
               /\ calls'[j].tool = calls[j].tool
               /\ calls'[j].outcome = IF j = frames[thread].call THEN outcome
                                      ELSE calls[j].outcome
          /\ \A t \in Threads : frames'[t] = IF t = thread THEN Idle ELSE frames[t]
      BY <2>4, Leaving DEF Leaves, Inside
    <3>2. Idle.step = "idle"
      BY DEF Idle
    <3>3. Paid \subseteq Paid' /\ \A i \in Paid : calls'[i].tool = calls[i].tool
      BY <2>4, <3>1, <3>2 DEF Paid, Unpaid
    <3> QED BY <2>4, <3>1, <3>2, <3>3, PaidStays
  <2>5. ASSUME NEW thread \in Threads, StoreConsumed(thread) PROVE PaidInv'
    <3> DEFINE call == frames[thread].call
               cost == Cost[calls[call].tool]
               more == [i \in Paid \cup {call} |-> Cost[calls[i].tool]]
               before == SumFunction(PaidCost)
               with == SumFunction(more)
               after == SumFunction(PaidCost')
    <3>1. /\ Inside(thread) /\ calls' = calls /\ frames[thread].step = "store"
          /\ \A t \in Threads : t # thread => frames'[t] = frames[t]
          /\ frames'[thread].step = "log"
          /\ frames'[thread].call = call
      BY <2>5, Advancing DEF Advances
    <3>2. call \in DOMAIN calls /\ calls[call].outcome = "starting"
      BY <2>1, <3>1 DEF ThreadInv
    <3>3. \A t \in Threads : t # thread /\ Unpaid(t) => frames[t].call # call
      BY <3>1 DEF ThreadInv, Unpaid, Inside
    <3>4. call \notin Paid
      BY <3>1 DEF Paid, Unpaid
    <3>5. Paid \cup {call} \subseteq Paid'
      BY <3>1, <3>2, <3>3 DEF Paid, Unpaid
    <3>6. calls \in Seq(ThreadedCall) /\ frames[thread] \in Frame /\ consumed \in Nat
      BY DEF ThreadedTypeOK
    <3>7. Paid \in SUBSET DOMAIN calls /\ Paid \cup {call} \in SUBSET DOMAIN calls
          /\ Paid' \in SUBSET DOMAIN calls
      BY <3>1, <3>2 DEF Paid
    <3>8. /\ IsFiniteSet(Paid) /\ PaidCost \in [Paid -> Nat]
          /\ more \in [Paid \cup {call} -> Nat]
      BY <3>6, <3>7, CallsHaveCosts DEF PaidCost
    <3>9. IsFiniteSet(Paid') /\ PaidCost' \in [Paid' -> Nat]
      <4>1. PaidCost' = [i \in Paid' |-> Cost[calls[i].tool]]
        BY <3>1 DEF PaidCost, Cost
      <4> QED BY <3>6, <3>7, <4>1, CallsHaveCosts
    <3>10. with = before + cost
      <4>1. (\A i \in Paid : more[i] = PaidCost[i]) /\ more[call] = cost
        BY DEF PaidCost
      <4>2. HasOneMore(PaidCost, Paid, call, more)
        <5> HIDE DEF more, call
        <5>1. PaidCost \in [Paid -> Int] /\ more \in [Paid \cup {call} -> Int]
          BY <3>8
        <5> QED BY <3>4, <3>8, <4>1, <5>1 DEF HasOneMore
      <4> HIDE DEF more, cost
      <4> QED BY <4>1, <4>2, SumWithMore
    <3>11. after \in Nat /\ with \in Nat /\ with <= after
      <4>1. \A i \in Paid \cup {call} : more[i] = PaidCost'[i]
        <5>1. PaidCost' = [i \in Paid' |-> Cost[calls[i].tool]]
          BY <3>1 DEF PaidCost, Cost
        <5> HIDE DEF call
        <5> QED BY <3>5, <5>1
      <4> HIDE DEF more, call
      <4> QED BY <3>5, <3>8, <3>9, <4>1, SumsGrow
    <3>12. cost \in Nat
      <4>1. calls[call] \in ThreadedCall
        BY <3>2, <3>6
      <4> QED BY <4>1, CostIsPositive DEF ThreadedCall
    <3>13. consumed' = frames[thread].loaded + cost
      BY <2>5 DEF StoreConsumed, ToolOf
    <3>14. frames[thread].loaded \in Nat /\ frames[thread].loaded <= before
      BY <3>1, <3>6 DEF PaidInv, Frame
    <3>15. before \in Nat
      <4>1. Paid \subseteq Paid /\ \A i \in Paid : PaidCost[i] = PaidCost[i]
        OBVIOUS
      <4> QED BY <3>8, <4>1, SumsGrow
    <3>16. ASSUME NEW t \in Threads, frames'[t].step = "store"
           PROVE  frames'[t].loaded \in Nat /\ frames'[t].loaded <= before
      <4>1. frames'[t] \in Frame
        BY DEF ThreadedTypeOK
      <4>2. frames'[t] = frames[t]
        BY <3>1, <3>16
      <4> QED BY <3>16, <4>1, <4>2 DEF PaidInv, Frame
    <3> HIDE DEF before, with, after, cost
    <3>17. consumed' <= after
      BY <3>10, <3>11, <3>12, <3>13, <3>14, <3>15
    <3>18. \A t \in Threads : frames'[t].step = "store" => frames'[t].loaded <= after
      BY <3>10, <3>11, <3>12, <3>15, <3>16
    <3> QED BY <3>17, <3>18 DEF PaidInv, after
  <2>6. ASSUME NEW i \in DOMAIN calls, OnToolEnd(i), UNCHANGED threadVars
        PROVE  PaidInv'
    <3>1. /\ DOMAIN calls' = DOMAIN calls
          /\ \A j \in DOMAIN calls :
               /\ calls'[j].tool = calls[j].tool
               /\ calls'[j].outcome = IF j = i THEN "done" ELSE calls[j].outcome
      BY <2>6, Ending
    <3>2. frames' = frames /\ consumed' = consumed
      BY <2>6 DEF OnToolEnd, threadVars, budgetVars
    <3>3. Paid \subseteq Paid' /\ \A j \in Paid : calls'[j].tool = calls[j].tool
      BY <3>1, <3>2 DEF Paid, Unpaid
    <3> QED BY <3>2, <3>3, PaidStays
  <2>7. ASSUME UNCHANGED <<frames, calls>>, consumed' \in {0, consumed}
        PROVE  PaidInv'
    <3>1. Paid' = Paid
      BY <2>7 DEF Paid, Unpaid
    <3> QED BY <2>7, <3>1, PaidStays
  <2>8. ASSUME NEW thread \in Threads,
               \/ PublishCall(thread) \/ PassBudget(thread) \/ LoadConsumed(thread)
               \/ LogAction(thread) \/ PassBoundary(thread)
        PROVE  PaidInv'
    <3>1. PublishCall(thread) => PaidInv'
      BY <2>3, Advancing DEF Unpaid
    <3>2. PassBudget(thread) => PaidInv'
      BY <2>3, Advancing DEF Unpaid
    <3>3. LoadConsumed(thread) => PaidInv'
      BY <2>3, Advancing DEF Unpaid
    <3>4. LogAction(thread) \/ PassBoundary(thread) => PaidInv'
      BY <2>3, Advancing
    <3> QED BY <2>8, <3>1, <3>2, <3>3, <3>4
  <2>9. ASSUME NEW thread \in Threads,
               StopExhausted(thread) \/ StopCrossing(thread) \/ Settle(thread)
        PROVE  PaidInv'
    <3>1. consumed' = consumed
      BY <2>9 DEF StopExhausted, StopCrossing, Settle, budgetVars
    <3> QED BY <2>4, <2>9, <3>1, Stopping DEF Unpaid
  <2>10. CASE Reset
    BY <2>7, <2>10 DEF Reset, ResetBudget
  <2>11. ASSUME OnAgentFinish, UNCHANGED threadVars PROVE PaidInv'
    BY <2>7, <2>11 DEF OnAgentFinish, threadVars, budgetVars
  <2> QED BY <2>2, <2>5, <2>6, <2>7, <2>8, <2>9, <2>10, <2>11, StepKinds
          DEF threadVars, budgetVars
<1>3. ThreadedTypeOK /\ PaidInv => BudgetNeverOvercharges
  <2> SUFFICES ASSUME ThreadedTypeOK, PaidInv PROVE BudgetNeverOvercharges
    OBVIOUS
  <2> DEFINE all == [i \in Charged |-> Cost[calls[i].tool]]
             paid == SumFunction(PaidCost)
             total == SumFunction(all)
  <2>1. calls \in Seq(ThreadedCall) /\ consumed \in Nat
    BY DEF ThreadedTypeOK
  <2>2. Charged \in SUBSET DOMAIN calls /\ Paid \in SUBSET Charged
    BY DEF Charged, Paid
  <2>3. IsFiniteSet(Charged) /\ all \in [Charged -> Nat] /\ PaidCost \in [Paid -> Nat]
    BY <2>1, <2>2, CallsHaveCosts DEF PaidCost
  <2>4. \A i \in Paid : PaidCost[i] = all[i]
    BY <2>2 DEF PaidCost
  <2>5. total = SumFunction([i \in Charged |-> Cost[calls[i].tool]])
    OBVIOUS
  <2> HIDE DEF all
  <2>6. paid \in Nat /\ total \in Nat /\ paid <= total
    BY <2>2, <2>3, <2>4, SumsGrow
  <2>7. consumed <= paid
    BY DEF PaidInv
  <2> HIDE DEF paid, total
  <2>8. consumed <= total
    BY <2>1, <2>6, <2>7
  <2> QED BY <2>5, <2>8 DEF BudgetNeverOvercharges
<1> QED BY <1>1, <1>2, <1>3, ThreadsAreTyped, ThreadInvHolds, PTL DEF ThreadedSpec

-----------------------------------------------------------------------------
(* The graph, with threads *)

\* Each call has a tool_call event of its own, and some call has been
\* published once a thread is past that or a call has left on_tool_start.
RecordInv ==
    /\ Rooted(graph)
    /\ \A i \in DOMAIN calls :
         /\ calls[i].event \in DOMAIN graph
         /\ graph[calls[i].event].content
              = [kind |-> "tool_call", tool |-> calls[i].tool]
    /\ \A i, j \in DOMAIN calls : calls[i].event = calls[j].event => i = j
    /\ lastTool \in DOMAIN graph \cup {None}
    /\ lastTool = None =>
         /\ \A i \in DOMAIN calls : calls[i].outcome = "starting"
         /\ \A t \in Threads : frames[t].step \in {"idle", "publish"}

\* The graph got one event, which may be the next one.
Recording(event) == Follows(graph, event) /\ graph' = Append(graph, event)

\* What the threaded callback records.
LEMMA ThreadsRecord ==
    ASSUME ThreadedTypeOK, RecordInv
    PROVE  /\ \A thread \in Threads, tool \in Tools : Enter(thread, tool) =>
                Recording(ToolCall(tool))
           /\ \A thread \in Threads : \A content \in Content :
                Inside(thread) /\ RecordBelow(thread, content) =>
                  Recording(Event(NextId, content, <<EventOfCall(thread)>>))
           /\ \A i \in DOMAIN calls : OnToolEnd(i) =>
                /\ lastTool # None
                /\ Recording(Event(NextId, [kind |-> "tool_result", call |-> i],
                                   <<lastTool>>))
           /\ OnAgentFinish =>
                Recording(Event(NextId, [kind |-> "action"], <<Intent>>))
<1>1. Rooted(graph) /\ graph \in Seq(GraphEvent) /\ now \in Nat
  BY DEF ThreadedTypeOK, RecordInv, Rooted
<1>2. ASSUME NEW event, Follows(graph, event), Record(<<event>>)
      PROVE  Recording(event)
  <2>1. event \in GraphEvent
    BY <1>2 DEF Follows
  <2>2. graph \o <<event>> = Append(graph, event)
    BY <1>1, <2>1, Recorded
  <2> QED BY <1>2, <2>2 DEF Record, Recording
<1>3. ASSUME NEW thread \in Threads, NEW tool \in Tools, Enter(thread, tool)
      PROVE  Recording(ToolCall(tool))
  <2>1. Follows(graph, ToolCall(tool))
    BY <1>1, NextEvents
  <2> QED BY <1>2, <1>3, <2>1 DEF Enter
<1>4. ASSUME NEW thread \in Threads, NEW content \in Content, Inside(thread),
             RecordBelow(thread, content)
      PROVE  Recording(Event(NextId, content, <<EventOfCall(thread)>>))
  <2>1. EventOfCall(thread) \in DOMAIN graph
    BY <1>4, InsideStart DEF Inside, RecordInv, EventOfCall
  <2>2. Follows(graph, Event(NextId, content, <<EventOfCall(thread)>>))
    BY <1>1, <2>1, NextEvents
  <2> QED BY <1>2, <1>4, <2>2 DEF RecordBelow
<1>5. ASSUME NEW i \in DOMAIN calls, OnToolEnd(i)
      PROVE  /\ lastTool # None
             /\ Recording(Event(NextId, [kind |-> "tool_result", call |-> i],
                                <<lastTool>>))
  <2>1. calls[i].outcome # "starting" /\ i \in Nat
    BY <1>5 DEF OnToolEnd, ThreadedTypeOK
  <2>2. lastTool \in DOMAIN graph /\ lastTool # None
    BY <2>1 DEF RecordInv
  <2> QED BY <1>1, <1>5, <2>1, <2>2, EndRecords DEF Recording
<1>6. OnAgentFinish => Recording(Event(NextId, [kind |-> "action"], <<Intent>>))
  BY <1>1, FinishRecords DEF Recording
<1> QED BY <1>3, <1>4, <1>5, <1>6

\* A recorded event changes none of the others.
LEMMA RecordsLast ==
    ASSUME Rooted(graph), NEW event, Recording(event)
    PROVE  /\ Rooted(graph') /\ DOMAIN graph \subseteq DOMAIN graph'
           /\ \A i \in DOMAIN graph : graph'[i] = graph[i]
           /\ NextId \in DOMAIN graph' /\ NextId \notin DOMAIN graph
           /\ \A i \in DOMAIN graph' : i \in DOMAIN graph \/ i = NextId
           /\ graph'[NextId] = event
<1>1. Rooted(graph')
  BY RootedGrows DEF Recording
<1> DEFINE n == Len(graph)
<1>2. /\ n \in Nat /\ DOMAIN graph = 1..n /\ DOMAIN graph' = 1..(n + 1)
      /\ \A i \in 1..(n + 1) : i \in 1..n \/ i = n + 1
      /\ n + 1 \notin 1..n
      /\ \A i \in 1..n : graph'[i] = graph[i] /\ i \in 1..(n + 1)
      /\ graph'[n + 1] = event
  BY OneMore DEF Recording
<1>3. n + 1 \in 1..(n + 1)
  BY <1>2
<1> QED BY <1>1, <1>2, <1>3 DEF NextId

\* No new call: the calls keep their events, which keep their content.
LEMMA RecordStays ==
    ASSUME RecordInv, graph' = graph \/ \E event : Recording(event),
           DOMAIN calls' = DOMAIN calls,
           \A i \in DOMAIN calls : /\ calls'[i].event = calls[i].event
                                   /\ calls'[i].tool = calls[i].tool,
           lastTool' \in DOMAIN graph
             \/ /\ lastTool' = lastTool
                /\ lastTool = None =>
                     /\ \A i \in DOMAIN calls : calls'[i].outcome = "starting"
                     /\ \A t \in Threads : frames'[t].step \in {"idle", "publish"}
    PROVE  RecordInv'
<1>1. /\ Rooted(graph') /\ DOMAIN graph \subseteq DOMAIN graph'
      /\ \A i \in DOMAIN graph : graph'[i] = graph[i]
  BY RecordsLast DEF RecordInv
<1>2. \A i \in DOMAIN calls' :
         /\ calls'[i].event \in DOMAIN graph'
         /\ graph'[calls'[i].event].content
              = [kind |-> "tool_call", tool |-> calls'[i].tool]
  BY <1>1 DEF RecordInv
<1>3. \A i, j \in DOMAIN calls' : calls'[i].event = calls'[j].event => i = j
  BY DEF RecordInv
<1>4. None \notin DOMAIN graph
  BY NoneAssumption DEF RecordInv, Rooted
<1>5. lastTool' \in DOMAIN graph' \cup {None}
  BY <1>1 DEF RecordInv
<1>6. lastTool' = None =>
         /\ \A i \in DOMAIN calls' : calls'[i].outcome = "starting"
         /\ \A t \in Threads : frames'[t].step \in {"idle", "publish"}
  BY <1>4
<1> QED BY <1>1, <1>2, <1>3, <1>5, <1>6 DEF RecordInv

LEMMA RecordInvHolds == ThreadedSpec => []RecordInv
<1>1. ThreadedInit => RecordInv
  <2> SUFFICES ASSUME ThreadedInit PROVE RecordInv
    OBVIOUS
  <2>1. Rooted(graph)
    BY CallbackInvInit DEF ThreadedInit, CallbackInv
  <2>2. calls = <<>> /\ lastTool = None /\ \A t \in Threads : frames[t].step = "idle"
    BY DEF ThreadedInit, Init, Idle
  <2>3. DOMAIN calls = {}
    BY <2>2
  <2> QED BY <2>1, <2>2, <2>3 DEF RecordInv
<1>2. ThreadedTypeOK /\ RecordInv /\ [ThreadedNext]_<<vars, threadVars>> => RecordInv'
  <2> SUFFICES ASSUME ThreadedTypeOK, RecordInv, [ThreadedNext]_<<vars, threadVars>>
               PROVE  RecordInv'
    OBVIOUS
  <2>1. \A t \in Threads : Inside(t) =>
          frames[t].call \in DOMAIN calls /\ EventOfCall(t) \in DOMAIN graph
    BY InsideStart DEF Inside, EventOfCall, RecordInv
  <2>2. ASSUME NEW thread \in Threads, NEW tool \in Tools, Enter(thread, tool)
        PROVE  RecordInv'
    <3> DEFINE n == Len(calls)
    <3>1. /\ n \in Nat /\ DOMAIN calls = 1..n /\ n + 1 \notin 1..n
          /\ DOMAIN calls' = 1..(n + 1)
          /\ \A j \in 1..n : calls'[j] = calls[j]
          /\ \A j \in 1..(n + 1) : j \in 1..n \/ j = n + 1
          /\ calls'[n + 1].outcome = "starting"
          /\ calls'[n + 1].event = NextId /\ calls'[n + 1].tool = tool
      BY <2>2, Entering
    <3>2. /\ \A t \in Threads : t # thread => frames'[t] = frames[t]
          /\ frames'[thread].step = "publish"
      BY <2>2, EnteringFrames
    <3>3. /\ Rooted(graph') /\ DOMAIN graph \subseteq DOMAIN graph'
          /\ \A i \in DOMAIN graph : graph'[i] = graph[i]
          /\ NextId \in DOMAIN graph' /\ NextId \notin DOMAIN graph
          /\ graph'[NextId] = ToolCall(tool)
      <4>1. Recording(ToolCall(tool))
        BY <2>2, ThreadsRecord
      <4> QED BY <4>1, RecordsLast DEF RecordInv
    <3>4. ToolCall(tool).content = [kind |-> "tool_call", tool |-> tool]
      BY DEF ToolCall, Event
    <3>5. lastTool' = lastTool
      BY <2>2 DEF Enter
    <3> HIDE DEF n
    <3>6. \A i \in DOMAIN calls' :
            /\ calls'[i].event \in DOMAIN graph'
            /\ graph'[calls'[i].event].content
                 = [kind |-> "tool_call", tool |-> calls'[i].tool]
      BY <3>1, <3>3, <3>4 DEF RecordInv
    <3>7. \A i, j \in DOMAIN calls' : calls'[i].event = calls'[j].event => i = j
      <4>1. \A i \in 1..n : calls'[i].event = calls[i].event /\ calls[i].event # NextId
        BY <3>1, <3>3 DEF RecordInv
      <4>2. \A i, j \in 1..n : calls[i].event = calls[j].event => i = j
        BY <3>1 DEF RecordInv
      <4> QED BY <3>1, <4>1, <4>2
    <3>8. lastTool' \in DOMAIN graph' \cup {None}
      BY <3>3, <3>5 DEF RecordInv
    <3>9. lastTool' = None =>
            /\ \A i \in DOMAIN calls' : calls'[i].outcome = "starting"
            /\ \A t \in Threads : frames'[t].step \in {"idle", "publish"}
      BY <3>1, <3>2, <3>5 DEF RecordInv
    <3> QED BY <3>3, <3>6, <3>7, <3>8, <3>9 DEF RecordInv
  <2>3. ASSUME NEW thread \in Threads, PublishCall(thread) PROVE RecordInv'
    <3>1. Advances(thread, "check") /\ lastTool' = EventOfCall(thread)
      BY <2>3, Advancing DEF PublishCall
    <3> QED BY <2>1, <3>1, RecordStays DEF Advances
  <2>4. ASSUME NEW thread \in Threads, frames[thread].step # "publish",
               NEW to, Advances(thread, to), lastTool' = lastTool
        PROVE  RecordInv'
    <3>1. lastTool # None
      BY <2>4 DEF RecordInv, Advances, Inside
    <3> QED BY <2>4, <3>1, RecordStays DEF Advances
  <2>5. ASSUME NEW thread \in Threads, frames[thread].step # "publish",
               NEW outcome, Leaves(thread, outcome), lastTool' = lastTool,
               graph' = graph \/ \E event : Recording(event)
        PROVE  RecordInv'
    <3>1. lastTool # None
      BY <2>5 DEF RecordInv, Leaves, Inside
    <3>2. /\ DOMAIN calls' = DOMAIN calls
          /\ \A j \in DOMAIN calls :
               calls'[j].event = calls[j].event /\ calls'[j].tool = calls[j].tool
      BY <2>5, Leaving DEF Leaves, Inside
    <3> QED BY <2>5, <3>1, <3>2, RecordStays
  <2>6. ASSUME NEW i \in DOMAIN calls, OnToolEnd(i), UNCHANGED threadVars
        PROVE  RecordInv'
    <3>1. lastTool # None /\ \E event : Recording(event)
      BY <2>6, ThreadsRecord
    <3>2. /\ DOMAIN calls' = DOMAIN calls
          /\ \A j \in DOMAIN calls :
               calls'[j].event = calls[j].event /\ calls'[j].tool = calls[j].tool
      BY <2>6, Ending
    <3>3. lastTool' = lastTool
      BY <2>6 DEF OnToolEnd
    <3> QED BY <3>1, <3>2, <3>3, RecordStays
  <2>7. ASSUME UNCHANGED <<frames, calls, lastTool>>,
               graph' = graph \/ \E event : Recording(event)
        PROVE  RecordInv'
    BY <2>7, RecordStays DEF RecordInv
  <2>8. ASSUME NEW thread \in Threads,
               \/ PassBudget(thread) \/ LoadConsumed(thread) \/ StoreConsumed(thread)
               \/ LogAction(thread) \/ PassBoundary(thread)
        PROVE  RecordInv'
    BY <2>4, <2>8, Advancing
  <2>9. ASSUME NEW thread \in Threads, StopExhausted(thread) PROVE RecordInv'
    <3>1. Leaves(thread, "exhausted") /\ frames[thread].step = "check"
      BY <2>9, Stopping
    <3>2. \E event : Recording(event)
      BY <2>9, <3>1, Contents, ThreadsRecord DEF StopExhausted, Leaves
    <3> QED BY <2>5, <2>9, <3>1, <3>2 DEF StopExhausted
  <2>10. ASSUME NEW thread \in Threads, StopCrossing(thread) PROVE RecordInv'
    <3>1. Leaves(thread, "crossing") /\ frames[thread].step = "compare"
      BY <2>10, Stopping
    <3>2. \E event : Recording(event)
      BY <2>10, <3>1, Contents, ThreadsRecord DEF StopCrossing, Leaves
    <3> QED BY <2>5, <2>10, <3>1, <3>2 DEF StopCrossing
  <2>11. ASSUME NEW thread \in Threads, Settle(thread) PROVE RecordInv'
    <3>1. PICK outcome : Leaves(thread, outcome) /\ frames[thread].step = "settle"
      BY <2>11, Stopping
    <3>2. graph' = graph \/ \E event : Recording(event)
      BY <2>11, <3>1, Contents, ThreadsRecord DEF Settle, Leaves
    <3> QED BY <2>5, <2>11, <3>1, <3>2 DEF Settle
  <2>12. CASE Reset
    BY <2>7, <2>12 DEF Reset, ResetBudget
  <2>13. ASSUME OnAgentFinish, UNCHANGED threadVars PROVE RecordInv'
    <3>1. \E event : Recording(event)
      BY <2>13, ThreadsRecord
    <3> QED BY <2>7, <2>13, <3>1 DEF OnAgentFinish, threadVars
  <2> QED BY <2>2, <2>3, <2>6, <2>7, <2>8, <2>9, <2>10, <2>11, <2>12, <2>13,
             StepKinds DEF threadVars
<1> QED BY <1>1, <1>2, ThreadsAreTyped, PTL DEF ThreadedSpec

StopKinds == {"checkpoint", "semantic_delta"}

StopOutcomes == {"exhausted", "crossing"}

\* The events of a graph that tell why the call of that event was stopped.
StopsIn(g, e) ==
    {id \in DOMAIN g : g[id].parents = <<e>> /\ g[id].content.kind \in StopKinds}

StopsInv ==
    \A i \in DOMAIN calls :
      IF calls[i].outcome \in StopOutcomes
      THEN \E id : StopsIn(graph, calls[i].event) = {id}
      ELSE StopsIn(graph, calls[i].event) = {}

\* A recorded event counts for its parent only; nothing points to an event
\* that is not there yet.
LEMMA StopsCounted ==
    ASSUME Rooted(graph), NEW event, Recording(event)
    PROVE  /\ \A e : StopsIn(graph', e)
                       = StopsIn(graph, e)
                           \cup (IF event.parents = <<e>> /\ event.content.kind \in StopKinds
                                 THEN {NextId} ELSE {})
           /\ StopsIn(graph', NextId) = {}
<1>1. /\ DOMAIN graph \subseteq DOMAIN graph'
      /\ \A i \in DOMAIN graph : graph'[i] = graph[i]
      /\ NextId \in DOMAIN graph' /\ NextId \notin DOMAIN graph
      /\ \A i \in DOMAIN graph' : i \in DOMAIN graph \/ i = NextId
      /\ graph'[NextId] = event
  BY RecordsLast
<1>2. ASSUME NEW e
      PROVE  StopsIn(graph', e)
               = StopsIn(graph, e)
                   \cup (IF event.parents = <<e>> /\ event.content.kind \in StopKinds
                         THEN {NextId} ELSE {})
  BY <1>1 DEF StopsIn
<1>3. StopsIn(graph', NextId) = {}
  <2>1. /\ DOMAIN graph' = 1..(Len(graph) + 1)
        /\ \A i \in 1..(Len(graph) + 1) : graph'[i].parents # <<Len(graph) + 1>>
    BY OneMore DEF Recording
  <2> QED BY <2>1 DEF StopsIn, NextId
<1> QED BY <1>2, <1>3

\* Steps that stop no call keep the count.
LEMMA StopsStay ==
    ASSUME RecordInv, StopsInv, DOMAIN calls' = DOMAIN calls,
           \A i \in DOMAIN calls :
             /\ calls'[i].event = calls[i].event
             /\ calls'[i].outcome \in StopOutcomes <=> calls[i].outcome \in StopOutcomes,
           \/ graph' = graph
           \/ \E event : Recording(event) /\ event.content.kind \notin StopKinds
    PROVE  StopsInv'
<1>1. \A e : StopsIn(graph', e) = StopsIn(graph, e)
  <2>1. CASE graph' = graph
    BY <2>1 DEF StopsIn
  <2>2. ASSUME NEW event, Recording(event), event.content.kind \notin StopKinds
        PROVE  \A e : StopsIn(graph', e) = StopsIn(graph, e)
    <3>1. \A e : StopsIn(graph', e)
                   = StopsIn(graph, e)
                       \cup (IF event.parents = <<e>> /\ event.content.kind \in StopKinds
                             THEN {NextId} ELSE {})
      BY <2>2, StopsCounted DEF RecordInv
    <3> QED BY <2>2, <3>1
  <2> QED BY <2>1, <2>2
<1>2. \A i \in DOMAIN calls : StopsIn(graph', calls'[i].event) = StopsIn(graph, calls[i].event)
  BY <1>1
<1> QED BY <1>2 DEF StopsInv

\* A thread that stops its call leaves the one event that tells so.
LEMMA StopIsTold ==
    ASSUME ThreadedTypeOK, RecordInv, ThreadInv, StopsInv,
           NEW thread \in Threads, NEW outcome \in StopOutcomes, Leaves(thread, outcome),
           NEW content \in Content, content.kind \in StopKinds,
           RecordBelow(thread, content)
    PROVE  StopsInv'
<1> DEFINE call == frames[thread].call
           event == Event(NextId, content, <<EventOfCall(thread)>>)
<1>1. /\ DOMAIN calls' = DOMAIN calls
      /\ \A j \in DOMAIN calls :
           /\ calls'[j].event = calls[j].event
           /\ calls'[j].outcome = IF j = call THEN outcome ELSE calls[j].outcome
  BY Leaving DEF Leaves, Inside
<1>2. call \in DOMAIN calls /\ calls[call].outcome = "starting"
  BY InsideStart DEF Leaves, Inside, ThreadInv
<1>3. Recording(event)
  BY ThreadsRecord DEF Leaves
<1>4. event.parents = <<calls[call].event>> /\ event.content.kind \in StopKinds
  BY DEF Event, EventOfCall
<1> HIDE DEF event, call
<1>5. \A e : StopsIn(graph', e)
               = StopsIn(graph, e)
                   \cup (IF event.parents = <<e>> /\ event.content.kind \in StopKinds
                         THEN {NextId} ELSE {})
  BY <1>3, StopsCounted DEF RecordInv
<1>6. StopsIn(graph', calls[call].event) = {NextId}
  <2>1. StopsIn(graph, calls[call].event) = {}
    BY <1>2 DEF StopsInv, StopOutcomes
  <2> QED BY <1>4, <1>5, <2>1
<1>7. ASSUME NEW j \in DOMAIN calls, j # call
      PROVE  StopsIn(graph', calls[j].event) = StopsIn(graph, calls[j].event)
  <2>1. calls[j].event # calls[call].event
    BY <1>2, <1>7 DEF RecordInv
  <2>2. <<calls[call].event>> # <<calls[j].event>>
    <3>1. \A a, b : <<a>> = <<b>> => a = b
      OBVIOUS
    <3> QED BY <2>1, <3>1
  <2> QED BY <1>4, <1>5, <2>2
<1>8. ASSUME NEW j \in DOMAIN calls
      PROVE  IF calls'[j].outcome \in StopOutcomes
             THEN \E id : StopsIn(graph', calls'[j].event) = {id}
             ELSE StopsIn(graph', calls'[j].event) = {}
  <2>1. CASE j = call
    BY <1>1, <1>6, <2>1
  <2>2. CASE j # call
    BY <1>1, <1>7, <2>2 DEF StopsInv
  <2> QED BY <2>1, <2>2
<1> QED BY <1>1, <1>8 DEF StopsInv

LEMMA StopsInvHolds == ThreadedSpec => []StopsInv
<1>1. ThreadedInit => StopsInv
  BY DEF ThreadedInit, Init, StopsInv
<1>2. ThreadedTypeOK /\ RecordInv /\ ThreadInv /\ StopsInv
      /\ [ThreadedNext]_<<vars, threadVars>> => StopsInv'
  <2> SUFFICES ASSUME ThreadedTypeOK, RecordInv, ThreadInv, StopsInv,
                      [ThreadedNext]_<<vars, threadVars>>
               PROVE  StopsInv'
    OBVIOUS
  <2>1. \A t \in Threads : Inside(t) =>
          frames[t].call \in DOMAIN calls /\ calls[frames[t].call].outcome = "starting"
    BY InsideStart DEF Inside, ThreadInv
  <2>2. ASSUME NEW thread \in Threads, NEW tool \in Tools, Enter(thread, tool)
        PROVE  StopsInv'
    <3> DEFINE n == Len(calls)
    <3>1. /\ DOMAIN calls = 1..n /\ DOMAIN calls' = 1..(n + 1)
          /\ \A j \in 1..n : calls'[j] = calls[j]
          /\ \A j \in 1..(n + 1) : j \in 1..n \/ j = n + 1
          /\ calls'[n + 1].outcome = "starting" /\ calls'[n + 1].event = NextId
      BY <2>2, Entering
    <3>2. Recording(ToolCall(tool)) /\ ToolCall(tool).content.kind \notin StopKinds
      BY <2>2, ThreadsRecord DEF ToolCall, Event, StopKinds
    <3> HIDE DEF n
    <3>3. /\ \A e : StopsIn(graph', e) = StopsIn(graph, e)
          /\ StopsIn(graph', NextId) = {}
      <4> DEFINE event == ToolCall(tool)
      <4>1. Rooted(graph) /\ Recording(event) /\ event.content.kind \notin StopKinds
        BY <3>2 DEF RecordInv
      <4> HIDE DEF event
      <4> QED BY <4>1, StopsCounted
    <3>4. "starting" \notin StopOutcomes
      BY DEF StopOutcomes
    <3> QED BY <3>1, <3>3, <3>4 DEF StopsInv
  <2>3. ASSUME NEW thread \in Threads, NEW to, Advances(thread, to)
        PROVE  StopsInv'
    BY <2>3, StopsStay DEF Advances
  <2>4. ASSUME NEW thread \in Threads, StopExhausted(thread) PROVE StopsInv'
    <3> DEFINE content == [kind |-> "checkpoint"]
    <3>1. content \in Content /\ content.kind \in StopKinds
      BY Contents DEF StopKinds
    <3>2. RecordBelow(thread, content)
      BY <2>4 DEF StopExhausted
    <3> HIDE DEF content
    <3>3. Leaves(thread, "exhausted") /\ "exhausted" \in StopOutcomes
      BY <2>4, Stopping DEF StopOutcomes
    <3> QED BY <3>1, <3>2, <3>3, StopIsTold
  <2>5. ASSUME NEW thread \in Threads, StopCrossing(thread) PROVE StopsInv'
    <3> DEFINE content ==
                 [kind |-> "semantic_delta",
                  boundary |-> BoundaryType(Delta(baseline, Semantic(ToolOf(thread))))]
    <3>1. content \in Content /\ content.kind \in StopKinds
      BY Contents DEF StopKinds
    <3>2. RecordBelow(thread, content)
      BY <2>5 DEF StopCrossing
    <3> HIDE DEF content
    <3>3. Leaves(thread, "crossing") /\ "crossing" \in StopOutcomes
      BY <2>5, Stopping DEF StopOutcomes
    <3> QED BY <3>1, <3>2, <3>3, StopIsTold
  <2>6. ASSUME NEW thread \in Threads, Settle(thread) PROVE StopsInv'
    <3>1. PICK outcome \in {"running", "refused"} : Leaves(thread, outcome)
      BY <2>6, Stopping
    <3>2. graph' = graph
      BY <2>6 DEF Settle, ThreadInv
    <3>3. /\ DOMAIN calls' = DOMAIN calls
          /\ \A j \in DOMAIN calls :
               /\ calls'[j].event = calls[j].event
               /\ calls'[j].outcome = IF j = frames[thread].call THEN outcome
                                      ELSE calls[j].outcome
      BY <3>1, Leaving DEF Leaves, Inside
    <3>4. calls[frames[thread].call].outcome = "starting"
      BY <2>1, <3>1 DEF Leaves
    <3>5. \A i \in DOMAIN calls :
            calls'[i].outcome \in StopOutcomes <=> calls[i].outcome \in StopOutcomes
      BY <3>3, <3>4 DEF StopOutcomes
    <3> QED BY <3>2, <3>3, <3>5, StopsStay
  <2>7. ASSUME NEW i \in DOMAIN calls, OnToolEnd(i) PROVE StopsInv'
    <3>1. /\ DOMAIN calls' = DOMAIN calls
          /\ \A j \in DOMAIN calls :
               /\ calls'[j].event = calls[j].event
               /\ calls'[j].outcome = IF j = i THEN "done" ELSE calls[j].outcome
          /\ calls[i].outcome = "running"
      BY <2>7, Ending
    <3>2. \A j \in DOMAIN calls :
            calls'[j].outcome \in StopOutcomes <=> calls[j].outcome \in StopOutcomes
      BY <3>1 DEF StopOutcomes
    <3> DEFINE event == Event(NextId, [kind |-> "tool_result", call |-> i], <<lastTool>>)
    <3>3. Recording(event)
      BY <2>7, ThreadsRecord
    <3>4. event.content.kind \notin StopKinds
      BY DEF Event, StopKinds
    <3> HIDE DEF event
    <3> QED BY <3>1, <3>2, <3>3, <3>4, StopsStay
  <2>8. ASSUME OnAgentFinish PROVE StopsInv'
    <3> DEFINE event == Event(NextId, [kind |-> "action"], <<Intent>>)
    <3>1. Recording(event)
      BY <2>8, ThreadsRecord
    <3>2. event.content.kind \notin StopKinds
      BY DEF Event, StopKinds
    <3> HIDE DEF event
    <3> QED BY <2>8, <3>1, <3>2, StopsStay DEF OnAgentFinish
  <2>9. ASSUME UNCHANGED <<calls, graph>> PROVE StopsInv'
    BY <2>9, StopsStay
  <2>10. ASSUME NEW thread \in Threads,
                \/ PublishCall(thread) \/ PassBudget(thread) \/ LoadConsumed(thread)
                \/ StoreConsumed(thread) \/ LogAction(thread) \/ PassBoundary(thread)
         PROVE  StopsInv'
    BY <2>3, <2>10, Advancing
  <2>11. CASE Reset
    BY <2>9, <2>11 DEF Reset, ResetBudget
  <2> QED BY <2>2, <2>4, <2>5, <2>6, <2>7, <2>8, <2>9, <2>10, <2>11, StepKinds
<1> QED BY <1>1, <1>2, ThreadsAreTyped, ThreadInvHolds, RecordInvHolds, PTL
        DEF ThreadedSpec

\* For any threads, however they interleave: each stop is told once, below its
\* own call.
THEOREM StopsAreToldOnce == ThreadedSpec => []GraphTellsStops
<1>1. StopsInv => GraphTellsStops
  <2> SUFFICES ASSUME StopsInv, NEW i \in DOMAIN calls
               PROVE  Cardinality(StopsIn(graph, calls[i].event)) =
                        IF calls[i].outcome \in StopOutcomes THEN 1 ELSE 0
    BY DEF GraphTellsStops, StopsIn, StopKinds, StopOutcomes
  <2> QED BY FS_EmptySet, FS_Singleton DEF StopsInv
<1> QED BY <1>1, StopsInvHolds, PTL

-----------------------------------------------------------------------------
(* One thread at a time *)

\* The thread inside on_tool_start, if there is one, makes the latest call.
AloneInv ==
    ~ overlapped =>
      /\ \A t, u \in Threads : Inside(t) /\ Inside(u) => t = u
      /\ \A t \in Threads : Inside(t) => frames[t].call = Len(calls)

\* Entering, and resetting the budget, while nobody is inside.
LEMMA EntersAlone ==
    ASSUME ~ overlapped'
    PROVE  /\ \A thread \in Threads, tool \in Tools : Enter(thread, tool) =>
                ~ overlapped /\ \A t \in Threads : ~ Inside(t)
           /\ Reset => ~ overlapped /\ \A t \in Threads : ~ Inside(t)
<1>1. Busy = {} => \A t \in Threads : ~ Inside(t)
  BY DEF Busy, Inside, Idle
<1> QED BY <1>1 DEF Enter, Reset

LEMMA AloneInvHolds == ThreadedSpec => []AloneInv
<1>1. ThreadedInit => AloneInv
  BY DEF ThreadedInit, AloneInv, Inside, Idle
<1>2. ThreadedTypeOK /\ AloneInv /\ [ThreadedNext]_<<vars, threadVars>> => AloneInv'
  <2> SUFFICES ASSUME ThreadedTypeOK, AloneInv, [ThreadedNext]_<<vars, threadVars>>
               PROVE  AloneInv'
    OBVIOUS
  <2>1. ASSUME NEW thread \in Threads, NEW tool \in Tools, Enter(thread, tool),
               ~ overlapped'
        PROVE  AloneInv'
    <3>1. \A t \in Threads : ~ Inside(t)
      BY <2>1, EntersAlone
    <3>2. /\ \A t \in Threads : t # thread => frames'[t] = frames[t]
          /\ frames'[thread].call = Len(calls) + 1
      BY <2>1, EnteringFrames
    <3>3. Len(calls') = Len(calls) + 1
      BY <2>1, Entering
    <3> QED BY <3>1, <3>2, <3>3 DEF AloneInv, Inside
  <2>2. ASSUME NEW thread \in Threads, NEW to, Advances(thread, to) PROVE AloneInv'
    BY <2>2 DEF AloneInv, Advances, Inside
  <2>3. ASSUME NEW thread \in Threads, NEW outcome, Leaves(thread, outcome)
        PROVE  AloneInv'
    <3>1. /\ Len(calls') = Len(calls) /\ overlapped' = overlapped
          /\ \A t \in Threads : frames'[t] = IF t = thread THEN Idle ELSE frames[t]
      BY <2>3, Leaving DEF Leaves, Inside
    <3>2. Idle.step = "idle"
      BY DEF Idle
    <3>3. \A t \in Threads : Inside(t)' => Inside(t) /\ frames'[t].call = frames[t].call
      BY <3>1, <3>2 DEF Inside
    <3> QED BY <3>1, <3>3 DEF AloneInv
  <2>4. ASSUME NEW i \in DOMAIN calls, OnToolEnd(i), UNCHANGED threadVars
        PROVE  AloneInv'
    <3>1. Len(calls') = Len(calls)
      BY <2>4, Ending
    <3> QED BY <2>4, <3>1 DEF AloneInv, Inside, threadVars
  <2>5. ASSUME UNCHANGED <<frames, calls>>, overlapped' = overlapped \/ overlapped'
        PROVE  AloneInv'
    BY <2>5 DEF AloneInv, Inside
  <2>6. ASSUME NEW thread \in Threads,
               \/ PublishCall(thread) \/ PassBudget(thread) \/ LoadConsumed(thread)
               \/ StoreConsumed(thread) \/ LogAction(thread) \/ PassBoundary(thread)
        PROVE  AloneInv'
    BY <2>2, <2>6, Advancing
  <2>7. ASSUME NEW thread \in Threads,
               StopExhausted(thread) \/ StopCrossing(thread) \/ Settle(thread)
        PROVE  AloneInv'
    BY <2>3, <2>7, Stopping
  <2>8. CASE Reset
    <3>1. overlapped' = overlapped \/ overlapped'
      BY <2>8 DEF Reset, ThreadedTypeOK
    <3> QED BY <2>5, <2>8, <3>1 DEF Reset, ResetBudget
  <2>9. ASSUME OnAgentFinish, UNCHANGED threadVars PROVE AloneInv'
    BY <2>5, <2>9 DEF OnAgentFinish, threadVars
  <2>10. CASE overlapped'
    BY <2>10 DEF AloneInv
  <2> QED BY <2>1, <2>4, <2>5, <2>6, <2>7, <2>8, <2>9, <2>10, StepKinds DEF threadVars
<1> QED BY <1>1, <1>2, ThreadsAreTyped, PTL DEF ThreadedSpec

\* Results are linked as for a single thread, because the slot
\* _last_tool_event_id is the latest call's once that call is published.
SlotInv ==
    ~ overlapped =>
      /\ Linked(graph, calls)
      /\ Len(calls) # 0 /\ (\A t \in Threads : frames[t].step # "publish") =>
           lastTool = calls[Len(calls)].event

\* Steps that start no call and record no result.
LEMMA SlotStays ==
    ASSUME RecordInv, SlotInv, ~ overlapped' => ~ overlapped,
           \/ graph' = graph
           \/ \E event : Recording(event) /\ event.content.kind # "tool_result",
           ThreadedTypeOK, Len(calls') = Len(calls), DOMAIN calls' = DOMAIN calls,
           \A i \in DOMAIN calls : calls'[i].event = calls[i].event,
           \/ lastTool' = calls[Len(calls)].event
           \/ /\ lastTool' = lastTool
              /\ \A t \in Threads : frames[t].step = "publish" => frames'[t].step = "publish"
    PROVE  SlotInv'
<1> SUFFICES ASSUME ~ overlapped' PROVE SlotInv'
  BY DEF SlotInv
<1>1. /\ DOMAIN graph \subseteq DOMAIN graph'
      /\ \A i \in DOMAIN graph : graph'[i] = graph[i]
      /\ \A i \in DOMAIN graph' \ DOMAIN graph : graph'[i].content.kind # "tool_result"
  BY RecordsLast DEF RecordInv
<1>2. Linked(graph', calls')
  BY <1>1, LinksLast DEF SlotInv
<1>3. Len(calls) # 0 => Len(calls) \in DOMAIN calls
  BY DEF ThreadedTypeOK
<1> QED BY <1>2, <1>3 DEF SlotInv

LEMMA SlotInvHolds == ThreadedSpec => []SlotInv
<1>1. ThreadedInit => SlotInv
  <2> SUFFICES ASSUME ThreadedInit PROVE SlotInv
    OBVIOUS
  <2>1. Linked(graph, calls) /\ Len(calls) = 0
    BY CallbackInvInit DEF ThreadedInit, Init, CallbackInv
  <2> QED BY <2>1 DEF SlotInv
<1>2. ThreadedTypeOK /\ RecordInv /\ ThreadInv /\ AloneInv /\ SlotInv
      /\ [ThreadedNext]_<<vars, threadVars>> => SlotInv'
  <2> SUFFICES ASSUME ThreadedTypeOK, RecordInv, ThreadInv, AloneInv, SlotInv,
                      [ThreadedNext]_<<vars, threadVars>>
               PROVE  SlotInv'
    OBVIOUS
  <2>1. ASSUME NEW thread \in Threads, NEW tool \in Tools, Enter(thread, tool),
               ~ overlapped'
        PROVE  SlotInv'
    <3> DEFINE n == Len(calls)
               event == ToolCall(tool)
    <3>1. /\ DOMAIN calls = 1..n /\ DOMAIN calls' = 1..(n + 1)
          /\ \A j \in 1..n : calls'[j] = calls[j] /\ j \in 1..(n + 1)
          /\ \A j \in 1..(n + 1) : j \in 1..n \/ j = n + 1
          /\ calls'[n + 1].event = NextId
      BY <2>1, Entering
    <3>2. frames'[thread].step = "publish"
      BY <2>1, EnteringFrames
    <3>3. Recording(event) /\ event.content.kind # "tool_result"
      BY <2>1, ThreadsRecord DEF ToolCall, Event
    <3> HIDE DEF n, event
    <3>4. /\ DOMAIN graph \subseteq DOMAIN graph'
          /\ \A i \in DOMAIN graph : graph'[i] = graph[i]
          /\ \A i \in DOMAIN graph' \ DOMAIN graph : graph'[i].content.kind # "tool_result"
          /\ NextId \in DOMAIN graph'
      BY <3>3, RecordsLast DEF RecordInv
    <3>5. Linked(graph, calls)
      BY <2>1, EntersAlone DEF SlotInv
    <3>6. /\ DOMAIN calls \subseteq DOMAIN calls'
          /\ \A i \in DOMAIN calls : calls'[i].event = calls[i].event
          /\ \A i \in DOMAIN calls' \ DOMAIN calls : calls'[i].event \in DOMAIN graph'
      BY <3>1, <3>4
    <3>7. Linked(graph', calls')
      BY <3>4, <3>5, <3>6, LinksLast
    <3> QED BY <3>2, <3>7 DEF SlotInv
  <2>2. ASSUME NEW thread \in Threads, PublishCall(thread) PROVE SlotInv'
    <3>1. Advances(thread, "check") /\ lastTool' = calls[frames[thread].call].event
      BY <2>2, Advancing DEF PublishCall, EventOfCall
    <3>2. ~ overlapped' => lastTool' = calls[Len(calls)].event
      BY <3>1 DEF AloneInv, Advances
    <3>3. overlapped' => SlotInv'
      BY DEF SlotInv
    <3> QED BY <3>1, <3>2, <3>3, SlotStays DEF Advances
  <2>3. ASSUME NEW thread \in Threads, frames[thread].step # "publish",
               NEW to, Advances(thread, to), lastTool' = lastTool
        PROVE  SlotInv'
    BY <2>3, SlotStays DEF Advances
  <2>4. ASSUME NEW thread \in Threads, frames[thread].step # "publish",
               NEW outcome, Leaves(thread, outcome), lastTool' = lastTool,
               \/ graph' = graph
               \/ \E event : Recording(event) /\ event.content.kind # "tool_result"
        PROVE  SlotInv'
    <3>1. /\ DOMAIN calls' = DOMAIN calls /\ Len(calls') = Len(calls)
          /\ \A j \in DOMAIN calls : calls'[j].event = calls[j].event
          /\ \A t \in Threads : frames'[t] = IF t = thread THEN Idle ELSE frames[t]
          /\ overlapped' = overlapped
      BY <2>4, Leaving DEF Leaves, Inside
    <3> QED BY <2>4, <3>1, SlotStays
  <2>5. ASSUME NEW i \in DOMAIN calls, OnToolEnd(i), UNCHANGED threadVars,
               ~ overlapped
        PROVE  SlotInv'
    <3> DEFINE event == Event(NextId, [kind |-> "tool_result", call |-> i], <<lastTool>>)
    <3>1. Recording(event)
      BY <2>5, ThreadsRecord
    <3>2. /\ event.content = [kind |-> "tool_result", call |-> i]
          /\ event.parents = <<lastTool>>
      BY DEF Event
    <3>3. /\ DOMAIN calls' = DOMAIN calls /\ Len(calls') = Len(calls)
          /\ \A j \in DOMAIN calls : calls'[j].event = calls[j].event
          /\ calls[i].outcome = "running"
      BY <2>5, Ending
    <3>4. lastTool' = lastTool /\ frames' = frames
      BY <2>5 DEF OnToolEnd, threadVars
    <3>5. ASSUME i = Len(calls) PROVE event.parents = <<calls[i].event>>
      <4>1. \A t \in Threads : ~ Inside(t)
        BY <2>5, <3>3, <3>5 DEF AloneInv, ThreadInv
      <4>2. Len(calls) # 0
        BY <3>5 DEF ThreadedTypeOK
      <4>3. lastTool = calls[Len(calls)].event
        BY <2>5, <4>1, <4>2 DEF SlotInv, Inside
      <4> QED BY <3>2, <3>5, <4>3
    <3>6. Sequence(calls)
      BY DEF Sequence, ThreadedTypeOK
    <3>7. Rooted(graph) /\ Linked(graph, calls)
      BY <2>5 DEF RecordInv, SlotInv
    <3> HIDE DEF event
    <3>8. Linked(graph', calls)
      BY <3>1, <3>2, <3>5, <3>6, <3>7, LinkedOnArrival DEF Recording
    <3>9. Linked(graph', calls')
      BY <3>3, <3>8, LinksLast
    <3>10. Len(calls) # 0 => Len(calls) \in DOMAIN calls
      BY DEF ThreadedTypeOK
    <3> QED BY <2>5, <3>3, <3>4, <3>9, <3>10 DEF SlotInv
  <2>6. ASSUME UNCHANGED <<frames, calls, lastTool>>, ~ overlapped' => ~ overlapped,
               \/ graph' = graph
               \/ \E event : Recording(event) /\ event.content.kind # "tool_result"
        PROVE  SlotInv'
    BY <2>6, SlotStays
  <2>7. ASSUME NEW thread \in Threads,
               \/ PassBudget(thread) \/ LoadConsumed(thread) \/ StoreConsumed(thread)
               \/ LogAction(thread) \/ PassBoundary(thread)
        PROVE  SlotInv'
    BY <2>3, <2>7, Advancing
  <2>8. ASSUME NEW thread \in Threads, StopExhausted(thread) PROVE SlotInv'
    <3> DEFINE event == Event(NextId, [kind |-> "checkpoint"], <<EventOfCall(thread)>>)
    <3>1. Leaves(thread, "exhausted") /\ frames[thread].step = "check"
      BY <2>8, Stopping
    <3>2. Recording(event)
      BY <2>8, <3>1, Contents, ThreadsRecord DEF StopExhausted, Leaves
    <3>3. event.content.kind # "tool_result"
      BY DEF Event
    <3> HIDE DEF event
    <3>4. lastTool' = lastTool
      BY <2>8 DEF StopExhausted
    <3> QED BY <2>4, <3>1, <3>2, <3>3, <3>4
  <2>9. ASSUME NEW thread \in Threads, StopCrossing(thread) PROVE SlotInv'
    <3> DEFINE content ==
                 [kind |-> "semantic_delta",
                  boundary |-> BoundaryType(Delta(baseline, Semantic(ToolOf(thread))))]
               event == Event(NextId, content, <<EventOfCall(thread)>>)
    <3>1. Leaves(thread, "crossing") /\ frames[thread].step = "compare"
      BY <2>9, Stopping
    <3>2. content \in Content /\ RecordBelow(thread, content)
      BY <2>9, Contents DEF StopCrossing
    <3>3. event.content.kind # "tool_result"
      BY DEF Event
    <3> HIDE DEF content
    <3>4. Recording(event)
      BY <3>1, <3>2, ThreadsRecord DEF Leaves
    <3> HIDE DEF event
    <3>5. lastTool' = lastTool
      BY <2>9 DEF StopCrossing
    <3> QED BY <2>4, <3>1, <3>3, <3>4, <3>5
  <2>10. ASSUME NEW thread \in Threads, Settle(thread) PROVE SlotInv'
    <3>1. PICK outcome : Leaves(thread, outcome) /\ frames[thread].step = "settle"
      BY <2>10, Stopping
    <3>2. graph' = graph /\ lastTool' = lastTool
      BY <2>10 DEF Settle, ThreadInv
    <3> QED BY <2>4, <3>1, <3>2
  <2>11. CASE Reset
    BY <2>6, <2>11, EntersAlone DEF Reset, ResetBudget
  <2>12. ASSUME OnAgentFinish, UNCHANGED threadVars PROVE SlotInv'
    <3> DEFINE event == Event(NextId, [kind |-> "action"], <<Intent>>)
    <3>1. Recording(event)
      BY <2>12, ThreadsRecord
    <3>2. event.content.kind # "tool_result"
      BY DEF Event
    <3> HIDE DEF event
    <3> QED BY <2>6, <2>12, <3>1, <3>2 DEF OnAgentFinish, threadVars
  <2>13. CASE overlapped'
    BY <2>13 DEF SlotInv
  <2> QED BY <2>1, <2>2, <2>5, <2>6, <2>7, <2>8, <2>9, <2>10, <2>11, <2>12, <2>13,
             StepKinds DEF threadVars
<1> QED BY <1>1, <1>2, ThreadsAreTyped, RecordInvHolds, ThreadInvHolds,
           AloneInvHolds, PTL DEF ThreadedSpec

\* With one thread at a time the baseline speaks for all tools that ran, and a
\* thread that passed the boundary still does.
BaselineSpeaksForAll ==
    \A i \in Admitted :
      /\ baseline # None
      /\ Delta(baseline, Semantic(calls[i].tool)) = {}

SerialKindInv ==
    ~ overlapped =>
      /\ BaselineSpeaksForAll
      /\ \A t \in Settling : ~ CrossesBoundary(ToolOf(t))

\* Steps that admit nothing, settle nothing and leave the baseline alone.
LEMMA SerialKindStays ==
    ASSUME SerialKindInv, ~ overlapped' => ~ overlapped, baseline' = baseline,
           \A i \in Admitted' : i \in Admitted /\ calls'[i].tool = calls[i].tool,
           \A t \in Settling' : t \in Settling /\ ToolOf(t)' = ToolOf(t)
    PROVE  SerialKindInv'
<1> SUFFICES ASSUME ~ overlapped' PROVE SerialKindInv'
  BY DEF SerialKindInv
<1>1. BaselineSpeaksForAll /\ \A t \in Settling : ~ CrossesBoundary(ToolOf(t))
  BY DEF SerialKindInv
<1>2. ASSUME NEW i \in Admitted'
      PROVE  baseline' # None /\ Delta(baseline', Semantic(calls'[i].tool)) = {}
  BY <1>1 DEF BaselineSpeaksForAll
<1>3. ASSUME NEW t \in Settling' PROVE ~ CrossesBoundary(ToolOf(t))'
  <2>1. ~ CrossesBoundary(ToolOf(t)) /\ ToolOf(t)' = ToolOf(t)
    BY <1>1
  <2>2. CrossesBoundary(ToolOf(t))' <=>
          baseline' # None /\ Delta(baseline', Semantic(ToolOf(t)')) # {}
    BY DEF CrossesBoundary, Semantic
  <2> QED BY <2>1, <2>2 DEF CrossesBoundary
<1> QED BY <1>2, <1>3 DEF SerialKindInv, BaselineSpeaksForAll, Semantic

LEMMA SerialKindInvHolds == ThreadedSpec => []SerialKindInv
<1>1. ThreadedInit => SerialKindInv
  BY DEF ThreadedInit, Init, SerialKindInv, BaselineSpeaksForAll, Admitted, Settling,
         Idle
<1>2. ThreadedTypeOK /\ AloneInv /\ SerialKindInv
      /\ [ThreadedNext]_<<vars, threadVars>> => SerialKindInv'
  <2> SUFFICES ASSUME ThreadedTypeOK, AloneInv, SerialKindInv,
                      [ThreadedNext]_<<vars, threadVars>>
               PROVE  SerialKindInv'
    OBVIOUS
  <2>1. \A t \in Threads : Inside(t) =>
          frames[t].call \in DOMAIN calls /\ ToolOf(t) \in Tools
    BY InsideStart DEF Inside
  <2>2. \A t \in Settling : t \in Threads /\ Inside(t)
    BY DEF Settling, Inside
  <2>3. ASSUME NEW thread \in Threads, NEW tool \in Tools, Enter(thread, tool),
               ~ overlapped'
        PROVE  SerialKindInv'
    <3> DEFINE n == Len(calls)
    <3>1. /\ DOMAIN calls = 1..n /\ DOMAIN calls' = 1..(n + 1)
          /\ \A j \in 1..n : calls'[j] = calls[j]
          /\ \A j \in 1..(n + 1) : j \in 1..n \/ j = n + 1
          /\ calls'[n + 1].outcome = "starting"
      BY <2>3, Entering
    <3>2. /\ \A t \in Threads : t # thread => frames'[t] = frames[t]
          /\ frames'[thread].step = "publish"
      BY <2>3, EnteringFrames
    <3>3. ~ overlapped /\ \A t \in Threads : ~ Inside(t)
      BY <2>3, EntersAlone
    <3> HIDE DEF n
    <3>4. \A i \in Admitted' : i \in Admitted /\ calls'[i].tool = calls[i].tool
      BY <3>1 DEF Admitted
    <3>5. \A t \in Settling' : t \in Settling /\ ToolOf(t)' = ToolOf(t)
      BY <3>2, <3>3 DEF Settling, Inside
    <3>6. baseline' = baseline
      BY <2>3 DEF Enter
    <3> QED BY <3>3, <3>4, <3>5, <3>6, SerialKindStays
  <2>4. ASSUME NEW thread \in Threads, NEW to, to # "settle", Advances(thread, to)
        PROVE  SerialKindInv'
    <3>1. \A t \in Settling' : t \in Settling /\ ToolOf(t)' = ToolOf(t)
      BY <2>4 DEF Settling, ToolOf, Advances
    <3> QED BY <2>4, <3>1, SerialKindStays DEF Advances, Admitted
  <2>5. ASSUME NEW thread \in Threads, PassBoundary(thread), ~ overlapped
        PROVE  SerialKindInv'
    <3>1. /\ Inside(thread) /\ calls' = calls /\ baseline' = baseline
          /\ \A t \in Threads : t # thread => frames'[t] = frames[t]
          /\ frames'[thread].call = frames[thread].call
      BY <2>5, Advancing DEF Advances
    <3>2. \A t \in Threads : t # thread => ~ Inside(t)
      BY <2>5, <3>1 DEF AloneInv
    <3>3. \A t \in Settling' : t = thread
      BY <3>1, <3>2 DEF Settling, Inside
    <3>4. ~ CrossesBoundary(ToolOf(thread))'
      BY <2>5, <3>1 DEF PassBoundary, CrossesBoundary, ToolOf, Semantic
    <3>5. BaselineSpeaksForAll'
      BY <2>5, <3>1 DEF SerialKindInv, BaselineSpeaksForAll, Admitted, Semantic
    <3> QED BY <3>3, <3>4, <3>5 DEF SerialKindInv
  <2>6. ASSUME NEW thread \in Threads, NEW outcome \in {"exhausted", "crossing"},
               Leaves(thread, outcome), baseline' = baseline
        PROVE  SerialKindInv'
    <3>1. /\ DOMAIN calls' = DOMAIN calls /\ overlapped' = overlapped
          /\ \A j \in DOMAIN calls :
               /\ calls'[j].tool = calls[j].tool
               /\ calls'[j].outcome = IF j = frames[thread].call THEN outcome
                                      ELSE calls[j].outcome
          /\ \A t \in Threads : frames'[t] = IF t = thread THEN Idle ELSE frames[t]
      BY <2>6, Leaving DEF Leaves, Inside
    <3>2. \A i \in Admitted' : i \in Admitted /\ calls'[i].tool = calls[i].tool
      BY <2>6, <3>1 DEF Admitted
    <3>3. Idle.step # "settle"
      BY DEF Idle
    <3>4. \A t \in Settling' : t \in Settling /\ ToolOf(t)' = ToolOf(t)
      BY <2>1, <2>2, <3>1, <3>3 DEF Settling, ToolOf
    <3> QED BY <2>6, <3>1, <3>2, <3>4, SerialKindStays
  <2>7. ASSUME NEW thread \in Threads, Settle(thread), ~ overlapped
        PROVE  SerialKindInv'
    <3> DEFINE tool == ToolOf(thread)
    <3>1. PICK outcome : Leaves(thread, outcome)
      BY <2>7, Stopping
    <3>2. /\ DOMAIN calls' = DOMAIN calls
          /\ \A j \in DOMAIN calls :
               /\ calls'[j].tool = calls[j].tool
               /\ calls'[j].outcome = IF j = frames[thread].call THEN outcome
                                      ELSE calls[j].outcome
          /\ \A t \in Threads : frames'[t] = IF t = thread THEN Idle ELSE frames[t]
      BY <3>1, Leaving DEF Leaves, Inside
    <3>3. thread \in Settling /\ tool \in Tools
      BY <2>1, <2>2, <2>7 DEF Settle, Settling
    <3>4. baseline' = Semantic(tool) /\ baseline' # None
      BY <2>7, <3>3, NoneAssumption DEF Settle
    <3>5. ASSUME NEW i \in Admitted'
          PROVE  \/ i \in Admitted /\ calls'[i].tool = calls[i].tool
                 \/ calls'[i].tool = tool
      BY <3>2 DEF Admitted, ToolOf
    <3>6. ~ CrossesBoundary(tool) /\ BaselineSpeaksForAll
      BY <2>7, <3>3 DEF SerialKindInv
    <3> HIDE DEF tool
    <3>7. ASSUME NEW i \in Admitted'
          PROVE  Delta(baseline', Semantic(calls'[i].tool)) = {}
      <4>1. CASE calls'[i].tool = tool
        BY <3>3, <3>4, <4>1, SameKind
      <4>2. CASE i \in Admitted /\ calls'[i].tool = calls[i].tool
        <5>1. /\ baseline # None
              /\ Delta(baseline, Semantic(calls[i].tool)) = {}
              /\ Delta(baseline, Semantic(tool)) = {}
          BY <3>6, <4>2 DEF BaselineSpeaksForAll, CrossesBoundary
        <5>2. PICK first \in Tools : baseline = Semantic(first)
          <6>1. baseline \in {Semantic(u) : u \in Tools} \cup {None}
            BY DEF ThreadedTypeOK
          <6>2. baseline \in {Semantic(u) : u \in Tools}
            BY <5>1, <6>1
          <6> QED BY <6>2, Zenon
        <5>3. calls[i].tool \in Tools
          <6>1. calls[i] \in ThreadedCall
            BY <4>2 DEF Admitted, ThreadedTypeOK
          <6> QED BY <6>1 DEF ThreadedCall
        <5> QED BY <3>3, <3>4, <4>2, <5>1, <5>2, <5>3, SameKind
      <4> QED BY <3>5, <4>1, <4>2
    <3>8. Settling' = {}
      <4>1. \A t \in Threads : t # thread => ~ Inside(t)
        BY <2>7, <3>1 DEF AloneInv, Leaves
      <4> QED BY <3>2, <4>1 DEF Settling, Inside, Idle
    <3> QED BY <3>4, <3>7, <3>8 DEF SerialKindInv, BaselineSpeaksForAll, Semantic
  <2>8. ASSUME NEW i \in DOMAIN calls, OnToolEnd(i), UNCHANGED threadVars
        PROVE  SerialKindInv'
    <3>1. /\ DOMAIN calls' = DOMAIN calls
          /\ \A j \in DOMAIN calls :
               /\ calls'[j].tool = calls[j].tool
               /\ calls'[j].outcome = IF j = i THEN "done" ELSE calls[j].outcome
          /\ calls[i].outcome = "running"
      BY <2>8, Ending
    <3>2. \A j \in Admitted' : j \in Admitted /\ calls'[j].tool = calls[j].tool
      BY <3>1 DEF Admitted
    <3>3. \A t \in Settling' : t \in Settling /\ ToolOf(t)' = ToolOf(t)
      BY <2>1, <2>2, <2>8, <3>1 DEF Settling, ToolOf, threadVars
    <3>4. baseline' = baseline
      BY <2>8 DEF OnToolEnd
    <3> QED BY <2>8, <3>2, <3>3, <3>4, SerialKindStays DEF threadVars
  <2>9. ASSUME UNCHANGED <<frames, calls, baseline>>, ~ overlapped' => ~ overlapped
        PROVE  SerialKindInv'
    <3>1. \A i \in Admitted' : i \in Admitted /\ calls'[i].tool = calls[i].tool
      BY <2>9 DEF Admitted
    <3>2. \A t \in Settling' : t \in Settling /\ ToolOf(t)' = ToolOf(t)
      BY <2>9 DEF Settling, ToolOf
    <3> QED BY <2>9, <3>1, <3>2, SerialKindStays
  <2>10. ASSUME NEW thread \in Threads,
                \/ PublishCall(thread) \/ PassBudget(thread) \/ LoadConsumed(thread)
                \/ StoreConsumed(thread) \/ LogAction(thread)
         PROVE  SerialKindInv'
    BY <2>4, <2>10, Advancing
  <2>11. ASSUME NEW thread \in Threads, StopExhausted(thread) \/ StopCrossing(thread)
         PROVE  SerialKindInv'
    BY <2>6, <2>11, Stopping DEF StopExhausted, StopCrossing
  <2>12. CASE Reset
    BY <2>9, <2>12, EntersAlone DEF Reset, ResetBudget
  <2>13. ASSUME OnAgentFinish, UNCHANGED threadVars PROVE SerialKindInv'
    BY <2>9, <2>13 DEF OnAgentFinish, threadVars
  <2>14. CASE overlapped'
    BY <2>14 DEF SerialKindInv
  <2>15. ASSUME NEW thread \in Threads, PassBoundary(thread) \/ Settle(thread)
         PROVE  overlapped' = overlapped
    BY <2>15 DEF PassBoundary, Settle, Move, Leave
  <2> QED BY <2>3, <2>5, <2>7, <2>8, <2>9, <2>10, <2>11, <2>12, <2>13, <2>14, <2>15,
             StepKinds DEF threadVars
<1> QED BY <1>1, <1>2, ThreadsAreTyped, AloneInvHolds, PTL DEF ThreadedSpec

\* The budget while nobody is inside on_tool_start.
Settled ==
    /\ consumed = SumFunction(spent) /\ Len(spent) <= consumed
    /\ consumed <= BudgetLimit
    /\ resets = 0 => SpendIn(graph) = consumed

\* The budget while one thread is: the graph shows the cost first, then the
\* total has it, then the list of actions.
InProgress(t) ==
    LET cost == Cost[ToolOf(t)]
        step == frames[t].step
    IN  /\ IF step = "log"
           THEN consumed = SumFunction(spent) + cost /\ Len(spent) + 1 <= consumed
           ELSE consumed = SumFunction(spent) /\ Len(spent) <= consumed
        /\ consumed <= BudgetLimit
        /\ step \in {"load", "store"} => consumed + cost <= BudgetLimit
        /\ step = "store" => frames[t].loaded = consumed
        /\ resets = 0 =>
             SpendIn(graph) = IF Unpaid(t) THEN consumed + cost ELSE consumed

SerialBudgetInv ==
    ~ overlapped =>
      /\ (\A t \in Threads : ~ Inside(t)) => Settled
      /\ \A t \in Threads : Inside(t) => InProgress(t)

\* A thread that goes on is the only one inside, and so is one that leaves.
LEMMA AloneStep ==
    ASSUME AloneInv, ~ overlapped', NEW thread \in Threads
    PROVE  /\ \A to : Advances(thread, to) =>
                /\ ~ overlapped /\ ToolOf(thread)' = ToolOf(thread)
                /\ \A t \in Threads : Inside(t)' => t = thread
           /\ \A outcome : ThreadedTypeOK /\ Leaves(thread, outcome) =>
                ~ overlapped /\ \A t \in Threads : ~ Inside(t)'
<1>1. ASSUME NEW to, Advances(thread, to)
      PROVE  /\ ~ overlapped /\ ToolOf(thread)' = ToolOf(thread)
             /\ \A t \in Threads : Inside(t)' => t = thread
  BY <1>1 DEF Advances, AloneInv, Inside, ToolOf
<1>2. ASSUME ThreadedTypeOK, NEW outcome, Leaves(thread, outcome)
      PROVE  ~ overlapped /\ \A t \in Threads : ~ Inside(t)'
  <2>1. /\ overlapped' = overlapped
        /\ \A t \in Threads : frames'[t] = IF t = thread THEN Idle ELSE frames[t]
    BY <1>2, Leaving DEF Leaves, Inside
  <2> QED BY <1>2, <2>1 DEF AloneInv, Leaves, Inside, Idle
<1> QED BY <1>1, <1>2

\* Steps outside of on_tool_start that cost nothing.
LEMMA SerialBudgetStays ==
    ASSUME SerialBudgetInv, ~ overlapped' => ~ overlapped, frames' = frames,
           UNCHANGED <<consumed, spent, resets>>, SpendIn(graph') = SpendIn(graph),
           \A t \in Threads : Inside(t) => ToolOf(t)' = ToolOf(t)
    PROVE  SerialBudgetInv'
<1> SUFFICES ASSUME ~ overlapped' PROVE SerialBudgetInv'
  BY DEF SerialBudgetInv
<1>1. ASSUME \A t \in Threads : ~ Inside(t)' PROVE Settled'
  <2>1. Settled
    BY <1>1 DEF SerialBudgetInv, Inside
  <2> QED BY <2>1 DEF Settled
<1>2. ASSUME NEW t \in Threads, Inside(t)' PROVE InProgress(t)'
  <2>1. InProgress(t) /\ ToolOf(t)' = ToolOf(t)
    BY <1>2 DEF SerialBudgetInv, Inside
  <2>2. Cost[ToolOf(t)]' = Cost[ToolOf(t)]
    BY <2>1 DEF Cost
  <2> QED BY <2>1, <2>2 DEF InProgress, Unpaid
<1> QED BY <1>1, <1>2 DEF SerialBudgetInv

LEMMA SerialBudgetInvHolds == ThreadedSpec => []SerialBudgetInv
<1>1. ThreadedInit => SerialBudgetInv
  <2> SUFFICES ASSUME ThreadedInit PROVE SerialBudgetInv
    OBVIOUS
  <2>1. SumFunction(<<>>) = 0
    <3>1. <<>> \in [{} -> Int] /\ DOMAIN <<>> = {}
      OBVIOUS
    <3> QED BY <3>1, SumOfNone
  <2>2. SpendIn(graph) = 0
    <3> DEFINE bill == [i \in ChargedIn(graph) |-> Cost[graph[i].content.tool]]
    <3>1. DOMAIN graph = {1} /\ graph[1].content.kind = "intent"
      BY DEF ThreadedInit, Init, Event
    <3>2. ChargedIn(graph) = {}
      BY <3>1 DEF ChargedIn
    <3>3. DOMAIN bill = {} /\ bill \in [{} -> Int]
      BY <3>2
    <3> HIDE DEF bill
    <3>4. SumFunction(bill) = 0
      BY <3>3, SumOfNone
    <3> QED BY <3>4 DEF SpendIn, bill
  <2>3. \A t \in Threads : ~ Inside(t)
    BY DEF ThreadedInit, Inside, Idle
  <2> QED BY <2>1, <2>2, <2>3, LimitAssumption DEF ThreadedInit, Init, SerialBudgetInv, Settled
<1>2. ThreadedTypeOK /\ ThreadInv /\ RecordInv /\ StopsInv /\ AloneInv
      /\ SerialBudgetInv /\ [ThreadedNext]_<<vars, threadVars>> => SerialBudgetInv'
  <2> SUFFICES ASSUME ThreadedTypeOK, ThreadInv, RecordInv, StopsInv, AloneInv,
                      SerialBudgetInv, [ThreadedNext]_<<vars, threadVars>>,
                      ~ overlapped'
               PROVE  SerialBudgetInv'
    BY DEF SerialBudgetInv
  <2>1. \A t \in Threads : Inside(t) =>
          /\ frames[t].call \in DOMAIN calls /\ ToolOf(t) \in Tools
          /\ Cost[ToolOf(t)] \in Nat /\ Cost[ToolOf(t)] >= 1
    BY InsideStart, CostIsPositive DEF Inside
  <2>2. /\ consumed \in Nat /\ spent \in Seq(Nat) /\ Len(spent) \in Nat
        /\ Rooted(graph) /\ graph \in Seq(GraphEvent) /\ BudgetLimit \in Nat
    BY LimitAssumption DEF ThreadedTypeOK, RecordInv
  <2>3. ASSUME NEW thread \in Threads, NEW tool \in Tools, Enter(thread, tool)
        PROVE  SerialBudgetInv'
    <3>1. ~ overlapped /\ \A t \in Threads : ~ Inside(t)
      BY <2>3, EntersAlone
    <3>2. Settled
      BY <3>1 DEF SerialBudgetInv
    <3>3. /\ \A t \in Threads : t # thread => frames'[t] = frames[t]
          /\ frames'[thread].step = "publish" /\ frames'[thread].call = Len(calls) + 1
      BY <2>3, EnteringFrames
    <3>4. ToolOf(thread)' = tool
      BY <2>3, <3>3, Entering DEF ToolOf
    <3> DEFINE event == ToolCall(tool)
               cost == Cost[tool]
    <3>5. Recording(event) /\ event.content = [kind |-> "tool_call", tool |-> tool]
      BY <2>3, ThreadsRecord DEF ToolCall, Event
    <3> HIDE DEF event
    <3>6. SpendIn(graph') = SpendIn(graph) + cost
      BY <2>2, <3>5, CallIsCharged DEF Recording
    <3>7. UNCHANGED <<consumed, spent, resets>>
      BY <2>3 DEF Enter, budgetVars
    <3>8. Cost[ToolOf(thread)]' = cost
      BY <3>4 DEF Cost
    <3> HIDE DEF cost
    <3>9. InProgress(thread)'
      BY <3>2, <3>3, <3>6, <3>7, <3>8 DEF InProgress, Settled, Unpaid
    <3>10. \A t \in Threads : Inside(t)' <=> t = thread
      BY <3>1, <3>3 DEF Inside
    <3> QED BY <3>9, <3>10 DEF SerialBudgetInv
  <2>4. ASSUME NEW thread \in Threads, NEW to, to # "idle", Advances(thread, to)
        PROVE  /\ InProgress(thread)
               /\ InProgress(thread)' => SerialBudgetInv'
               /\ Cost[ToolOf(thread)]' = Cost[ToolOf(thread)]
               /\ SpendIn(graph') = SpendIn(graph)
               /\ frames'[thread].step = to /\ resets' = resets
    <3>1. /\ ~ overlapped /\ ToolOf(thread)' = ToolOf(thread)
          /\ \A t \in Threads : Inside(t)' => t = thread
      BY <2>4, AloneStep
    <3>2. Inside(thread) /\ Inside(thread)' /\ graph' = graph /\ resets' = resets
          /\ frames'[thread].step = to
      BY <2>4 DEF Advances, Inside
    <3>3. Cost[ToolOf(thread)]' = Cost[ToolOf(thread)]
      BY <3>1 DEF Cost
    <3>4. InProgress(thread)
      BY <3>1, <3>2 DEF SerialBudgetInv
    <3>5. InProgress(thread)' => SerialBudgetInv'
      BY <3>1, <3>2 DEF SerialBudgetInv
    <3>6. SpendIn(graph') = SpendIn(graph)
      BY <3>2
    <3> QED BY <3>2, <3>3, <3>4, <3>5, <3>6
  <2>5. ASSUME NEW thread \in Threads, PublishCall(thread) \/ PassBoundary(thread)
        PROVE  SerialBudgetInv'
    <3>1. PICK to \in {"check", "settle"} :
            /\ Advances(thread, to) /\ UNCHANGED <<consumed, spent>>
            /\ to = "check" <=> frames[thread].step = "publish"
            /\ frames[thread].step \in {"publish", "compare"}
      BY <2>5, Advancing
    <3>2. InProgress(thread)'
      BY <2>4, <3>1 DEF InProgress, Unpaid
    <3> QED BY <2>4, <3>1, <3>2
  <2>6. ASSUME NEW thread \in Threads, PassBudget(thread) PROVE SerialBudgetInv'
    <3>1. /\ Advances(thread, "load") /\ frames[thread].step = "check"
          /\ UNCHANGED <<consumed, spent>>
      BY <2>6, Advancing
    <3>2. consumed + Cost[ToolOf(thread)] <= BudgetLimit
      BY <2>6 DEF PassBudget, CanAct
    <3>3. InProgress(thread)'
      BY <2>4, <3>1, <3>2 DEF InProgress, Unpaid
    <3> QED BY <2>4, <3>1, <3>3
  <2>7. ASSUME NEW thread \in Threads, LoadConsumed(thread) PROVE SerialBudgetInv'
    <3>1. /\ Advances(thread, "store") /\ frames[thread].step = "load"
          /\ UNCHANGED <<consumed, spent>> /\ frames'[thread].loaded = consumed
      BY <2>7, Advancing
    <3>2. InProgress(thread)'
      BY <2>4, <3>1 DEF InProgress, Unpaid
    <3> QED BY <2>4, <3>1, <3>2
  <2>8. ASSUME NEW thread \in Threads, StoreConsumed(thread) PROVE SerialBudgetInv'
    <3> DEFINE cost == Cost[ToolOf(thread)]
    <3>1. /\ Advances(thread, "log") /\ frames[thread].step = "store"
          /\ spent' = spent
      BY <2>8, Advancing
    <3>2. consumed' = frames[thread].loaded + cost
      BY <2>8 DEF StoreConsumed
    <3>3. cost \in Nat /\ cost >= 1
      BY <2>1, <3>1 DEF Advances
    <3>4. /\ consumed = SumFunction(spent) /\ Len(spent) <= consumed
          /\ consumed + cost <= BudgetLimit /\ frames[thread].loaded = consumed
          /\ resets = 0 => SpendIn(graph) = consumed + cost
      BY <2>4, <3>1 DEF InProgress, Unpaid
    <3>5. /\ consumed' = consumed + cost
          /\ consumed' <= BudgetLimit /\ Len(spent) + 1 <= consumed'
      BY <2>2, <3>2, <3>3, <3>4
    <3>6. /\ Cost[ToolOf(thread)]' = cost /\ frames'[thread].step = "log"
          /\ SpendIn(graph') = SpendIn(graph) /\ resets' = resets
      BY <2>4, <3>1
    <3> HIDE DEF cost
    <3>7. InProgress(thread)'
      BY <3>1, <3>4, <3>5, <3>6 DEF InProgress, Unpaid
    <3> QED BY <2>4, <3>1, <3>7
  <2>9. ASSUME NEW thread \in Threads, LogAction(thread) PROVE SerialBudgetInv'
    <3> DEFINE cost == Cost[ToolOf(thread)]
    <3>1. /\ Advances(thread, "compare") /\ frames[thread].step = "log"
          /\ consumed' = consumed
      BY <2>9, Advancing
    <3>2. spent' = Append(spent, cost)
      BY <2>9 DEF LogAction
    <3>3. cost \in Nat
      BY <2>1, <3>1 DEF Advances
    <3>4. /\ consumed = SumFunction(spent) + cost /\ Len(spent) + 1 <= consumed
          /\ consumed <= BudgetLimit
          /\ resets = 0 => SpendIn(graph) = consumed
      BY <2>4, <3>1 DEF InProgress, Unpaid
    <3>5. /\ Cost[ToolOf(thread)]' = cost /\ frames'[thread].step = "compare"
          /\ SpendIn(graph') = SpendIn(graph) /\ resets' = resets
      BY <2>4, <3>1
    <3> HIDE DEF cost
    <3>6. SumFunction(spent') = SumFunction(spent) + cost
      BY <2>2, <3>2, <3>3, SumOfAppended
    <3>7. Len(spent') = Len(spent) + 1
      BY <2>2, <3>2
    <3>8. InProgress(thread)'
      BY <3>1, <3>4, <3>5, <3>6, <3>7 DEF InProgress, Unpaid
    <3> QED BY <2>4, <3>1, <3>8
  <2>10. ASSUME NEW thread \in Threads, NEW outcome, Leaves(thread, outcome)
         PROVE  InProgress(thread) /\ (Settled' => SerialBudgetInv')
    BY <2>10, AloneStep DEF Leaves, SerialBudgetInv
  <2>11. ASSUME NEW thread \in Threads, StopExhausted(thread) PROVE SerialBudgetInv'
    <3> DEFINE p == EventOfCall(thread)
               cost == Cost[ToolOf(thread)]
               event == Event(NextId, [kind |-> "checkpoint"], <<p>>)
    <3>1. Leaves(thread, "exhausted") /\ frames[thread].step = "check"
      BY <2>11, Stopping
    <3>2. UNCHANGED <<consumed, spent, resets>>
      BY <2>11 DEF StopExhausted, budgetVars
    <3>3. Recording(event)
      BY <2>11, <3>1, Contents, ThreadsRecord DEF StopExhausted, Leaves
    <3>4. event.content.kind = "checkpoint" /\ event.parents = <<p>>
      BY DEF Event
    <3>5. /\ p \in DOMAIN graph
          /\ graph[p].content = [kind |-> "tool_call", tool |-> ToolOf(thread)]
      BY <2>1, <3>1 DEF RecordInv, EventOfCall, ToolOf, Leaves
    <3>6. StopsIn(graph, p) = {}
      <4>1. calls[frames[thread].call].outcome = "starting"
        BY <3>1 DEF ThreadInv, Leaves
      <4> QED BY <2>1, <3>1, <4>1 DEF StopsInv, StopOutcomes, EventOfCall, Leaves
    <3>7. p \in ChargedIn(graph)
      <4>1. graph[p].id = p
        BY <2>2, <3>5 DEF Rooted
      <4>2. \A j \in DOMAIN graph :
              graph[j].parents = <<p>> => graph[j].content.kind # "checkpoint"
        BY <3>6 DEF StopsIn, StopKinds
      <4> HIDE DEF p
      <4> QED BY <3>5, <4>1, <4>2 DEF ChargedIn
    <3>8. graph[p].content.tool = ToolOf(thread)
      BY <3>5
    <3> HIDE DEF event, p
    <3>9. SpendIn(graph) = SpendIn(graph') + Cost[graph[p].content.tool]
      BY <2>2, <3>3, <3>4, <3>7, CheckpointIsNotCharged DEF Recording
    <3>10. SpendIn(graph) = SpendIn(graph') + cost
      BY <3>8, <3>9, Zenon
    <3>11. SpendIn(graph') \in Nat
      BY <2>2, <3>3, RecordsLast, SpendIsNatural
    <3>12. cost \in Nat
      BY <2>1, <3>1 DEF Leaves
    <3>13. /\ consumed = SumFunction(spent) /\ Len(spent) <= consumed
           /\ consumed <= BudgetLimit
           /\ resets = 0 => SpendIn(graph) = consumed + cost
      BY <2>10, <3>1 DEF InProgress, Unpaid
    <3> DEFINE before == SpendIn(graph)
               after == SpendIn(graph')
    <3> HIDE DEF cost, before, after
    <3>14. resets = 0 => after = consumed
      BY <2>2, <3>10, <3>11, <3>12, <3>13 DEF before, after
    <3>15. Settled'
      BY <3>2, <3>13, <3>14 DEF Settled, after
    <3> QED BY <2>10, <3>1, <3>15
  <2>12. ASSUME NEW event, Recording(event),
                event.content.kind \notin {"tool_call", "checkpoint"}
         PROVE  SpendIn(graph') = SpendIn(graph)
    BY <2>2, <2>12, OthersAreFree DEF Recording
  <2>13. ASSUME NEW thread \in Threads, StopCrossing(thread) \/ Settle(thread)
         PROVE  SerialBudgetInv'
    <3>1. PICK outcome : Leaves(thread, outcome)
      BY <2>13, Stopping
    <3>2. frames[thread].step \in {"compare", "settle"}
      BY <2>13, Stopping
    <3>3. UNCHANGED <<consumed, spent, resets>>
      BY <2>13 DEF StopCrossing, Settle, budgetVars
    <3>4. SpendIn(graph') = SpendIn(graph)
      <4>1. ASSUME StopCrossing(thread) PROVE SpendIn(graph') = SpendIn(graph)
        <5> DEFINE content ==
                 [kind |-> "semantic_delta",
                  boundary |-> BoundaryType(Delta(baseline, Semantic(ToolOf(thread))))]
               event == Event(NextId, content, <<EventOfCall(thread)>>)
        <5>1. content \in Content /\ RecordBelow(thread, content)
          BY <4>1, Contents DEF StopCrossing
        <5>2. event.content.kind \notin {"tool_call", "checkpoint"}
          BY DEF Event
        <5> HIDE DEF content
        <5>3. Recording(event)
          BY <3>1, <5>1, ThreadsRecord DEF Leaves
        <5> HIDE DEF event
        <5> QED BY <2>12, <5>2, <5>3
      <4>2. Settle(thread) => graph' = graph
        BY DEF Settle, ThreadInv
      <4> QED BY <2>13, <4>1, <4>2
    <3>5. InProgress(thread)
      BY <2>10, <3>1
    <3>6. Settled'
      BY <3>2, <3>3, <3>4, <3>5 DEF InProgress, Unpaid, Settled
    <3> QED BY <2>10, <3>1, <3>6
  <2>14. ASSUME NEW i \in DOMAIN calls, OnToolEnd(i), UNCHANGED threadVars
         PROVE  SerialBudgetInv'
    <3> DEFINE event == Event(NextId, [kind |-> "tool_result", call |-> i], <<lastTool>>)
    <3>1. Recording(event)
      BY <2>14, ThreadsRecord
    <3>2. event.content.kind \notin {"tool_call", "checkpoint"}
      BY DEF Event
    <3> HIDE DEF event
    <3>3. SpendIn(graph') = SpendIn(graph)
      BY <2>12, <3>1, <3>2
    <3>4. \A t \in Threads : Inside(t) => ToolOf(t)' = ToolOf(t)
      BY <2>1, <2>14, Ending DEF ToolOf, threadVars
    <3> QED BY <2>14, <3>3, <3>4, SerialBudgetStays DEF OnToolEnd, budgetVars, threadVars
  <2>15. ASSUME OnAgentFinish, UNCHANGED threadVars PROVE SerialBudgetInv'
    <3> DEFINE event == Event(NextId, [kind |-> "action"], <<Intent>>)
    <3>1. Recording(event)
      BY <2>15, ThreadsRecord
    <3>2. event.content.kind \notin {"tool_call", "checkpoint"}
      BY DEF Event
    <3> HIDE DEF event
    <3>3. SpendIn(graph') = SpendIn(graph)
      BY <2>12, <3>1, <3>2
    <3>4. \A t \in Threads : Inside(t) => ToolOf(t)' = ToolOf(t)
      BY <2>15 DEF ToolOf, OnAgentFinish, threadVars
    <3> QED BY <2>15, <3>3, <3>4, SerialBudgetStays
            DEF OnAgentFinish, budgetVars, threadVars
  <2>16. CASE Reset
    <3>1. \A t \in Threads : ~ Inside(t)'
      BY <2>16, EntersAlone DEF Reset, Inside
    <3>2. consumed' = 0 /\ spent' = <<>> /\ resets' # 0
      BY <2>16 DEF Reset, ResetBudget, ThreadedTypeOK
    <3>3. SumFunction(<<>>) = 0 /\ Len(<<>>) = 0
      <4>1. <<>> \in [{} -> Int] /\ DOMAIN <<>> = {} /\ Len(<<>>) = 0
        OBVIOUS
      <4> QED BY <4>1, SumOfNone
    <3>4. Settled'
      BY <2>2, <3>2, <3>3 DEF Settled
    <3> QED BY <3>1, <3>4 DEF SerialBudgetInv
  <2>17. CASE UNCHANGED <<budgetVars, baseline, lastTool, graph, calls, threadVars>>
    BY <2>17, SerialBudgetStays DEF budgetVars, threadVars, ToolOf
  <2> QED BY <2>3, <2>5, <2>6, <2>7, <2>8, <2>9, <2>11, <2>13, <2>14, <2>15, <2>16,
             <2>17, StepKinds
<1> QED BY <1>1, <1>2, ThreadsAreTyped, ThreadInvHolds, RecordInvHolds,
           StopsInvHolds, AloneInvHolds, PTL DEF ThreadedSpec

\* For any number of threads: a host that lets one at a time into
\* on_tool_start keeps what holds for a single thread.
THEOREM OneAtATimeIsExact == ThreadedSpec => []SerialStartsAreExact
<1>1. ThreadedTypeOK /\ ThreadInv /\ SlotInv /\ SerialKindInv /\ SerialBudgetInv
        => SerialStartsAreExact
  <2> SUFFICES ASSUME ThreadedTypeOK, ThreadInv, SlotInv, SerialKindInv,
                      SerialBudgetInv, ~ overlapped
               PROVE  /\ SingleBoundaryClass /\ AutonomyIsBounded
                      /\ Busy = {} => BudgetReconciles
                      /\ SequentialResultsAreLinked
    BY DEF SerialStartsAreExact
  <2>1. ASSUME NEW i \in Admitted, NEW j \in Admitted
        PROVE  Delta(Semantic(calls[i].tool), Semantic(calls[j].tool)) = {}
    <3>1. /\ baseline # None
          /\ Delta(baseline, Semantic(calls[i].tool)) = {}
          /\ Delta(baseline, Semantic(calls[j].tool)) = {}
      BY DEF SerialKindInv, BaselineSpeaksForAll
    <3>2. PICK first \in Tools : baseline = Semantic(first)
      <4>1. baseline \in {Semantic(tool) : tool \in Tools} \cup {None}
        BY DEF ThreadedTypeOK
      <4>2. baseline \in {Semantic(tool) : tool \in Tools}
        BY <3>1, <4>1
      <4> QED BY <4>2, Zenon
    <3>3. calls[i] \in ThreadedCall /\ calls[j] \in ThreadedCall
      BY DEF Admitted, ThreadedTypeOK
    <3>4. calls[i].tool \in Tools /\ calls[j].tool \in Tools
      BY <3>3 DEF ThreadedCall
    <3> QED BY <3>1, <3>2, <3>4, SameKind
  <2>2. AutonomyIsBounded
    <3>1. consumed \in Nat /\ Len(spent) \in Nat
      BY DEF ThreadedTypeOK
    <3>2. ASSUME NEW t \in Threads, Inside(t) PROVE AutonomyIsBounded
      BY <3>1, <3>2 DEF SerialBudgetInv, InProgress, AutonomyIsBounded
    <3>3. CASE \A t \in Threads : ~ Inside(t)
      BY <3>3 DEF SerialBudgetInv, Settled, AutonomyIsBounded
    <3> QED BY <3>2, <3>3
  <2>3. ASSUME Busy = {} PROVE BudgetReconciles
    <3>1. \A t \in Threads : ~ Inside(t)
      BY <2>3 DEF Busy, Inside, Idle
    <3>2. Settled
      BY <3>1 DEF SerialBudgetInv
    <3> QED BY <3>2 DEF Settled, BudgetReconciles, SpendIn, ChargedIn, ChargedEvents
  <2>4. SequentialResultsAreLinked
    BY LinkedMeansLinked DEF SlotInv
  <2> QED BY <2>1, <2>2, <2>3, <2>4 DEF SingleBoundaryClass
<1> QED BY <1>1, ThreadsAreTyped, ThreadInvHolds, SlotInvHolds, SerialKindInvHolds,
           SerialBudgetInvHolds, PTL
=============================================================================
