-------------------------- MODULE HumanistCallback --------------------------
(***************************************************************************)
(* HumanistCallback (humanist_core/integrations/langchain_v2.py): the      *)
(* LangChain callback in which the authority core, the boundary detection  *)
(* and the provenance graph meet.  The agent runner, which is external,    *)
(* calls on_tool_start before a tool, lets the tool run only if the call   *)
(* returned, and calls on_tool_end with its result; several tools may be   *)
(* running at once.  The host may issue decision tokens on the callback's  *)
(* kernel and reset its budget, the two things a human checkpoint can do.  *)
(*                                                                         *)
(*   call  [tool, operation, at, outcome, event]                           *)
(*   event [id, parents, timestamp, content]                               *)
(*                                                                         *)
(* Events are built and appended in one handler, so they are appended in   *)
(* the order of their ids; their signatures are Provenance's subject.  The *)
(* clock may stand still between two events, and the two that one handler  *)
(* records always share a moment here.                                     *)
(***************************************************************************)
EXTENDS AuthorityRules, BoundaryRules, ProvenanceRules

CONSTANTS
    Tools,              \* the tools the agent has
    Keywords,           \* per tool, the words that occur in its name
    Grant,              \* the arguments of the constructor
    BudgetLimit,        \* its autonomy_budget
    Approvals,          \* the arguments of issue_decision_token
    MaxCalls,           \* bound: tool calls
    MaxFinishes,        \* bound: on_agent_finish
    MaxTokens,          \* bound: decision tokens
    MaxResets,          \* bound: budget resets
    MaxTime             \* bound: the clock

ASSUME KeywordAssumption == Keywords \in [Tools -> SUBSET STRING]

ASSUME LimitAssumption == BudgetLimit \in Nat

ASSUME ApprovalAssumption == \A terms \in Approvals : terms.expiresIn \in Nat

VARIABLES
    now,                \* time.time()
    tokens,             \* kernel._tokens
    consumed,           \* budget.consumed
    spent,              \* budget._actions, the cost of each
    resets,             \* how often the host called budget.reset
    baseline,           \* _last_action_semantic
    lastTool,           \* _last_tool_event_id
    graph,              \* provenance._events
    calls               \* the runner's tool calls, in order of on_tool_start

kernelVars == <<now, tokens>>
budgetVars == <<consumed, spent, resets>>
vars == <<kernelVars, budgetVars, baseline, lastTool, graph, calls>>

-----------------------------------------------------------------------------
(* What the callback makes of a tool's name *)

Operations == {"read", "modify", "delete", "send", "publish", "analyse"}

ExtractOperation(tool) ==
    LET Has(words) == Keywords[tool] \cap words # {}
    IN  IF Has({"read", "get", "fetch", "search"}) THEN "read"
        ELSE IF Has({"write", "modify", "update", "edit"}) THEN "modify"
        ELSE IF Has({"delete", "remove"}) THEN "delete"
        ELSE IF Has({"send", "email", "notify"}) THEN "send"
        ELSE IF Has({"publish", "post"}) THEN "publish"
        ELSE "analyse"

InferEffect(operation) ==
    IF operation \in ReadVerbs THEN "informational"
    ELSE IF operation \in {"modify", "write"} THEN "operational"
    ELSE IF operation = "delete" THEN "destructive"
    ELSE IF operation \in {"send", "publish"} THEN "reputational"
    ELSE "unknown"

\* The envelope has no ttl, so it never expires.
Envelope == [actor |-> "human", grant |-> Grant, issuedAt |-> 0,
             ttl |-> None, expiresAt |-> None]

\* Only the operation and the tool's name are filled in.
Proposed(tool) ==
    [operation |-> ExtractOperation(tool), resource |-> tool, system |-> None,
     audience |-> None, effect |-> None, quantity |-> None]

Semantic(tool) ==
    LET operation == ExtractOperation(tool)
    IN  [verb |-> operation, object |-> tool, effect |-> InferEffect(operation),
         audience |-> "requester", reversibility |-> "reversible",
         scope |-> "internal"]

ASSUME NoneAssumption ==
    /\ \A tool \in Tools : Semantic(tool) # None
    /\ None \notin Nat /\ None \notin ExternalEffects

Cost == [tool \in Tools |->
           AutonomyCost(ExtractOperation(tool), "", "internal", "", 0)]

Mutant_DenyOnly(tool) ==
    IF Evaluate(tokens, Envelope, Proposed(tool), now) = "DENY" THEN "DENY"
    ELSE "ALLOW"

Decision(tool) == Evaluate(tokens, Envelope, Proposed(tool), now)

-----------------------------------------------------------------------------
(* Recording *)

Event(id, content, parents) ==
    [id |-> id, parents |-> parents, timestamp |-> now, content |-> content]

\* new_event and append of one or more events, in order.
Record(newEvents) == graph' = graph \o newEvents

NextId == Len(graph) + 1

Intent == 1             \* _last_intent_event_id

Mutant_NoParent(tool) ==
    Event(NextId, [kind |-> "tool_call", tool |-> tool], <<>>)

ToolCall(tool) ==
    Event(NextId, [kind |-> "tool_call", tool |-> tool], <<Intent>>)

\* What a checkpoint adds to the graph, below the tool_call event.
Checkpoint(content) == Event(NextId + 1, content, <<NextId>>)

-----------------------------------------------------------------------------
Init ==
    /\ now = 0
    /\ tokens = <<>>
    /\ consumed = 0 /\ spent = <<>> /\ resets = 0
    /\ baseline = None
    /\ lastTool = None
    /\ graph = <<Event(Intent, [kind |-> "intent"], <<>>)>>
    /\ calls = <<>>

\* What every on_tool_start does, however it ends: lines 165-192.
StartCall(tool, outcome) ==
    /\ Len(calls) < MaxCalls
    /\ calls' = Append(calls, [tool |-> tool,
                               operation |-> ExtractOperation(tool), at |-> now,
                               outcome |-> outcome, event |-> NextId])
    /\ lastTool' = NextId
    /\ UNCHANGED kernelVars

Mutant_LimitBeforeCost(tool) == consumed < BudgetLimit

CanAct(tool) == consumed + Cost[tool] <= BudgetLimit

Mutant_ActionNotLogged(tool) ==
    /\ CanAct(tool)
    /\ consumed' = consumed + Cost[tool]
    /\ UNCHANGED <<spent, resets>>

\* budget.consume, in the case it returns True.
Consume(tool) ==
    /\ CanAct(tool)
    /\ consumed' = consumed + Cost[tool]
    /\ spent' = Append(spent, Cost[tool])
    /\ UNCHANGED resets

\* A meaningful delta against the last action that got this far.
CrossesBoundary(tool) ==
    baseline # None /\ Delta(baseline, Semantic(tool)) # {}

\* consume() returns False: AutonomousLoopDetected.
StartExhausted(tool) ==
    /\ ~ CanAct(tool)
    /\ StartCall(tool, "exhausted")
    /\ Record(<<ToolCall(tool), Checkpoint([kind |-> "checkpoint"])>>)
    /\ UNCHANGED <<budgetVars, baseline>>

Mutant_CrossingIsBaseline(tool) ==
    /\ Consume(tool)
    /\ CrossesBoundary(tool)
    /\ StartCall(tool, "crossing")
    /\ Record(<<ToolCall(tool), Checkpoint(
         [kind |-> "semantic_delta",
          boundary |-> BoundaryType(Delta(baseline, Semantic(tool)))])>>)
    /\ baseline' = Semantic(tool)

\* SemanticBoundaryDetected; the budget has been charged.
StartCrossing(tool) ==
    /\ Consume(tool)
    /\ CrossesBoundary(tool)
    /\ StartCall(tool, "crossing")
    /\ Record(<<ToolCall(tool), Checkpoint(
         [kind |-> "semantic_delta",
          boundary |-> BoundaryType(Delta(baseline, Semantic(tool)))])>>)
    /\ UNCHANGED baseline

\* The decision is looked at last: ReauthorizationRequired, or a checkpoint
\* when the kernel asks for one.  The budget has been charged and the refused
\* call has become the baseline.
StartRefused(tool) ==
    /\ Consume(tool)
    /\ ~ CrossesBoundary(tool)
    /\ Decision(tool) \notin Permitting
    /\ StartCall(tool, "refused")
    /\ Record(IF Decision(tool) = "CHECKPOINT"
              THEN <<ToolCall(tool), Checkpoint([kind |-> "checkpoint"])>>
              ELSE <<ToolCall(tool)>>)
    /\ baseline' = Semantic(tool)

Mutant_ProposalIsBaseline(tool) ==
    /\ Consume(tool)
    /\ ~ CrossesBoundary(tool)
    /\ Decision(tool) \in Permitting
    /\ StartCall(tool, "running")
    /\ Record(<<ToolCall(tool)>>)
    /\ baseline' = Proposed(tool)

\* on_tool_start returns and the runner runs the tool.
StartAdmitted(tool) ==
    /\ Consume(tool)
    /\ ~ CrossesBoundary(tool)
    /\ Decision(tool) \in Permitting
    /\ StartCall(tool, "running")
    /\ Record(<<ToolCall(tool)>>)
    /\ baseline' = Semantic(tool)

Mutant_ResultBecomesLastTool(i) ==
    /\ calls[i].outcome = "running"
    /\ calls' = [calls EXCEPT ![i].outcome = "done"]
    /\ Record(<<Event(NextId, [kind |-> "tool_result", call |-> i],
                      IF lastTool = None THEN <<>> ELSE <<lastTool>>)>>)
    /\ lastTool' = NextId
    /\ UNCHANGED <<kernelVars, budgetVars, baseline>>

\* The result is linked to the last tool call started, whichever it is of.
OnToolEnd(i) ==
    /\ calls[i].outcome = "running"
    /\ calls' = [calls EXCEPT ![i].outcome = "done"]
    /\ Record(<<Event(NextId, [kind |-> "tool_result", call |-> i],
                      IF lastTool = None THEN <<>> ELSE <<lastTool>>)>>)
    /\ UNCHANGED <<kernelVars, budgetVars, baseline, lastTool>>

Finishes == {i \in DOMAIN graph : graph[i].content.kind = "action"}

OnAgentFinish ==
    /\ Cardinality(Finishes) < MaxFinishes
    /\ Record(<<Event(NextId, [kind |-> "action"], <<Intent>>)>>)
    /\ UNCHANGED <<kernelVars, budgetVars, baseline, lastTool, calls>>

\* The host: callback.kernel.issue_decision_token(callback.envelope, ...).
IssueDecisionToken(terms) ==
    /\ Len(tokens) < MaxTokens
    /\ tokens' = Append(tokens, [actor |-> Envelope.actor,
                                 parentIntent |-> Grant.objective,
                                 terms |-> terms, issuedAt |-> now])
    /\ UNCHANGED <<now, budgetVars, baseline, lastTool, graph, calls>>

\* The host: callback.budget.reset().
ResetBudget ==
    /\ resets < MaxResets
    /\ consumed' = 0 /\ spent' = <<>> /\ resets' = resets + 1
    /\ UNCHANGED <<kernelVars, baseline, lastTool, graph, calls>>

Tick ==
    /\ now < MaxTime
    /\ now' = now + 1
    /\ UNCHANGED <<tokens, budgetVars, baseline, lastTool, graph, calls>>

OnToolStart(tool) ==
    \/ StartExhausted(tool)
    \/ StartCrossing(tool)
    \/ StartRefused(tool)
    \/ StartAdmitted(tool)

Next ==
    \/ \E tool \in Tools : OnToolStart(tool)
    \/ \E i \in DOMAIN calls : OnToolEnd(i)
    \/ OnAgentFinish
    \/ \E terms \in Approvals : IssueDecisionToken(terms)
    \/ ResetBudget
    \/ Tick

Spec == Init /\ [][Next]_vars

-----------------------------------------------------------------------------
(* Properties *)

Token == [actor : {Envelope.actor}, parentIntent : {Grant.objective},
          terms : Approvals, issuedAt : Nat]

Content == [kind : {"intent", "checkpoint", "action"}]
             \cup [kind : {"tool_call"}, tool : Tools]
             \cup [kind : {"tool_result"}, call : Nat]
             \cup [kind : {"semantic_delta"}, boundary : BoundaryTypes]

GraphEvent == [id : Nat, parents : Seq(Nat), timestamp : Nat, content : Content]

Call == [tool : Tools, operation : Operations, at : Nat, event : Nat,
         outcome : {"exhausted", "crossing", "refused", "running", "done"}]

TypeOK ==
    /\ now \in Nat
    /\ tokens \in Seq(Token)
    /\ consumed \in Nat /\ spent \in Seq(Nat) /\ resets \in Nat
    /\ baseline \in {Semantic(tool) : tool \in Tools} \cup {None}
    /\ lastTool \in Nat \cup {None}
    /\ graph \in Seq(GraphEvent)
    /\ calls \in Seq(Call)

\* The calls whose tool got to run.
Admitted == {i \in DOMAIN calls : calls[i].outcome \in {"running", "done"}}

\* A token of this human that covers call j, given since call i and still
\* valid: the renewed authority a boundary between the two calls asks for.
Renewed(i, j) ==
    \E k \in Covering(tokens, Envelope, Proposed(calls[j].tool)) :
      /\ calls[i].at <= tokens[k].issuedAt /\ tokens[k].issuedAt <= calls[j].at
      /\ IsValid(tokens[k], calls[j].at)

\* Once a tool ran, a call that differs meaningfully from it is stopped at the
\* budget or at the boundary, before the kernel's decision counts, unless
\* authority was renewed in between; calls that were refused, approved or reset
\* since do not blur it, although only the last call is compared
\* (langchain_v2.py:228-258; docs/ARCHITECTURE_v2.0.md:105 "MUST NOT cross a
\* meaningful boundary without renewed human authority").
BoundariesNeedRenewal ==
    \A i \in Admitted, j \in DOMAIN calls :
      /\ i < j
      /\ Delta(Semantic(calls[i].tool), Semantic(calls[j].tool)) # {}
      /\ calls[j].outcome \notin {"exhausted", "crossing"}
      => Renewed(i, j)

\* What the code does beyond that, for want of a way to renew the baseline: no
\* two tools that ever ran differ, approved or not.  The documents do not ask
\* for it; see RenewedAuthorityCrosses.
SingleBoundaryClass ==
    \A i, j \in Admitted :
      Delta(Semantic(calls[i].tool), Semantic(calls[j].tool)) = {}

\* A tool whose operation the intent does not grant, or forbids, ran only on
\* a decision token of this human that covered it and was valid when the call
\* started (Invariant 1, docs/ARCHITECTURE_v2.0.md:1308).
NoSilentScopeExpansion ==
    \A i \in Admitted :
      calls[i].operation \in Grant.operations \ Grant.forbidden
      \/ \E k \in Covering(tokens, Envelope, Proposed(calls[i].tool)) :
           /\ tokens[k].issuedAt <= calls[i].at
           /\ IsValid(tokens[k], calls[i].at)

\* The tool calls that the graph shows without a budget checkpoint below them.
ChargedEvents ==
    {i \in DOMAIN graph :
       /\ graph[i].content.kind = "tool_call"
       /\ \A j \in DOMAIN graph :
            graph[j].parents = <<graph[i].id>>
            => graph[j].content.kind # "checkpoint"}

\* The budget's total is what its list of actions adds up to, and until the
\* host resets it an auditor finds the same total in the provenance graph
\* (langchain_v2.py:201-213, boundary.py:228).
BudgetReconciles ==
    /\ consumed = SumFunction(spent)
    /\ resets = 0 =>
         consumed = SumFunction([i \in ChargedEvents |->
                                   Cost[graph[i].content.tool]])

\* Between two resets at most BudgetLimit calls get past the budget: every
\* operation costs something, refused ones too (boundary.py:145-156, 225-233).
AutonomyIsBounded == Len(spent) <= consumed /\ consumed <= BudgetLimit

\* Every event's explanation reaches back to the intent, and where find_root
\* returns another event that one is as old as the intent itself: nothing the
\* callback records is an orphan (Invariant 5, docs/ARCHITECTURE_v2.0.md:1324),
\* results of overlapping tools and the reasons for stops included.
EveryEventReachesIntent ==
    \A id \in Ids(graph) :
      LET chain == Explain(graph, id)
      IN  \E k \in DOMAIN chain :
            /\ chain[k] = EventOf(graph, Intent)
            /\ FindRoot(graph, id).timestamp = chain[k].timestamp

Results == {i \in DOMAIN graph : graph[i].content.kind = "tool_result"}

\* A result is linked to its own call unless another call started before it
\* came: the single slot _last_tool_event_id is enough for tools that run one
\* after the other, also when calls were refused before them
\* (langchain_v2.py:297).
SequentialResultsAreLinked ==
    \A r \in Results :
      LET own == graph[r].content.call
      IN  (\A j \in DOMAIN calls : j > own => calls[j].event > graph[r].id)
          => graph[r].parents = <<calls[own].event>>

-----------------------------------------------------------------------------
(* What the documents say and the code does not do. *)

\* provenance.py:226 "The first element is the root intent": with equal
\* timestamps the walk's order decides, and it visits children first.
FindRootIsIntent ==
    \A id \in Ids(graph) : FindRoot(graph, id).content.kind = "intent"

\* A call stopped at a boundary ("Human checkpoint required",
\* langchain_v2.py:255) may cross it once a human gave a token for it: "new
\* Intent Envelope or Decision Token", "execution may continue"
\* (docs/ARCHITECTURE_v2.0.md:2129-2131).  The callback compares before it asks
\* the kernel's decision, and nothing changes what it compares with.
RenewedAuthorityCrosses ==
    \A i, j \in DOMAIN calls :
      /\ i < j /\ calls[i].tool = calls[j].tool
      /\ calls[i].outcome = "crossing"
      /\ \E k \in Covering(tokens, Envelope, Proposed(calls[j].tool)) :
           /\ calls[i].at < tokens[k].issuedAt
           /\ tokens[k].issuedAt < calls[j].at
           /\ IsValid(tokens[k], calls[j].at)
      => calls[j].outcome # "crossing"

\* docs/ARCHITECTURE_v2.0.md:549-558 compares the "DECLARED INTENT" with the
\* proposed action: as long as no tool has run, a call that the intent grants
\* crosses nothing.  But a refused call becomes the baseline.
DeclaredIntentIsBaseline ==
    \A i \in DOMAIN calls :
      /\ calls[i].operation \in Grant.operations \ Grant.forbidden
      /\ \A j \in Admitted : i < j
      => calls[i].outcome # "crossing"

\* langchain_v2.py:296 "record causally linked result"
ResultLinkedToOwnCall ==
    \A r \in Results :
      graph[r].parents = <<calls[graph[r].content.call].event>>
=============================================================================
