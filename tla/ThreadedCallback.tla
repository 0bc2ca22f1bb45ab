-------------------------- MODULE ThreadedCallback --------------------------
(***************************************************************************)
(* HumanistCallback called from several threads: the runner starts tools   *)
(* in parallel, and nothing in langchain_v2.py or boundary.py locks.       *)
(* on_tool_start is one step per access to state that threads share; what  *)
(* it computes from its own locals belongs to the access before.           *)
(*                                                                         *)
(*   frame [step, call, decision, loaded]                                  *)
(*                                                                         *)
(* is what a thread holds inside on_tool_start: where it is, which call it *)
(* makes, the kernel's decision, and the total that `+=` has read and not  *)
(* yet written.  In between, autonomy_cost runs: it is a property, so      *)
(* another thread may run there.  A list's append and a dictionary's       *)
(* assignment are one step each.                                           *)
(***************************************************************************)
EXTENDS HumanistCallback

CONSTANT Threads

ASSUME ThreadAssumption == IsFiniteSet(Threads)

VARIABLES
    frames,             \* per thread, its on_tool_start
    overlapped          \* history: on_tool_start was entered, or the budget
                        \* reset, while another thread was inside it

threadVars == <<frames, overlapped>>

Steps == {"idle", "publish", "check", "load", "store", "log", "compare",
          "settle"}

Idle == [step |-> "idle", call |-> 0, decision |-> "DENY", loaded |-> 0]

ThreadedInit ==
    /\ Init
    /\ frames = [thread \in Threads |-> Idle]
    /\ overlapped = FALSE

Busy == {thread \in Threads : frames[thread] # Idle}

Move(thread, from, to) ==
    /\ frames[thread].step = from
    /\ frames' = [frames EXCEPT ![thread].step = to]
    /\ UNCHANGED overlapped

ToolOf(thread) == calls[frames[thread].call].tool

EventOfCall(thread) == calls[frames[thread].call].event

\* on_tool_start raises or returns.
Leave(thread, outcome) ==
    /\ frames' = [frames EXCEPT ![thread] = Idle]
    /\ calls' = [calls EXCEPT ![frames[thread].call].outcome = outcome]
    /\ UNCHANGED overlapped

Mutant_BelowLastTool(thread, content) ==
    Record(<<Event(NextId, content, <<lastTool>>)>>)

\* An event below the thread's own tool_call event.
RecordBelow(thread, content) ==
    Record(<<Event(NextId, content, <<EventOfCall(thread)>>)>>)

-----------------------------------------------------------------------------
(* on_tool_start *)

\* The kernel decides, with the tokens and the time of this moment, and the
\* call is recorded: the two touch nothing in common, so whatever another
\* thread does between them it may as well do afterwards.
Enter(thread, tool) ==
    /\ frames[thread] = Idle
    /\ Len(calls) < MaxCalls
    /\ calls' = Append(calls, [tool |-> tool,
                               operation |-> ExtractOperation(tool), at |-> now,
                               outcome |-> "starting", event |-> NextId])
    /\ Record(<<ToolCall(tool)>>)
    /\ frames' = [frames EXCEPT ![thread] =
                    [step |-> "publish", call |-> Len(calls) + 1,
                     decision |-> Decision(tool), loaded |-> 0]]
    /\ overlapped' = (overlapped \/ Busy # {})
    /\ UNCHANGED <<kernelVars, budgetVars, baseline, lastTool>>

Mutant_NotPublished(thread) ==
    /\ Move(thread, "publish", "check")
    /\ UNCHANGED vars

PublishCall(thread) ==
    /\ Move(thread, "publish", "check")
    /\ lastTool' = EventOfCall(thread)
    /\ UNCHANGED <<kernelVars, budgetVars, baseline, graph, calls>>

\* can_act
PassBudget(thread) ==
    /\ Move(thread, "check", "load")
    /\ CanAct(ToolOf(thread))
    /\ UNCHANGED <<kernelVars, budgetVars, baseline, lastTool, graph, calls>>

Mutant_ChargedAnyway(thread) ==
    /\ frames[thread].step = "check"
    /\ ~ CanAct(ToolOf(thread))
    /\ consumed' = consumed + Cost[ToolOf(thread)]
    /\ RecordBelow(thread, [kind |-> "checkpoint"])
    /\ Leave(thread, "exhausted")
    /\ UNCHANGED <<kernelVars, spent, resets, baseline, lastTool>>

StopExhausted(thread) ==
    /\ frames[thread].step = "check"
    /\ ~ CanAct(ToolOf(thread))
    /\ RecordBelow(thread, [kind |-> "checkpoint"])
    /\ Leave(thread, "exhausted")
    /\ UNCHANGED <<kernelVars, budgetVars, baseline, lastTool>>

\* consumed += autonomy_cost reads, and then writes.
LoadConsumed(thread) ==
    /\ frames[thread].step = "load"
    /\ frames' = [frames EXCEPT ![thread].step = "store",
                                ![thread].loaded = consumed]
    /\ UNCHANGED <<vars, overlapped>>

StoreConsumed(thread) ==
    /\ frames[thread].step = "store"
    /\ frames' = [frames EXCEPT ![thread].step = "log", ![thread].loaded = 0]
    /\ consumed' = frames[thread].loaded + Cost[ToolOf(thread)]
    /\ UNCHANGED <<kernelVars, spent, resets, baseline, lastTool, graph, calls,
                   overlapped>>

LogAction(thread) ==
    /\ Move(thread, "log", "compare")
    /\ spent' = Append(spent, Cost[ToolOf(thread)])
    /\ UNCHANGED <<kernelVars, consumed, resets, baseline, lastTool, graph, calls>>

StopCrossing(thread) ==
    /\ frames[thread].step = "compare"
    /\ CrossesBoundary(ToolOf(thread))
    /\ RecordBelow(thread,
         [kind |-> "semantic_delta",
          boundary |-> BoundaryType(Delta(baseline, Semantic(ToolOf(thread))))])
    /\ Leave(thread, "crossing")
    /\ UNCHANGED <<kernelVars, budgetVars, baseline, lastTool>>

PassBoundary(thread) ==
    /\ Move(thread, "compare", "settle")
    /\ ~ CrossesBoundary(ToolOf(thread))
    /\ UNCHANGED <<kernelVars, budgetVars, baseline, lastTool, graph, calls>>

Mutant_BaselineNotKept(thread) ==
    /\ frames[thread].step = "settle"
    /\ IF frames[thread].decision = "CHECKPOINT"
       THEN RecordBelow(thread, [kind |-> "checkpoint"])
       ELSE UNCHANGED graph
    /\ Leave(thread, IF frames[thread].decision \in Permitting
                     THEN "running" ELSE "refused")
    /\ UNCHANGED <<kernelVars, budgetVars, baseline, lastTool>>

Mutant_ProposalSettles(thread) ==
    /\ frames[thread].step = "settle"
    /\ baseline' = Proposed(ToolOf(thread))
    /\ UNCHANGED graph
    /\ Leave(thread, IF frames[thread].decision \in Permitting
                     THEN "running" ELSE "refused")
    /\ UNCHANGED <<kernelVars, budgetVars, lastTool>>

\* The call becomes the baseline, and the decision taken on entry counts.
Settle(thread) ==
    /\ frames[thread].step = "settle"
    /\ baseline' = Semantic(ToolOf(thread))
    /\ IF frames[thread].decision = "CHECKPOINT"
       THEN RecordBelow(thread, [kind |-> "checkpoint"])
       ELSE UNCHANGED graph
    /\ Leave(thread, IF frames[thread].decision \in Permitting
                     THEN "running" ELSE "refused")
    /\ UNCHANGED <<kernelVars, budgetVars, lastTool>>

ToolStartStep(thread) ==
    \/ \E tool \in Tools : Enter(thread, tool)
    \/ PublishCall(thread)
    \/ PassBudget(thread)
    \/ StopExhausted(thread)
    \/ LoadConsumed(thread)
    \/ StoreConsumed(thread)
    \/ LogAction(thread)
    \/ StopCrossing(thread)
    \/ PassBoundary(thread)
    \/ Settle(thread)

\* The rest of the callback and the host, at any moment.
Reset ==
    /\ ResetBudget
    /\ overlapped' = (overlapped \/ Busy # {})
    /\ UNCHANGED frames

Elsewhere ==
    /\ \/ \E i \in DOMAIN calls : OnToolEnd(i)
       \/ OnAgentFinish
       \/ \E terms \in Approvals : IssueDecisionToken(terms)
       \/ Tick
    /\ UNCHANGED threadVars

ThreadedNext ==
    \/ \E thread \in Threads : ToolStartStep(thread)
    \/ Reset
    \/ Elsewhere

ThreadedSpec == ThreadedInit /\ [][ThreadedNext]_<<vars, threadVars>>

-----------------------------------------------------------------------------
(* Properties *)

ThreadedCall ==
    [tool : Tools, operation : Operations, at : Nat, event : Nat,
     outcome : {"starting", "exhausted", "crossing", "refused", "running", "done"}]

Frame == [step : Steps, call : Nat, decision : Decisions, loaded : Nat]

ThreadedTypeOK ==
    /\ now \in Nat
    /\ tokens \in Seq(Token)
    /\ consumed \in Nat /\ spent \in Seq(Nat) /\ resets \in Nat
    /\ baseline \in {Semantic(tool) : tool \in Tools} \cup {None}
    /\ lastTool \in Nat \cup {None}
    /\ graph \in Seq(GraphEvent)
    /\ calls \in Seq(ThreadedCall)
    /\ frames \in [Threads -> Frame]
    /\ \A thread \in Busy : frames[thread].call \in DOMAIN calls
    /\ overlapped \in BOOLEAN

\* What SemanticDeltaGuard tells apart in two tools.
KindOf(tool) == <<VerbCategory(Semantic(tool).verb), Semantic(tool).effect>>

\* The single boundary class is lost to threads, but not without limit: the
\* tools that ever ran are of at most as many kinds as there are threads,
\* because each further kind needs a thread that found no baseline yet
\* (langchain_v2.py:228 and 258).
KindsBoundedByThreads ==
    Cardinality({KindOf(calls[i].tool) : i \in Admitted}) <= Cardinality(Threads)

\* The calls that got, or may yet get, past the budget.
Charged == {i \in DOMAIN calls : calls[i].outcome # "exhausted"}

\* Lost updates make the budget forget, never invent: whatever threads and
\* resets interleave, no human is asked for more than calls did cost
\* (boundary.py:231).
BudgetNeverOvercharges ==
    consumed <= SumFunction([i \in Charged |-> Cost[calls[i].tool]])

\* An auditor finds below each tool_call event the one reason for which that
\* very call was stopped, whichever threads recorded in between; a call that
\* the kernel refused shows none (langchain_v2.py 202-213, 232-249, 261-286).
GraphTellsStops ==
    \A i \in DOMAIN calls :
      LET stops == {id \in DOMAIN graph :
                      /\ graph[id].parents = <<calls[i].event>>
                      /\ graph[id].content.kind \in {"checkpoint", "semantic_delta"}}
      IN  Cardinality(stops) =
            IF calls[i].outcome \in {"exhausted", "crossing"} THEN 1 ELSE 0

\* A host that lets one thread at a time into on_tool_start keeps everything
\* that holds for a single thread, whatever results, approvals and time come
\* in between: one boundary class, an exact and bounding budget, and linked
\* results (langchain_v2.py 152-286).
SerialStartsAreExact ==
    ~ overlapped =>
      /\ SingleBoundaryClass
      /\ AutonomyIsBounded
      /\ Busy = {} => BudgetReconciles
      /\ SequentialResultsAreLinked
=============================================================================
