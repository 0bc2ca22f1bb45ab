----------------------------- MODULE LoopGuard -----------------------------
(***************************************************************************)
(* The loop breaker: AgencyGuardCallback                                   *)
(* (humanist_core/integrations/langchain_guard.py) with AgencyGuardV2      *)
(* (humanist_core/loop_breaker.py).                                        *)
(*                                                                         *)
(* The agent runner, which is external, runs chains.  A chain that a human *)
(* starts has no parent; it may start nested chains, each of which has it  *)
(* as parent.  Tools and language models run inside a chain, several at a  *)
(* time, and the guard is called from their threads, without a lock, when  *)
(* a chain starts, a tool returns or a model ends; a tool that fails calls *)
(* nothing.  Where the guard raises, the runner gives up the whole tree of *)
(* chains, though tools that are already running still end.                *)
(*                                                                         *)
(* A handler takes one step per access to the shared dictionaries, and its *)
(* locals are kept in the thread's frame.  Only on_chain_start is one      *)
(* step: its two writes are read by different handlers.                    *)
(*                                                                         *)
(*   chain   [parent, root, at]                                            *)
(*   frame   [step, chain, hops, output, typed]                            *)
(*   verdict [chain, at, read, typed, outcome]                             *)
(*                                                                         *)
(* A text is the number of its words.  The similarity window decides only  *)
(* what is printed, and is left out, except that it may fail.              *)
(***************************************************************************)
EXTENDS Integers, Sequences, FiniteSets

CONSTANTS
    Runs,               \* the run ids of chains
    Threads,            \* where the runner calls the handlers
    MaxAutoHops,        \* max_auto_hops
    MaxParallel,        \* how many tools of a chain the runner runs at once
    Outputs,            \* the words of a tool's output
    Plans,              \* the words of a text that asks for approval
    ClockSteps,         \* how far time.time() may move at once, in seconds
    None,
    MaxTools,           \* bound: tools that run or have returned
    MaxPlans,           \* bound: texts that ask for approval
    MaxTime             \* bound: the clock

Chain == [parent : Runs \cup {None}, root : Runs, at : Nat]

ASSUME RunsAssumption ==
    /\ IsFiniteSet(Runs) /\ IsFiniteSet(Threads)
    /\ None \notin Runs \cup Chain

ASSUME CountAssumption ==
    /\ MaxAutoHops \in Nat
    /\ MaxParallel \in Nat
    /\ Outputs \subseteq Nat
    /\ Plans \subseteq Nat
    /\ ClockSteps \subseteq Nat
    /\ None \notin Nat

VARIABLES
    now,                \* time.time()
    sessionHops,        \* session_hops; 0 where it has no entry
    startTimes,         \* session_start_times
    pending,            \* pending_tool_outputs; 0, as "", where it has no entry
    chains,             \* the runner's chains
    running,            \* its tools that have not ended
    frames,             \* per thread, the handler it is in
    outputs,            \* history: per chain, what its tools returned
    verdicts,           \* history: what became of texts that ask for approval
    overlapped,         \* history: the sessions whose handlers overlapped
    stopped             \* the roots of the trees that were given up

guardVars == <<sessionHops, startTimes, pending>>
vars == <<now, guardVars, chains, running, frames, outputs, verdicts, overlapped,
          stopped>>

-----------------------------------------------------------------------------
(* Rule 3, in fifths of a second *)

MinimumHumanTime(read, typed) == 3 * read + 5 * typed + 50

\* time.time() - session_start_times.get(session_id, time.time())
Elapsed(session) ==
    IF startTimes[session] = None THEN 0 ELSE 5 * (now - startTimes[session])

SessionOf(run, parent) == IF parent = None THEN run ELSE parent

Begun == {run \in Runs : chains[run] # None}
Going == {run \in Begun : chains[run].root \notin stopped}
Nested(chain) == {run \in Begun : chains[run].parent = chain}
Tree(root) == {run \in Begun : chains[run].root = root}

\* A thread that is in no handler.
Idle == [step |-> "idle", chain |-> None, hops |-> 0, output |-> 0, typed |-> 0]

\* The threads that are in on_tool_end of a chain.
Inside(chain) ==
    {thread \in Threads : /\ frames[thread].chain = chain
                          /\ frames[thread].step \in {"store", "pend", "check"}}

Judging == {thread \in Threads : frames[thread].step = "judge"}

\* How many tools run or have returned, of at most MaxTools.
Started == Cardinality({tool \in Runs \X (1 .. MaxTools) :
                            tool[2] <= Len(outputs[tool[1]]) + running[tool[1]]})

-----------------------------------------------------------------------------
Init ==
    /\ now = 0
    /\ sessionHops = [run \in Runs |-> 0]
    /\ startTimes = [run \in Runs |-> None]
    /\ pending = [run \in Runs |-> 0]
    /\ chains = [run \in Runs |-> None]
    /\ running = [run \in Runs |-> 0]
    /\ frames = [thread \in Threads |-> Idle]
    /\ outputs = [run \in Runs |-> << >>]
    /\ verdicts = {}
    /\ overlapped = {}
    /\ stopped = {}

\* parent = None: a human starts a chain.
OnChainStart(run, parent) ==
    LET session == SessionOf(run, parent)
        root    == IF parent = None THEN run ELSE chains[parent].root
    IN  /\ run \notin Begun
        /\ parent \in Going \cup {None}
        /\ chains' = [chains EXCEPT ![run] =
                         [parent |-> parent, root |-> root, at |-> now]]
        /\ sessionHops' = [sessionHops EXCEPT ![session] = 0]
        /\ startTimes' = [startTimes EXCEPT ![session] = now]
        /\ overlapped' = overlapped \cup {chain \in {session} : Inside(chain) # {}}
        /\ UNCHANGED <<now, pending, running, frames, outputs, verdicts, stopped>>

\* The runner starts a tool; the guard has no handler for it.  A tool occupies
\* its place until on_tool_end is done.
ToolStart(chain) ==
    /\ chain \in Going
    /\ running[chain] + Cardinality(Inside(chain)) < MaxParallel
    /\ Started < MaxTools
    /\ running' = [running EXCEPT ![chain] = @ + 1]
    /\ UNCHANGED <<now, guardVars, chains, frames, outputs, verdicts, overlapped,
                   stopped>>

\* A tool fails; the guard has no handler for that either.
ToolError(chain) ==
    /\ running[chain] > 0
    /\ running' = [running EXCEPT ![chain] = @ - 1]
    /\ UNCHANGED <<now, guardVars, chains, frames, outputs, verdicts, overlapped,
                   stopped>>

-----------------------------------------------------------------------------
(* on_tool_end *)

\* A tool returns, and the count is read.
OnToolEnd(thread, chain, output) ==
    /\ frames[thread] = Idle
    /\ running[chain] > 0
    /\ running' = [running EXCEPT ![chain] = @ - 1]
    /\ outputs' = [outputs EXCEPT ![chain] = Append(@, output)]
    /\ frames' = [frames EXCEPT ![thread] =
                     [step |-> "store", chain |-> chain, hops |-> sessionHops[chain],
                      output |-> output, typed |-> 0]]
    /\ overlapped' = overlapped \cup {other \in {chain} : Inside(other) # {}}
    /\ UNCHANGED <<now, guardVars, chains, verdicts, stopped>>

StoreHops(thread) ==
    LET frame == frames[thread]
    IN  /\ frame.step = "store"
        /\ sessionHops' = [sessionHops EXCEPT ![frame.chain] = frame.hops + 1]
        /\ frames' = [frames EXCEPT ![thread] =
                         [frame EXCEPT !.step = "pend", !.hops = 0]]
        /\ UNCHANGED <<now, startTimes, pending, chains, running, outputs,
                       verdicts, overlapped, stopped>>

\* The pending output is the run instead of what it returned.
Mutant_RunIsPending(thread) ==
    LET frame == frames[thread]
    IN  /\ frame.step = "pend"
        /\ pending' = [pending EXCEPT ![frame.chain] = frame.chain]
        /\ frames' = [frames EXCEPT ![thread] = [frame EXCEPT !.step = "check"]]
        /\ UNCHANGED <<now, sessionHops, startTimes, chains, running, outputs,
                       verdicts, overlapped, stopped>>

StorePending(thread) ==
    LET frame == frames[thread]
    IN  /\ frame.step = "pend"
        /\ pending' = [pending EXCEPT ![frame.chain] = frame.output]
        /\ frames' = [frames EXCEPT ![thread] = [frame EXCEPT !.step = "check"]]
        /\ UNCHANGED <<now, sessionHops, startTimes, chains, running, outputs,
                       verdicts, overlapped, stopped>>

\* The limit is the first count that is refused.
Mutant_StoppedAtLimit(chain) ==
    IF sessionHops[chain] >= MaxAutoHops THEN {chains[chain].root} ELSE {}

\* The count that was read is compared, not the one that was stored.
Mutant_StoppedLate(chain) ==
    IF sessionHops[chain] - 1 > MaxAutoHops THEN {chains[chain].root} ELSE {}

\* AutonomousLoopDetected is raised once the tool has run.
StoppedByHops(chain) ==
    IF sessionHops[chain] > MaxAutoHops THEN {chains[chain].root} ELSE {}

\* The count is read once more to compare it.
CheckHops(thread) ==
    /\ frames[thread].step = "check"
    /\ stopped' = stopped \cup StoppedByHops(frames[thread].chain)
    /\ frames' = [frames EXCEPT ![thread] = Idle]
    /\ UNCHANGED <<now, guardVars, chains, running, outputs, verdicts, overlapped>>

-----------------------------------------------------------------------------
(* on_llm_end, for a text that asks for approval *)

TextArrives(chain) ==
    /\ chain \in Going
    /\ Cardinality(verdicts) + Cardinality(Judging) < MaxPlans

Verdict(chain, read, plan, outcome) ==
    [chain |-> chain, at |-> now, read |-> read, typed |-> plan, outcome |-> outcome]

\* An error of the similarity analyser is swallowed before the text is checked.
PlanUnchecked(chain, plan) ==
    /\ TextArrives(chain)
    /\ verdicts' = verdicts \cup {Verdict(chain, 0, plan, "unchecked")}
    /\ UNCHANGED <<now, guardVars, chains, running, frames, outputs, overlapped,
                   stopped>>

\* The pending output is read.
OnLlmEnd(thread, chain, plan) ==
    /\ frames[thread] = Idle
    /\ TextArrives(chain)
    /\ frames' = [frames EXCEPT ![thread] =
                     [step |-> "judge", chain |-> chain, hops |-> 0,
                      output |-> pending[chain], typed |-> plan]]
    /\ UNCHANGED <<now, guardVars, chains, running, outputs, verdicts, overlapped,
                   stopped>>

TooFast(frame) ==
    Elapsed(frame.chain) < MinimumHumanTime(frame.output, frame.typed)

\* The clock and the start time are read, and the text is judged.
Judge(thread, outcome) ==
    LET frame == frames[thread]
    IN  /\ frame.step = "judge"
        /\ verdicts' = verdicts \cup
               {Verdict(frame.chain, frame.output, frame.typed, outcome)}
        /\ frames' = [frames EXCEPT ![thread] = Idle]
        /\ UNCHANGED <<now, guardVars, chains, running, outputs, overlapped>>

PlanAccepted(thread) ==
    /\ Judge(thread, "accepted")
    /\ ~TooFast(frames[thread])
    /\ UNCHANGED stopped

PlanBlocked(thread) ==
    /\ Judge(thread, "blocked")
    /\ TooFast(frames[thread])
    /\ stopped' = stopped \cup {chains[frames[thread].chain].root}

-----------------------------------------------------------------------------
Tick ==
    /\ \E step \in ClockSteps :
           /\ now + step <= MaxTime
           /\ now' = now + step
    /\ UNCHANGED <<guardVars, chains, running, frames, outputs, verdicts, overlapped,
                   stopped>>

Next ==
    \/ \E run \in Runs, parent \in Runs \cup {None} : OnChainStart(run, parent)
    \/ \E chain \in Runs : ToolStart(chain) \/ ToolError(chain)
    \/ \E thread \in Threads, chain \in Runs, output \in Outputs :
           OnToolEnd(thread, chain, output)
    \/ \E thread \in Threads :
           StoreHops(thread) \/ StorePending(thread) \/ CheckHops(thread)
    \/ \E chain \in Runs, plan \in Plans :
           \/ PlanUnchecked(chain, plan)
           \/ \E thread \in Threads : OnLlmEnd(thread, chain, plan)
    \/ \E thread \in Threads : PlanAccepted(thread) \/ PlanBlocked(thread)
    \/ Tick

Spec == Init /\ [][Next]_vars

-----------------------------------------------------------------------------
(* Properties *)

Frame ==
    {Idle} \cup
    [step : {"store", "pend", "check", "judge"}, chain : Runs, hops : Nat,
     output : Nat, typed : Nat]

Verdicts == [chain : Runs, at : Nat, read : Nat, typed : Nat,
             outcome : {"unchecked", "accepted", "blocked"}]

\* The guard's dictionaries hold counts, times and outputs, every chain of
\* the runner belongs to a tree of chains, and a handler works on a chain.
TypeOK ==
    /\ now \in Nat
    /\ sessionHops \in [Runs -> Nat]
    /\ startTimes \in [Runs -> Nat \cup {None}]
    /\ pending \in [Runs -> Nat]
    /\ chains \in [Runs -> Chain \cup {None}]
    /\ running \in [Runs -> Nat]
    /\ frames \in [Threads -> Frame]
    /\ outputs \in [Runs -> Seq(Nat)]
    /\ verdicts \subseteq Verdicts
    /\ overlapped \subseteq Runs
    /\ stopped \subseteq Runs

\* What the guard does bound, for a chain during whose on_tool_end no other
\* tool of it returned and no chain started below it: its tools return
\* max_auto_hops times, as often again for every chain started directly below
\* it, and then no more of them than were running together.  Tools that fail
\* are not counted, here or by the guard.
AutonomyIsBounded ==
    \A chain \in Runs \ overlapped :
        Len(outputs[chain]) <=
            MaxAutoHops * (1 + Cardinality(Nested(chain))) + MaxParallel

Returned(chain) == {outputs[chain][call] : call \in DOMAIN outputs[chain]}

\* Whatever handlers overlap, a tree is given up only if more tools of one of
\* its chains returned than max_auto_hops, or it asked for approval sooner than
\* a human could have, given nothing to read or an output of that chain's
\* tools, since a chain of its session started, or with no chain ever started
\* in its session.
StopsAreDeserved ==
    \A root \in stopped :
        \/ \E chain \in Tree(root) : Len(outputs[chain]) > MaxAutoHops
        \/ \E verdict \in verdicts :
               LET session == {run \in Begun :
                       SessionOf(run, chains[run].parent) = verdict.chain}
                   needed  == MinimumHumanTime(verdict.read, verdict.typed)
               IN  /\ verdict.chain \in Tree(root)
                   /\ verdict.outcome = "blocked"
                   /\ verdict.read \in {0} \cup Returned(verdict.chain)
                   /\ \/ session = {}
                      \/ \E run \in session :
                             5 * (verdict.at - chains[run].at) < needed

\* "Reset autonomous counters on human initiation": nothing a human does falls
\* into the life of a chain, so its tools exceed the limit only by those that
\* were running when it was reached.
HopLimitPerInitiation ==
    \A chain \in Begun : Len(outputs[chain]) <= MaxAutoHops + MaxParallel

\* "Each tool execution increments hop counter" and "If hop_count >
\* max_auto_hops" the loop is broken: once the handlers of a chain with no
\* nested chains are done, more tools than the limit mean that its tree was
\* given up.
EveryToolCounts ==
    \A chain \in Begun :
        Nested(chain) = {} /\ Inside(chain) = {} /\ Len(outputs[chain]) > MaxAutoHops
            => chains[chain].root \in stopped

\* "if elapsed < minimum_reading_time: raise NotHuman()" is what the code must
\* never do: of two texts as long as each other, after outputs as long as each
\* other, time does not let one pass and block the other.
TimeIsNoJudge ==
    \A verdict, other \in verdicts :
        "unchecked" \notin {verdict.outcome, other.outcome} =>
            (verdict.read = other.read /\ verdict.typed = other.typed
                => verdict.outcome = other.outcome)

\* "using parent_run_id to track the whole chain": a text is blocked only if it
\* came sooner than a human could have since some chain of its tree started.
WholeChainIsTimed ==
    \A verdict \in verdicts :
        verdict.outcome = "blocked" =>
            \E run \in Tree(chains[verdict.chain].root) :
                5 * (verdict.at - chains[run].at) <
                    MinimumHumanTime(verdict.read, verdict.typed)
=============================================================================
