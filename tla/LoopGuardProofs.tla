-------------------------- MODULE LoopGuardProofs --------------------------
(***************************************************************************)
(* LoopGuard's theorems, for all runs, threads, limits and bounds.  The    *)
(* bound on autonomy is not inductive: it does not say how much of it the  *)
(* current count stands for.  Account does: every nested start forgives at *)
(* most max_auto_hops, since the tree has not been given up, and what has  *)
(* not been forgiven is the count, or is about to be counted by the one    *)
(* thread that is in on_tool_end of the chain.  SessionAccount says of     *)
(* every interleaving that a count, stored or about to be, is of tools     *)
(* that returned, an output to read one of theirs, and a start time that   *)
(* of a chain of the session.                                              *)
(***************************************************************************)
EXTENDS LoopGuard, FiniteSetTheorems, TLAPS

-----------------------------------------------------------------------------
(* Type correctness *)

Busy == [step : {"store", "pend", "check", "judge"}, chain : Runs, hops : Nat,
         output : Nat, typed : Nat]

\* Tools run in chains that were started, and handlers are called for those.
OnlyBegun ==
    /\ \A chain \in Runs : running[chain] > 0 => chain \in Begun
    /\ \A thread \in Threads :
           frames[thread].step # "idle" => frames[thread].chain \in Begun

TypeInv == TypeOK /\ OnlyBegun

\* A thread that is in a handler works on a chain.
LEMMA FrameType ==
  ASSUME TypeInv, NEW thread \in Threads, frames[thread].step # "idle"
  PROVE  /\ frames[thread] \in Busy
         /\ frames[thread].step \in {"store", "pend", "check", "judge"}
         /\ frames[thread].chain \in Runs /\ frames[thread].hops \in Nat
         /\ frames[thread].output \in Nat /\ frames[thread].typed \in Nat
         /\ frames[thread].chain \in Begun
<1>1. frames[thread] \in Frame
  BY DEF TypeInv, TypeOK
<1>2. frames[thread] # Idle
  BY DEF Idle
<1>3. frames[thread] \in Busy
  BY <1>1, <1>2 DEF Frame, Busy
<1> QED BY <1>3 DEF Busy, TypeInv, OnlyBegun

\* The root of a chain is a run.
LEMMA RootType ==
  ASSUME TypeOK, NEW chain \in Begun
  PROVE  chains[chain] \in Chain /\ chains[chain].root \in Runs
BY DEF TypeOK, Begun, Chain

\* A chain that starts has begun, and nothing else has.
LEMMA ChainBegins ==
  ASSUME TypeOK, NEW run \in Runs, NEW parent \in Runs \cup {None},
         OnChainStart(run, parent)
  PROVE  /\ Begun' = Begun \cup {run}
         /\ chains' \in [Runs -> Chain \cup {None}]
<1> DEFINE root == IF parent = None THEN run ELSE chains[parent].root
           new  == [parent |-> parent, root |-> root, at |-> now]
<1>1. root \in Runs
  BY RootType DEF OnChainStart, Going
<1>2. new \in Chain
  BY <1>1 DEF Chain, TypeOK
<1>3. new # None
  BY <1>2, RunsAssumption
<1>4. chains' = [chains EXCEPT ![run] = new]
  BY DEF OnChainStart
<1> HIDE DEF new
<1> QED BY <1>2, <1>3, <1>4 DEF Begun, TypeOK

\* A new frame for a chain that has begun keeps what is said of frames.
LEMMA FramesKept ==
  ASSUME TypeInv, NEW thread \in Threads, NEW frame \in Busy \cup {Idle},
         frame.step # "idle" => frame.chain \in Begun, chains' = chains,
         frames' = [frames EXCEPT ![thread] = frame]
  PROVE  /\ frames' \in [Threads -> Frame]
         /\ \A other \in Threads :
                frames'[other].step # "idle" => frames'[other].chain \in Begun'
<1>1. frame \in Frame
  BY DEF Frame, Busy
<1>2. \A other \in Threads :
        frames'[other] = IF other = thread THEN frame ELSE frames[other]
  BY DEF TypeInv, TypeOK
<1>3. Begun' = Begun
  BY DEF Begun
<1> QED BY <1>1, <1>2, <1>3 DEF TypeInv, TypeOK, OnlyBegun

\* Every step keeps the types.
LEMMA TypeKept ==
  ASSUME TypeInv, [Next]_vars
  PROVE  TypeInv'
<1> USE DEF TypeInv
<1>1. ASSUME NEW run \in Runs, NEW parent \in Runs \cup {None},
             OnChainStart(run, parent)
      PROVE  TypeInv'
  <2>1. Begun' = Begun \cup {run} /\ chains' \in [Runs -> Chain \cup {None}]
    BY <1>1, ChainBegins
  <2>2. SessionOf(run, parent) \in Runs
    BY DEF SessionOf
  <2>3. /\ sessionHops' \in [Runs -> Nat] /\ startTimes' \in [Runs -> Nat \cup {None}]
        /\ overlapped' \subseteq Runs
    BY <1>1, <2>2 DEF OnChainStart, TypeOK
  <2> QED BY <1>1, <2>1, <2>3 DEF OnChainStart, TypeOK, OnlyBegun
<1>2. ASSUME NEW chain \in Runs, ToolStart(chain) \/ ToolError(chain)
      PROVE  TypeInv'
  <2>1. /\ running' \in [Runs -> Nat]
        /\ Begun' = Begun /\ UNCHANGED frames
    <3>1. PICK tools \in Nat : running' = [running EXCEPT ![chain] = tools]
      BY <1>2 DEF ToolStart, ToolError, TypeOK
    <3>2. running' \in [Runs -> Nat]
      BY <3>1 DEF TypeOK
    <3> QED BY <1>2, <3>2 DEF ToolStart, ToolError, Begun
  <2>2. \A other \in Runs : running'[other] > 0 => other \in Begun
    BY <1>2 DEF ToolStart, ToolError, TypeOK, OnlyBegun, Going
  <2>3. OnlyBegun'
    BY <2>1, <2>2 DEF OnlyBegun
  <2> QED BY <1>2, <2>1, <2>3 DEF ToolStart, ToolError, TypeOK, guardVars
<1>3. ASSUME NEW thread \in Threads, NEW chain \in Runs, NEW output \in Outputs,
             OnToolEnd(thread, chain, output)
      PROVE  TypeInv'
  <2> DEFINE frame == [step |-> "store", chain |-> chain, hops |-> sessionHops[chain],
                       output |-> output, typed |-> 0]
  <2>1. /\ running' \in [Runs -> Nat] /\ overlapped' \subseteq Runs
        /\ \A other \in Runs : running'[other] > 0 => running[other] > 0
    BY <1>3 DEF OnToolEnd, TypeOK
  <2>2. output \in Nat /\ outputs' \in [Runs -> Seq(Nat)]
    BY <1>3, CountAssumption DEF OnToolEnd, TypeOK
  <2>3. frame \in Busy /\ frame.chain = chain
    BY <2>2 DEF Busy, TypeOK
  <2>4. chain \in Begun /\ chains' = chains /\ Begun' = Begun
        /\ frames' = [frames EXCEPT ![thread] = frame]
    BY <1>3 DEF OnToolEnd, OnlyBegun, Begun
  <2> HIDE DEF frame
  <2>5. /\ frames' \in [Threads -> Frame]
        /\ \A other \in Threads :
               frames'[other].step # "idle" => frames'[other].chain \in Begun'
    BY <2>3, <2>4, FramesKept
  <2>6. OnlyBegun'
    BY <2>1, <2>4, <2>5 DEF OnlyBegun
  <2> QED BY <1>3, <2>1, <2>2, <2>5, <2>6 DEF OnToolEnd, TypeOK, guardVars
<1>4. ASSUME NEW thread \in Threads, StoreHops(thread)
      PROVE  TypeInv'
  <2> DEFINE frame == [frames[thread] EXCEPT !.step = "pend", !.hops = 0]
  <2>1. frames[thread].chain \in Begun /\ frames[thread].chain \in Runs
        /\ frames[thread].hops \in Nat /\ frames[thread] \in Busy
    BY <1>4, FrameType DEF StoreHops
  <2>2. sessionHops' \in [Runs -> Nat]
    BY <1>4, <2>1 DEF StoreHops, TypeOK
  <2>3. frame \in Busy /\ frame.chain = frames[thread].chain
    BY <2>1 DEF Busy
  <2>4. frames' = [frames EXCEPT ![thread] = frame] /\ chains' = chains
        /\ running' = running /\ Begun' = Begun
    BY <1>4 DEF StoreHops, Begun
  <2> HIDE DEF frame
  <2>5. /\ frames' \in [Threads -> Frame]
        /\ \A other \in Threads :
               frames'[other].step # "idle" => frames'[other].chain \in Begun'
    BY <2>1, <2>3, <2>4, FramesKept
  <2>6. OnlyBegun'
    BY <2>4, <2>5 DEF OnlyBegun
  <2> QED BY <1>4, <2>2, <2>5, <2>6 DEF StoreHops, TypeOK
<1>5. ASSUME NEW thread \in Threads, StorePending(thread)
      PROVE  TypeInv'
  <2> DEFINE frame == [frames[thread] EXCEPT !.step = "check"]
  <2>1. frames[thread].chain \in Begun /\ frames[thread].chain \in Runs
        /\ frames[thread].output \in Nat /\ frames[thread] \in Busy
    BY <1>5, FrameType DEF StorePending
  <2>2. pending' \in [Runs -> Nat]
    BY <1>5, <2>1 DEF StorePending, TypeOK
  <2>3. frame \in Busy /\ frame.chain = frames[thread].chain
    BY <2>1 DEF Busy
  <2>4. frames' = [frames EXCEPT ![thread] = frame] /\ chains' = chains
        /\ running' = running /\ Begun' = Begun
    BY <1>5 DEF StorePending, Begun
  <2> HIDE DEF frame
  <2>5. /\ frames' \in [Threads -> Frame]
        /\ \A other \in Threads :
               frames'[other].step # "idle" => frames'[other].chain \in Begun'
    BY <2>1, <2>3, <2>4, FramesKept
  <2>6. OnlyBegun'
    BY <2>4, <2>5 DEF OnlyBegun
  <2> QED BY <1>5, <2>2, <2>5, <2>6 DEF StorePending, TypeOK
<1>6. ASSUME NEW thread \in Threads,
             frames' = [frames EXCEPT ![thread] = Idle], chains' = chains,
             running' = running
      PROVE  frames' \in [Threads -> Frame] /\ OnlyBegun'
  <2>1. Idle.step = "idle" /\ Begun' = Begun
    BY <1>6 DEF Idle, Begun
  <2>2. /\ frames' \in [Threads -> Frame]
        /\ \A other \in Threads :
               frames'[other].step # "idle" => frames'[other].chain \in Begun'
    BY <1>6, <2>1, FramesKept
  <2> QED BY <1>6, <2>1, <2>2 DEF OnlyBegun
<1>7. ASSUME NEW thread \in Threads, CheckHops(thread)
      PROVE  TypeInv'
  <2>1. frames' \in [Threads -> Frame] /\ OnlyBegun'
    BY <1>6, <1>7 DEF CheckHops
  <2>2. chains[frames[thread].chain].root \in Runs
    BY <1>7, FrameType, RootType DEF CheckHops
  <2>3. stopped' \subseteq Runs
    BY <1>7, <2>2 DEF CheckHops, StoppedByHops, TypeOK
  <2> QED BY <1>7, <2>1, <2>3 DEF CheckHops, TypeOK, guardVars
<1>8. ASSUME NEW chain \in Runs, NEW plan \in Plans, PlanUnchecked(chain, plan)
      PROVE  TypeInv'
  <2>1. Verdict(chain, 0, plan, "unchecked") \in Verdicts
    BY CountAssumption DEF Verdict, Verdicts, TypeOK
  <2>2. Begun' = Begun
    BY <1>8 DEF PlanUnchecked, Begun
  <2> QED BY <1>8, <2>1, <2>2 DEF PlanUnchecked, TypeOK, OnlyBegun, guardVars
<1>9. ASSUME NEW thread \in Threads, NEW chain \in Runs, NEW plan \in Plans,
             OnLlmEnd(thread, chain, plan)
      PROVE  TypeInv'
  <2> DEFINE frame == [step |-> "judge", chain |-> chain, hops |-> 0,
                       output |-> pending[chain], typed |-> plan]
  <2>1. frame \in Busy /\ frame.chain = chain
    BY CountAssumption DEF Busy, TypeOK
  <2>2. frames' = [frames EXCEPT ![thread] = frame] /\ chains' = chains
        /\ running' = running /\ chain \in Begun /\ Begun' = Begun
    BY <1>9 DEF OnLlmEnd, TextArrives, Going, Begun
  <2> HIDE DEF frame
  <2>3. /\ frames' \in [Threads -> Frame]
        /\ \A other \in Threads :
               frames'[other].step # "idle" => frames'[other].chain \in Begun'
    BY <2>1, <2>2, FramesKept
  <2>4. OnlyBegun'
    BY <2>2, <2>3 DEF OnlyBegun
  <2> QED BY <1>9, <2>3, <2>4 DEF OnLlmEnd, TypeOK, guardVars
<1>10. ASSUME NEW thread \in Threads, PlanAccepted(thread) \/ PlanBlocked(thread)
       PROVE  TypeInv'
  <2>1. PICK outcome \in {"accepted", "blocked"} : Judge(thread, outcome)
    BY <1>10 DEF PlanAccepted, PlanBlocked
  <2>2. frames' \in [Threads -> Frame] /\ OnlyBegun'
    BY <1>6, <2>1 DEF Judge
  <2>3. /\ frames[thread].chain \in Runs /\ frames[thread].output \in Nat
        /\ frames[thread].typed \in Nat
        /\ chains[frames[thread].chain].root \in Runs
    BY <2>1, FrameType, RootType DEF Judge
  <2>4. Verdict(frames[thread].chain, frames[thread].output, frames[thread].typed,
                outcome) \in Verdicts
    BY <2>3 DEF Verdict, Verdicts, TypeOK
  <2>5. stopped' \subseteq Runs
    BY <1>10, <2>3 DEF PlanAccepted, PlanBlocked, TypeOK
  <2> QED BY <2>1, <2>2, <2>4, <2>5 DEF Judge, TypeOK, guardVars
<1>11. CASE Tick
  <2>1. now' \in Nat /\ Begun' = Begun
    BY <1>11, CountAssumption DEF Tick, TypeOK, Begun
  <2> QED BY <1>11, <2>1 DEF Tick, TypeOK, OnlyBegun, guardVars
<1>12. CASE UNCHANGED vars
  <2>1. Begun' = Begun
    BY <1>12 DEF vars, Begun
  <2> QED BY <1>12, <2>1 DEF vars, guardVars, TypeOK, OnlyBegun
<1> QED BY <1>1, <1>2, <1>3, <1>4, <1>5, <1>7, <1>8, <1>9, <1>10, <1>11, <1>12
        DEF Next

\* Nothing is in a handler before a chain has started.
LEMMA TypeInvariant == Spec => []TypeInv
<1>1. Init => TypeInv
  BY DEF Init, TypeInv, TypeOK, OnlyBegun, Frame, Idle
<1> QED BY <1>1, TypeKept, PTL DEF Spec

\* Every reachable state of the guard and its runner is well typed.
THEOREM TypeCorrect == Spec => []TypeOK
BY TypeInvariant, PTL DEF TypeInv

-----------------------------------------------------------------------------
(* Who is in on_tool_end of a chain *)

\* The threads and the chains below one are finitely many.
LEMMA Finite ==
  ASSUME NEW chain
  PROVE  /\ IsFiniteSet(Nested(chain)) /\ Cardinality(Nested(chain)) \in Nat
         /\ IsFiniteSet(Inside(chain)) /\ Cardinality(Inside(chain)) \in Nat
<1>1. Nested(chain) \subseteq Runs /\ Inside(chain) \subseteq Threads
  BY DEF Nested, Begun, Inside
<1> QED BY <1>1, RunsAssumption, FS_Subset, FS_CardinalityType

\* A thread that begins on_tool_end is in it, and nothing changes elsewhere.
LEMMA Enters ==
  ASSUME TypeInv, NEW thread \in Threads, NEW chain \in Runs, NEW output \in Outputs,
         OnToolEnd(thread, chain, output), NEW other \in Runs
  PROVE  /\ thread \notin Inside(other)
         /\ Inside(other)' = IF other = chain THEN Inside(other) \cup {thread}
                             ELSE Inside(other)
         /\ frames'[thread].step = "store" /\ frames'[thread].chain = chain
         /\ frames'[thread].hops = sessionHops[chain]
         /\ frames'[thread].output = output
         /\ \A another \in Threads \ {thread} : frames'[another] = frames[another]
<1>1. frames'[thread] = [step |-> "store", chain |-> chain,
                         hops |-> sessionHops[chain], output |-> output, typed |-> 0]
  BY DEF OnToolEnd, TypeInv, TypeOK
<1>2. \A another \in Threads \ {thread} : frames'[another] = frames[another]
  BY DEF OnToolEnd, TypeInv, TypeOK
<1>3. frames[thread].step = "idle"
  BY DEF OnToolEnd, Idle
<1>4. thread \notin Inside(other)
  BY <1>3 DEF Inside
<1>5. Inside(other)' = IF other = chain THEN Inside(other) \cup {thread}
                       ELSE Inside(other)
  BY <1>1, <1>2, <1>4 DEF Inside
<1> QED BY <1>1, <1>2, <1>4, <1>5

\* The steps in on_tool_end before the last one leave everybody inside.
LEMMA Proceeds ==
  ASSUME TypeInv, NEW thread \in Threads, StoreHops(thread) \/ StorePending(thread)
  PROVE  /\ \A other \in Runs : Inside(other)' = Inside(other)
         /\ thread \in Inside(frames[thread].chain)
         /\ frames[thread].chain \in Runs /\ frames[thread].hops \in Nat
         /\ frames'[thread].step \in {"pend", "check"}
         /\ frames'[thread].chain = frames[thread].chain
         /\ frames'[thread].output = frames[thread].output
         /\ \A another \in Threads \ {thread} : frames'[another] = frames[another]
<1>1. frames[thread].step \in {"store", "pend"}
  BY DEF StoreHops, StorePending
<1>2. frames[thread] \in Busy /\ frames[thread].chain \in Runs
      /\ frames[thread].hops \in Nat
  BY <1>1, FrameType
<1>3. /\ frames'[thread].step \in {"pend", "check"}
      /\ frames'[thread].chain = frames[thread].chain
      /\ frames'[thread].output = frames[thread].output
      /\ \A another \in Threads \ {thread} : frames'[another] = frames[another]
  <2>1. CASE StoreHops(thread)
    <3> DEFINE frame == [frames[thread] EXCEPT !.step = "pend", !.hops = 0]
    <3>1. /\ frame.step = "pend" /\ frame.chain = frames[thread].chain
          /\ frame.output = frames[thread].output
      BY <1>2 DEF Busy
    <3>2. frames' = [frames EXCEPT ![thread] = frame]
      BY <2>1 DEF StoreHops
    <3> HIDE DEF frame
    <3> QED BY <3>1, <3>2 DEF TypeInv, TypeOK
  <2>2. CASE StorePending(thread)
    <3> DEFINE frame == [frames[thread] EXCEPT !.step = "check"]
    <3>1. /\ frame.step = "check" /\ frame.chain = frames[thread].chain
          /\ frame.output = frames[thread].output
      BY <1>2 DEF Busy
    <3>2. frames' = [frames EXCEPT ![thread] = frame]
      BY <2>2 DEF StorePending
    <3> HIDE DEF frame
    <3> QED BY <3>1, <3>2 DEF TypeInv, TypeOK
  <2> QED BY <2>1, <2>2
<1> QED BY <1>1, <1>2, <1>3 DEF Inside

\* A thread that has compared the count is no longer inside.
LEMMA Leaves ==
  ASSUME TypeInv, NEW thread \in Threads, CheckHops(thread), NEW other \in Runs
  PROVE  /\ thread \in Inside(frames[thread].chain)
         /\ frames[thread].chain \in Runs
         /\ Inside(other)' = IF other = frames[thread].chain
                             THEN Inside(other) \ {thread} ELSE Inside(other)
         /\ frames'[thread].step = "idle"
         /\ \A another \in Threads \ {thread} : frames'[another] = frames[another]
<1>1. frames[thread].step = "check" /\ frames[thread].chain \in Runs
  BY FrameType DEF CheckHops
<1>2. /\ frames'[thread].step = "idle"
      /\ \A another \in Threads \ {thread} : frames'[another] = frames[another]
  BY DEF CheckHops, Idle, TypeInv, TypeOK
<1>3. thread \in Inside(frames[thread].chain)
  BY <1>1 DEF Inside
<1>4. Inside(other)' = IF other = frames[thread].chain
                       THEN Inside(other) \ {thread} ELSE Inside(other)
  <2>1. thread \notin Inside(other)'
    BY <1>2 DEF Inside
  <2>2. other # frames[thread].chain => thread \notin Inside(other)
    BY DEF Inside
  <2>3. \A another \in Threads \ {thread} :
          another \in Inside(other)' <=> another \in Inside(other)
    BY <1>2 DEF Inside
  <2>4. Inside(other) \subseteq Threads /\ Inside(other)' \subseteq Threads
    BY DEF Inside
  <2> QED BY <2>1, <2>2, <2>3, <2>4
<1> QED BY <1>1, <1>2, <1>3, <1>4

-----------------------------------------------------------------------------
(* The bound on autonomy *)

\* What nested starts have forgiven.
Forgiven(chain) == MaxAutoHops * Cardinality(Nested(chain))

\* Nobody is in on_tool_end of the chain: its count is all that is not forgiven,
\* and what is running fits into what is left.
Quiet(chain) ==
    /\ Inside(chain) = {}
    /\ Len(outputs[chain]) <= Forgiven(chain) + sessionHops[chain]
    /\ chain \in Going => sessionHops[chain] <= MaxAutoHops
    /\ sessionHops[chain] + running[chain] <= MaxAutoHops + MaxParallel

\* One thread is, with the count it has read still that of the chain.
Counting(chain, thread) ==
    /\ Inside(chain) = {thread}
    /\ frames[thread].step = "store"
    /\ frames[thread].hops = sessionHops[chain]
    /\ Len(outputs[chain]) <= Forgiven(chain) + sessionHops[chain] + 1
    /\ chain \in Going => sessionHops[chain] <= MaxAutoHops
    /\ sessionHops[chain] + 1 + running[chain] <= MaxAutoHops + MaxParallel

\* One thread is, and has stored a count that it has not compared yet.
Counted(chain, thread) ==
    /\ Inside(chain) = {thread}
    /\ frames[thread].step # "store"
    /\ Len(outputs[chain]) <= Forgiven(chain) + sessionHops[chain]
    /\ chain \in Going => sessionHops[chain] <= MaxAutoHops + 1
    /\ sessionHops[chain] + running[chain] <= MaxAutoHops + MaxParallel

InTurn(chain) ==
    \/ Quiet(chain)
    \/ \E thread \in Threads : Counting(chain, thread) \/ Counted(chain, thread)

Account(chain) ==
    /\ chain \notin Begun => /\ outputs[chain] = << >> /\ sessionHops[chain] = 0
                             /\ running[chain] = 0 /\ Inside(chain) = {}
    /\ running[chain] + Cardinality(Inside(chain)) <= MaxParallel
    /\ chain \notin overlapped => InTurn(chain)

HopsAccount == \A chain \in Runs : Account(chain)

\* One more nested chain forgives one more limit.
LEMMA OneMoreLimit ==
  ASSUME NEW n \in Nat
  PROVE  MaxAutoHops * (n + 1) = MaxAutoHops * n + MaxAutoHops
BY CountAssumption

LEMMA ForgivenType ==
  ASSUME NEW chain
  PROVE  Forgiven(chain) \in Nat
BY Finite, CountAssumption DEF Forgiven

LEMMA CountsType ==
  ASSUME TypeInv, NEW chain \in Runs
  PROVE  /\ sessionHops[chain] \in Nat /\ running[chain] \in Nat
         /\ Len(outputs[chain]) \in Nat
         /\ MaxAutoHops \in Nat /\ MaxParallel \in Nat
BY CountAssumption DEF TypeInv, TypeOK

\* A chain that starts is one more chain below its parent, and below no other.
LEMMA OneMoreNested ==
  ASSUME TypeInv, NEW run \in Runs, NEW parent \in Runs \cup {None},
         OnChainStart(run, parent), NEW chain \in Runs
  PROVE  /\ chain = parent =>
                Cardinality(Nested(chain)') = Cardinality(Nested(chain)) + 1
         /\ chain # parent => Nested(chain)' = Nested(chain)
<1>1. Begun' = Begun \cup {run}
  BY ChainBegins DEF TypeInv
<1>2. /\ run \notin Begun
      /\ chains'[run].parent = parent
      /\ \A other \in Begun : chains'[other] = chains[other]
  BY DEF OnChainStart, Begun, TypeInv, TypeOK
<1>3. CASE chain = parent
  <2>1. Nested(chain)' = Nested(chain) \cup {run}
    BY <1>1, <1>2, <1>3 DEF Nested
  <2>2. run \notin Nested(chain)
    BY <1>2 DEF Nested
  <2> QED BY <1>3, <2>1, <2>2, Finite, FS_AddElement
<1>4. CASE chain # parent
  BY <1>1, <1>2, <1>4 DEF Nested
<1> QED BY <1>3, <1>4

\* Where nothing of a chain moves but that its tree may be given up, its account
\* stays.
LEMMA AccountKept ==
  ASSUME NEW chain \in Runs, Account(chain),
         chain \in Begun => chain \in Begun',
         chain \in Going' => chain \in Going,
         Nested(chain)' = Nested(chain), Inside(chain)' = Inside(chain),
         \A thread \in Inside(chain) : frames'[thread] = frames[thread],
         overlapped \subseteq overlapped',
         outputs'[chain] = outputs[chain], sessionHops'[chain] = sessionHops[chain],
         running'[chain] = running[chain]
  PROVE  Account(chain)'
<1>1. Forgiven(chain)' = Forgiven(chain)
  BY DEF Forgiven
<1>2. Quiet(chain) => Quiet(chain)'
  BY <1>1 DEF Quiet
<1>3. \A thread \in Threads : Counting(chain, thread) => Counting(chain, thread)'
  BY <1>1 DEF Counting
<1>4. \A thread \in Threads : Counted(chain, thread) => Counted(chain, thread)'
  BY <1>1 DEF Counted
<1>5. InTurn(chain) => InTurn(chain)'
  BY <1>2, <1>3, <1>4 DEF InTurn
<1> QED BY <1>5 DEF Account

\* Initially nothing has been counted.
LEMMA HopsAccountInit ==
  ASSUME Init
  PROVE  HopsAccount
<1>1. Begun = {}
  BY DEF Init, Begun
<1>2. \A chain \in Runs : Inside(chain) = {}
  BY DEF Init, Inside, Idle
<1>3. ASSUME NEW chain \in Runs
      PROVE  Quiet(chain)
  <2>1. Len(outputs[chain]) = 0 /\ sessionHops[chain] = 0 /\ running[chain] = 0
    BY DEF Init
  <2> QED BY <1>2, <2>1, ForgivenType, CountAssumption DEF Quiet
<1>4. Cardinality({}) = 0
  BY FS_EmptySet
<1>5. ASSUME NEW chain \in Runs
      PROVE  Account(chain)
  <2>1. running[chain] = 0 /\ outputs[chain] = << >> /\ sessionHops[chain] = 0
    BY DEF Init
  <2>2. running[chain] + Cardinality(Inside(chain)) <= MaxParallel
    <3>1. Cardinality(Inside(chain)) = 0
      BY <1>2, <1>4
    <3> QED BY <2>1, <3>1, CountAssumption
  <2> QED BY <1>2, <1>3, <2>1, <2>2 DEF Account, InTurn
<1> QED BY <1>5 DEF HopsAccount

\* A nested start turns the parent's count, at most the limit, into the
\* allowance of one more chain below it; where a tool of the parent is being
\* counted, the two overlap.
LEMMA HopsAccountChainStart ==
  ASSUME TypeInv, HopsAccount, NEW run \in Runs, NEW parent \in Runs \cup {None},
         OnChainStart(run, parent), NEW chain \in Runs
  PROVE  Account(chain)'
<1>1. /\ outputs' = outputs /\ running' = running /\ stopped' = stopped
      /\ frames' = frames /\ overlapped \subseteq overlapped'
      /\ Inside(chain)' = Inside(chain)
  BY DEF OnChainStart, Inside
<1>2. Begun' = Begun \cup {run} /\ run \notin Begun
  BY ChainBegins DEF OnChainStart, TypeInv
<1>3. Account(chain)
  BY DEF HopsAccount
<1>4. CASE chain # SessionOf(run, parent) /\ chain # run
  <2>1. sessionHops'[chain] = sessionHops[chain]
    BY <1>4 DEF OnChainStart, TypeInv, TypeOK
  <2>2. Nested(chain)' = Nested(chain)
    BY <1>4, OneMoreNested, RunsAssumption DEF SessionOf
  <2>3. chain \in Going' => chain \in Going
    BY <1>1, <1>2, <1>4 DEF Going, OnChainStart, TypeInv, TypeOK, Begun
  <2> QED BY <1>1, <1>2, <1>3, <2>1, <2>2, <2>3, AccountKept
<1>5. CASE chain = run
  <2>1. /\ Len(outputs'[chain]) = 0 /\ sessionHops'[chain] = 0
        /\ running'[chain] = 0 /\ Inside(chain)' = {}
    <3>1. /\ outputs[chain] = << >> /\ sessionHops[chain] = 0 /\ running[chain] = 0
          /\ Inside(chain) = {}
      BY <1>2, <1>3, <1>5 DEF Account
    <3> QED BY <1>1, <3>1 DEF OnChainStart, TypeInv, TypeOK
  <2>2. Quiet(chain)'
    <3>1. Forgiven(chain)' \in Nat
      <4>1. chain # parent
        BY <1>2, <1>5, RunsAssumption DEF OnChainStart, Going
      <4>2. Forgiven(chain)' = Forgiven(chain)
        BY <4>1, OneMoreNested DEF Forgiven
      <4> QED BY <4>2, ForgivenType
    <3>2. 0 <= Forgiven(chain)' + 0 /\ 0 <= MaxAutoHops /\ 0 + 0 <= MaxAutoHops + MaxParallel
      BY <3>1, CountAssumption
    <3> QED BY <2>1, <3>2 DEF Quiet
  <2>3. Cardinality({}) = 0
    BY FS_EmptySet
  <2> QED BY <1>2, <1>5, <2>1, <2>2, <2>3, CountAssumption DEF Account, InTurn
<1>6. CASE chain = SessionOf(run, parent) /\ chain # run
  <2>1. chain = parent /\ chain \in Going /\ chain \in Begun
    BY <1>6 DEF SessionOf, OnChainStart, Going
  <2>2. sessionHops'[chain] = 0
    BY <1>6 DEF OnChainStart, TypeInv, TypeOK
  <2>3. running[chain] <= MaxParallel
    <3>1. running[chain] + Cardinality(Inside(chain)) <= MaxParallel
      BY <1>3 DEF Account
    <3> QED BY <3>1, Finite, CountsType
  <2>4. CASE chain \notin overlapped'
    <3>1. Inside(chain) = {} /\ chain \notin overlapped
      BY <1>6, <2>4 DEF OnChainStart
    <3>2. Quiet(chain)
      BY <1>3, <3>1 DEF Account, InTurn, Counting, Counted
    <3>3. Forgiven(chain)' = Forgiven(chain) + MaxAutoHops
      <4>1. Cardinality(Nested(chain)') = Cardinality(Nested(chain)) + 1
        BY <2>1, OneMoreNested
      <4> QED BY <4>1, Finite, OneMoreLimit DEF Forgiven
    <3>4. Len(outputs[chain]) <= Forgiven(chain) + MaxAutoHops
      BY <2>1, <3>2, ForgivenType, CountsType DEF Quiet
    <3>5. Quiet(chain)'
      BY <1>1, <2>2, <2>3, <3>1, <3>3, <3>4, ForgivenType, CountsType DEF Quiet
    <3> QED BY <1>1, <1>2, <1>3, <2>1, <3>5 DEF Account, InTurn
  <2>5. CASE chain \in overlapped'
    BY <1>1, <1>2, <1>3, <2>1, <2>5 DEF Account
  <2> QED BY <2>4, <2>5
<1> QED BY <1>4, <1>5, <1>6

\* A tool that starts finds a place beside those that run and those that are
\* being counted.
LEMMA HopsAccountToolStart ==
  ASSUME TypeInv, HopsAccount, NEW tool \in Runs, ToolStart(tool),
         NEW chain \in Runs
  PROVE  Account(chain)'
<1>1. /\ outputs' = outputs /\ sessionHops' = sessionHops /\ frames' = frames
      /\ overlapped' = overlapped
      /\ Inside(chain)' = Inside(chain) /\ Nested(chain)' = Nested(chain)
      /\ Begun' = Begun /\ Going' = Going
  BY DEF ToolStart, guardVars, Inside, Nested, Begun, Going
<1>2. Account(chain)
  BY DEF HopsAccount
<1>3. CASE chain # tool
  <2>1. running'[chain] = running[chain]
    BY <1>3 DEF ToolStart, TypeInv, TypeOK
  <2> QED BY <1>1, <1>2, <2>1, AccountKept
<1>4. CASE chain = tool
  <2>1. running'[chain] = running[chain] + 1 /\ chain \in Going /\ chain \in Begun
    BY <1>4 DEF ToolStart, TypeInv, TypeOK, Going
  <2>2. running[chain] + 1 + Cardinality(Inside(chain)) <= MaxParallel
    BY <1>4, Finite, CountsType DEF ToolStart
  <2>3. Forgiven(chain)' = Forgiven(chain)
    BY <1>1 DEF Forgiven
  <2>4. Quiet(chain) => Quiet(chain)'
    <3>1. running[chain] + 1 <= MaxParallel
      BY <2>2, Finite, CountsType
    <3> QED BY <1>1, <2>1, <2>3, <3>1, CountsType DEF Quiet
  <2>5. ASSUME NEW thread \in Threads, Inside(chain) = {thread}
        PROVE  running[chain] + 2 <= MaxParallel
    <3>1. Cardinality(Inside(chain)) = 1
      BY <2>5, FS_Singleton
    <3> QED BY <2>2, <3>1, CountsType
  <2>6. ASSUME NEW thread \in Threads, Counting(chain, thread)
        PROVE  Counting(chain, thread)'
    BY <1>1, <2>1, <2>3, <2>5, <2>6, CountsType DEF Counting
  <2>7. ASSUME NEW thread \in Threads, Counted(chain, thread)
        PROVE  Counted(chain, thread)'
    BY <1>1, <2>1, <2>3, <2>5, <2>7, CountsType DEF Counted
  <2>8. InTurn(chain) => InTurn(chain)'
    BY <2>4, <2>6, <2>7 DEF InTurn
  <2> QED BY <1>1, <1>2, <2>1, <2>2, <2>8 DEF Account
<1> QED BY <1>3, <1>4

\* A tool that fails leaves its place.
LEMMA HopsAccountToolError ==
  ASSUME TypeInv, HopsAccount, NEW tool \in Runs, ToolError(tool),
         NEW chain \in Runs
  PROVE  Account(chain)'
<1>1. /\ outputs' = outputs /\ sessionHops' = sessionHops /\ frames' = frames
      /\ overlapped' = overlapped
      /\ Inside(chain)' = Inside(chain) /\ Nested(chain)' = Nested(chain)
      /\ Begun' = Begun /\ Going' = Going
  BY DEF ToolError, guardVars, Inside, Nested, Begun, Going
<1>2. Account(chain) /\ Forgiven(chain)' = Forgiven(chain)
  BY <1>1 DEF HopsAccount, Forgiven
<1>3. /\ running'[chain] \in Nat /\ running'[chain] <= running[chain]
      /\ chain \notin Begun => running'[chain] = running[chain]
  BY DEF ToolError, TypeInv, TypeOK, OnlyBegun
<1>4. InTurn(chain) => InTurn(chain)'
  <2>1. Quiet(chain) => Quiet(chain)'
    BY <1>1, <1>2, <1>3, CountsType DEF Quiet
  <2>2. ASSUME NEW thread \in Threads, Counting(chain, thread)
        PROVE  Counting(chain, thread)'
    BY <1>1, <1>2, <1>3, <2>2, CountsType DEF Counting
  <2>3. ASSUME NEW thread \in Threads, Counted(chain, thread)
        PROVE  Counted(chain, thread)'
    BY <1>1, <1>2, <1>3, <2>3, CountsType DEF Counted
  <2> QED BY <2>1, <2>2, <2>3 DEF InTurn
<1> QED BY <1>1, <1>2, <1>3, <1>4, Finite, CountsType DEF Account

\* A tool that returns moves from the running ones to those that are counted;
\* where another of the chain is being counted, the two overlap.
LEMMA HopsAccountToolEnd ==
  ASSUME TypeInv, HopsAccount, NEW thread \in Threads, NEW tool \in Runs,
         NEW output \in Outputs, OnToolEnd(thread, tool, output), NEW chain \in Runs
  PROVE  Account(chain)'
<1>1. /\ sessionHops' = sessionHops /\ Nested(chain)' = Nested(chain)
      /\ Begun' = Begun /\ Going' = Going /\ overlapped \subseteq overlapped'
  BY DEF OnToolEnd, guardVars, Nested, Begun, Going
<1>2. Account(chain) /\ Forgiven(chain)' = Forgiven(chain)
  BY <1>1 DEF HopsAccount, Forgiven
<1>3. CASE chain # tool
  <2>1. /\ outputs'[chain] = outputs[chain] /\ running'[chain] = running[chain]
    BY <1>3 DEF OnToolEnd, TypeInv, TypeOK
  <2>2. /\ Inside(chain)' = Inside(chain)
        /\ \A other \in Inside(chain) : frames'[other] = frames[other]
    BY <1>3, Enters DEF Inside
  <2> QED BY <1>1, <1>2, <2>1, <2>2, AccountKept
<1>4. CASE chain = tool
  <2>1. /\ Len(outputs'[chain]) = Len(outputs[chain]) + 1
        /\ running'[chain] = running[chain] - 1 /\ running[chain] > 0
        /\ chain \in Begun
    BY <1>4, CountAssumption DEF OnToolEnd, TypeInv, TypeOK, OnlyBegun
  <2>2. Inside(chain)' = Inside(chain) \cup {thread} /\ thread \notin Inside(chain)
    BY <1>4, Enters
  <2>3. running'[chain] + Cardinality(Inside(chain)') <= MaxParallel
    <3>1. Cardinality(Inside(chain)') = Cardinality(Inside(chain)) + 1
      BY <2>2, Finite, FS_AddElement
    <3>2. running[chain] + Cardinality(Inside(chain)) <= MaxParallel
      BY <1>2 DEF Account
    <3> QED BY <2>1, <3>1, <3>2, Finite, CountsType
  <2>4. CASE chain \notin overlapped'
    <3>1. Inside(chain) = {} /\ chain \notin overlapped
      BY <1>4, <2>4 DEF OnToolEnd
    <3>2. Quiet(chain)
      BY <1>2, <3>1 DEF Account, InTurn, Counting, Counted
    <3>3. /\ frames'[thread].step = "store"
          /\ frames'[thread].hops = sessionHops'[chain]
      BY <1>1, <1>4, Enters
    <3>4. /\ Len(outputs'[chain]) <= Forgiven(chain)' + sessionHops'[chain] + 1
          /\ chain \in Going' => sessionHops'[chain] <= MaxAutoHops
          /\ sessionHops'[chain] + 1 + running'[chain] <= MaxAutoHops + MaxParallel
      <4>1. /\ Len(outputs[chain]) <= Forgiven(chain) + sessionHops[chain]
            /\ chain \in Going => sessionHops[chain] <= MaxAutoHops
            /\ sessionHops[chain] + running[chain] <= MaxAutoHops + MaxParallel
        BY <3>2 DEF Quiet
      <4>2. /\ sessionHops[chain] \in Nat /\ running[chain] \in Nat
            /\ Len(outputs[chain]) \in Nat
        BY CountsType
      <4>3. Forgiven(chain) \in Nat
        BY ForgivenType
      <4>4. Len(outputs'[chain]) <= Forgiven(chain)' + sessionHops'[chain] + 1
        BY <1>1, <1>2, <2>1, <4>1, <4>2, <4>3
      <4>5. sessionHops'[chain] + 1 + running'[chain] <= MaxAutoHops + MaxParallel
        BY <1>1, <2>1, <4>1, <4>2, CountAssumption
      <4> QED BY <1>1, <4>1, <4>4, <4>5
    <3>5. Counting(chain, thread)'
      BY <2>2, <3>1, <3>3, <3>4 DEF Counting
    <3> QED BY <1>1, <2>1, <2>3, <3>5 DEF Account, InTurn
  <2>5. CASE chain \in overlapped'
    BY <1>1, <2>1, <2>3, <2>5 DEF Account
  <2> QED BY <2>4, <2>5
<1> QED BY <1>3, <1>4

\* What was about to be counted is counted.
LEMMA HopsAccountStoreHops ==
  ASSUME TypeInv, HopsAccount, NEW thread \in Threads, StoreHops(thread),
         NEW chain \in Runs
  PROVE  Account(chain)'
<1>1. /\ outputs' = outputs /\ running' = running /\ Nested(chain)' = Nested(chain)
      /\ Begun' = Begun /\ Going' = Going /\ overlapped' = overlapped
      /\ Inside(chain)' = Inside(chain)
  BY Proceeds DEF StoreHops, Nested, Begun, Going
<1>2. Account(chain) /\ Forgiven(chain)' = Forgiven(chain)
  BY <1>1 DEF HopsAccount, Forgiven
<1>3. CASE chain # frames[thread].chain
  <2>1. sessionHops'[chain] = sessionHops[chain]
    BY <1>3 DEF StoreHops, TypeInv, TypeOK
  <2>2. \A other \in Inside(chain) : frames'[other] = frames[other]
    BY <1>3, Proceeds DEF Inside
  <2> QED BY <1>1, <1>2, <2>1, <2>2, AccountKept
<1>4. CASE chain = frames[thread].chain
  <2>1. thread \in Inside(chain) /\ frames[thread].step = "store"
        /\ frames'[thread].step # "store" /\ chain \in Begun
    BY <1>4, Proceeds, FrameType DEF StoreHops
  <2>2. sessionHops'[chain] = frames[thread].hops + 1
    BY <1>4 DEF StoreHops, TypeInv, TypeOK
  <2>3. ASSUME InTurn(chain)
        PROVE  Counted(chain, thread)'
    <3>1. PICK other \in Threads : Counting(chain, other) \/ Counted(chain, other)
      BY <2>1, <2>3 DEF InTurn, Quiet
    <3>2. other = thread
      BY <2>1, <3>1 DEF Counting, Counted
    <3>3. Counting(chain, thread)
      BY <2>1, <3>1, <3>2 DEF Counted
    <3>4. sessionHops'[chain] = sessionHops[chain] + 1
      BY <2>2, <3>3 DEF Counting
    <3>5. /\ Len(outputs[chain]) <= Forgiven(chain) + sessionHops'[chain]
          /\ chain \in Going => sessionHops'[chain] <= MaxAutoHops + 1
          /\ sessionHops'[chain] + running[chain] <= MaxAutoHops + MaxParallel
      BY <3>3, <3>4, ForgivenType, CountsType DEF Counting
    <3> QED BY <1>1, <1>2, <2>1, <3>3, <3>5 DEF Counting, Counted
  <2> QED BY <1>1, <1>2, <2>1, <2>3 DEF Account, InTurn
<1> QED BY <1>3, <1>4

\* The pending output does not count.
LEMMA HopsAccountStorePending ==
  ASSUME TypeInv, HopsAccount, NEW thread \in Threads, StorePending(thread),
         NEW chain \in Runs
  PROVE  Account(chain)'
<1>1. /\ outputs' = outputs /\ running' = running /\ sessionHops' = sessionHops
      /\ Nested(chain)' = Nested(chain)
      /\ Begun' = Begun /\ Going' = Going /\ overlapped' = overlapped
      /\ Inside(chain)' = Inside(chain)
  BY Proceeds DEF StorePending, Nested, Begun, Going
<1>2. Account(chain) /\ Forgiven(chain)' = Forgiven(chain)
  BY <1>1 DEF HopsAccount, Forgiven
<1>3. /\ frames[thread].step # "store" /\ frames'[thread].step # "store"
      /\ \A other \in Threads \ {thread} : frames'[other] = frames[other]
  BY Proceeds DEF StorePending
<1>4. Quiet(chain) => Quiet(chain)'
  BY <1>1, <1>2 DEF Quiet
<1>5. ASSUME NEW other \in Threads
      PROVE  /\ Counting(chain, other) => Counting(chain, other)'
             /\ Counted(chain, other) => Counted(chain, other)'
  <2>1. Counting(chain, other) => other # thread
    BY <1>3 DEF Counting
  <2> QED BY <1>1, <1>2, <1>3, <2>1 DEF Counting, Counted
<1> QED BY <1>1, <1>2, <1>4, <1>5 DEF Account, InTurn

\* Once the count has been compared, the tree is given up or the count is within
\* the limit.
LEMMA HopsAccountCheckHops ==
  ASSUME TypeInv, HopsAccount, NEW thread \in Threads, CheckHops(thread),
         NEW chain \in Runs
  PROVE  Account(chain)'
<1>1. /\ outputs' = outputs /\ running' = running /\ sessionHops' = sessionHops
      /\ Nested(chain)' = Nested(chain) /\ chains' = chains
      /\ Begun' = Begun /\ Going' \subseteq Going /\ overlapped' = overlapped
  BY DEF CheckHops, guardVars, Nested, Begun, Going
<1>2. Account(chain) /\ Forgiven(chain)' = Forgiven(chain)
  BY <1>1 DEF HopsAccount, Forgiven
<1>3. CASE chain # frames[thread].chain
  <2>1. /\ Inside(chain)' = Inside(chain)
        /\ \A other \in Inside(chain) : frames'[other] = frames[other]
    BY <1>3, Leaves DEF Inside
  <2> QED BY <1>1, <1>2, <2>1, AccountKept
<1>4. CASE chain = frames[thread].chain
  <2>1. /\ thread \in Inside(chain) /\ frames[thread].step = "check"
        /\ Inside(chain)' = Inside(chain) \ {thread} /\ chain \in Begun
    BY <1>4, Leaves, FrameType DEF CheckHops
  <2>2. running[chain] + Cardinality(Inside(chain)') <= MaxParallel
    <3>1. Cardinality(Inside(chain)') = Cardinality(Inside(chain)) - 1
      BY <2>1, Finite, FS_RemoveElement
    <3>2. running[chain] + Cardinality(Inside(chain)) <= MaxParallel
      BY <1>2 DEF Account
    <3> QED BY <3>1, <3>2, Finite, CountsType
  <2>3. chain \in Going' => sessionHops[chain] <= MaxAutoHops
    <3>1. sessionHops[chain] > MaxAutoHops => chains[chain].root \in stopped'
      BY <1>4 DEF CheckHops, StoppedByHops
    <3> QED BY <1>1, <3>1, CountsType DEF Going
  <2>4. ASSUME InTurn(chain)
        PROVE  Quiet(chain)'
    <3>1. PICK other \in Threads : Counting(chain, other) \/ Counted(chain, other)
      BY <2>1, <2>4 DEF InTurn, Quiet
    <3>2. other = thread
      BY <2>1, <3>1 DEF Counting, Counted
    <3>3. Counted(chain, thread)
      BY <2>1, <3>1, <3>2 DEF Counting
    <3>4. Inside(chain)' = {}
      BY <2>1, <3>3 DEF Counted
    <3> QED BY <1>1, <1>2, <2>3, <3>3, <3>4 DEF Quiet, Counted
  <2> QED BY <1>1, <1>2, <2>1, <2>2, <2>4 DEF Account, InTurn
<1> QED BY <1>3, <1>4

\* Where neither chains nor counts move, nobody goes in or out of on_tool_end and
\* no tree is revived, the account stays.
LEMMA HopsAccountKept ==
  ASSUME HopsAccount, stopped \subseteq stopped',
         UNCHANGED <<chains, sessionHops, running, outputs, overlapped>>,
         \A chain \in Runs :
             /\ Inside(chain)' = Inside(chain)
             /\ \A thread \in Inside(chain) : frames'[thread] = frames[thread]
  PROVE  HopsAccount'
<1>1. Begun' = Begun /\ Going' \subseteq Going
  BY DEF Begun, Going
<1>2. \A chain \in Runs : Nested(chain)' = Nested(chain)
  BY DEF Begun, Nested
<1> QED BY <1>1, <1>2, AccountKept DEF HopsAccount

\* HopsAccount is an invariant, by induction over the actions.
LEMMA HopsAccountInvariant == Spec => []HopsAccount
<1>1. Init => HopsAccount
  BY HopsAccountInit
<1>2. ASSUME TypeInv, HopsAccount, [Next]_vars
      PROVE  HopsAccount'
  <2>1. ASSUME UNCHANGED <<chains, sessionHops, running, outputs, overlapped, frames>>,
               stopped \subseteq stopped'
        PROVE  HopsAccount'
    BY <1>2, <2>1, HopsAccountKept DEF Inside
  <2>2. ASSUME NEW chain \in Runs, NEW plan \in Plans, PlanUnchecked(chain, plan)
        PROVE  HopsAccount'
    BY <2>1, <2>2 DEF PlanUnchecked, guardVars
  <2>3. ASSUME NEW thread \in Threads, NEW chain \in Runs, NEW plan \in Plans,
               OnLlmEnd(thread, chain, plan)
        PROVE  HopsAccount'
    <3> DEFINE frame == [step |-> "judge", chain |-> chain, hops |-> 0,
                         output |-> pending[chain], typed |-> plan]
    <3>1. /\ frames[thread].step \in {"idle", "judge"}
          /\ frame.step \in {"idle", "judge"}
          /\ frames' = [frames EXCEPT ![thread] = frame]
      BY <2>3 DEF OnLlmEnd, Idle
    <3> HIDE DEF frame
    <3>2. \A other \in Runs :
            /\ Inside(other)' = Inside(other)
            /\ \A another \in Inside(other) : frames'[another] = frames[another]
      BY <1>2, <3>1 DEF Inside, TypeInv, TypeOK
    <3> QED BY <1>2, <2>3, <3>2, HopsAccountKept DEF OnLlmEnd, guardVars
  <2>4. ASSUME NEW thread \in Threads, PlanAccepted(thread) \/ PlanBlocked(thread)
        PROVE  HopsAccount'
    <3>1. /\ frames[thread].step \in {"idle", "judge"}
          /\ Idle.step \in {"idle", "judge"}
          /\ frames' = [frames EXCEPT ![thread] = Idle]
          /\ UNCHANGED <<chains, sessionHops, running, outputs, overlapped>>
          /\ stopped \subseteq stopped'
      BY <2>4 DEF PlanAccepted, PlanBlocked, Judge, Idle, guardVars
    <3>2. \A other \in Runs :
            /\ Inside(other)' = Inside(other)
            /\ \A another \in Inside(other) : frames'[another] = frames[another]
      BY <1>2, <3>1 DEF Inside, TypeInv, TypeOK
    <3> QED BY <1>2, <3>1, <3>2, HopsAccountKept
  <2>5. CASE Tick
    BY <2>1, <2>5 DEF Tick, guardVars
  <2>6. CASE UNCHANGED vars
    BY <2>1, <2>6 DEF vars, guardVars
  <2>7. ASSUME NEW run \in Runs, NEW parent \in Runs \cup {None},
               OnChainStart(run, parent)
        PROVE  HopsAccount'
    BY <1>2, <2>7, HopsAccountChainStart DEF HopsAccount
  <2>8. ASSUME NEW chain \in Runs, ToolStart(chain) \/ ToolError(chain)
        PROVE  HopsAccount'
    BY <1>2, <2>8, HopsAccountToolStart, HopsAccountToolError DEF HopsAccount
  <2>9. ASSUME NEW thread \in Threads, NEW chain \in Runs, NEW output \in Outputs,
               OnToolEnd(thread, chain, output)
        PROVE  HopsAccount'
    BY <1>2, <2>9, HopsAccountToolEnd DEF HopsAccount
  <2>10. ASSUME NEW thread \in Threads,
                StoreHops(thread) \/ StorePending(thread) \/ CheckHops(thread)
         PROVE  HopsAccount'
    BY <1>2, <2>10, HopsAccountStoreHops, HopsAccountStorePending,
       HopsAccountCheckHops DEF HopsAccount
  <2> QED BY <1>2, <2>2, <2>3, <2>4, <2>5, <2>6, <2>7, <2>8, <2>9, <2>10 DEF Next
<1> QED BY <1>1, <1>2, TypeInvariant, PTL DEF Spec

\* The tools of a chain whose handlers take their turns return at most as often
\* as the limit says, once for it and once for every chain started directly below
\* it, and as many more as run together.
THEOREM BoundedAutonomy == Spec => []AutonomyIsBounded
<1>1. ASSUME TypeInv, HopsAccount
      PROVE  AutonomyIsBounded
  <2> SUFFICES ASSUME NEW chain \in Runs \ overlapped
      PROVE  Len(outputs[chain]) <=
                 MaxAutoHops * (1 + Cardinality(Nested(chain))) + MaxParallel
    BY DEF AutonomyIsBounded
  <2>1. MaxAutoHops * (1 + Cardinality(Nested(chain))) = Forgiven(chain) + MaxAutoHops
    BY Finite, OneMoreLimit DEF Forgiven
  <2>2. InTurn(chain)
    BY <1>1 DEF HopsAccount, Account
  <2>3. Len(outputs[chain]) <= Forgiven(chain) + MaxAutoHops + MaxParallel
    <3>1. CASE Quiet(chain)
      <4>1. /\ Len(outputs[chain]) <= Forgiven(chain) + sessionHops[chain]
            /\ sessionHops[chain] + running[chain] <= MaxAutoHops + MaxParallel
        BY <3>1 DEF Quiet
      <4>2. /\ sessionHops[chain] \in Nat /\ running[chain] \in Nat
            /\ Len(outputs[chain]) \in Nat
        BY <1>1, CountsType
      <4> QED BY <4>1, <4>2, ForgivenType, CountAssumption
    <3>2. CASE \E thread \in Threads : Counting(chain, thread)
      BY <1>1, <3>2, ForgivenType, CountsType DEF Counting
    <3>3. CASE \E thread \in Threads : Counted(chain, thread)
      BY <1>1, <3>3, ForgivenType, CountsType DEF Counted
    <3> QED BY <2>2, <3>1, <3>2, <3>3 DEF InTurn
  <2> QED BY <2>1, <2>3
<1> QED BY <1>1, TypeInvariant, HopsAccountInvariant, PTL

-----------------------------------------------------------------------------
(* What a tree is given up for *)

\* The chains whose start reset the count and the clock of a session.
Session(chain) == {run \in Begun : SessionOf(run, chains[run].parent) = chain}

Needed(verdict) == MinimumHumanTime(verdict.read, verdict.typed)

\* A text that came sooner than a human could have asked for it, having read
\* nothing or what a tool of the chain returned.
Hasty(verdict) ==
    /\ verdict.read \in {0} \cup Returned(verdict.chain)
    /\ \/ Session(verdict.chain) = {}
       \/ \E run \in Session(verdict.chain) :
              5 * (verdict.at - chains[run].at) < Needed(verdict)

Deserved(root) ==
    \/ \E chain \in Tree(root) : Len(outputs[chain]) > MaxAutoHops
    \/ \E verdict \in verdicts :
           /\ verdict.chain \in Tree(root)
           /\ verdict.outcome = "blocked"
           /\ Hasty(verdict)

\* A session has a start time once a chain has started in it, which is that of
\* one of them.
TimesAccount ==
    \A chain \in Runs :
        IF startTimes[chain] = None
        THEN Session(chain) = {}
        ELSE \E run \in Session(chain) : chains[run].at = startTimes[chain]

\* A count is of tools that returned; one that is about to be stored does not
\* count the tool it is stored for.
ReturnsCounted ==
    /\ \A chain \in Runs : sessionHops[chain] <= Len(outputs[chain])
    /\ \A thread \in Threads : frames[thread].step = "store" =>
           frames[thread].hops < Len(outputs[frames[thread].chain])

\* What there is to read is nothing or what a tool of the chain returned.
ReturnsRead ==
    /\ \A chain \in Runs : pending[chain] \in {0} \cup Returned(chain)
    /\ \A thread \in Threads, chain \in Runs :
           frames[thread].step # "idle" /\ frames[thread].chain = chain =>
               frames[thread].output \in {0} \cup Returned(chain)

SessionAccount == TimesAccount /\ ReturnsCounted /\ ReturnsRead

\* What a chain was started with does not change while others start.
LEMMA ChainsStay ==
  ASSUME TypeOK, NEW run \in Runs, NEW parent \in Runs \cup {None},
         OnChainStart(run, parent)
  PROVE  /\ \A chain \in Begun : chains'[chain] = chains[chain]
         /\ chains'[run].at = now
BY DEF OnChainStart, Begun, TypeOK

\* A chain that starts joins one session, the others stay as they are.
LEMMA SessionGrows ==
  ASSUME TypeOK, NEW run \in Runs, NEW parent \in Runs \cup {None},
         OnChainStart(run, parent), NEW chain
  PROVE  Session(chain)' = IF chain = SessionOf(run, parent)
                           THEN Session(chain) \cup {run}
                           ELSE Session(chain)
<1>1. Begun' = Begun \cup {run}
  BY ChainBegins
<1>2. /\ chains'[run].parent = parent
      /\ \A other \in Begun : chains'[other] = chains[other]
      /\ run \notin Begun
  BY DEF OnChainStart, Begun, TypeOK
<1> QED BY <1>1, <1>2 DEF Session

LEMMA SessionStays ==
  ASSUME chains' = chains, NEW chain
  PROVE  Begun' = Begun /\ Session(chain)' = Session(chain)
         /\ Tree(chain)' = Tree(chain)
BY DEF Session, Begun, Tree

\* What a tool returned stays so; on_tool_end adds to it.
LEMMA OutputsGrow ==
  ASSUME TypeInv, NEW thread \in Threads, NEW tool \in Runs, NEW output \in Outputs,
         OnToolEnd(thread, tool, output), NEW chain \in Runs
  PROVE  /\ Len(outputs[chain]) \in Nat
         /\ Len(outputs'[chain]) =
                IF chain = tool THEN Len(outputs[chain]) + 1 ELSE Len(outputs[chain])
         /\ Returned(chain) \subseteq Returned(chain)'
         /\ chain = tool => output \in Returned(chain)'
<1>1. outputs[chain] \in Seq(Nat) /\ output \in Nat
  BY CountAssumption DEF TypeInv, TypeOK
<1>2. outputs'[chain] = IF chain = tool THEN Append(outputs[chain], output)
                        ELSE outputs[chain]
  BY DEF OnToolEnd, TypeInv, TypeOK
<1>3. CASE chain = tool
  <2>1. /\ Len(outputs'[chain]) = Len(outputs[chain]) + 1
        /\ Len(outputs[chain]) \in Nat
        /\ DOMAIN outputs[chain] = 1 .. Len(outputs[chain])
        /\ DOMAIN outputs'[chain] = 1 .. Len(outputs[chain]) + 1
        /\ \A call \in 1 .. Len(outputs[chain]) :
               outputs'[chain][call] = outputs[chain][call]
        /\ outputs'[chain][Len(outputs[chain]) + 1] = output
    BY <1>1, <1>2, <1>3
  <2>2. Returned(chain) \subseteq Returned(chain)'
    BY <2>1 DEF Returned
  <2>3. output \in Returned(chain)'
    BY <2>1 DEF Returned
  <2> QED BY <1>3, <2>1, <2>2, <2>3
<1>4. CASE chain # tool
  BY <1>1, <1>2, <1>4 DEF Returned
<1> QED BY <1>3, <1>4

\* The start of a session is that of the chain that started last in it.
LEMMA TimesAccountChainStart ==
  ASSUME TypeInv, TimesAccount, NEW run \in Runs, NEW parent \in Runs \cup {None},
         OnChainStart(run, parent)
  PROVE  TimesAccount'
<1> DEFINE session == SessionOf(run, parent)
<1>1. /\ startTimes' = [startTimes EXCEPT ![session] = now]
      /\ now \in Nat /\ session \in Runs
  BY DEF OnChainStart, SessionOf, TypeInv, TypeOK
<1>2. /\ \A chain \in Begun : chains'[chain] = chains[chain]
      /\ chains'[run].at = now
  BY ChainsStay DEF TypeInv
<1>3. ASSUME NEW chain \in Runs
      PROVE  IF startTimes'[chain] = None
             THEN Session(chain)' = {}
             ELSE \E other \in Session(chain)' : chains'[other].at = startTimes'[chain]
  <2>1. CASE chain = session
    <3>1. run \in Session(chain)'
      BY <2>1, SessionGrows DEF TypeInv
    <3>2. startTimes'[chain] = now /\ now # None
      BY <1>1, <2>1, CountAssumption DEF TypeInv, TypeOK
    <3> QED BY <1>2, <3>1, <3>2
  <2>2. CASE chain # session
    <3>1. Session(chain)' = Session(chain)
      BY <2>2, SessionGrows DEF TypeInv
    <3>2. startTimes'[chain] = startTimes[chain]
      BY <1>1, <2>2 DEF TypeInv, TypeOK
    <3>3. \A other \in Session(chain) : chains'[other] = chains[other]
      BY <1>2 DEF Session
    <3> QED BY <3>1, <3>2, <3>3 DEF TimesAccount
  <2> QED BY <2>1, <2>2
<1> QED BY <1>3 DEF TimesAccount

\* The start times and what the chains were started with move together.
LEMMA TimesAccountKept ==
  ASSUME TimesAccount, UNCHANGED <<chains, startTimes>>
  PROVE  TimesAccount'
<1>1. \A chain : Session(chain)' = Session(chain)
  BY SessionStays
<1> QED BY <1>1 DEF TimesAccount

\* What is said of what returned stays where only frames without a count or a
\* reading change.
LEMMA ReturnsKept ==
  ASSUME ReturnsCounted, ReturnsRead, UNCHANGED <<sessionHops, pending, outputs>>,
         \A thread \in Threads :
             frames'[thread] = frames[thread] \/ frames'[thread].step = "idle"
  PROVE  ReturnsCounted' /\ ReturnsRead'
<1>1. \A chain : Returned(chain)' = Returned(chain)
  BY DEF Returned
<1> QED BY <1>1 DEF ReturnsCounted, ReturnsRead

\* A tool that returns has returned before it is counted or read.
LEMMA ReturnsToolEnd ==
  ASSUME TypeInv, ReturnsCounted, ReturnsRead,
         NEW thread \in Threads, NEW tool \in Runs, NEW output \in Outputs,
         OnToolEnd(thread, tool, output)
  PROVE  ReturnsCounted' /\ ReturnsRead'
<1>1. /\ UNCHANGED <<sessionHops, pending>>
      /\ frames'[thread].step = "store" /\ frames'[thread].chain = tool
      /\ frames'[thread].hops = sessionHops[tool]
      /\ frames'[thread].output = output
      /\ \A other \in Threads \ {thread} : frames'[other] = frames[other]
  BY Enters DEF OnToolEnd, guardVars
<1>2. ReturnsCounted'
  <2>1. ASSUME NEW chain \in Runs
        PROVE  /\ sessionHops'[chain] <= Len(outputs'[chain])
               /\ chain = tool => sessionHops[chain] < Len(outputs'[chain])
    BY <1>1, OutputsGrow, CountsType DEF ReturnsCounted
  <2>2. ASSUME NEW other \in Threads, frames'[other].step = "store"
        PROVE  frames'[other].hops < Len(outputs'[frames'[other].chain])
    <3>1. CASE other = thread
      BY <1>1, <2>1, <3>1
    <3>2. CASE other # thread
      <4>1. frames'[other] = frames[other] /\ frames[other].chain \in Runs
            /\ frames[other].hops \in Nat
        BY <1>1, <2>2, <3>2, FrameType
      <4>2. frames[other].hops < Len(outputs[frames[other].chain])
        BY <2>2, <4>1 DEF ReturnsCounted
      <4>3. /\ Len(outputs[frames[other].chain]) \in Nat
            /\ Len(outputs'[frames[other].chain]) \in
                   {Len(outputs[frames[other].chain]),
                    Len(outputs[frames[other].chain]) + 1}
        BY <4>1, OutputsGrow
      <4>4. frames[other].hops < Len(outputs'[frames[other].chain])
        BY <4>1, <4>2, <4>3
      <4> QED BY <4>1, <4>4
    <3> QED BY <3>1, <3>2
  <2> QED BY <2>1, <2>2 DEF ReturnsCounted
<1>3. ReturnsRead'
  <2>1. \A chain \in Runs : Returned(chain) \subseteq Returned(chain)'
    BY OutputsGrow
  <2>2. output \in Returned(tool)'
    BY OutputsGrow
  <2>3. ASSUME NEW other \in Threads, NEW chain \in Runs,
               frames'[other].step # "idle", frames'[other].chain = chain
        PROVE  frames'[other].output \in {0} \cup Returned(chain)'
    <3>1. CASE other = thread
      BY <1>1, <2>2, <2>3, <3>1
    <3>2. CASE other # thread
      <4>1. frames'[other] = frames[other]
        BY <1>1, <3>2
      <4> QED BY <2>1, <2>3, <4>1 DEF ReturnsRead
    <3> QED BY <3>1, <3>2
  <2> QED BY <1>1, <2>1, <2>3 DEF ReturnsRead
<1> QED BY <1>2, <1>3

\* What is stored is what the frame holds.
LEMMA ReturnsStore ==
  ASSUME TypeInv, ReturnsCounted, ReturnsRead,
         NEW thread \in Threads, StoreHops(thread) \/ StorePending(thread)
  PROVE  ReturnsCounted' /\ ReturnsRead'
<1> DEFINE chain == frames[thread].chain
<1>1. /\ chain \in Runs /\ frames[thread].hops \in Nat
      /\ frames[thread].step \in {"store", "pend"}
      /\ frames'[thread].step \in {"pend", "check"}
      /\ frames'[thread].chain = chain
      /\ frames'[thread].output = frames[thread].output
      /\ \A other \in Threads \ {thread} : frames'[other] = frames[other]
  BY Proceeds DEF StoreHops, StorePending
<1>2. outputs' = outputs /\ \A other : Returned(other)' = Returned(other)
  BY DEF StoreHops, StorePending, Returned
<1>3. ReturnsCounted'
  <2>1. ASSUME NEW other \in Runs
        PROVE  sessionHops'[other] <= Len(outputs[other])
    <3>1. CASE StoreHops(thread)
      <4>1. sessionHops'[other] = IF other = chain THEN frames[thread].hops + 1
                                  ELSE sessionHops[other]
        BY <1>1, <3>1 DEF StoreHops, TypeInv, TypeOK
      <4>2. frames[thread].hops < Len(outputs[chain]) /\ Len(outputs[chain]) \in Nat
        BY <1>1, <3>1, CountsType DEF StoreHops, ReturnsCounted
      <4>3. sessionHops[other] <= Len(outputs[other])
        BY DEF ReturnsCounted
      <4> HIDE DEF chain
      <4> QED BY <1>1, <4>1, <4>2, <4>3
    <3>2. CASE StorePending(thread)
      BY <3>2 DEF StorePending, ReturnsCounted
    <3> QED BY <3>1, <3>2
  <2> QED BY <1>1, <1>2, <2>1 DEF ReturnsCounted
<1>4. ReturnsRead'
  <2>1. frames[thread].output \in {0} \cup Returned(chain)
    BY <1>1 DEF ReturnsRead
  <2>2. ASSUME NEW other \in Runs
        PROVE  pending'[other] \in {0} \cup Returned(other)
    <3>1. CASE StoreHops(thread)
      BY <3>1 DEF StoreHops, ReturnsRead
    <3>2. CASE StorePending(thread)
      <4>1. pending'[other] = IF other = chain THEN frames[thread].output
                              ELSE pending[other]
        BY <1>1, <3>2 DEF StorePending, TypeInv, TypeOK
      <4>2. pending[other] \in {0} \cup Returned(other)
        BY DEF ReturnsRead
      <4> HIDE DEF chain
      <4> QED BY <2>1, <4>1, <4>2
    <3> QED BY <3>1, <3>2
  <2>3. ASSUME NEW other \in Threads, NEW another \in Runs,
               frames'[other].step # "idle", frames'[other].chain = another
        PROVE  frames'[other].output \in {0} \cup Returned(another)
    BY <1>1, <2>1, <2>3 DEF ReturnsRead
  <2> QED BY <1>2, <2>2, <2>3 DEF ReturnsRead
<1> QED BY <1>3, <1>4

\* A nested start only sets a count back.
LEMMA ReturnsChainStart ==
  ASSUME TypeInv, ReturnsCounted, ReturnsRead,
         NEW run \in Runs, NEW parent \in Runs \cup {None}, OnChainStart(run, parent)
  PROVE  ReturnsCounted' /\ ReturnsRead'
<1>1. /\ UNCHANGED <<pending, outputs, frames>>
      /\ \A chain : Returned(chain)' = Returned(chain)
  BY DEF OnChainStart, Returned
<1>2. ASSUME NEW chain \in Runs
      PROVE  sessionHops'[chain] <= Len(outputs[chain])
  <2>1. sessionHops'[chain] \in {0, sessionHops[chain]}
    BY DEF OnChainStart, TypeInv, TypeOK
  <2> QED BY <2>1, CountsType DEF ReturnsCounted
<1> QED BY <1>1, <1>2 DEF ReturnsCounted, ReturnsRead

\* A text is judged by the output that was pending when it came.
LEMMA ReturnsLlmEnd ==
  ASSUME TypeInv, ReturnsCounted, ReturnsRead,
         NEW thread \in Threads, NEW chain \in Runs, NEW plan \in Plans,
         OnLlmEnd(thread, chain, plan)
  PROVE  ReturnsCounted' /\ ReturnsRead'
<1>1. /\ UNCHANGED <<sessionHops, pending, outputs>>
      /\ \A other : Returned(other)' = Returned(other)
  BY DEF OnLlmEnd, guardVars, Returned
<1>2. /\ frames'[thread].step = "judge" /\ frames'[thread].chain = chain
      /\ frames'[thread].output = pending[chain]
      /\ \A other \in Threads \ {thread} : frames'[other] = frames[other]
  BY DEF OnLlmEnd, TypeInv, TypeOK
<1> QED BY <1>1, <1>2 DEF ReturnsCounted, ReturnsRead

LEMMA SessionAccountKept ==
  ASSUME TypeInv, SessionAccount, [Next]_vars
  PROVE  SessionAccount'
<1> USE DEF SessionAccount
<1>1. ASSUME NEW run \in Runs, NEW parent \in Runs \cup {None},
             OnChainStart(run, parent)
      PROVE  SessionAccount'
  BY <1>1, TimesAccountChainStart, ReturnsChainStart
<1>2. ASSUME NEW thread \in Threads, NEW chain \in Runs, NEW output \in Outputs,
             OnToolEnd(thread, chain, output)
      PROVE  SessionAccount'
  <2>1. UNCHANGED <<chains, startTimes>>
    BY <1>2 DEF OnToolEnd, guardVars
  <2> QED BY <1>2, <2>1, TimesAccountKept, ReturnsToolEnd
<1>3. ASSUME NEW thread \in Threads, StoreHops(thread) \/ StorePending(thread)
      PROVE  SessionAccount'
  <2>1. UNCHANGED <<chains, startTimes>>
    BY <1>3 DEF StoreHops, StorePending
  <2> QED BY <1>3, <2>1, TimesAccountKept, ReturnsStore
<1>4. ASSUME NEW thread \in Threads, NEW chain \in Runs, NEW plan \in Plans,
             OnLlmEnd(thread, chain, plan)
      PROVE  SessionAccount'
  <2>1. UNCHANGED <<chains, startTimes>>
    BY <1>4 DEF OnLlmEnd, guardVars
  <2> QED BY <1>4, <2>1, TimesAccountKept, ReturnsLlmEnd
<1>5. ASSUME UNCHANGED <<guardVars, chains, outputs>>,
             \A thread \in Threads :
                 frames'[thread] = frames[thread] \/ frames'[thread].step = "idle"
      PROVE  SessionAccount'
  BY <1>5, TimesAccountKept, ReturnsKept DEF guardVars
<1>6. ASSUME NEW thread \in Threads, frames' = [frames EXCEPT ![thread] = Idle],
             UNCHANGED <<guardVars, chains, outputs>>
      PROVE  SessionAccount'
  BY <1>5, <1>6 DEF Idle, TypeInv, TypeOK
<1>7. ASSUME NEW thread \in Threads, CheckHops(thread)
      PROVE  SessionAccount'
  BY <1>6, <1>7 DEF CheckHops
<1>8. ASSUME NEW thread \in Threads, PlanAccepted(thread) \/ PlanBlocked(thread)
      PROVE  SessionAccount'
  BY <1>6, <1>8 DEF PlanAccepted, PlanBlocked, Judge
<1>9. ASSUME NEW chain \in Runs, ToolStart(chain) \/ ToolError(chain)
      PROVE  SessionAccount'
  BY <1>5, <1>9 DEF ToolStart, ToolError
<1>10. ASSUME NEW chain \in Runs, NEW plan \in Plans, PlanUnchecked(chain, plan)
       PROVE  SessionAccount'
  BY <1>5, <1>10 DEF PlanUnchecked
<1>11. CASE Tick
  BY <1>5, <1>11 DEF Tick
<1>12. CASE UNCHANGED vars
  BY <1>5, <1>12 DEF vars
<1> QED BY <1>1, <1>2, <1>3, <1>4, <1>7, <1>8, <1>9, <1>10, <1>11, <1>12 DEF Next

LEMMA SessionAccountInvariant == Spec => []SessionAccount
<1>1. Init => SessionAccount
  <2> SUFFICES ASSUME Init PROVE SessionAccount
    OBVIOUS
  <2>1. \A chain : Session(chain) = {}
    BY DEF Init, Session, Begun
  <2>2. \A chain \in Runs : /\ startTimes[chain] = None /\ sessionHops[chain] = 0
                            /\ pending[chain] = 0 /\ Len(outputs[chain]) = 0
    BY DEF Init
  <2>3. \A thread \in Threads : frames[thread].step = "idle"
    BY DEF Init, Idle
  <2> QED BY <2>1, <2>2, <2>3
          DEF SessionAccount, TimesAccount, ReturnsCounted, ReturnsRead
<1> QED BY <1>1, SessionAccountKept, TypeInvariant, PTL DEF Spec

\* What a tree was given up for stays true of it: none of its chains gains a
\* nested chain.
LEMMA DeservedStays ==
  ASSUME TypeInv, [Next]_vars, NEW root \in stopped, Deserved(root)
  PROVE  Deserved(root)'
<1>1. ASSUME UNCHANGED chains, verdicts \subseteq verdicts',
             \A chain \in Runs : /\ Len(outputs'[chain]) >= Len(outputs[chain])
                                 /\ Len(outputs'[chain]) \in Nat
                                 /\ Returned(chain) \subseteq Returned(chain)'
      PROVE  Deserved(root)'
  <2>1. \A chain : Session(chain)' = Session(chain) /\ Tree(chain)' = Tree(chain)
    BY <1>1, SessionStays
  <2>2. \A chain \in Tree(root) : chain \in Runs
    BY DEF Tree, Begun
  <2>3. CASE \E chain \in Tree(root) : Len(outputs[chain]) > MaxAutoHops
    <3>1. PICK chain \in Tree(root) : Len(outputs[chain]) > MaxAutoHops
      BY <2>3
    <3>2. Len(outputs'[chain]) > MaxAutoHops
      BY <1>1, <2>2, <3>1, CountsType
    <3> QED BY <2>1, <3>1, <3>2 DEF Deserved
  <2>4. ASSUME NEW verdict \in verdicts, verdict.chain \in Tree(root),
               verdict.outcome = "blocked", Hasty(verdict)
        PROVE  Deserved(root)'
    <3>1. Hasty(verdict)'
      BY <1>1, <2>1, <2>2, <2>4 DEF Hasty, Needed
    <3> QED BY <1>1, <2>1, <2>4, <3>1 DEF Deserved
  <2> QED BY <2>3, <2>4 DEF Deserved
<1>2. ASSUME NEW run \in Runs, NEW parent \in Runs \cup {None},
             OnChainStart(run, parent)
      PROVE  Deserved(root)'
  <2>1. /\ UNCHANGED <<outputs, verdicts>> /\ run \notin Begun
        /\ parent \in Going \cup {None}
        /\ \A chain : Returned(chain)' = Returned(chain)
    BY <1>2 DEF OnChainStart, Returned
  <2>2. Begun' = Begun \cup {run} /\ \A chain \in Begun : chains'[chain] = chains[chain]
    BY <1>2, ChainBegins, ChainsStay DEF TypeInv
  <2>3. \A chain \in Tree(root) : chain \in Tree(root)'
    BY <2>2 DEF Tree
  <2>4. CASE \E chain \in Tree(root) : Len(outputs[chain]) > MaxAutoHops
    BY <2>1, <2>3, <2>4 DEF Deserved
  <2>5. ASSUME NEW verdict \in verdicts, verdict.chain \in Tree(root),
               verdict.outcome = "blocked", Hasty(verdict)
        PROVE  Deserved(root)'
    <3>1. verdict.chain \in Begun /\ verdict.chain \notin Going
      BY <2>5 DEF Tree, Going
    <3>2. verdict.chain # SessionOf(run, parent)
      BY <2>1, <3>1 DEF SessionOf, Going
    <3>3. Session(verdict.chain)' = Session(verdict.chain)
      BY <1>2, <3>2, SessionGrows DEF TypeInv
    <3>4. Session(verdict.chain) \subseteq Begun
      BY DEF Session
    <3>5. Hasty(verdict)'
      BY <2>1, <2>2, <2>5, <3>3, <3>4 DEF Hasty, Needed
    <3> QED BY <2>1, <2>3, <2>5, <3>5 DEF Deserved
  <2> QED BY <2>4, <2>5 DEF Deserved
<1>3. ASSUME NEW thread \in Threads, NEW chain \in Runs, NEW output \in Outputs,
             OnToolEnd(thread, chain, output)
      PROVE  Deserved(root)'
  <2>1. UNCHANGED <<chains, verdicts>>
    BY <1>3 DEF OnToolEnd
  <2>2. \A other \in Runs : /\ Len(outputs'[other]) >= Len(outputs[other])
                            /\ Len(outputs'[other]) \in Nat
                            /\ Returned(other) \subseteq Returned(other)'
    BY <1>3, OutputsGrow
  <2> QED BY <1>1, <2>1, <2>2
<1>4. ASSUME UNCHANGED <<chains, outputs>>, verdicts \subseteq verdicts'
      PROVE  Deserved(root)'
  <2>1. \A chain \in Runs : /\ Len(outputs'[chain]) >= Len(outputs[chain])
                            /\ Len(outputs'[chain]) \in Nat
                            /\ Returned(chain) \subseteq Returned(chain)'
    BY <1>4, CountsType DEF Returned
  <2> QED BY <1>1, <1>4, <2>1
<1>5. ASSUME NEW chain \in Runs, ToolStart(chain) \/ ToolError(chain)
      PROVE  Deserved(root)'
  BY <1>4, <1>5 DEF ToolStart, ToolError
<1>6. ASSUME NEW thread \in Threads,
             StoreHops(thread) \/ StorePending(thread) \/ CheckHops(thread)
      PROVE  Deserved(root)'
  BY <1>4, <1>6 DEF StoreHops, StorePending, CheckHops
<1>7. ASSUME NEW chain \in Runs, NEW plan \in Plans,
             \/ PlanUnchecked(chain, plan)
             \/ \E thread \in Threads : OnLlmEnd(thread, chain, plan)
      PROVE  Deserved(root)'
  BY <1>4, <1>7 DEF PlanUnchecked, OnLlmEnd
<1>8. ASSUME NEW thread \in Threads, PlanAccepted(thread) \/ PlanBlocked(thread)
      PROVE  Deserved(root)'
  BY <1>4, <1>8 DEF PlanAccepted, PlanBlocked, Judge
<1>9. CASE Tick
  BY <1>4, <1>9 DEF Tick
<1>10. CASE UNCHANGED vars
  BY <1>4, <1>10 DEF vars
<1> QED BY <1>2, <1>3, <1>5, <1>6, <1>7, <1>8, <1>9, <1>10 DEF Next

\* A tree is given up by a tool too many or by a text that came too soon.
LEMMA NewStopIsDeserved ==
  ASSUME TypeInv, SessionAccount, [Next]_vars,
         NEW root \in stopped', root \notin stopped
  PROVE  Deserved(root)'
<1>1. ASSUME NEW thread \in Threads, CheckHops(thread)
      PROVE  Deserved(root)'
  <2> DEFINE chain == frames[thread].chain
  <2>1. /\ chain \in Begun /\ chain \in Runs /\ outputs' = outputs /\ chains' = chains
    BY <1>1, FrameType DEF CheckHops
  <2>2. root = chains[chain].root /\ sessionHops[chain] > MaxAutoHops
    BY <1>1 DEF CheckHops, StoppedByHops
  <2>3. sessionHops[chain] <= Len(outputs[chain])
    BY <2>1 DEF SessionAccount, ReturnsCounted
  <2>4. Len(outputs[chain]) > MaxAutoHops
    BY <2>1, <2>2, <2>3, CountsType
  <2>5. chain \in Tree(root)'
    BY <2>1, <2>2 DEF Tree, Begun
  <2> HIDE DEF chain
  <2> QED BY <2>1, <2>4, <2>5 DEF Deserved
<1>2. ASSUME NEW thread \in Threads, PlanBlocked(thread)
      PROVE  Deserved(root)'
  <2> DEFINE chain == frames[thread].chain
             verdict == Verdict(chain, frames[thread].output, frames[thread].typed,
                                "blocked")
  <2>1. /\ frames[thread].step = "judge" /\ root = chains[chain].root
        /\ TooFast(frames[thread]) /\ verdict \in verdicts'
        /\ UNCHANGED <<chains, outputs>>
    BY <1>2 DEF PlanBlocked, Judge
  <2>2. chain \in Begun /\ chain \in Runs
    BY <2>1, FrameType
  <2>3. /\ verdict.chain = chain /\ verdict.at = now /\ verdict.outcome = "blocked"
        /\ verdict.read = frames[thread].output
        /\ Needed(verdict) = MinimumHumanTime(frames[thread].output, frames[thread].typed)
    BY DEF Verdict, Needed
  <2>4. frames[thread].output \in {0} \cup Returned(chain)
    BY <2>1, <2>2 DEF SessionAccount, ReturnsRead
  <2>5. Elapsed(chain) < MinimumHumanTime(frames[thread].output, frames[thread].typed)
    BY <2>1 DEF TooFast
  <2>6. chain \in Tree(root)
    BY <2>1, <2>2 DEF Tree
  <2> HIDE DEF chain, verdict
  <2>7. \/ Session(chain) = {}
        \/ \E run \in Session(chain) : 5 * (now - chains[run].at) < Needed(verdict)
    <3>1. CASE startTimes[chain] = None
      BY <2>2, <3>1 DEF SessionAccount, TimesAccount
    <3>2. CASE startTimes[chain] # None
      <4>1. PICK run \in Session(chain) : chains[run].at = startTimes[chain]
        BY <2>2, <3>2 DEF SessionAccount, TimesAccount
      <4>2. Elapsed(chain) = 5 * (now - chains[run].at)
        BY <3>2, <4>1 DEF Elapsed
      <4> QED BY <2>3, <2>5, <4>1, <4>2
    <3> QED BY <3>1, <3>2
  <2>8. \A other : /\ Session(other)' = Session(other) /\ Tree(other)' = Tree(other)
                   /\ Returned(other)' = Returned(other)
    BY <2>1, SessionStays DEF Returned
  <2>9. PICK blocked \in verdicts' : blocked = verdict
    BY <2>1
  <2>10. /\ blocked.outcome = "blocked" /\ blocked.chain \in Tree(root)'
         /\ blocked.read \in {0} \cup Returned(blocked.chain)'
         /\ \/ Session(blocked.chain)' = {}
            \/ \E run \in Session(blocked.chain)' :
                   5 * (blocked.at - chains'[run].at) < Needed(blocked)
    BY <2>1, <2>3, <2>4, <2>6, <2>7, <2>8, <2>9
  <2> QED BY <2>10 DEF Deserved, Hasty, Needed
<1> QED BY <1>1, <1>2
        DEF Next, OnChainStart, ToolStart, ToolError, OnToolEnd, StoreHops,
            StorePending, PlanUnchecked, OnLlmEnd, PlanAccepted, Tick, vars

\* Every tree that was given up deserved it, for all runs, limits and bounds and
\* however the handlers overlap: more tools of a chain of it returned than the
\* limit, or a chain of it asked for approval sooner than a human could have
\* since a chain of its session started.
THEOREM DeservedStops == Spec => []StopsAreDeserved
<1> DEFINE Inv == \A root \in stopped : Deserved(root)
<1>1. Init => Inv
  BY DEF Init
<1>2. TypeInv /\ SessionAccount /\ Inv /\ [Next]_vars => Inv'
  <2> SUFFICES ASSUME TypeInv, SessionAccount, Inv, [Next]_vars,
                      NEW root \in stopped'
               PROVE  Deserved(root)'
    OBVIOUS
  <2>1. CASE root \in stopped
    BY <2>1, DeservedStays
  <2>2. CASE root \notin stopped
    BY <2>2, NewStopIsDeserved
  <2> QED BY <2>1, <2>2
<1>3. Inv => StopsAreDeserved
  BY DEF StopsAreDeserved, Deserved, Hasty, Needed, Session
<1> QED BY <1>1, <1>2, <1>3, TypeInvariant, SessionAccountInvariant, PTL DEF Spec
=============================================================================
