---------------------------- MODULE FlowExecutors ----------------------------
(***************************************************************************)
(* The executors that walk a flow: executeFlow of workflow-runner.ts with  *)
(* the step executors of packages/agentic, one action for each stretch an  *)
(* executor runs between a call and a return.  The branches of a parallel  *)
(* block, wait_all, interleave (ParallelBlock has wait_any).  Tasks do not *)
(* fail (StepSuspension has what a body may do), and context.state is left *)
(* to the tasks.                                                           *)
(***************************************************************************)
EXTENDS FlowTree

VARIABLES flow,         \* compiled.flow, the sequence that is run
          status,       \* of the run
          act,         \* the executors of the nodes of the flow
          output,       \* $output, by the layers it was written in
          accumulator,  \* state.accumulator, by the sequences that own one
          snapshots,    \* status of the step instances, as reported
          ran           \* tasks completed, with their inputs (history)


----------------------------------------------------------------------------
(* Scopes *)

\* Mutant: step instances are not told apart by the iterations of outer loops.
Instance_Innermost(n) ==
  <<n, [l \in LoopsAbove(n) \cap {Loop(n)} |-> act[l].index]>>

\* buildInstanceStepInfo: a step, and the iterations it is in.
Instance(n) == <<n, [l \in LoopsAbove(n) |-> act[l].index]>>

\* What is seen of outputs in layers: the innermost that has a name gives its value.
Seen(layers) ==
  [name \in UNION {DOMAIN layers[l] : l \in DOMAIN layers} |->
     layers[CHOOSE l \in DOMAIN layers :
              /\ name \in DOMAIN layers[l]
              /\ \A m \in DOMAIN layers : name \in DOMAIN layers[m] => m \in UpTo(l)][name]]

OutputOf(n) == Seen([l \in Layers(n) |-> output[l]])

IterationAt(loop, index, items) ==
  [index |-> index, item |-> IF IsKind(loop, "for_each") THEN items[index] ELSE None]

IterationOf(n) ==
  IF Loop(n) = None THEN None ELSE IterationAt(Loop(n), act[Loop(n)].index, act[Loop(n)].items)

\* EvaluationScope: of a step, and of the expressions a loop evaluates around an iteration.
ScopeOf(n) ==
  [output |-> OutputOf(n), iteration |-> IterationOf(n), accumulator |-> accumulator[Scope(n)]]

LoopScope(n, index, items, acc) ==
  [output |-> OutputOf(n), iteration |-> IterationAt(n, index, items), accumulator |-> acc]

Holds(condition, scope) == Eval(condition, scope) = TRUE

Write(n, value) ==
  output' = [output EXCEPT ![Layer(n)] = Updated(output[Layer(n)], [name \in {Tree(n).name} |-> value])]

\* markSnapshot
Report(instances, word) == snapshots' = Updated(snapshots, [i \in instances |-> word])

----------------------------------------------------------------------------
(* Sequences and tasks *)

IsCalled(n) == act[n] = Called
IsBusy(n) == act[n].at = "busy"

\* The child an executor called has returned.
HasReturned(n) == IsBusy(n) /\ act[ChildAt(n, act[n].index)] = Returned

Execute(n, local, called) == act' = Executed(act, n, local, called)
Return(n) == Execute(n, Returned, {})

StepsFrom(n, index) ==
  /\ IF index \in Positions(n)
     THEN Execute(n, At(index), {ChildAt(n, index)}) /\ UNCHANGED accumulator
     ELSE Return(n) /\ accumulator' = [accumulator EXCEPT ![n] = None]
  /\ UNCHANGED <<flow, status, output, snapshots, ran>>

SequenceBegins(n) == IsKind(n, "sequence") /\ IsCalled(n) /\ StepsFrom(n, 1)

SequenceContinues(n) ==
  IsKind(n, "sequence") /\ HasReturned(n) /\ StepsFrom(n, act[n].index + 1)

\* The inputs of a task are evaluated as it begins.
TaskBegins(n) ==
  /\ IsKind(n, "task")
  /\ IsCalled(n)
  /\ Execute(n, Running(Eval(Tree(n).inputs, ScopeOf(n))), {})
  /\ Report({Instance(n)}, "running")
  /\ UNCHANGED <<flow, status, output, accumulator, ran>>

\* captureTaskOutput
TaskCompletes(n) ==
  /\ IsKind(n, "task")
  /\ IsBusy(n)
  /\ Return(n)
  /\ Write(n, Instance(n))
  /\ Report({Instance(n)}, "completed")
  /\ ran' = Append(ran, [step |-> Instance(n), inputs |-> act[n].inputs])
  /\ UNCHANGED <<flow, status, accumulator>>

----------------------------------------------------------------------------
(* Conditionals *)

BranchHolds(n, branch) == Holds(Tree(n).conditions[branch], ScopeOf(n))

\* markStepsSkipped: the steps of branches, and those below their blocks and conditionals,
\* not in loops.
StepsUnder(n, branches) ==
  {m \in UNION {Under(ChildAt(n, b)) : b \in branches} :
     ~IsKind(m, "sequence") /\ LoopsAbove(m) = LoopsAbove(n)}

SkipBranches(n, branches) == Report({Instance(m) : m \in StepsUnder(n, branches)}, "skipped")

ConditionalBegins(n) ==
  /\ IsKind(n, "conditional")
  /\ IsCalled(n)
  /\ \E branch \in Positions(n) :
       /\ BranchHolds(n, branch)
       /\ \A earlier \in Positions(n) : earlier < branch => ~BranchHolds(n, earlier)
       /\ Execute(n, At(branch), {ChildAt(n, branch)})
       /\ SkipBranches(n, Positions(n) \ {branch})
       /\ accumulator' = [accumulator EXCEPT ![ChildAt(n, branch)] =
                            IF OwnsAccumulator(ChildAt(n, branch)) THEN accumulator[Scope(n)] ELSE None]
  /\ UNCHANGED <<flow, status, output, ran>>

ConditionalSkips(n) ==
  /\ IsKind(n, "conditional")
  /\ IsCalled(n)
  /\ \A branch \in Positions(n) : ~BranchHolds(n, branch)
  /\ Return(n)
  /\ SkipBranches(n, Positions(n))
  /\ UNCHANGED <<flow, status, output, accumulator, ran>>

ConditionalReturns(n) ==
  /\ IsKind(n, "conditional")
  /\ HasReturned(n)
  /\ Return(n)
  /\ UNCHANGED <<flow, status, output, accumulator, snapshots, ran>>

----------------------------------------------------------------------------
(* Loops *)

\* finalizeAccumulatorState: the accumulator goes to the scope of the loop, where the steps
\* after it in a sequence see it, and under the name of the loop, which it may not have, to
\* its outputs.
LoopEnds(n, acc) ==
  /\ Return(n)
  /\ IF Tree(n).accumulate /\ Tree(n).name # None THEN Write(n, acc) ELSE UNCHANGED output
  /\ accumulator' = IF Tree(n).accumulate /\ IsKind(Parent(n), "sequence")
                    THEN [accumulator EXCEPT ![Scope(n)] = acc] ELSE accumulator

HasIteration(n, index, items, acc) ==
  IF IsKind(n, "for_each") THEN index \in DOMAIN items
  ELSE Holds(Tree(n).guard, LoopScope(n, index, items, acc))

IterationsFrom(n, index, items, acc) ==
  IF HasIteration(n, index, items, acc)
  THEN /\ Execute(n, Looping(index, items, acc), Children(n))
       /\ accumulator' = [accumulator EXCEPT ![ChildAt(n, index)] = acc]
       /\ UNCHANGED output
  ELSE LoopEnds(n, acc)

\* resolveItems: the list of a for_each loop is resolved once.
LoopBegins(n) ==
  /\ IsLoop(n)
  /\ IsCalled(n)
  /\ IterationsFrom(n, 1,
                    IF IsKind(n, "for_each") THEN Eval(Tree(n).items, ScopeOf(n)) ELSE <<>>,
                    IF Tree(n).initial # None THEN Tree(n).initial ELSE accumulator[Scope(n)])
  /\ UNCHANGED <<flow, status, snapshots, ran>>

\* updateAccumulator, shouldStopLoop: in the scope of the iteration that ends.
Merged(n) ==
  IF Tree(n).accumulate
  THEN Eval(Tree(n).merge, LoopScope(n, act[n].index, act[n].items, act[n].accumulator))
  ELSE act[n].accumulator

Stops(n) ==
  /\ IsKind(n, "for_each")
  /\ Tree(n).until # None
  /\ Holds(Tree(n).until, LoopScope(n, act[n].index, act[n].items, act[n].accumulator))

LoopContinues(n) ==
  /\ IsLoop(n)
  /\ HasReturned(n)
  /\ IF Stops(n) THEN LoopEnds(n, Merged(n))
     ELSE IterationsFrom(n, act[n].index + 1, act[n].items, Merged(n))
  /\ UNCHANGED <<flow, status, snapshots, ran>>

----------------------------------------------------------------------------
(* Parallel blocks *)

ParallelBegins(n) ==
  /\ IsKind(n, "parallel")
  /\ IsCalled(n)
  /\ Execute(n, Waiting, Children(n))
  /\ UNCHANGED <<flow, status, output, accumulator, snapshots, ran>>

\* mergeBranchOutputs: what the branches wrote, the last branch that wrote a name giving its
\* value.
Joined(branches) ==
  [name \in UNION {DOMAIN branches[i] : i \in DOMAIN branches} |->
     branches[CHOOSE i \in DOMAIN branches :
                /\ name \in DOMAIN branches[i]
                /\ \A j \in DOMAIN branches : name \in DOMAIN branches[j] => j <= i][name]]

AllReturned(n) == IsBusy(n) /\ \A b \in Children(n) : act[b] = Returned

ParallelReturns(n) ==
  /\ IsKind(n, "parallel")
  /\ AllReturned(n)
  /\ Return(n)
  /\ output' = [l \in DOMAIN output |->
                  IF l = Layer(n)
                  THEN Updated(output[l], Joined([i \in Positions(n) |-> output[Tree(n).children[i]]]))
                  ELSE IF l \in Children(n) THEN <<>> ELSE output[l]]
  /\ UNCHANGED <<flow, status, accumulator, snapshots, ran>>

----------------------------------------------------------------------------
Everywhere(value) == [n \in Under(flow) |-> value]

Step(n) ==
  \/ SequenceBegins(n)
  \/ SequenceContinues(n)
  \/ TaskBegins(n)
  \/ TaskCompletes(n)
  \/ ConditionalBegins(n)
  \/ ConditionalSkips(n)
  \/ ConditionalReturns(n)
  \/ LoopBegins(n)
  \/ LoopContinues(n)
  \/ ParallelBegins(n)
  \/ ParallelReturns(n)
=============================================================================
