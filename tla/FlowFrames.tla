----------------------------- MODULE FlowFrames -----------------------------
(***************************************************************************)
(* How a run stops at waits and goes on from a checkpoint.  A pass runs    *)
(* until no step of the flow can go on; each executor on the way to a wait *)
(* returns a frame with what it needs to continue, and the next pass is    *)
(* handed these frames (checkpoint.ts).  For the rest an executor does     *)
(* what it does in FlowWalk.  A frame holds those of its children; here    *)
(* they are kept by node.  A checkpoint is JSON: its values read back as   *)
(* JSON has them, and a run that JSON cannot hold fails.                   *)
(*                                                                         *)
(* Tasks ask for one wait at most.                                         *)
(***************************************************************************)
EXTENDS FlowExecutors, Functions

CONSTANTS Json(_),      \* what a value reads back as, None where JSON drops it
          Encodes(_)    \* JSON can encode a checkpoint

VARIABLES frames,       \* by node: the frame it returned, until a pass takes it up again
          saved,        \* checkpoint.output
          resolutions,  \* the waits this pass resolves
          asked,        \* waits opened (history)
          resolved      \* waits resolved (history)

kept == <<saved, resolutions, asked, resolved>>
vars == <<flow, status, act, frames, output, saved, accumulator, resolutions, snapshots, ran,
          asked, resolved>>

HasFrame(n) == n \in DOMAIN frames

\* Executors that were handed no frame, and whose children returned none.
Unframed(n) == ~\E m \in Children(n) \cup {n} : HasFrame(m)

IsHanded(n) == act[n] = Called /\ HasFrame(n)

----------------------------------------------------------------------------
(* Checkpoints *)

\* cloneAsJson: of a value, of the entries of an output, and of the frames with their
\* inputs, items, accumulators and outputs of branches.
AsJson(value) == IF value = None THEN None ELSE Json(value)

OutputAsJson(entries) ==
  [name \in {m \in DOMAIN entries : AsJson(entries[m]) # None} |-> AsJson(entries[name])]

FrameAsJson(n) ==
  CASE IsKind(n, "task") -> [inputs |-> AsJson(frames[n].inputs), wait |-> frames[n].wait]
    [] IsKind(n, "parallel") ->
         [outputs |-> [b \in DOMAIN frames[n].outputs |-> OutputAsJson(frames[n].outputs[b])]]
    [] IsLoop(n) ->
         [index |-> frames[n].index,
          items |-> [i \in DOMAIN frames[n].items |-> AsJson(frames[n].items[i])],
          accumulator |-> AsJson(frames[n].accumulator)]
    [] IsKind(n, "sequence") ->
         [index |-> frames[n].index, accumulator |-> AsJson(frames[n].accumulator)]
    [] OTHER -> frames[n]

FramesAsJson == [n \in DOMAIN frames |-> FrameAsJson(n)]

\* What a pass that suspends makes its checkpoint of.
Unsaved == [output |-> output[flow], frames |-> frames]

----------------------------------------------------------------------------
Keep(n, frame) == frames' = [m \in DOMAIN frames \cup {n} |-> IF m = n THEN frame ELSE frames[m]]
TakeUp(n) == frames' = [m \in DOMAIN frames \ {n} |-> frames[m]]

----------------------------------------------------------------------------
(* Tasks *)

\* Mutant: the body of a resumed step does not get past its wait.
Asks_Again(n) == Tree(n).waits

\* suspend(): the body of a step whose wait this pass resolves gets what it resolved to.
Asks(n) == Tree(n).waits /\ Instance(n) \notin resolutions

TaskFrame(n) == [inputs |-> act[n].inputs, wait |-> Instance(n)]

TaskAsks(n) ==
  /\ IsKind(n, "task")
  /\ IsBusy(n)
  /\ Asks(n)
  /\ Return(n)
  /\ Keep(n, TaskFrame(n))
  /\ Report({Instance(n)}, "suspended")
  /\ asked' = Append(asked, Instance(n))
  /\ UNCHANGED <<flow, status, output, saved, accumulator, resolutions, ran, resolved>>

\* A parked wait this pass does not resolve stays as it was; a resumed task runs again with
\* the inputs recorded for it.
TaskResumes(n) ==
  /\ IsKind(n, "task")
  /\ IsHanded(n)
  /\ IF frames[n].wait \in resolutions
     THEN /\ Execute(n, Running(frames[n].inputs), {})
          /\ TakeUp(n)
          /\ Report({Instance(n)}, "running")
     ELSE Return(n) /\ UNCHANGED <<frames, snapshots>>
  /\ UNCHANGED <<flow, status, output, accumulator, ran, kept>>

----------------------------------------------------------------------------
(* Sequences, conditionals and loops *)

\* Mutant: a sequence records the step to go on with after the wait.
SequenceFrame_After(n) == [index |-> act[n].index + 1, accumulator |-> accumulator[Scope(n)]]

SequenceFrame(n) == [index |-> act[n].index, accumulator |-> accumulator[Scope(n)]]

ConditionalFrame(n) == [index |-> act[n].index]

LoopFrame(n) ==
  [index |-> act[n].index, items |-> act[n].items, accumulator |-> act[n].accumulator]

IsInterrupted(n) == HasReturned(n) /\ HasFrame(ChildAt(n, act[n].index))

SequenceSuspends(n) ==
  /\ IsKind(n, "sequence")
  /\ IsInterrupted(n)
  /\ Return(n)
  /\ Keep(n, SequenceFrame(n))
  /\ accumulator' = [accumulator EXCEPT ![n] = None]
  /\ UNCHANGED <<flow, status, output, snapshots, ran, kept>>

ConditionalSuspends(n) ==
  /\ IsKind(n, "conditional")
  /\ IsInterrupted(n)
  /\ Return(n)
  /\ Keep(n, ConditionalFrame(n))
  /\ UNCHANGED <<flow, status, output, accumulator, snapshots, ran, kept>>

LoopSuspends(n) ==
  /\ IsLoop(n)
  /\ IsInterrupted(n)
  /\ Return(n)
  /\ Keep(n, LoopFrame(n))
  /\ UNCHANGED <<flow, status, output, accumulator, snapshots, ran, kept>>

Resumed(n, local) == Execute(n, local, {ChildAt(n, frames[n].index)})

\* Mutant: a resumed sequence goes on under the accumulator its scope began with.
Entered_Around(n) == accumulator

\* A sequence goes on under the accumulator its scope had when it suspended.
Entered(n) == [accumulator EXCEPT ![Scope(n)] = frames[n].accumulator]

SequenceResumes(n) ==
  /\ IsKind(n, "sequence")
  /\ IsHanded(n)
  /\ Resumed(n, At(frames[n].index))
  /\ TakeUp(n)
  /\ accumulator' = Entered(n)
  /\ UNCHANGED <<flow, status, output, snapshots, ran, kept>>

\* The branch of a resumed conditional is not chosen again, and a resumed iteration has no
\* guard to pass.
ConditionalResumes(n) ==
  /\ IsKind(n, "conditional")
  /\ IsHanded(n)
  /\ Resumed(n, At(frames[n].index))
  /\ TakeUp(n)
  /\ UNCHANGED <<flow, status, output, accumulator, snapshots, ran, kept>>

LoopResumes(n) ==
  /\ IsLoop(n)
  /\ IsHanded(n)
  /\ Resumed(n, Looping(frames[n].index, frames[n].items, frames[n].accumulator))
  /\ TakeUp(n)
  /\ UNCHANGED <<flow, status, output, accumulator, snapshots, ran, kept>>

----------------------------------------------------------------------------
(* Parallel blocks *)

\* collectWaits
WaitsUnder(n) ==
  {frames[t].wait : t \in {m \in Under(n) : IsKind(m, "task") /\ HasFrame(m)}}

\* Mutant: a branch is run again only if all of its waits are resolved.
Stays_UnlessAll(n) == ~HasFrame(n) \/ ~(WaitsUnder(n) \subseteq resolutions)

\* keepRecordedBranch: a fulfilled branch, and one with nothing to go on with in this pass.
Stays(n) == ~HasFrame(n) \/ WaitsUnder(n) \cap resolutions = {}

\* A branch starts from the outputs it had recorded.
ParallelResumes(n) ==
  /\ IsKind(n, "parallel")
  /\ IsHanded(n)
  /\ act' = [m \in DOMAIN act |->
               IF m \in Children(n) /\ Stays(m) THEN Returned
               ELSE Executed(act, n, Waiting, Children(n))[m]]
  /\ TakeUp(n)
  /\ output' = [l \in DOMAIN output |-> IF l \in Children(n) THEN frames[n].outputs[l] ELSE output[l]]
  /\ UNCHANGED <<flow, status, accumulator, snapshots, ran, kept>>

\* buildParallelFrame: what the branches wrote, and the frames of those that suspended.
ParallelFrame(n) == [outputs |-> [b \in Children(n) |-> output[b]]]

ParallelSuspends(n) ==
  /\ IsKind(n, "parallel")
  /\ AllReturned(n)
  /\ \E b \in Children(n) : HasFrame(b)
  /\ Return(n)
  /\ Keep(n, ParallelFrame(n))
  /\ output' = [l \in DOMAIN output |-> IF l \in Children(n) THEN <<>> ELSE output[l]]
  /\ UNCHANGED <<flow, status, accumulator, snapshots, ran, kept>>

----------------------------------------------------------------------------
(* Passes *)

Init ==
  /\ flow \in Flows
  /\ status = "idle"
  /\ act = Everywhere(Idle)
  /\ output = Everywhere(<<>>)
  /\ accumulator = Everywhere(None)
  /\ snapshots = <<>>
  /\ ran = <<>>
  /\ frames = <<>>
  /\ saved = <<>>
  /\ resolutions = {}
  /\ asked = <<>>
  /\ resolved = <<>>

Start ==
  /\ status = "idle"
  /\ status' = "running"
  /\ act' = [act EXCEPT ![flow] = Called]
  /\ UNCHANGED <<flow, frames, output, accumulator, snapshots, ran, kept>>

\* runExecution: the run ends suspended on a checkpoint,
PassSuspends ==
  /\ act[flow] = Returned
  /\ HasFrame(flow)
  /\ Encodes(Unsaved)
  /\ status' = "suspended"
  /\ saved' = OutputAsJson(output[flow])
  /\ frames' = FramesAsJson
  /\ act' = Everywhere(Idle)
  /\ output' = Everywhere(<<>>)
  /\ accumulator' = Everywhere(None)
  /\ UNCHANGED <<flow, resolutions, snapshots, ran, asked, resolved>>

\* or fails if buildCheckpoint cannot make one (its steps are left reported suspended, and
\* nothing reads the frames again), or finishes.
PassFails ==
  /\ act[flow] = Returned
  /\ HasFrame(flow)
  /\ ~Encodes(Unsaved)
  /\ status' = "failed"
  /\ act' = Everywhere(Idle)
  /\ UNCHANGED <<flow, frames, output, accumulator, snapshots, ran, kept>>

PassFinishes ==
  /\ act[flow] = Returned
  /\ ~HasFrame(flow)
  /\ status' = "finished"
  /\ act' = Everywhere(Idle)
  /\ UNCHANGED <<flow, frames, output, accumulator, snapshots, ran, kept>>

OpenWaits == WaitsUnder(flow)

\* Mutant: a restored runner starts an empty report.
Reported_Empty == <<>>

\* The report of a run restored from its checkpoint goes on from the one persisted.
Reported == snapshots

\* Mutant: what resolves a wait resolves every open one.
Resolving_Open(wait) == OpenWaits

\* A pass resolves one wait.
Resolving(wait) == {wait}

\* resume, in process or on a runner restored with fromCheckpoint: from a JSON copy.
Resume(wait) ==
  /\ status = "suspended"
  /\ status' = "running"
  /\ act' = [act EXCEPT ![flow] = Called]
  /\ output' = [output EXCEPT ![flow] = OutputAsJson(saved)]
  /\ frames' = FramesAsJson
  /\ resolutions' = Resolving(wait)
  /\ snapshots' = Reported
  /\ resolved' = Append(resolved, wait)
  /\ UNCHANGED <<flow, saved, accumulator, ran, asked>>

\* An executor that a wait does not concern does what it does in a walk.
StepRuns(n) ==
  /\ Unframed(n)
  /\ ~(IsKind(n, "task") /\ IsBusy(n) /\ Asks(n))
  /\ Step(n)
  /\ UNCHANGED <<frames, kept>>

StepSuspends(n) ==
  \/ TaskAsks(n)
  \/ SequenceSuspends(n)
  \/ ConditionalSuspends(n)
  \/ LoopSuspends(n)
  \/ ParallelSuspends(n)

StepResumes(n) ==
  \/ TaskResumes(n)
  \/ SequenceResumes(n)
  \/ ConditionalResumes(n)
  \/ LoopResumes(n)
  \/ ParallelResumes(n)

Next ==
  \/ Start
  \/ PassSuspends
  \/ PassFails
  \/ PassFinishes
  \/ \E wait \in OpenWaits : Resume(wait)
  \/ \E n \in Under(flow) : StepRuns(n) \/ StepSuspends(n) \/ StepResumes(n)

Spec == Init /\ [][Next]_vars

----------------------------------------------------------------------------
(* Properties *)

\* The walk a run has come to: an executor that waits is where its frame says.
RecordedAt(n) ==
  CASE IsKind(n, "task") -> Running(frames[n].inputs)
    [] IsKind(n, "parallel") -> Waiting
    [] IsLoop(n) -> Looping(frames[n].index, frames[n].items, frames[n].accumulator)
    [] OTHER -> At(frames[n].index)

WalkedAt(n) ==
  IF HasFrame(n) THEN RecordedAt(n)
  ELSE IF act[n] = Idle /\ IsBranch(n) /\ HasFrame(Parent(n)) THEN Returned
  ELSE act[n]

WrittenAt(n) ==
  IF n = flow THEN IF status = "suspended" THEN saved ELSE output[n]
  ELSE IF IsBranch(n) /\ HasFrame(Parent(n)) THEN frames[Parent(n)].outputs[n]
  ELSE output[n]

AccumulatedAt(n) ==
  IF OwnsAccumulator(n) /\ HasFrame(n) THEN frames[n].accumulator ELSE accumulator[n]

Progress == IF status = "suspended" THEN "running" ELSE status
Walked == [n \in Under(flow) |-> WalkedAt(n)]
Written == [n \in Under(flow) |-> WrittenAt(n)]
Accumulated == [n \in Under(flow) |-> AccumulatedAt(n)]
Told == [i \in DOMAIN snapshots |->
           IF snapshots[i] = "suspended" THEN "running" ELSE snapshots[i]]

Walk == INSTANCE FlowWalk WITH
  status <- Progress, act <- Walked, output <- Written, accumulator <- Accumulated,
  snapshots <- Told

\* JSON reads back what this pass leaves in its checkpoint, or the next one begins with.
ReadsBack(entries) == OutputAsJson(entries) = entries /\ FramesAsJson = frames

LosesNothing ==
  /\ act[flow] = Returned /\ HasFrame(flow) => Encodes(Unsaved) /\ ReadsBack(output[flow])
  /\ status = "suspended" => ReadsBack(saved)

\* However often and in whatever order it is resumed, a run does what it does when nothing
\* interrupts it: the same steps with the same inputs, whatever expressions would evaluate
\* to by then, the same outputs and the same report.  Only a checkpoint of values that are
\* not plain JSON shows, at its end or at the start from it ("seen as a host would store
\* them", SUSPENSION.md).
ImplementsWalk == Walk!Init /\ [][LosesNothing => Walk!Next]_(Walk!vars)

\* What validateCheckpoint asks of a frame: it fits its step, and so does what it holds.
ValidFrame(n) ==
  /\ Parent(n) # None => HasFrame(Parent(n))
  /\ CASE IsKind(n, "task") -> TRUE
       [] IsKind(n, "parallel") ->
            /\ DOMAIN frames[n].outputs = Children(n)
            /\ \E b \in Children(n) : HasFrame(b)
       [] OTHER ->
            /\ IsKind(n, "for_each") => frames[n].index \in DOMAIN frames[n].items
            /\ ~IsLoop(n) => frames[n].index \in Positions(n)
            /\ {c \in Children(n) : HasFrame(c)} = {ChildAt(n, frames[n].index)}

\* Type invariant; every checkpoint a pass ends on is one the engine accepts to resume
\* (validateCheckpoint), whatever JSON made of the values in it, and it holds the waits that
\* are reported suspended.
CheckpointsFit ==
  /\ flow \in Flows
  /\ status \in {"idle", "running", "suspended", "failed", "finished"}
  /\ status = "suspended" => HasFrame(flow) /\ \A n \in DOMAIN frames : ValidFrame(n)
  /\ OpenWaits = {i \in DOMAIN snapshots : snapshots[i] = "suspended"}
  /\ OpenWaits \subseteq Range(asked)

\* A task instance completes once, however often the flow around it is entered again.
TasksRunOnce ==
  \A i, j \in DOMAIN ran : ran[i].step = ran[j].step => i = j

\* A wait is opened once in a run, and resolved once: its id is "unique within a run"
\* (WaitInfo), also among the iterations of nested loops.
WaitsAreUnique ==
  /\ IsInjective(asked)
  /\ IsInjective(resolved)

\* A pass that ends has closed the wait it resolved: no branch that could go on was left.
ResolvedWaitsClose ==
  status = "suspended" => OpenWaits \cap Range(resolved) = {}

\* A wait that nothing resolved stays in the checkpoint as it was, with the inputs recorded
\* for it, or what JSON makes of them.
ParkedWaitsStay ==
  [][\A n \in DOMAIN frames :
       IsKind(n, "task") /\ frames[n].wait \notin Range(resolved)
         => n \in DOMAIN frames' /\ frames'[n] \in {frames[n], FrameAsJson(n)}]_vars
=============================================================================
