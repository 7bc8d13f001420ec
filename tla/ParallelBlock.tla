--------------------------- MODULE ParallelBlock ---------------------------
(***************************************************************************)
(* A parallel block of a workflow (step-executors/parallel-executor.ts of  *)
(* packages/agentic) over the passes of its run: the pass that enters it,  *)
(* and one for each wait of a suspended branch that is answered.  A branch *)
(* is a list of tasks.  A task writes a key of $output, and may suspend on *)
(* a wait first; its body then runs again once the wait is answered.       *)
(*                                                                         *)
(* Branches are promises: they go on in any order, and one that settles is *)
(* seen by the block only later (raceNext).                                *)
(***************************************************************************)
EXTENDS FiniteSets, Naturals, Sequences

CONSTANTS Blocks,       \* the blocks to look at: [strategy, tasks]
          Key           \* keys of $output

ASSUME BlocksAssumption ==
  \A b \in Blocks :
    /\ b.strategy \in {"wait_all", "wait_any"}
    /\ b.tasks \in Seq(Seq([key : Key, asks : BOOLEAN])) \ {<<>>}
    /\ \A i \in DOMAIN b.tasks : b.tasks[i] # <<>>

VARIABLES block,        \* the block, one of Blocks
          status,       \* what executeParallel is doing
          branch,       \* the branches of this pass, those kept from the frame included
          outcome,      \* outcomes: what the block has seen of its branches
          ending,       \* why the block gives up: [fulfilled, branch]
          frame,        \* the frame the block last suspended with
          output,       \* $output around the block
          open,         \* waits a host was told of and may still answer
          stepLog,      \* status of each task, as recorded
          outer         \* an enclosing block cancels this one

vars == <<block, status, branch, outcome, ending, frame, output, open, stepLog, outer>>

----------------------------------------------------------------------------
(* Values *)

Branches == DOMAIN block.tasks
Task(b, i) == block.tasks[b][i]
TasksOf(tasks) == UNION {{<<b, i>> : i \in DOMAIN tasks[b]} : b \in DOMAIN tasks}

\* A value of $output: the task that wrote it, and whose value that task saw under the key.
Parent == [by |-> <<0, 0>>, over |-> <<0, 0>>]
Before == [k \in Key |-> Parent]
Merged(into, delta) == [k \in Key |-> IF k \in DOMAIN delta THEN delta[k] ELSE into[k]]

Settled == {"fulfilled", "suspended", "failed", "cancelled"}
Pending == {b \in Branches : outcome[b] = "none"}
Launched == {b \in Branches : branch[b].launched}

\* Mutant: a resumed branch starts without what it had written.
Running_Afresh(i, delta, resumed) ==
  [state |-> "running", at |-> i, view |-> output, written |-> {},
   resumed |-> resumed, launched |-> TRUE, aborted |-> FALSE]

\* A branch that runs from task i on, over the block's $output and what it had written.
Running(i, delta, resumed) ==
  [state |-> "running", at |-> i, view |-> Merged(output, delta), written |-> DOMAIN delta,
   resumed |-> resumed, launched |-> TRUE, aborted |-> FALSE]

\* getDelta: the keys the branch wrote, with its values.
Delta(b) == [k \in branch[b].written |-> branch[b].view[k]]

\* ParallelBranchFrame of a settled branch, and the waits of a frame (collectWaits).
BranchFrame(b) == [state |-> branch[b].state, at |-> branch[b].at, delta |-> Delta(b)]
WaitsOf(f) == {<<b, f[b].at>> : b \in {c \in DOMAIN f : f[c].state = "suspended"}}

Nobody == [fulfilled |-> FALSE, branch |-> 0]

Init ==
  /\ block \in Blocks
  /\ status = "racing"
  /\ output = Before
  /\ branch = [b \in DOMAIN block.tasks |->
       [state |-> "running", at |-> 1, view |-> Before, written |-> {},
        resumed |-> FALSE, launched |-> TRUE, aborted |-> FALSE]]
  /\ outcome = [b \in DOMAIN block.tasks |-> "none"]
  /\ ending = Nobody
  /\ frame = <<>>
  /\ open = {}
  /\ stepLog = [t \in TasksOf(block.tasks) |-> IF t[2] = 1 THEN "running" ELSE "pending"]
  /\ outer = FALSE

----------------------------------------------------------------------------
(* A branch: runBranch, over the tasks of its step *)

\* Its current task records how it ends, and the branch settles.
Settles(b, state, logged) ==
  /\ branch' = [branch EXCEPT ![b].state = state]
  /\ stepLog' = [stepLog EXCEPT ![<<b, branch[b].at>>] = logged]

\* What a branch is that stops running under its signal.
UnlessAborted(b, state) == IF branch[b].aborted THEN "cancelled" ELSE state

\* The key is written over what the branch itself sees, not over its siblings' values.
Written(b) ==
  LET key == Task(b, branch[b].at).key IN
  [branch[b] EXCEPT
     !.view[key] = [by |-> <<b, branch[b].at>>, over |-> branch[b].view[key].by],
     !.written = @ \cup {key}]

\* Mutant: a branch goes on after its last task.
LastTask_OffByOne(b) == branch[b].at > Len(block.tasks[b])

LastTask(b) == branch[b].at = Len(block.tasks[b])

\* The body returns: its output is captured, and the next task starts, unless
\* there is none or the branch was cancelled meanwhile.
Complete(b) ==
  LET i == branch[b].at IN
  /\ branch[b].state = "running"
  /\ Task(b, i).asks => branch[b].resumed
  /\ IF LastTask(b) \/ branch[b].aborted
     THEN /\ branch' = [branch EXCEPT ![b] = [Written(b) EXCEPT !.state = UnlessAborted(b, "fulfilled")]]
          /\ stepLog' = [stepLog EXCEPT ![<<b, i>>] = "completed"]
     ELSE /\ branch' = [branch EXCEPT ![b] = [Written(b) EXCEPT !.at = i + 1, !.resumed = FALSE]]
          /\ stepLog' = [stepLog EXCEPT ![<<b, i>>] = "completed", ![<<b, i + 1>>] = "running"]
  /\ UNCHANGED <<block, status, outcome, ending, frame, output, open, outer>>

\* The body calls suspend() on a wait nobody has answered.  The host is told of
\* the wait, even if the branch is being cancelled.
Suspend(b) ==
  /\ branch[b].state = "running"
  /\ Task(b, branch[b].at).asks
  /\ ~branch[b].resumed
  /\ Settles(b, "suspended", "suspended")
  /\ open' = open \cup {<<b, branch[b].at>>}
  /\ UNCHANGED <<block, status, outcome, ending, frame, output, outer>>

\* The resumed body refuses the answer: the wait stays open (keepWaiting).
Refuse(b) ==
  /\ branch[b].state = "running"
  /\ branch[b].resumed
  /\ Settles(b, "suspended", "suspended")
  /\ open' = open \cup {<<b, branch[b].at>>}
  /\ UNCHANGED <<block, status, outcome, ending, frame, output, outer>>

Fail(b) ==
  /\ branch[b].state = "running"
  /\ Settles(b, UnlessAborted(b, "failed"), "failed")
  /\ UNCHANGED <<block, status, outcome, ending, frame, output, open, outer>>

\* The signal of the branch ends its task, whatever its body does.
Cancel(b) ==
  /\ branch[b].state = "running"
  /\ branch[b].aborted
  /\ Settles(b, "cancelled", "cancelled")
  /\ UNCHANGED <<block, status, outcome, ending, frame, output, open, outer>>

----------------------------------------------------------------------------
(* The block *)

\* The frame it suspends with, and the log it leaves when waits are dropped.
BuildFrame == [b \in Branches |-> BranchFrame(b)]
DropWaits(waits) ==
  /\ open' = open \ waits
  /\ stepLog' = [t \in DOMAIN stepLog |-> IF t \in waits THEN "cancelled" ELSE stepLog[t]]

\* Mutant: only the branches seen suspended before the others were cancelled drop their waits.
LeftSuspended_SeenBefore ==
  {<<b, branch[b].at>> : b \in {c \in Branches : outcome[c] = "suspended"}}

\* The waits of the branches that are suspended by now, whenever they suspended.
LeftSuspended == {<<b, branch[b].at>> : b \in {c \in Branches : branch[c].state = "suspended"}}

\* Every branch has settled and none ended the block.
Suspends(seen) ==
  \/ block.strategy = "wait_any"
  \/ \E b \in Branches : seen[b] = "suspended"

\* Mutant: deltas are assigned in the opposite order.
MergedInOrder_Reversed ==
  LET n == Len(block.tasks)
      into[i \in 0 .. n] == IF i = 0 THEN output ELSE Merged(into[i - 1], Delta(n + 1 - i))
  IN into[n]

\* mergeBranchOutputs: the deltas are assigned in the order of the branches.
MergedInOrder ==
  LET into[b \in 0 .. Len(block.tasks)] ==
        IF b = 0 THEN output ELSE Merged(into[b - 1], Delta(b))
  IN into[Len(block.tasks)]

\* A result ends the block: a failure always does, and so does a winner of wait_any.
Ends(state) ==
  \/ state \in {"failed", "cancelled"}
  \/ state = "fulfilled" /\ block.strategy = "wait_any"

\* Mutant: the signals are not given.
Aborted_None(branches) == branch

\* cancelBranches: the signals of branches.
Aborted(branches) ==
  [b \in Branches |-> IF b \in branches THEN [branch[b] EXCEPT !.aborted = TRUE] ELSE branch[b]]

\* raceNext gives a result that ends the block: the others are cancelled.
SeeEnd(b) ==
  /\ status = "racing"
  /\ outcome[b] = "none"
  /\ branch[b].state \in Settled
  /\ Ends(branch[b].state)
  /\ outcome' = [outcome EXCEPT ![b] = branch[b].state]
  /\ ending' = [fulfilled |-> branch[b].state = "fulfilled", branch |-> b]
  /\ branch' = Aborted(Pending \ {b})
  /\ status' = "abandoning"
  /\ UNCHANGED <<block, frame, output, open, stepLog, outer>>

\* raceNext gives a result that does not: after the last one the block suspends
\* or, with wait_all and no branch suspended, completes.  (When the answer was
\* refused the runner keeps the checkpoint it had: RefusalKeepsFrame says it is the
\* same one.)
SeeResult(b) ==
  LET seen == [outcome EXCEPT ![b] = branch[b].state] IN
  /\ status = "racing"
  /\ outcome[b] = "none"
  /\ branch[b].state \in Settled
  /\ ~Ends(branch[b].state)
  /\ outcome' = seen
  /\ IF Pending # {b}
     THEN UNCHANGED <<status, frame, output>>
     ELSE IF Suspends(seen)
     THEN /\ status' = "suspended"
          /\ frame' = BuildFrame
          /\ UNCHANGED output
     ELSE /\ status' = "completed"
          /\ output' = MergedInOrder
          /\ UNCHANGED frame
  /\ UNCHANGED <<block, branch, ending, open, stepLog, outer>>

\* abandonBranches: once all have settled, the waits of those left suspended are
\* dropped, those suspended in an earlier pass included, and the block ends.
Abandon ==
  /\ status = "abandoning"
  /\ \A b \in Branches : branch[b].state \in Settled
  /\ outcome' = [b \in Branches |-> IF b \in Launched THEN branch[b].state ELSE outcome[b]]
  /\ DropWaits(LeftSuspended)
  /\ IF ending.fulfilled
     THEN status' = "completed" /\ output' = Merged(output, Delta(ending.branch))
     ELSE status' = "failed" /\ UNCHANGED output
  /\ UNCHANGED <<block, branch, ending, frame, outer>>

----------------------------------------------------------------------------
(* Around the block *)

\* Mutant: a fulfilled branch is launched again.
Kept_Suspended(f, w, b) == f[b].state = "suspended" /\ w[1] # b

\* Mutant: a parked branch is launched with the one that is answered.
Kept_Fulfilled(f, w, b) == f[b].state = "fulfilled"

\* keepRecordedBranch: a recorded branch is not launched again unless this pass
\* answers a wait of it.
Kept(f, w, b) == f[b].state = "fulfilled" \/ w[1] # b

\* A later pass answers wait w: the frame is read back and its branch launched.
Resume(w) ==
  /\ status = "suspended"
  /\ ~outer
  /\ w \in WaitsOf(frame)
  /\ status' = "racing"
  /\ branch' = [b \in Branches |->
       IF Kept(frame, w, b)
       THEN [Running(frame[b].at, frame[b].delta, FALSE) EXCEPT
               !.state = frame[b].state, !.launched = FALSE]
       ELSE Running(frame[b].at, frame[b].delta, TRUE)]
  /\ outcome' = [b \in Branches |-> IF Kept(frame, w, b) THEN frame[b].state ELSE "none"]
  /\ ending' = Nobody
  /\ open' = open \ {w}
  /\ stepLog' = [t \in DOMAIN stepLog |->
       IF \E b \in Branches : ~Kept(frame, w, b) /\ t = <<b, frame[b].at>>
       THEN "running" ELSE stepLog[t]]
  /\ UNCHANGED <<block, frame, output, outer>>

\* An enclosing block gives up on this one: the signals of its branches are
\* linked.  Only the pass that enters the block has siblings that could end it:
\* a later one launches nothing but the branches around the answered wait.
OuterAbort ==
  /\ ~outer
  /\ frame = <<>>
  /\ status \in {"racing", "abandoning"}
  /\ outer' = TRUE
  /\ branch' = Aborted({b \in Branches : branch[b].state = "running"})
  /\ UNCHANGED <<block, status, outcome, ending, frame, output, open, stepLog>>

\* If this block suspended all the same, the enclosing one drops its waits.
OuterDrops ==
  /\ outer
  /\ status = "suspended"
  /\ DropWaits(WaitsOf(frame))
  /\ status' = "failed"
  /\ UNCHANGED <<block, branch, outcome, ending, frame, output, outer>>

----------------------------------------------------------------------------
Next ==
  \/ \E b \in Branches : Complete(b) \/ Suspend(b) \/ Refuse(b) \/ Fail(b) \/ Cancel(b)
  \/ \E b \in Branches : SeeEnd(b) \/ SeeResult(b)
  \/ Abandon
  \/ \E w \in open : Resume(w)
  \/ OuterAbort
  \/ OuterDrops

Spec == Init /\ [][Next]_vars

\* The engine goes on with what has settled, and a signal reaches its task; no
\* body is assumed to end by itself, and no wait to be answered.
BranchIds == UNION {DOMAIN b.tasks : b \in Blocks}

Fairness ==
  /\ WF_vars(Abandon)
  /\ \A b \in BranchIds : WF_vars(b \in Branches /\ Cancel(b))

FairSpec == Spec /\ Fairness

----------------------------------------------------------------------------
(* Properties *)

Ended == status \in {"completed", "failed"}
Value == [by : Nat \X Nat, over : Nat \X Nat]

\* Type invariant; a branch is always at a task of its own, and writes only keys.
TypeOK ==
  /\ block \in Blocks
  /\ status \in {"racing", "abandoning", "suspended", "completed", "failed"}
  /\ DOMAIN branch = Branches
  /\ \A b \in Branches :
       /\ branch[b].state \in Settled \cup {"running"}
       /\ branch[b].at \in DOMAIN block.tasks[b]
       /\ branch[b].view \in [Key -> Value]
       /\ branch[b].written \subseteq Key
       /\ <<branch[b].resumed, branch[b].launched, branch[b].aborted>>
            \in BOOLEAN \X BOOLEAN \X BOOLEAN
  /\ outcome \in [Branches -> Settled \cup {"none"}]
  /\ ending \in [fulfilled : BOOLEAN, branch : Branches \cup {0}]
  /\ frame # <<>> => DOMAIN frame = Branches
  /\ output \in [Key -> Value]
  /\ open \subseteq TasksOf(block.tasks)
  /\ stepLog \in [TasksOf(block.tasks) ->
                   {"pending", "running", "suspended", "completed", "failed", "cancelled"}]
  /\ outer \in BOOLEAN

\* The block leaves nothing behind.  Once it ended no branch runs and no wait of it
\* can be answered, even one that was opened while its branch was being cancelled
\* or in an earlier pass; while it is suspended no branch runs, and the waits a
\* host may answer are those of its frame (settle, then suspend; abandonBranches).
NothingLeftBehind ==
  /\ status \in {"suspended", "completed", "failed"} =>
       \A b \in Branches : branch[b].state # "running"
  /\ Ended => /\ open = {}
              /\ \A t \in DOMAIN stepLog : stepLog[t] \notin {"running", "suspended"}
  /\ status = "suspended" => open = WaitsOf(frame) /\ open # {}

\* What tasks 1..n of branch b leave in $output when it runs alone.
AloneUpTo(b) ==
  LET view[i \in 0 .. Len(block.tasks[b])] ==
        IF i = 0 THEN Before
        ELSE [view[i - 1] EXCEPT ![Task(b, i).key] = [by |-> <<b, i>>, over |-> @.by]]
  IN view

KeysOf(b) == {Task(b, i).key : i \in DOMAIN block.tasks[b]}
Alone(b) == AloneUpTo(b)[Len(block.tasks[b])]

\* A completed wait_all block leaves what its branches would leave if each ran alone,
\* from the $output at the start of the block, and the last one that writes a key
\* had the say: whatever the interleaving, and in however many passes (README of
\* packages/agentic: "merges successful branch output deltas in child order").
WaitAllOutput ==
  status = "completed" /\ block.strategy = "wait_all" =>
    \A k \in Key :
      LET writers == {b \in Branches : k \in KeysOf(b)} IN
      output[k] = IF writers = {} THEN Parent
                  ELSE Alone(CHOOSE b \in writers : \A c \in writers : c <= b)[k]

\* A completed wait_any block leaves exactly what one of its branches leaves when it
\* runs alone to its end; a block that did not complete leaves nothing.
WaitAnyOutput ==
  /\ status = "completed" /\ block.strategy = "wait_any" =>
       \E b \in Branches :
         /\ output = Alone(b)
         /\ \A i \in DOMAIN block.tasks[b] : stepLog[<<b, i>>] = "completed"
  /\ status # "completed" => output = Before

\* A task that completed never runs again, in this pass or a later one ("Steps that
\* completed never run again, and neither do parallel siblings", SUSPENSION.md).
CompletedRunOnce ==
  [][\A t \in DOMAIN stepLog : stepLog[t] = "completed" => stepLog'[t] = "completed"]_vars

\* If a resumed body refuses its answer, the block suspends on the very frame it was
\* resumed from: nothing else ran in that pass (workflow-runner.ts, runExecution).
RefusalKeepsFrame ==
  [][(/\ status = "racing"
      /\ status' = "suspended"
      /\ \E b \in Branches : branch[b].resumed /\ branch[b].state = "suspended")
     => frame' = frame]_vars

\* Once the block gives up it ends, though bodies that were cancelled may never
\* return: it waits only for their branches (abandonBranches, waitForTaskProgress).
GivingUpEnds == status = "abandoning" ~> Ended
============================================================================
