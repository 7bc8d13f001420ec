--------------------------- MODULE StepSuspension ---------------------------
(***************************************************************************)
(* How the steps of one scope of a run suspend, and how their bodies run   *)
(* again up to the wait they are resumed from (packages/agentic:           *)
(* runner-runtime-control.ts, step-executors/task-executor.ts), under the  *)
(* retries and timeouts of AbstractAction.run (action/abstract-action.ts). *)
(*                                                                         *)
(* A body is deterministic: a list of suspend() calls, each with the key   *)
(* it gives, if any.  An attempt may throw between two calls.  One that    *)
(* timed out is not stopped (withTimeout): its body goes on beside the     *)
(* next attempt, and even beside the next step.                            *)
(***************************************************************************)
EXTENDS FiniteSets, Naturals, Sequences

CONSTANTS Bodies,       \* lists of bodies: what the steps of the scope may be
          UserKey,      \* keys a body may give to suspend()
          None,         \* no key; also no step
          MaxAttempts,  \* max_attempts of the retry settings
          Timeouts      \* TRUE if actions have a timeout_ms

\* Keys of calls (buildSuspendKey).
SuspendKeys == ({"index"} \X Nat) \cup ({"key"} \X UserKey)

ASSUME NoneAssumption == None \notin UserKey \cup SuspendKeys
ASSUME BodiesAssumption == Bodies \subseteq Seq(Seq(UserKey \cup {None})) \ {<<>>}
ASSUME AttemptsAssumption == MaxAttempts \in Nat \ {0}
ASSUME TimeoutsAssumption == Timeouts \in BOOLEAN

VARIABLES bodies,       \* the bodies of the steps, one of Bodies
          status,       \* of the pass; "backoff" is the delay before a retry
          step,         \* the step the flow is at
          active,       \* ActiveStep of RunnerRuntimeControl
          body,         \* the attempt going on: how many calls resolved, and to what
          attempt,      \* attempts that failed
          late,         \* bodies of attempts that timed out, still going on
          frame,        \* the last checkpoint: TaskFrame of the step that suspended
          why,          \* why the run failed
          disturbed     \* a late body called suspend() in a step (never read by the code)

vars == <<bodies, status, step, active, body, attempt, late, frame, why, disturbed>>

----------------------------------------------------------------------------
(* Values *)

\* A call is told by its step and its rank in the body; the host answers a wait
\* with a payload for the call that opened it.
Calls == UNION {{<<s, i>> : i \in DOMAIN bodies[s]} : s \in DOMAIN bodies}

\* No checkpoint.
NoFrame == [step |-> 0]

Fresh(s, n) == [step |-> s, attempt |-> n, pos |-> 0, read |-> <<>>]

\* beginStep, without and with the seed of a re-run.
Begun == [cursor |-> 0, used |-> {}, answers |-> <<>>, expected |-> None, matched |-> FALSE]
Seeded(f) == [Begun EXCEPT
                !.answers = [k \in DOMAIN f.answers \cup {f.wait.key} |->
                               IF k = f.wait.key THEN f.wait.for ELSE f.answers[k]],
                !.expected = f.wait.key]

Init ==
  /\ bodies \in Bodies
  /\ status = "running"
  /\ step = 1
  /\ active = Begun
  /\ body = Fresh(1, 0)
  /\ attempt = 0
  /\ late = {}
  /\ frame = NoFrame
  /\ why = "none"
  /\ disturbed = FALSE

----------------------------------------------------------------------------
(* suspend(), called by body b, which has calls left *)

InStep == status \in {"running", "backoff"}
HasCall(b) == b.pos < Len(bodies[b.step])
Given(b) == bodies[b.step][b.pos + 1]

\* Mutant: the keys of calls are told apart only by the number of keys given before.
SuspendKey_Shared(b) == <<"index", Cardinality(active.used) + 1>>

\* buildSuspendKey: the key given, or the position of the call.
SuspendKey(b) ==
  IF Given(b) = None THEN <<"index", active.cursor + 1>> ELSE <<"key", Given(b)>>

\* A key may be given once per attempt.
Reused(b) == Given(b) \in active.used

\* Mutant: any key before the expected one is a mismatch, recorded or not.
Mismatch_Recorded(b) ==
  /\ active.expected # None
  /\ ~active.matched
  /\ SuspendKey(b) # active.expected

\* assertReplayExpectation: an unrecorded key before the expected one.
Mismatch(b) ==
  /\ active.expected # None
  /\ ~active.matched
  /\ SuspendKey(b) # active.expected
  /\ SuspendKey(b) \notin DOMAIN active.answers

Recorded(b) == SuspendKey(b) \in DOMAIN active.answers

\* What the call leaves of the active step, even if it then throws.
Counted(b) ==
  [active EXCEPT !.cursor = @ + 1,
                 !.used = IF Given(b) = None THEN @ ELSE @ \cup {Given(b)},
                 !.matched = @ \/ SuspendKey(b) = active.expected]

\* The call resolves from the result recorded for its key.
Resolved(b) == [b EXCEPT !.pos = @ + 1, !.read = Append(@, active.answers[SuspendKey(b)])]

\* Mutant: a new wait is saved with what the pass before it had recorded.
FrameOf_Earlier(b) ==
  [step |-> step,
   answers |-> IF frame = NoFrame THEN <<>> ELSE frame.answers,
   wait |-> [key |-> SuspendKey(b), for |-> <<b.step, b.pos + 1>>]]

\* The TaskFrame of a suspension: what the step was resumed with, and its new wait.
FrameOf(b) ==
  [step |-> step, answers |-> active.answers,
   wait |-> [key |-> SuspendKey(b), for |-> <<b.step, b.pos + 1>>]]

\* The step executor takes the request: the step ends suspended on it, and its
\* signal stops the retries (suspendTask).
SuspendTask(b) ==
  /\ frame' = FrameOf(b)
  /\ status' = "suspended"
  /\ active' = None
  /\ late' = {}
  /\ body' = None
  /\ UNCHANGED <<bodies, step, attempt, why>>

----------------------------------------------------------------------------
(* The attempt going on *)

\* The run fails, with what threw.
FailRun(reason) ==
  /\ status' = "failed"
  /\ why' = reason
  /\ active' = None
  /\ late' = {}
  /\ body' = None
  /\ frame' = NoFrame
  /\ UNCHANGED <<bodies, step, attempt, disturbed>>

\* Mutant: the attempts after the first are counted, and the first one is not.
LastAttempt_OffByOne == attempt >= MaxAttempts

LastAttempt == attempt + 1 >= MaxAttempts

\* An error that may be retried: after the last attempt the run fails with it.
AttemptFails(activeLeft, lateLeft) ==
  IF LastAttempt
  THEN FailRun("error")
  ELSE /\ attempt' = attempt + 1
       /\ status' = "backoff"
       /\ active' = activeLeft
       /\ late' = lateLeft
       /\ body' = None
       /\ UNCHANGED <<bodies, step, frame, why, disturbed>>

Running == status = "running"

CallRecorded ==
  /\ Running /\ HasCall(body)
  /\ ~Reused(body) /\ ~Mismatch(body) /\ Recorded(body)
  /\ body' = Resolved(body)
  /\ active' = Counted(body)
  /\ UNCHANGED <<bodies, status, step, attempt, late, frame, why, disturbed>>

CallSuspends ==
  /\ Running /\ HasCall(body)
  /\ ~Reused(body) /\ ~Mismatch(body) /\ ~Recorded(body)
  /\ SuspendTask(body)
  /\ UNCHANGED disturbed

CallThrows ==
  /\ Running /\ HasCall(body)
  /\ \/ Reused(body) /\ AttemptFails(active, late)
     \/ ~Reused(body) /\ Mismatch(body) /\ FailRun("mismatch")

\* The body throws, or its timeout elapses and it goes on by itself.
Throw == Running /\ AttemptFails(active, late)
TimeOut == Running /\ Timeouts /\ AttemptFails(active, late \cup {body})

\* Mutant: a retry goes on counting where the attempt before it stopped.
Rewound_Never == active

\* markSuspendCursor: where this run of the action started.
Rewound == [active EXCEPT !.cursor = 0, !.used = {}]

\* The delay is over: the next attempt starts where the first one did.
Retry ==
  /\ status = "backoff"
  /\ status' = "running"
  /\ active' = Rewound
  /\ body' = Fresh(step, attempt)
  /\ UNCHANGED <<bodies, step, attempt, late, frame, why, disturbed>>

\* The body, resumed, refuses the payload it has read: the step keeps its frame.
\* One that had not reached the expected call fails the run.
Refuse ==
  /\ Running
  /\ active.expected # None
  /\ frame.wait.for[2] <= body.pos
  /\ IF active.matched
     THEN /\ status' = "suspended"
          /\ active' = None
          /\ late' = {}
          /\ body' = None
          /\ UNCHANGED <<bodies, step, attempt, frame, why, disturbed>>
     ELSE FailRun("refused")

\* The body returns.  endStep fails one that did not reach the expected call; then
\* the flow goes on with the next step, or the run finishes.
Return ==
  /\ Running
  /\ ~HasCall(body)
  /\ IF active.expected # None /\ ~active.matched
     THEN FailRun("mismatch")
     ELSE /\ attempt' = 0
          /\ IF step < Len(bodies)
             THEN /\ step' = step + 1
                  /\ active' = Begun
                  /\ body' = Fresh(step + 1, 0)
                  /\ UNCHANGED <<status, late, frame>>
             ELSE /\ status' = "completed"
                  /\ active' = None
                  /\ late' = {}
                  /\ body' = None
                  /\ frame' = NoFrame
                  /\ UNCHANGED step
          /\ UNCHANGED <<bodies, why, disturbed>>

----------------------------------------------------------------------------
(* A late body: the step it calls suspend() in is the one active now *)

LateCallRecorded(b) ==
  /\ InStep /\ HasCall(b)
  /\ ~Reused(b) /\ ~Mismatch(b) /\ Recorded(b)
  /\ late' = (late \ {b}) \cup {Resolved(b)}
  /\ active' = Counted(b)
  /\ disturbed' = TRUE
  /\ UNCHANGED <<bodies, status, step, body, attempt, frame, why>>

LateCallSuspends(b) ==
  /\ InStep /\ HasCall(b)
  /\ ~Reused(b) /\ ~Mismatch(b) /\ ~Recorded(b)
  /\ SuspendTask(b)
  /\ disturbed' = TRUE

LateCallThrows(b) ==
  /\ InStep /\ HasCall(b)
  /\ Reused(b) \/ Mismatch(b)
  /\ active' = IF Reused(b) THEN active ELSE Counted(b)
  /\ late' = late \ {b}
  /\ disturbed' = TRUE
  /\ UNCHANGED <<bodies, status, step, body, attempt, frame, why>>

\* It returns or throws, and nobody waits for it.
LateEnds(b) ==
  /\ late' = late \ {b}
  /\ UNCHANGED <<bodies, status, step, active, body, attempt, frame, why, disturbed>>

----------------------------------------------------------------------------
(* Passes *)

\* The host answers the wait: the body runs again from the top, its retries too.
Resume ==
  /\ status = "suspended"
  /\ status' = "running"
  /\ active' = Seeded(frame)
  /\ body' = Fresh(step, 0)
  /\ attempt' = 0
  /\ UNCHANGED <<bodies, step, late, frame, why, disturbed>>

\* The process dies in a resumed pass, at that step or a later one: recovery puts
\* the run back on the wait it was resumed from.
Crash ==
  /\ InStep
  /\ frame # NoFrame
  /\ status' = "suspended"
  /\ step' = frame.step
  /\ active' = None
  /\ late' = {}
  /\ body' = None
  /\ UNCHANGED <<bodies, attempt, frame, why, disturbed>>

----------------------------------------------------------------------------
Next ==
  \/ CallRecorded \/ CallSuspends \/ CallThrows
  \/ Throw \/ TimeOut \/ Retry \/ Refuse \/ Return
  \/ \E b \in late : LateCallRecorded(b) \/ LateCallSuspends(b) \/ LateCallThrows(b) \/ LateEnds(b)
  \/ Resume \/ Crash

Spec == Init /\ [][Next]_vars

----------------------------------------------------------------------------
(* Properties *)

Answers(f) == {f.answers[k] : k \in DOMAIN f.answers}

AttemptsOf(s) ==
  [step : {s}, attempt : 0 .. MaxAttempts - 1, pos : 0 .. Len(bodies[s]), read : Seq(Calls)]

\* Type invariant; an attempt goes on exactly in a running pass, and reads one
\* result per call that resolved.
TypeOK ==
  /\ bodies \in Bodies
  /\ status \in {"running", "backoff", "suspended", "completed", "failed"}
  /\ step \in DOMAIN bodies
  /\ InStep => /\ active.cursor \in Nat
               /\ active.used \subseteq UserKey
               /\ DOMAIN active.answers \subseteq SuspendKeys
               /\ \A k \in DOMAIN active.answers : active.answers[k] \in Calls
               /\ active.expected \in SuspendKeys \cup {None}
               /\ active.matched \in BOOLEAN
  /\ ~InStep => active = None
  /\ IF Running THEN body \in AttemptsOf(step) /\ Len(body.read) = body.pos ELSE body = None
  /\ attempt \in 0 .. MaxAttempts - 1
  /\ \A b \in late : b.step \in 1 .. step /\ b \in AttemptsOf(b.step)
  /\ status = "suspended" => frame # NoFrame /\ frame.step = step
  /\ frame # NoFrame =>
       /\ frame.wait.key \in SuspendKeys \ DOMAIN frame.answers
       /\ frame.wait.for \in Calls
       /\ Answers(frame) \subseteq Calls
  /\ why \in {"none", "error", "mismatch", "refused"}
  /\ disturbed \in BOOLEAN

\* A call whose payload was delivered is not asked again: across retries, passes,
\* crashes and refusals, no step suspends on a wait for a call that was answered
\* (abstract-action.ts: a retry must not suspend "on a wait whose payload was
\* already delivered").
AskedOnce ==
  status = "suspended" => frame.wait.for \notin Answers(frame)

\* What a call resolves to is the payload the host gave to the wait of that call, of
\* that step, whatever keys the calls around it were given.
AnswersReachTheirCall ==
  Running => \A i \in DOMAIN body.read : body.read[i] = <<body.step, i>>

\* A deterministic body is never failed for not replaying as it ran: neither by the
\* expected key nor by a payload it refuses (assertReplayExpectation, endStep,
\* hasReachedResolvedSuspension).
NoFalseMismatch == why \notin {"mismatch", "refused"}

\* The three, as long as no body that timed out has called suspend() since.
AskedOnceUndisturbed == disturbed \/ AskedOnce
AnswersReachUndisturbed == disturbed \/ AnswersReachTheirCall
NoFalseMismatchUndisturbed == disturbed \/ NoFalseMismatch

\* Each pass that suspends anew gets further: in a later step, or with one more call
\* of the same step answered.  Payloads recorded in a frame are never dropped.
PassesGetFurther ==
  [][(frame # NoFrame /\ frame' # NoFrame /\ frame' # frame /\ ~disturbed')
     => \/ frame'.step > frame.step
        \/ /\ frame'.step = frame.step
           /\ Answers(frame') = Answers(frame) \cup {frame.wait.for}]_vars
============================================================================
