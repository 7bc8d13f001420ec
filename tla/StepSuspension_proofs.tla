----------------------- MODULE StepSuspension_proofs -----------------------
(***************************************************************************)
(* Theorems about StepSuspension, for bodies of any length, any number of  *)
(* steps, attempts, passes and crashes.                                    *)
(***************************************************************************)
EXTENDS StepSuspension, TLAPS

----------------------------------------------------------------------------
\* Types: those of TypeOK, with the fields of the active step and of a frame.

Recordings == UNION {[D -> Calls] : D \in SUBSET SuspendKeys}

ActiveSteps ==
  [cursor : Nat, used : SUBSET UserKey, answers : Recordings,
   expected : SuspendKeys \cup {None}, matched : BOOLEAN]

Frames == [step : Nat, answers : Recordings, wait : [key : SuspendKeys, for : Calls]]

Attempts == UNION {AttemptsOf(s) : s \in DOMAIN bodies}

\* An attempt has read one result per call that resolved, if it was never disturbed;
\* the one going on, in any case.
Typed ==
  /\ TypeOK
  /\ InStep => active \in ActiveSteps
  /\ frame # NoFrame => /\ frame \in Frames
                        /\ frame.step \in 1 .. step
                        /\ frame.wait.key \notin DOMAIN frame.answers
  /\ InStep /\ active.expected # None => frame # NoFrame /\ frame.step = step

\* The sets these are typed by depend on the bodies only.
LEMMA SameSets ==
  ASSUME bodies' = bodies
  PROVE  /\ Calls' = Calls
         /\ Recordings' = Recordings
         /\ ActiveSteps' = ActiveSteps
         /\ Frames' = Frames
         /\ \A s : AttemptsOf(s)' = AttemptsOf(s)
<1>1. Calls' = Calls
  BY DEF Calls
<1>2. Recordings' = Recordings
  BY <1>1 DEF Recordings
<1>3. QED BY <1>1, <1>2 DEF ActiveSteps, Frames, AttemptsOf

LEMMA Shapes ==
  ASSUME bodies \in Bodies
  PROVE  /\ Len(bodies) \in Nat
         /\ DOMAIN bodies = 1 .. Len(bodies)
         /\ 1 \in DOMAIN bodies
         /\ \A s \in DOMAIN bodies :
              /\ Len(bodies[s]) \in Nat
              /\ DOMAIN bodies[s] = 1 .. Len(bodies[s])
              /\ \A i \in 1 .. Len(bodies[s]) :
                   /\ bodies[s][i] \in UserKey \cup {None}
                   /\ <<s, i>> \in Calls
<1>1. bodies \in Seq(Seq(UserKey \cup {None})) /\ bodies # <<>>
  BY BodiesAssumption
<1>2. \A s \in DOMAIN bodies : bodies[s] \in Seq(UserKey \cup {None})
  BY <1>1
<1>3. Len(bodies) \in Nat /\ DOMAIN bodies = 1 .. Len(bodies) /\ 1 \in DOMAIN bodies
  BY <1>1
<1>4. QED BY <1>2, <1>3 DEF Calls

LEMMA NoRecording == <<>> \in Recordings /\ DOMAIN <<>> = {}
  BY DEF Recordings

\* What a call asks for, counts and leaves has its type.
LEMMA CallTypes ==
  ASSUME Typed, InStep, NEW s \in 1 .. step, NEW b \in AttemptsOf(s), HasCall(b)
  PROVE  /\ b.step = s /\ b.pos \in Nat /\ b.pos + 1 \in 1 .. Len(bodies[s])
         /\ <<b.step, b.pos + 1>> \in Calls
         /\ Given(b) = bodies[s][b.pos + 1] /\ Given(b) \in UserKey \cup {None}
         /\ SuspendKey(b) \in SuspendKeys
         /\ Counted(b) \in ActiveSteps
         /\ Counted(b).cursor = active.cursor + 1
         /\ Counted(b).used = (active.used \cup {Given(b)}) \ {None}
         /\ Counted(b).matched <=> active.matched \/ SuspendKey(b) = active.expected
         /\ Counted(b).answers = active.answers
         /\ Counted(b).expected = active.expected
         /\ FrameOf(b) \in Frames /\ FrameOf(b).step = step
         /\ Recorded(b) => Resolved(b) \in AttemptsOf(s)
         /\ Recorded(b) => Resolved(b).pos = b.pos + 1
         /\ Recorded(b) => Resolved(b).read = Append(b.read, active.answers[SuspendKey(b)])
<1>1. bodies \in Bodies /\ step \in DOMAIN bodies /\ active \in ActiveSteps
  BY DEF Typed, TypeOK
<1>2. s \in DOMAIN bodies
  BY <1>1, Shapes
<1>3. b.step = s /\ b.pos \in 0 .. Len(bodies[s]) /\ b.read \in Seq(Calls)
  BY DEF AttemptsOf
<1>4. b.pos + 1 \in 1 .. Len(bodies[s])
  BY <1>1, <1>2, <1>3, Shapes DEF HasCall
<1>5. Given(b) = bodies[s][b.pos + 1] /\ Given(b) \in UserKey \cup {None} /\ <<s, b.pos + 1>> \in Calls
  BY <1>1, <1>2, <1>3, <1>4, Shapes DEF Given
<1>6. SuspendKey(b) \in SuspendKeys
  BY <1>1, <1>5 DEF SuspendKey, SuspendKeys, ActiveSteps
<1>7. /\ Counted(b) \in ActiveSteps
      /\ Counted(b).cursor = active.cursor + 1
      /\ Counted(b).used = (active.used \cup {Given(b)}) \ {None}
      /\ Counted(b).matched <=> active.matched \/ SuspendKey(b) = active.expected
      /\ Counted(b).answers = active.answers
      /\ Counted(b).expected = active.expected
  <2> DEFINE used == IF Given(b) = None THEN active.used ELSE active.used \cup {Given(b)}
             matched == active.matched \/ SuspendKey(b) = active.expected
  <2>1. used \in SUBSET UserKey /\ matched \in BOOLEAN /\ active.cursor + 1 \in Nat
    BY <1>1, <1>5 DEF ActiveSteps
  <2>2. used = (active.used \cup {Given(b)}) \ {None}
    BY <1>1, <1>5, NoneAssumption DEF ActiveSteps
  <2>3. Counted(b) = [active EXCEPT !.cursor = active.cursor + 1, !.used = used, !.matched = matched]
    BY DEF Counted
  <2> HIDE DEF used, matched
  <2>4. /\ Counted(b) \in ActiveSteps
        /\ Counted(b).cursor = active.cursor + 1
        /\ Counted(b).used = used
        /\ Counted(b).matched = matched
        /\ Counted(b).answers = active.answers
        /\ Counted(b).expected = active.expected
    BY <1>1, <2>1, <2>3 DEF ActiveSteps
  <2>5. Counted(b).matched <=> active.matched \/ SuspendKey(b) = active.expected
    BY <2>4 DEF matched
  <2>6. QED BY <2>2, <2>4, <2>5
<1>8. FrameOf(b) \in Frames /\ FrameOf(b).step = step
  BY <1>1, <1>3, <1>5, <1>6, Shapes DEF FrameOf, Frames, ActiveSteps
<1>9. ASSUME Recorded(b)
      PROVE  /\ Resolved(b) \in AttemptsOf(s)
             /\ Resolved(b).pos = b.pos + 1
             /\ Resolved(b).read = Append(b.read, active.answers[SuspendKey(b)])
  <2>1. active.answers[SuspendKey(b)] \in Calls
    BY <1>1, <1>9 DEF Recorded, ActiveSteps, Recordings
  <2>2. Append(b.read, active.answers[SuspendKey(b)]) \in Seq(Calls)
    BY <2>1, <1>3
  <2>3. b.pos + 1 \in 0 .. Len(bodies[s])
    BY <1>3, <1>4
  <2>4. Resolved(b) = [b EXCEPT !.pos = b.pos + 1, !.read = Append(b.read, active.answers[SuspendKey(b)])]
    BY DEF Resolved
  <2>5. QED BY <2>2, <2>3, <2>4 DEF AttemptsOf
<1>10. QED BY <1>3, <1>4, <1>5, <1>6, <1>7, <1>8, <1>9

\* TypeOK, of the active step and of a frame.
LEMMA ActiveFields ==
  ASSUME NEW a \in ActiveSteps
  PROVE  /\ a.cursor \in Nat
         /\ a.used \subseteq UserKey
         /\ DOMAIN a.answers \subseteq SuspendKeys
         /\ \A k \in DOMAIN a.answers : a.answers[k] \in Calls
         /\ a.expected \in SuspendKeys \cup {None}
         /\ a.matched \in BOOLEAN
  BY DEF ActiveSteps, Recordings

LEMMA FrameFields ==
  ASSUME NEW f \in Frames
  PROVE  /\ f.step \in Nat
         /\ f.answers \in Recordings
         /\ f.wait.key \in SuspendKeys
         /\ f.wait.for \in Calls
         /\ Answers(f) \subseteq Calls
  BY DEF Frames, Recordings, Answers

LEMMA TypedInit == Init => Typed
<1> SUFFICES ASSUME Init PROVE Typed
  OBVIOUS
<1>1. bodies \in Bodies /\ 1 \in DOMAIN bodies /\ Len(bodies[1]) \in Nat
  BY Shapes DEF Init
<1>2. Begun \in ActiveSteps /\ Begun.expected = None
  BY NoRecording DEF Begun, ActiveSteps
<1>3. Fresh(1, 0) \in AttemptsOf(1) /\ Len(Fresh(1, 0).read) = Fresh(1, 0).pos
  BY <1>1, AttemptsAssumption DEF Fresh, AttemptsOf
<1>4. TypeOK
  <2>1. InStep /\ Running /\ active = Begun /\ body = Fresh(1, 0) /\ step = 1 /\ late = {} /\ frame = NoFrame
    BY DEF Init, InStep, Running
  <2>2. attempt \in 0 .. MaxAttempts - 1
    BY AttemptsAssumption DEF Init
  <2>3. status # "suspended" /\ status \in {"running"} /\ why = "none" /\ disturbed = FALSE
    BY DEF Init
  <2>4. QED BY <1>1, <1>2, <1>3, <2>1, <2>2, <2>3, ActiveFields DEF TypeOK
<1>5. QED BY <1>2, <1>4 DEF Init, Typed

\* Typed' from what a step leaves.
LEMMA TypedAfter ==
  ASSUME Typed, bodies' = bodies,
         status' \in {"running", "backoff", "suspended", "completed", "failed"},
         step' \in DOMAIN bodies,
         InStep' => active' \in ActiveSteps,
         ~InStep' => active' = None,
         Running' => body' \in AttemptsOf(step') /\ Len(body'.read) = body'.pos,
         ~Running' => body' = None,
         attempt' \in 0 .. MaxAttempts - 1,
         \A b \in late' : b.step \in 1 .. step' /\ b \in AttemptsOf(b.step),
         status' = "suspended" => frame' # NoFrame /\ frame'.step = step',
         frame' # NoFrame => /\ frame' \in Frames
                             /\ frame'.step \in 1 .. step'
                             /\ frame'.wait.key \notin DOMAIN frame'.answers,
         InStep' /\ active'.expected # None => frame' # NoFrame /\ frame'.step = step',
         why' \in {"none", "error", "mismatch", "refused"},
         disturbed' \in BOOLEAN
  PROVE  Typed'
<1>1. /\ bodies' \in Bodies /\ step' \in DOMAIN bodies'
      /\ Calls' = Calls /\ ActiveSteps' = ActiveSteps /\ Frames' = Frames
      /\ \A s : AttemptsOf(s)' = AttemptsOf(s)
  BY SameSets DEF Typed, TypeOK
<1>2. InStep' => /\ active'.cursor \in Nat
                 /\ active'.used \subseteq UserKey
                 /\ DOMAIN active'.answers \subseteq SuspendKeys
                 /\ \A k \in DOMAIN active'.answers : active'.answers[k] \in Calls
                 /\ active'.expected \in SuspendKeys \cup {None}
                 /\ active'.matched \in BOOLEAN
  BY ActiveFields
<1>3. frame' # NoFrame => /\ frame'.wait.key \in SuspendKeys \ DOMAIN frame'.answers
                          /\ frame'.wait.for \in Calls
                          /\ Answers(frame') \subseteq Calls
  BY FrameFields
<1>4. AttemptsOf(step)' = AttemptsOf(step')
  BY <1>1 DEF AttemptsOf
<1>5. \A b \in late' : AttemptsOf(b.step)' = AttemptsOf(b.step)
  BY <1>1
<1>6. TypeOK'
  BY <1>1, <1>2, <1>3, <1>4, <1>5 DEF TypeOK, NoFrame
<1>7. QED BY <1>1, <1>6 DEF Typed, NoFrame

LEMMA FailRunTypes ==
  ASSUME Typed, NEW reason \in {"error", "mismatch", "refused"}, FailRun(reason)
  PROVE  Typed'
<1>1. /\ status' = "failed" /\ why' = reason /\ active' = None /\ late' = {} /\ body' = None
      /\ frame' = NoFrame /\ UNCHANGED <<bodies, step, attempt, disturbed>>
  BY DEF FailRun
<1>2. ~InStep' /\ ~Running'
  BY <1>1 DEF InStep, Running
<1>3. step' \in DOMAIN bodies /\ attempt' \in 0 .. MaxAttempts - 1 /\ disturbed' \in BOOLEAN
  BY <1>1 DEF Typed, TypeOK
<1>4. QED BY <1>1, <1>2, <1>3, TypedAfter

LEMMA AttemptFailsTypes ==
  ASSUME Typed, Running, NEW lateLeft,
         \A b \in lateLeft : b.step \in 1 .. step /\ b \in AttemptsOf(b.step),
         AttemptFails(active, lateLeft)
  PROVE  Typed'
<1>1. CASE LastAttempt
  BY <1>1, FailRunTypes DEF AttemptFails
<1>2. CASE ~LastAttempt
  <2>1. /\ attempt' = attempt + 1 /\ status' = "backoff" /\ active' = active /\ late' = lateLeft
        /\ body' = None /\ UNCHANGED <<bodies, step, frame, why, disturbed>>
    BY <1>2 DEF AttemptFails
  <2>2. attempt' \in 0 .. MaxAttempts - 1
    BY <1>2, <2>1, AttemptsAssumption DEF LastAttempt, Typed, TypeOK
  <2>3. InStep /\ InStep' /\ ~Running'
    BY <2>1 DEF InStep, Running
  <2>4. /\ step \in DOMAIN bodies /\ active \in ActiveSteps
        /\ why \in {"none", "error", "mismatch", "refused"} /\ disturbed \in BOOLEAN
        /\ frame # NoFrame => /\ frame \in Frames /\ frame.step \in 1 .. step
                              /\ frame.wait.key \notin DOMAIN frame.answers
        /\ active.expected # None => frame # NoFrame /\ frame.step = step
    BY <2>3 DEF Typed, TypeOK
  <2>5. QED BY <2>1, <2>2, <2>3, <2>4, TypedAfter
<1>3. QED BY <1>1, <1>2

LEMMA SuspendTaskTypes ==
  ASSUME Typed, InStep, NEW s \in 1 .. step, NEW b \in AttemptsOf(s), HasCall(b), ~Recorded(b),
         SuspendTask(b), disturbed' \in BOOLEAN
  PROVE  Typed'
<1>1. /\ frame' = FrameOf(b) /\ status' = "suspended" /\ active' = None /\ late' = {} /\ body' = None
      /\ UNCHANGED <<bodies, step, attempt, why>>
  BY DEF SuspendTask
<1>2. ~InStep' /\ ~Running'
  BY <1>1 DEF InStep, Running
<1>3. /\ step \in DOMAIN bodies /\ attempt \in 0 .. MaxAttempts - 1
      /\ why \in {"none", "error", "mismatch", "refused"} /\ bodies \in Bodies
  BY DEF Typed, TypeOK
<1>4. step \in 1 .. step
  BY <1>3, Shapes
<1>5. /\ frame' \in Frames /\ frame'.step = step
      /\ frame'.wait.key \notin DOMAIN frame'.answers
  BY <1>1, CallTypes DEF FrameOf, Recorded
<1>6. frame' # NoFrame
  BY <1>4, <1>5 DEF NoFrame
<1>7. QED BY <1>1, <1>2, <1>3, <1>4, <1>5, <1>6, TypedAfter

LEMMA SeededTypes ==
  ASSUME NEW f \in Frames
  PROVE  /\ Seeded(f) \in ActiveSteps
         /\ Seeded(f).cursor = 0 /\ Seeded(f).used = {}
         /\ Seeded(f).expected = f.wait.key /\ Seeded(f).matched = FALSE
<1> DEFINE answers == [k \in DOMAIN f.answers \cup {f.wait.key} |->
                         IF k = f.wait.key THEN f.wait.for ELSE f.answers[k]]
<1>1. f.answers \in Recordings /\ f.wait.key \in SuspendKeys /\ f.wait.for \in Calls
  BY FrameFields
<1>2. DOMAIN f.answers \in SUBSET SuspendKeys /\ \A k \in DOMAIN f.answers : f.answers[k] \in Calls
  BY <1>1 DEF Recordings
<1>3. answers \in [DOMAIN f.answers \cup {f.wait.key} -> Calls]
  BY <1>1, <1>2
<1>4. answers \in Recordings
  BY <1>1, <1>2, <1>3 DEF Recordings
<1>5. Seeded(f) = [Begun EXCEPT !.answers = answers, !.expected = f.wait.key]
  BY DEF Seeded
<1> HIDE DEF answers
<1>6. Begun \in ActiveSteps /\ Begun.cursor = 0 /\ Begun.used = {} /\ Begun.matched = FALSE
  BY NoRecording DEF Begun, ActiveSteps
<1>7. QED BY <1>1, <1>4, <1>5, <1>6 DEF ActiveSteps

LEMMA TypedNext == Typed /\ [Next]_vars => Typed'
<1> SUFFICES ASSUME Typed, [Next]_vars PROVE Typed'
  OBVIOUS
<1>1. /\ bodies \in Bodies
      /\ status \in {"running", "backoff", "suspended", "completed", "failed"}
      /\ step \in DOMAIN bodies
      /\ InStep => active \in ActiveSteps
      /\ ~InStep => active = None
      /\ Running => InStep /\ body \in AttemptsOf(step) /\ Len(body.read) = body.pos
      /\ ~Running => body = None
      /\ attempt \in 0 .. MaxAttempts - 1
      /\ \A b \in late : b.step \in 1 .. step /\ b \in AttemptsOf(b.step)
      /\ status = "suspended" => frame # NoFrame /\ frame.step = step
      /\ frame # NoFrame => /\ frame \in Frames
                            /\ frame.step \in 1 .. step
                            /\ frame.wait.key \notin DOMAIN frame.answers
      /\ InStep /\ active.expected # None => frame # NoFrame /\ frame.step = step
      /\ why \in {"none", "error", "mismatch", "refused"}
      /\ disturbed \in BOOLEAN
  BY DEF Typed, TypeOK, InStep, Running
<1>2. step \in Nat /\ step \in 1 .. step
  BY <1>1, Shapes
<1>3. ASSUME CallRecorded PROVE Typed'
  <2>1. /\ Running /\ HasCall(body) /\ Recorded(body) /\ body' = Resolved(body) /\ active' = Counted(body)
        /\ UNCHANGED <<bodies, status, step, attempt, late, frame, why, disturbed>>
    BY <1>3 DEF CallRecorded
  <2>2. /\ active' \in ActiveSteps /\ active'.expected = active.expected
        /\ body' \in AttemptsOf(step)
        /\ body'.pos = body.pos + 1
        /\ body'.read = Append(body.read, active.answers[SuspendKey(body)])
    BY ZenonT(60), <1>1, <1>2, <2>1, CallTypes
  <2>3. active.answers[SuspendKey(body)] \in Calls /\ body.read \in Seq(Calls)
    BY <1>1, <2>1, ActiveFields DEF Recorded, AttemptsOf
  <2>4. Len(body'.read) = body'.pos
    BY <1>1, <2>1, <2>2, <2>3
  <2>5. InStep' /\ Running'
    BY <2>1 DEF InStep, Running
  <2>6. QED BY <1>1, <2>1, <2>2, <2>4, <2>5, TypedAfter
<1>4. ASSUME CallSuspends PROVE Typed'
  BY <1>1, <1>2, <1>4, SuspendTaskTypes DEF CallSuspends
<1>5. ASSUME CallThrows PROVE Typed'
  BY <1>1, <1>5, AttemptFailsTypes, FailRunTypes DEF CallThrows
<1>6. ASSUME Throw PROVE Typed'
  BY <1>1, <1>6, AttemptFailsTypes DEF Throw
<1>7. ASSUME TimeOut PROVE Typed'
  <2>1. Running /\ AttemptFails(active, late \cup {body})
    BY <1>7 DEF TimeOut
  <2>2. body.step = step
    BY <1>1, <2>1 DEF AttemptsOf
  <2>3. \A b \in late \cup {body} : b.step \in 1 .. step /\ b \in AttemptsOf(b.step)
    BY <1>1, <1>2, <2>1, <2>2
  <2>4. QED BY <2>1, <2>3, AttemptFailsTypes
<1>8. ASSUME Retry PROVE Typed'
  <2>1. /\ status = "backoff" /\ status' = "running" /\ active' = Rewound /\ body' = Fresh(step, attempt)
        /\ UNCHANGED <<bodies, step, attempt, late, frame, why, disturbed>>
    BY <1>8 DEF Retry
  <2>2. InStep /\ InStep' /\ Running'
    BY <2>1 DEF InStep, Running
  <2>3. active' \in ActiveSteps /\ active'.expected = active.expected
    <3>1. active \in ActiveSteps /\ active' = [active EXCEPT !.cursor = 0, !.used = {}]
      BY <1>1, <2>1, <2>2 DEF Rewound
    <3>2. QED BY <3>1 DEF ActiveSteps
  <2>4. body' \in AttemptsOf(step) /\ Len(body'.read) = body'.pos
    BY <1>1, <2>1, Shapes DEF Fresh, AttemptsOf
  <2>5. QED BY <1>1, <2>1, <2>2, <2>3, <2>4, TypedAfter
<1>9. ASSUME Refuse PROVE Typed'
  <2>1. CASE active.matched
    <3>1. /\ Running /\ status' = "suspended" /\ active' = None /\ late' = {} /\ body' = None
          /\ UNCHANGED <<bodies, step, attempt, frame, why, disturbed>>
      BY <1>9, <2>1 DEF Refuse
    <3>2. ~InStep' /\ ~Running'
      BY <3>1 DEF InStep, Running
    <3>3. frame # NoFrame /\ frame.step = step
      BY <1>1, <1>9 DEF Refuse
    <3>4. QED BY <1>1, <3>1, <3>2, <3>3, TypedAfter
  <2>2. CASE ~active.matched
    BY <1>9, <2>2, FailRunTypes DEF Refuse
  <2>3. QED BY <2>1, <2>2
<1>10. ASSUME Return PROVE Typed'
  <2>1. CASE active.expected # None /\ ~active.matched
    BY <1>10, <2>1, FailRunTypes DEF Return
  <2>2. CASE ~(active.expected # None /\ ~active.matched) /\ step < Len(bodies)
    <3>1. /\ Running /\ attempt' = 0 /\ step' = step + 1 /\ active' = Begun /\ body' = Fresh(step + 1, 0)
          /\ UNCHANGED <<status, late, frame, bodies, why, disturbed>>
      BY <1>10, <2>2 DEF Return
    <3>2. InStep' /\ Running'
      BY <3>1 DEF InStep, Running
    <3>3. /\ step' \in DOMAIN bodies
          /\ \A b \in late' : b.step \in 1 .. step' /\ b \in AttemptsOf(b.step)
          /\ frame' # NoFrame => frame'.step \in 1 .. step'
      BY <1>1, <1>2, <2>2, <3>1, Shapes
    <3>4. active' \in ActiveSteps /\ active'.expected = None
      BY <3>1, NoRecording DEF Begun, ActiveSteps
    <3>5. body' \in AttemptsOf(step') /\ Len(body'.read) = body'.pos /\ attempt' \in 0 .. MaxAttempts - 1
      BY <1>1, <3>1, <3>3, Shapes, AttemptsAssumption DEF Fresh, AttemptsOf
    <3>6. /\ status' # "suspended" /\ status' \in {"running"} /\ why' \in {"none", "error", "mismatch", "refused"}
          /\ disturbed' \in BOOLEAN
          /\ frame' # NoFrame => frame' \in Frames /\ frame'.wait.key \notin DOMAIN frame'.answers
      BY <1>1, <3>1 DEF Running
    <3>7. QED BY <3>1, <3>2, <3>3, <3>4, <3>5, <3>6, TypedAfter
  <2>3. CASE ~(active.expected # None /\ ~active.matched) /\ ~(step < Len(bodies))
    <3>1. /\ attempt' = 0 /\ status' = "completed" /\ active' = None /\ late' = {} /\ body' = None
          /\ frame' = NoFrame /\ UNCHANGED <<step, bodies, why, disturbed>>
      BY <1>10, <2>3 DEF Return
    <3>2. ~InStep' /\ ~Running' /\ attempt' \in 0 .. MaxAttempts - 1
      BY <3>1, AttemptsAssumption DEF InStep, Running
    <3>3. QED BY <1>1, <3>1, <3>2, TypedAfter
  <2>4. QED BY <2>1, <2>2, <2>3
<1>11. ASSUME NEW b \in late, LateCallRecorded(b) PROVE Typed'
  <2>1. /\ InStep /\ HasCall(b) /\ Recorded(b) /\ late' = (late \ {b}) \cup {Resolved(b)}
        /\ active' = Counted(b) /\ disturbed' = TRUE
        /\ UNCHANGED <<bodies, status, step, body, attempt, frame, why>>
    BY <1>11 DEF LateCallRecorded
  <2>2. /\ active' \in ActiveSteps /\ active'.expected = active.expected
        /\ b.step \in 1 .. step
        /\ Resolved(b) \in AttemptsOf(b.step)
    BY <1>1, <2>1, CallTypes
  <2>3. Resolved(b).step = b.step
    BY <2>2 DEF AttemptsOf
  <2>4. \A c \in late' : c.step \in 1 .. step /\ c \in AttemptsOf(c.step)
    BY <1>1, <2>1, <2>2, <2>3
  <2>5. InStep' /\ (Running' <=> Running)
    BY <2>1 DEF InStep, Running
  <2>6. QED BY <1>1, <2>1, <2>2, <2>4, <2>5, TypedAfter
<1>12. ASSUME NEW b \in late, LateCallSuspends(b) PROVE Typed'
  BY <1>1, <1>12, SuspendTaskTypes DEF LateCallSuspends
<1>13. ASSUME NEW b \in late, LateCallThrows(b) PROVE Typed'
  <2>1. /\ InStep /\ HasCall(b) /\ late' = late \ {b} /\ disturbed' = TRUE
        /\ active' \in {active, Counted(b)}
        /\ UNCHANGED <<bodies, status, step, body, attempt, frame, why>>
    BY <1>13 DEF LateCallThrows
  <2>2. active' \in ActiveSteps /\ active'.expected = active.expected
    <3>1. b.step \in 1 .. step /\ b \in AttemptsOf(b.step) /\ active \in ActiveSteps
      BY <1>1, <2>1
    <3>2. Counted(b) \in ActiveSteps /\ Counted(b).expected = active.expected
      BY <2>1, <3>1, CallTypes
    <3>3. QED BY <2>1, <3>1, <3>2
  <2>3. InStep' /\ (Running' <=> Running)
    BY <2>1 DEF InStep, Running
  <2>4. QED BY <1>1, <2>1, <2>2, <2>3, TypedAfter
<1>14. ASSUME NEW b \in late, LateEnds(b) PROVE Typed'
  <2>1. late' = late \ {b} /\ UNCHANGED <<bodies, status, step, active, body, attempt, frame, why, disturbed>>
    BY <1>14 DEF LateEnds
  <2>2. (InStep' <=> InStep) /\ (Running' <=> Running)
    BY <2>1 DEF InStep, Running
  <2>3. QED BY <1>1, <2>1, <2>2, TypedAfter
<1>15. ASSUME Resume PROVE Typed'
  <2>1. /\ status = "suspended" /\ status' = "running" /\ active' = Seeded(frame) /\ body' = Fresh(step, 0)
        /\ attempt' = 0 /\ UNCHANGED <<bodies, step, late, frame, why, disturbed>>
    BY <1>15 DEF Resume
  <2>2. InStep' /\ Running'
    BY <2>1 DEF InStep, Running
  <2>3. active' \in ActiveSteps /\ frame # NoFrame /\ frame.step = step
    BY <1>1, <2>1, SeededTypes
  <2>4. body' \in AttemptsOf(step) /\ Len(body'.read) = body'.pos /\ attempt' \in 0 .. MaxAttempts - 1
    BY <1>1, <2>1, Shapes, AttemptsAssumption DEF Fresh, AttemptsOf
  <2>5. QED BY <1>1, <2>1, <2>2, <2>3, <2>4, TypedAfter
<1>16. ASSUME Crash PROVE Typed'
  <2>1. /\ frame # NoFrame /\ status' = "suspended" /\ step' = frame.step /\ active' = None /\ late' = {}
        /\ body' = None /\ UNCHANGED <<bodies, attempt, frame, why, disturbed>>
    BY <1>16 DEF Crash
  <2>2. ~InStep' /\ ~Running'
    BY <2>1 DEF InStep, Running
  <2>3. step' \in DOMAIN bodies /\ step' \in 1 .. step'
    BY <1>1, <1>2, <2>1, Shapes
  <2>4. QED BY <1>1, <2>1, <2>2, <2>3, TypedAfter
<1>17. CASE UNCHANGED vars
  <2>1. (InStep' <=> InStep) /\ (Running' <=> Running)
    BY <1>17 DEF vars, InStep, Running
  <2>2. QED BY <1>1, <1>17, <2>1, TypedAfter DEF vars
<1>18. QED
  BY <1>3, <1>4, <1>5, <1>6, <1>7, <1>8, <1>9, <1>10, <1>11, <1>12, <1>13, <1>14, <1>15, <1>16, <1>17 DEF Next

----------------------------------------------------------------------------
\* What the inductive invariant says of the keys of a body.

\* The key of call i of a body, in whatever attempt.
KeyOf(calls, i) == IF calls[i] = None THEN <<"index", i>> ELSE <<"key", calls[i]>>

\* None of the first n calls gives a key that one before it gave.
GivenOnce(calls, n) ==
  \A i, j \in 1 .. n : calls[i] = calls[j] /\ calls[i] # None => i = j

\* The results recorded are those of the first n calls of step s, whose body is calls.
RecordsFirst(answers, s, calls, n) ==
  /\ n \in 0 .. Len(calls)
  /\ GivenOnce(calls, n)
  /\ DOMAIN answers = {KeyOf(calls, i) : i \in 1 .. n}
  /\ \A i \in 1 .. n : answers[KeyOf(calls, i)] = <<s, i>>

\* The rank of the call a frame waits on.
Rank(f) == f.wait.for[2]

\* A frame waits on the first call it has no result of.
FrameRecords ==
  frame # NoFrame =>
    /\ Rank(frame) \in DOMAIN bodies[frame.step]
    /\ frame.wait = [key |-> KeyOf(bodies[frame.step], Rank(frame)), for |-> <<frame.step, Rank(frame)>>]
    /\ RecordsFirst(frame.answers, frame.step, bodies[frame.step], Rank(frame) - 1)
    /\ GivenOnce(bodies[frame.step], Rank(frame))

\* The active step has the results of the frame it was resumed from, or none.
ActiveRecords ==
  InStep =>
    \/ /\ active.answers = <<>>
       /\ active.expected = None
       /\ frame # NoFrame => frame.step < step
    \/ /\ frame # NoFrame
       /\ frame.step = step
       /\ active.answers = Seeded(frame).answers
       /\ active.expected = frame.wait.key

\* The attempt going on resolved the first calls, from what is recorded, and it is
\* known to have reached the expected call once it did.
BodyRecords ==
  Running =>
    /\ active.cursor = body.pos
    /\ active.used = {bodies[step][i] : i \in 1 .. body.pos} \ {None}
    /\ \A i \in 1 .. body.pos : body.read[i] = <<step, i>>
    /\ active.expected = None => body.pos = 0
    /\ active.expected # None => body.pos <= Rank(frame)
    /\ active.expected # None /\ Rank(frame) <= body.pos => active.matched

IInv == disturbed \/ (FrameRecords /\ ActiveRecords /\ BodyRecords /\ NoFalseMismatch)
----------------------------------------------------------------------------
\* The keys of calls.

LEMMA KeysDiffer ==
  ASSUME bodies \in Bodies, NEW s \in DOMAIN bodies, NEW n \in 0 .. Len(bodies[s]), GivenOnce(bodies[s], n),
         NEW i \in 1 .. n, NEW j \in 1 .. n, KeyOf(bodies[s], i) = KeyOf(bodies[s], j)
  PROVE  i = j
  BY DEF KeyOf, GivenOnce

\* One more call is recorded.
LEMMA RecordsOneMore ==
  ASSUME bodies \in Bodies, NEW s \in DOMAIN bodies, NEW n \in 0 .. Len(bodies[s]) - 1,
         NEW answers, RecordsFirst(answers, s, bodies[s], n), GivenOnce(bodies[s], n + 1),
         NEW key, key = KeyOf(bodies[s], n + 1),
         NEW more, DOMAIN more = DOMAIN answers \cup {key}, more[key] = <<s, n + 1>>,
         \A k \in DOMAIN answers : k # key => more[k] = answers[k]
  PROVE  RecordsFirst(more, s, bodies[s], n + 1)
<1>1. Len(bodies[s]) \in Nat /\ n \in Nat /\ n + 1 \in 0 .. Len(bodies[s])
  BY Shapes
<1>2. /\ DOMAIN answers = {KeyOf(bodies[s], i) : i \in 1 .. n}
      /\ \A i \in 1 .. n : answers[KeyOf(bodies[s], i)] = <<s, i>>
  BY DEF RecordsFirst
<1>3. \A i \in 1 .. n + 1 : i \in 1 .. n \/ i = n + 1
  BY <1>1
<1>4. DOMAIN more = {KeyOf(bodies[s], i) : i \in 1 .. n + 1}
  <2>1. DOMAIN more = {KeyOf(bodies[s], i) : i \in 1 .. n} \cup {KeyOf(bodies[s], n + 1)}
    BY <1>2
  <2>2. \A i \in 1 .. n : i \in 1 .. n + 1
    BY <1>1
  <2>3. n + 1 \in 1 .. n + 1
    BY <1>1
  <2>4. QED BY <2>1, <2>2, <2>3, <1>3
<1>5. ASSUME NEW i \in 1 .. n + 1 PROVE more[KeyOf(bodies[s], i)] = <<s, i>>
  <2>1. KeyOf(bodies[s], i) \in DOMAIN more
    BY <1>4
  <2>2. CASE i = n + 1
    BY <2>1, <2>2
  <2>3. CASE i # n + 1
    <3>1. i \in 1 .. n /\ n + 1 \in 1 .. n + 1
      BY <1>1, <1>3, <2>3
    <3>2. KeyOf(bodies[s], i) # KeyOf(bodies[s], n + 1)
      BY <1>1, <2>3, <3>1, KeysDiffer
    <3>3. QED BY <1>2, <2>1, <3>1, <3>2
  <2>4. QED BY <2>2, <2>3
<1>6. QED BY <1>1, <1>4, <1>5 DEF RecordsFirst

\* A resumed step has the results of its frame, and that of the wait.
LEMMA SeededRecords ==
  ASSUME Typed, FrameRecords, frame # NoFrame
  PROVE  /\ RecordsFirst(Seeded(frame).answers, frame.step, bodies[frame.step], Rank(frame))
         /\ Rank(frame) \in 1 .. Len(bodies[frame.step])
         /\ frame.step \in DOMAIN bodies
<1> DEFINE s == frame.step
           n == Rank(frame) - 1
<1>1. bodies \in Bodies /\ step \in DOMAIN bodies /\ s \in 1 .. step
  BY DEF Typed, TypeOK
<1>2. s \in DOMAIN bodies /\ Len(bodies[s]) \in Nat
  BY <1>1, Shapes
<1>3. /\ Rank(frame) \in 1 .. Len(bodies[s])
      /\ frame.wait.key = KeyOf(bodies[s], Rank(frame)) /\ frame.wait.for = <<s, Rank(frame)>>
      /\ RecordsFirst(frame.answers, s, bodies[s], n)
      /\ GivenOnce(bodies[s], Rank(frame))
  BY <1>1, <1>2, Shapes DEF FrameRecords
<1>4. n \in 0 .. Len(bodies[s]) - 1 /\ n + 1 = Rank(frame)
  BY <1>2, <1>3
<1>5. Seeded(frame).answers = [k \in DOMAIN frame.answers \cup {frame.wait.key} |->
                                 IF k = frame.wait.key THEN frame.wait.for ELSE frame.answers[k]]
  BY DEF Seeded, Begun
<1> DEFINE more == Seeded(frame).answers
<1>6. /\ DOMAIN more = DOMAIN frame.answers \cup {frame.wait.key}
      /\ more[frame.wait.key] = <<s, n + 1>>
      /\ \A k \in DOMAIN frame.answers : k # frame.wait.key => more[k] = frame.answers[k]
  BY <1>3, <1>4, <1>5
<1> HIDE DEF n, s, more
<1>7. RecordsFirst(more, s, bodies[s], n + 1)
  BY ZenonT(60), <1>1, <1>2, <1>3, <1>4, <1>6, RecordsOneMore
<1>8. QED BY <1>2, <1>3, <1>4, <1>7 DEF s, more

----------------------------------------------------------------------------
\* Replays.

\* How many calls of the active step are recorded.
Answered == IF active.expected = None THEN 0 ELSE Rank(frame)

LEMMA ActiveFirst ==
  ASSUME Typed, FrameRecords, ActiveRecords, InStep
  PROVE  /\ RecordsFirst(active.answers, step, bodies[step], Answered)
         /\ Answered \in 0 .. Len(bodies[step])
<1>1. bodies \in Bodies /\ step \in DOMAIN bodies /\ Len(bodies[step]) \in Nat
  BY Shapes DEF Typed, TypeOK
<1>2. CASE active.answers = <<>> /\ active.expected = None
  <2>1. Answered = 0 /\ DOMAIN active.answers = {} /\ 1 .. 0 = {}
    BY <1>2, NoRecording DEF Answered
  <2>2. QED BY <1>1, <2>1 DEF RecordsFirst, GivenOnce
<1>3. CASE frame # NoFrame /\ frame.step = step /\ active.answers = Seeded(frame).answers
             /\ active.expected = frame.wait.key
  <2>1. frame.wait.key \in SuspendKeys
    BY <1>3, FrameFields DEF Typed
  <2>2. Answered = Rank(frame)
    BY <1>3, <2>1, NoneAssumption DEF Answered
  <2>3. QED BY <1>1, <1>3, <2>2, SeededRecords
<1>4. QED BY <1>2, <1>3 DEF ActiveRecords

\* A call of the attempt going on finds the result of that very call, unless it is the
\* first one without a result; and it is never taken for another.
LEMMA Replay ==
  ASSUME Typed, FrameRecords, ActiveRecords, BodyRecords, Running, HasCall(body), ~Reused(body)
  PROVE  /\ body.pos \in 0 .. Answered
         /\ body.pos + 1 \in 1 .. Len(bodies[step])
         /\ Given(body) = bodies[step][body.pos + 1]
         /\ SuspendKey(body) = KeyOf(bodies[step], body.pos + 1)
         /\ GivenOnce(bodies[step], body.pos + 1)
         /\ Recorded(body) => /\ body.pos + 1 \in 1 .. Answered
                              /\ active.answers[SuspendKey(body)] = <<step, body.pos + 1>>
         /\ ~Recorded(body) => body.pos = Answered
         /\ ~Mismatch(body)
<1> DEFINE k == body.pos + 1
<1>1. /\ bodies \in Bodies /\ step \in DOMAIN bodies /\ step \in 1 .. step
      /\ InStep /\ body \in AttemptsOf(step) /\ Len(bodies[step]) \in Nat
  BY Shapes DEF Typed, TypeOK, InStep, Running
<1>2. /\ body.step = step /\ body.pos \in Nat /\ k \in 1 .. Len(bodies[step])
      /\ Given(body) = bodies[step][k]
  BY <1>1, CallTypes
<1>3. /\ RecordsFirst(active.answers, step, bodies[step], Answered)
      /\ Answered \in 0 .. Len(bodies[step])
  BY <1>1, ActiveFirst
<1>4. body.pos \in 0 .. Answered
  BY <1>2, <1>3 DEF BodyRecords, Answered
<1>5. active.cursor = body.pos /\ active.used = {bodies[step][i] : i \in 1 .. body.pos} \ {None}
  BY DEF BodyRecords
<1>6. SuspendKey(body) = KeyOf(bodies[step], k)
  BY <1>2, <1>5 DEF SuspendKey, KeyOf
<1>7. \A i \in 1 .. body.pos : bodies[step][i] = bodies[step][k] => bodies[step][k] = None
  BY <1>2, <1>5 DEF Reused
<1>8. GivenOnce(bodies[step], k)
  <2>1. \A i \in 1 .. k : i \in 1 .. body.pos \/ i = k
    BY <1>2
  <2>2. \A i \in 1 .. body.pos : i \in 1 .. Answered
    BY <1>2, <1>3, <1>4
  <2>3. GivenOnce(bodies[step], Answered)
    BY <1>3 DEF RecordsFirst
  <2>4. QED BY <1>7, <2>1, <2>2, <2>3 DEF GivenOnce
<1>9. ASSUME Recorded(body) PROVE k \in 1 .. Answered
  <2>1. PICK i \in 1 .. Answered : KeyOf(bodies[step], k) = KeyOf(bodies[step], i)
    BY <1>3, <1>6, <1>9 DEF Recorded, RecordsFirst
  <2>2. CASE k <= Answered
    BY <1>2, <1>3, <2>2
  <2>3. CASE ~(k <= Answered)
    <3>1. i \in 1 .. k /\ k \in 1 .. k /\ k \in 0 .. Len(bodies[step])
      BY <1>2, <1>3, <2>3
    <3>2. i = k
      BY <1>1, <1>8, <2>1, <3>1, KeysDiffer
    <3>3. QED BY <3>2, <2>1
  <2>4. QED BY <2>2, <2>3
<1>10. ASSUME k \in 1 .. Answered
       PROVE  Recorded(body) /\ active.answers[SuspendKey(body)] = <<step, k>>
  BY <1>3, <1>6, <1>10 DEF Recorded, RecordsFirst
<1>11. ~Recorded(body) => body.pos = Answered
  BY <1>2, <1>3, <1>4, <1>10
<1>12. ~Mismatch(body)
  <2> SUFFICES ASSUME Mismatch(body) PROVE FALSE
    OBVIOUS
  <2>1. active.expected # None /\ ~active.matched /\ ~Recorded(body)
    BY DEF Mismatch, Recorded
  <2>2. Rank(frame) <= body.pos
    BY <1>2, <1>3, <1>11, <2>1 DEF Answered
  <2>3. QED BY <2>1, <2>2 DEF BodyRecords
<1>13. QED BY <1>2, <1>4, <1>6, <1>8, <1>9, <1>10, <1>11, <1>12
----------------------------------------------------------------------------
\* The invariant.

LEMMA IInvInit == Init => IInv
<1> SUFFICES ASSUME Init PROVE FrameRecords /\ ActiveRecords /\ BodyRecords /\ NoFalseMismatch
  BY DEF IInv
<1>1. frame = NoFrame /\ active = Begun /\ body = Fresh(1, 0) /\ step = 1 /\ why = "none"
  BY DEF Init
<1>2. FrameRecords /\ NoFalseMismatch
  BY <1>1 DEF FrameRecords, NoFalseMismatch
<1>3. ActiveRecords
  BY <1>1 DEF ActiveRecords, Begun
<1>4. BodyRecords
  <2>1. body.pos = 0 /\ active.cursor = 0 /\ active.used = {} /\ active.expected = None
    BY <1>1 DEF Fresh, Begun
  <2>2. 1 .. 0 = {}
    OBVIOUS
  <2>3. QED BY <2>1, <2>2 DEF BodyRecords
<1>5. QED BY <1>2, <1>3, <1>4

\* What stays as it was.
LEMMA FrameKept ==
  ASSUME bodies' = bodies, frame' = frame, FrameRecords
  PROVE  FrameRecords'
  BY DEF FrameRecords, NoFrame

LEMMA ActiveKept ==
  ASSUME bodies' = bodies, frame' = frame, step' = step, InStep, ActiveRecords,
         active'.answers = active.answers, active'.expected = active.expected
  PROVE  ActiveRecords'
  BY DEF ActiveRecords, Seeded, Begun

\* A pass that fails with an error leaves nothing.
LEMMA FailRunKeeps ==
  ASSUME FailRun("error")
  PROVE  FrameRecords' /\ ActiveRecords' /\ BodyRecords' /\ NoFalseMismatch'
  BY DEF FailRun, FrameRecords, ActiveRecords, BodyRecords, NoFalseMismatch, InStep, Running, NoFrame

LEMMA AttemptFailsKeeps ==
  ASSUME FrameRecords, ActiveRecords, NoFalseMismatch, Running, NEW lateLeft, AttemptFails(active, lateLeft)
  PROVE  FrameRecords' /\ ActiveRecords' /\ BodyRecords' /\ NoFalseMismatch'
<1>1. CASE LastAttempt
  BY <1>1, FailRunKeeps DEF AttemptFails
<1>2. CASE ~LastAttempt
  <2>1. /\ status' = "backoff" /\ active' = active
        /\ UNCHANGED <<bodies, step, frame, why>>
    BY <1>2 DEF AttemptFails
  <2>2. InStep /\ ~Running'
    BY <2>1 DEF InStep, Running
  <2>3. QED BY <2>1, <2>2, FrameKept, ActiveKept DEF BodyRecords, NoFalseMismatch
<1>3. QED BY <1>1, <1>2

\* An attempt that starts has resolved nothing.
LEMMA AttemptStarts ==
  ASSUME Typed', Running', active'.cursor = 0, active'.used = {}, body'.pos = 0,
         active'.expected # None => Rank(frame') \in Nat \ {0}
  PROVE  BodyRecords'
<1>1. 1 .. 0 = {}
  OBVIOUS
<1>2. {bodies'[step'][i] : i \in 1 .. body'.pos} \ {None} = {}
  BY <1>1
<1>3. QED BY <1>1, <1>2 DEF BodyRecords, Rank

LEMMA IInvNext == Typed /\ Typed' /\ IInv /\ [Next]_vars => IInv'
<1> SUFFICES ASSUME Typed, Typed', IInv, [Next]_vars, ~disturbed'
             PROVE  FrameRecords' /\ ActiveRecords' /\ BodyRecords' /\ NoFalseMismatch'
  BY DEF IInv
<1> DEFINE Records == FrameRecords /\ ActiveRecords /\ BodyRecords /\ NoFalseMismatch
<1>1. /\ bodies \in Bodies /\ step \in DOMAIN bodies /\ step \in 1 .. step /\ Len(bodies[step]) \in Nat
      /\ Running => InStep /\ active \in ActiveSteps /\ body \in AttemptsOf(step) /\ Len(body.read) = body.pos
  BY Shapes DEF Typed, TypeOK, InStep, Running
<1>2. ~disturbed => Records
  BY DEF IInv
<1>3. frame # NoFrame /\ FrameRecords => Rank(frame) \in Nat \ {0}
  BY SMTT(30), Shapes DEF FrameRecords, Typed, TypeOK
<1> HIDE DEF Records
<1>4. ASSUME CallRecorded PROVE Records'
  <2>1. /\ Running /\ HasCall(body) /\ ~Reused(body) /\ Recorded(body)
        /\ body' = Resolved(body) /\ active' = Counted(body)
        /\ UNCHANGED <<bodies, status, step, frame, why, disturbed>>
    BY <1>4 DEF CallRecorded
  <2>2. FrameRecords /\ ActiveRecords /\ BodyRecords /\ NoFalseMismatch
    BY <1>2, <2>1 DEF Records
  <2>3. /\ body.pos \in 0 .. Answered
        /\ body.pos + 1 \in 1 .. Answered
        /\ Given(body) = bodies[step][body.pos + 1]
        /\ SuspendKey(body) = KeyOf(bodies[step], body.pos + 1)
        /\ active.answers[SuspendKey(body)] = <<step, body.pos + 1>>
    BY <2>1, <2>2, Replay
  <2>4. /\ body.pos \in Nat /\ body'.pos = body.pos + 1
        /\ body'.read = Append(body.read, <<step, body.pos + 1>>)
        /\ active'.cursor = active.cursor + 1
        /\ active'.used = (active.used \cup {Given(body)}) \ {None}
        /\ active'.matched <=> active.matched \/ SuspendKey(body) = active.expected
        /\ active'.answers = active.answers
        /\ active'.expected = active.expected
    <3>1. /\ body.pos \in Nat /\ Resolved(body).pos = body.pos + 1
          /\ Resolved(body).read = Append(body.read, active.answers[SuspendKey(body)])
          /\ Counted(body).cursor = active.cursor + 1
          /\ Counted(body).used = (active.used \cup {Given(body)}) \ {None}
          /\ Counted(body).matched <=> active.matched \/ SuspendKey(body) = active.expected
          /\ Counted(body).answers = active.answers
          /\ Counted(body).expected = active.expected
      BY ZenonT(60), <1>1, <2>1, CallTypes
    <3>2. QED BY <2>1, <2>3, <3>1
  <2>5. FrameRecords' /\ ActiveRecords' /\ NoFalseMismatch'
    BY <1>1, <2>1, <2>2, <2>4, FrameKept, ActiveKept DEF NoFalseMismatch
  <2>6. \A i \in 1 .. body'.pos : i \in 1 .. body.pos \/ i = body.pos + 1
    BY <2>4
  <2>7. \A i \in 1 .. body.pos : i \in 1 .. body'.pos
    BY <2>4
  <2>8. body.pos + 1 \in 1 .. body'.pos
    BY <2>4
  <2>9. active'.used = {bodies[step][i] : i \in 1 .. body'.pos} \ {None}
    BY <2>2, <2>1, <2>3, <2>4, <2>6, <2>7, <2>8 DEF BodyRecords
  <2>10. \A i \in 1 .. body'.pos : body'.read[i] = <<step, i>>
    <3>1. body.read \in Seq(Calls) /\ Len(body.read) = body.pos /\ <<step, body.pos + 1>> \in Calls
      BY <1>1, <2>1, CallTypes DEF AttemptsOf
    <3>2. \A i \in 1 .. body.pos : body.read[i] = <<step, i>>
      BY <2>1, <2>2 DEF BodyRecords
    <3>3. QED BY <2>4, <2>6, <3>1, <3>2
  <2>11. /\ active.expected # None
         /\ body'.pos <= Rank(frame)
    BY <2>3, <2>4 DEF Answered
  <2>12. Rank(frame) <= body'.pos => active'.matched
    <3>1. SUFFICES ASSUME Rank(frame) <= body'.pos PROVE active'.matched
      OBVIOUS
    <3>2. Rank(frame) = body.pos + 1
      <4>1. Answered = Rank(frame) /\ Answered \in Nat
        BY <1>1, <2>1, <2>2, <2>11, ActiveFirst DEF Answered
      <4>2. QED BY <2>3, <2>4, <3>1, <4>1
    <3>3. frame # NoFrame /\ frame.step = step /\ active.expected = frame.wait.key
      BY <1>1, <2>1, <2>2, <2>11 DEF ActiveRecords
    <3>4. frame.wait.key = KeyOf(bodies[step], Rank(frame))
      BY <2>2, <3>3 DEF FrameRecords
    <3>5. QED BY <2>3, <2>4, <3>2, <3>3, <3>4
  <2>13. active'.cursor = body'.pos
    BY <2>1, <2>2, <2>4 DEF BodyRecords
  <2>14. BodyRecords'
    <3>1. active'.used = {bodies'[step'][i] : i \in 1 .. body'.pos} \ {None}
      BY <2>1, <2>9
    <3>2. \A i \in 1 .. body'.pos : body'.read[i] = <<step', i>>
      BY <2>1, <2>10
    <3>3. active'.expected # None /\ Rank(frame') = Rank(frame)
      BY <2>1, <2>4, <2>11
    <3>4. QED BY <2>11, <2>12, <2>13, <3>1, <3>2, <3>3 DEF BodyRecords
  <2>15. QED BY <2>5, <2>14 DEF Records
<1>5. ASSUME CallSuspends PROVE Records'
  <2>1. /\ Running /\ HasCall(body) /\ ~Reused(body) /\ ~Recorded(body)
        /\ frame' = FrameOf(body) /\ status' = "suspended"
        /\ UNCHANGED <<bodies, step, why, disturbed>>
    BY <1>5 DEF CallSuspends, SuspendTask
  <2>2. FrameRecords /\ ActiveRecords /\ BodyRecords /\ NoFalseMismatch
    BY <1>2, <2>1 DEF Records
  <2>3. /\ body.pos = Answered
        /\ body.pos + 1 \in 1 .. Len(bodies[step])
        /\ SuspendKey(body) = KeyOf(bodies[step], body.pos + 1)
        /\ GivenOnce(bodies[step], body.pos + 1)
    BY <2>1, <2>2, Replay
  <2>4. RecordsFirst(active.answers, step, bodies[step], body.pos) /\ body.pos \in Nat
    BY <1>1, <2>1, <2>2, <2>3, ActiveFirst
  <2>5. body.step = step
    BY <1>1, <2>1 DEF AttemptsOf
  <2>6. /\ frame'.step = step /\ frame'.answers = active.answers
        /\ frame'.wait = [key |-> KeyOf(bodies[step], body.pos + 1), for |-> <<step, body.pos + 1>>]
        /\ Rank(frame') = body.pos + 1
    BY <2>1, <2>3, <2>5 DEF FrameOf, Rank
  <2>7. Rank(frame') - 1 = body.pos /\ Rank(frame') \in DOMAIN bodies[step]
    BY <1>1, <2>3, <2>4, <2>6, Shapes
  <2>8. FrameRecords'
    BY <2>1, <2>3, <2>4, <2>6, <2>7 DEF FrameRecords, NoFrame
  <2>9. ~InStep' /\ ~Running'
    BY <2>1 DEF InStep, Running
  <2>10. QED BY <2>1, <2>2, <2>8, <2>9 DEF Records, ActiveRecords, BodyRecords, NoFalseMismatch
<1>6. ASSUME CallThrows PROVE Records'
  <2>1. Running /\ HasCall(body) /\ UNCHANGED disturbed
    BY <1>6 DEF CallThrows, AttemptFails, FailRun
  <2>2. FrameRecords /\ ActiveRecords /\ BodyRecords /\ NoFalseMismatch
    BY <1>2, <2>1 DEF Records
  <2>3. ~Reused(body) => ~Mismatch(body)
    BY <2>1, <2>2, Replay
  <2>4. AttemptFails(active, late)
    BY <1>6, <2>3 DEF CallThrows
  <2>5. QED BY <2>1, <2>2, <2>4, AttemptFailsKeeps DEF Records
<1>7. ASSUME Throw \/ TimeOut PROVE Records'
  <2>1. Running /\ UNCHANGED disturbed /\ \E lateLeft \in {late, late \cup {body}} : AttemptFails(active, lateLeft)
    BY <1>7 DEF Throw, TimeOut, AttemptFails, FailRun
  <2>2. FrameRecords /\ ActiveRecords /\ NoFalseMismatch
    BY <1>2, <2>1 DEF Records
  <2>3. QED BY <2>1, <2>2, AttemptFailsKeeps DEF Records
<1>8. ASSUME Retry PROVE Records'
  <2>1. /\ status = "backoff" /\ status' = "running" /\ active' = Rewound /\ body' = Fresh(step, attempt)
        /\ UNCHANGED <<bodies, step, frame, why, disturbed>>
    BY <1>8 DEF Retry
  <2>2. FrameRecords /\ ActiveRecords /\ NoFalseMismatch
    BY <1>2, <2>1 DEF Records
  <2>3. InStep /\ Running' /\ active \in ActiveSteps
    BY <2>1 DEF InStep, Running, Typed
  <2>4. /\ active'.answers = active.answers /\ active'.expected = active.expected
        /\ active'.cursor = 0 /\ active'.used = {}
    BY <2>1, <2>3 DEF Rewound, ActiveSteps
  <2>5. FrameRecords' /\ ActiveRecords' /\ NoFalseMismatch'
    BY <2>1, <2>2, <2>3, <2>4, FrameKept, ActiveKept DEF NoFalseMismatch
  <2>6. active'.expected # None => Rank(frame') \in Nat \ {0}
    BY <1>3, <2>1, <2>2, <2>3, <2>4 DEF ActiveRecords
  <2>7. body'.pos = 0
    BY <2>1 DEF Fresh
  <2>8. BodyRecords'
    BY <2>3, <2>4, <2>6, <2>7, AttemptStarts
  <2>9. QED BY <2>5, <2>8 DEF Records
<1>9. ASSUME Refuse PROVE Records'
  <2>1. /\ Running /\ active.expected # None /\ Rank(frame) <= body.pos /\ UNCHANGED disturbed
    BY <1>9 DEF Refuse, FailRun, Rank
  <2>2. FrameRecords /\ BodyRecords /\ NoFalseMismatch
    BY <1>2, <2>1 DEF Records
  <2>3. active.matched
    BY <2>1, <2>2 DEF BodyRecords
  <2>4. status' = "suspended" /\ UNCHANGED <<bodies, frame, why>>
    BY <1>9, <2>3 DEF Refuse
  <2>5. ~InStep' /\ ~Running'
    BY <2>4 DEF InStep, Running
  <2>6. QED BY <2>2, <2>4, <2>5, FrameKept DEF Records, ActiveRecords, BodyRecords, NoFalseMismatch
<1>10. ASSUME Return PROVE Records'
  <2>1. Running /\ ~HasCall(body) /\ UNCHANGED disturbed
    BY <1>10 DEF Return, FailRun
  <2>2. FrameRecords /\ ActiveRecords /\ BodyRecords /\ NoFalseMismatch
    BY <1>2, <2>1 DEF Records
  <2>3. active.expected # None => active.matched
    <3>1. SUFFICES ASSUME active.expected # None PROVE active.matched
      OBVIOUS
    <3>2. frame # NoFrame /\ frame.step = step
      BY <1>1, <2>1, <2>2, <3>1 DEF ActiveRecords
    <3>3. Rank(frame) \in 1 .. Len(bodies[step])
      BY <1>1, <2>2, <3>2, Shapes DEF FrameRecords
    <3>4. body.step = step /\ body.pos \in Nat /\ ~(body.pos < Len(bodies[step]))
      BY <1>1, <2>1 DEF AttemptsOf, HasCall
    <3>5. Rank(frame) <= body.pos
      BY <1>1, <3>3, <3>4
    <3>6. QED BY <2>1, <2>2, <3>1, <3>5 DEF BodyRecords
  <2>4. CASE step < Len(bodies)
    <3>1. /\ status' = status /\ step' = step + 1 /\ active' = Begun /\ body' = Fresh(step + 1, 0)
          /\ UNCHANGED <<frame, bodies, why>>
      BY <1>10, <2>3, <2>4 DEF Return
    <3>2. /\ Running' /\ active'.cursor = 0 /\ active'.used = {} /\ active'.answers = <<>>
          /\ active'.expected = None /\ body'.pos = 0
      BY <2>1, <3>1 DEF Running, Begun, Fresh
    <3>3. frame # NoFrame => frame.step < step'
      BY <1>1, <3>1 DEF Typed
    <3>4. ActiveRecords'
      BY <3>1, <3>2, <3>3 DEF ActiveRecords, NoFrame
    <3>5. BodyRecords'
      BY <3>2, AttemptStarts
    <3>6. QED BY <2>2, <3>1, <3>4, <3>5, FrameKept DEF Records, NoFalseMismatch
  <2>5. CASE ~(step < Len(bodies))
    <3>1. status' = "completed" /\ frame' = NoFrame /\ UNCHANGED why
      BY <1>10, <2>3, <2>5 DEF Return
    <3>2. ~InStep' /\ ~Running'
      BY <3>1 DEF InStep, Running
    <3>3. QED BY <2>2, <3>1, <3>2
              DEF Records, FrameRecords, ActiveRecords, BodyRecords, NoFalseMismatch, NoFrame
  <2>6. QED BY <2>4, <2>5
<1>11. ASSUME NEW b \in late, LateCallRecorded(b) \/ LateCallSuspends(b) \/ LateCallThrows(b) PROVE Records'
  BY <1>11 DEF LateCallRecorded, LateCallSuspends, LateCallThrows
<1>12. ASSUME (\E b \in late : LateEnds(b)) \/ UNCHANGED vars PROVE Records'
  <2>1. UNCHANGED <<bodies, status, step, active, body, frame, why, disturbed>>
    BY <1>12 DEF LateEnds, vars
  <2>2. FrameRecords /\ ActiveRecords /\ BodyRecords /\ NoFalseMismatch
    BY <1>2, <2>1 DEF Records
  <2>3. FrameRecords' /\ NoFalseMismatch'
    BY <2>1, <2>2, FrameKept DEF NoFalseMismatch
  <2>4. ActiveRecords'
    BY <2>1, <2>2 DEF ActiveRecords, InStep, Seeded, Begun
  <2>5. BodyRecords'
    BY <2>1, <2>2 DEF BodyRecords, Running, Rank
  <2>6. QED BY <2>3, <2>4, <2>5 DEF Records
<1>13. ASSUME Resume PROVE Records'
  <2>1. /\ status = "suspended" /\ status' = "running" /\ active' = Seeded(frame) /\ body' = Fresh(step, 0)
        /\ UNCHANGED <<bodies, step, frame, why, disturbed>>
    BY <1>13 DEF Resume
  <2>2. FrameRecords /\ NoFalseMismatch
    BY <1>2, <2>1 DEF Records
  <2>3. frame # NoFrame /\ frame.step = step /\ frame \in Frames
    BY <2>1 DEF Typed, TypeOK
  <2>4. /\ Running' /\ active'.cursor = 0 /\ active'.used = {} /\ active'.expected = frame.wait.key
        /\ body'.pos = 0
    BY <2>1, <2>3, SeededTypes DEF Running, Fresh
  <2>5. ActiveRecords'
    BY <2>1, <2>3, <2>4 DEF ActiveRecords, Seeded, Begun, NoFrame
  <2>6. BodyRecords'
    BY <1>3, <2>1, <2>2, <2>3, <2>4, AttemptStarts
  <2>7. QED BY <2>1, <2>2, <2>5, <2>6, FrameKept DEF Records, NoFalseMismatch
<1>14. ASSUME Crash PROVE Records'
  <2>1. status' = "suspended" /\ UNCHANGED <<bodies, frame, why, disturbed>>
    BY <1>14 DEF Crash
  <2>2. FrameRecords /\ NoFalseMismatch
    BY <1>2, <2>1 DEF Records
  <2>3. ~InStep' /\ ~Running'
    BY <2>1 DEF InStep, Running
  <2>4. QED BY <2>1, <2>2, <2>3, FrameKept DEF Records, ActiveRecords, BodyRecords, NoFalseMismatch
<1>15. Records'
  BY <1>4, <1>5, <1>6, <1>7, <1>8, <1>9, <1>10, <1>11, <1>12, <1>13, <1>14 DEF Next
<1>16. QED BY <1>15 DEF Records
LEMMA Invariance == Spec => [](Typed /\ IInv)
<1>1. Init => Typed /\ IInv
  BY TypedInit, IInvInit
<1>2. Typed /\ IInv /\ [Next]_vars => Typed' /\ IInv'
  BY TypedNext, IInvNext
<1>3. QED BY <1>1, <1>2, PTL DEF Spec

----------------------------------------------------------------------------
\* Theorems.

\* The state of a run has its types, in every pass, retry and recovery.
THEOREM TypeCorrect == Spec => []TypeOK
<1>1. Typed => TypeOK
  BY DEF Typed
<1>2. QED BY <1>1, Invariance, PTL

\* A call whose payload was delivered is never asked again (abstract-action.ts), as
\* long as no body that timed out calls suspend() again.
THEOREM CallsAskedOnce == Spec => []AskedOnceUndisturbed
<1>1. Typed /\ IInv => AskedOnceUndisturbed
  <2> SUFFICES ASSUME Typed, FrameRecords, status = "suspended", frame.wait.for \in Answers(frame) PROVE FALSE
    BY DEF IInv, AskedOnceUndisturbed, AskedOnce
  <2> DEFINE s == frame.step
             n == Rank(frame)
  <2>1. frame # NoFrame
    BY DEF Typed, TypeOK
  <2>2. /\ frame.wait.for = <<s, n>> /\ n \in DOMAIN bodies[s]
        /\ DOMAIN frame.answers = {KeyOf(bodies[s], i) : i \in 1 .. n - 1}
        /\ \A i \in 1 .. n - 1 : frame.answers[KeyOf(bodies[s], i)] = <<s, i>>
    BY <2>1 DEF FrameRecords, RecordsFirst
  <2>3. n \in Nat
    BY <2>1, <2>2, Shapes DEF Typed, TypeOK
  <2>4. PICK i \in 1 .. n - 1 : <<s, n>> = <<s, i>>
    BY <2>2 DEF Answers
  <2>5. QED BY <2>3, <2>4
<1>2. QED BY <1>1, Invariance, PTL

\* A call resolves to the payload of its own wait, whatever keys the calls around it
\* are given (buildSuspendKey, assertReplayExpectation).
THEOREM AnswersReachTheirCalls == Spec => []AnswersReachUndisturbed
<1>1. Typed /\ IInv => AnswersReachUndisturbed
  <2> SUFFICES ASSUME Typed, BodyRecords, Running PROVE \A i \in DOMAIN body.read : body.read[i] = <<body.step, i>>
    BY DEF IInv, AnswersReachUndisturbed, AnswersReachTheirCall
  <2>1. body.step = step /\ body.read \in Seq(Calls) /\ Len(body.read) = body.pos
    BY DEF Typed, TypeOK, AttemptsOf
  <2>2. DOMAIN body.read = 1 .. body.pos
    BY <2>1
  <2>3. QED BY <2>1, <2>2 DEF BodyRecords
<1>2. QED BY <1>1, Invariance, PTL

\* A deterministic body never fails for not replaying as it ran (assertReplayExpectation,
\* endStep, hasReachedResolvedSuspension).
THEOREM NeverAFalseMismatch == Spec => []NoFalseMismatchUndisturbed
<1>1. IInv => NoFalseMismatchUndisturbed
  BY DEF IInv, NoFalseMismatchUndisturbed
<1>2. QED BY <1>1, Invariance, PTL

\* A new frame of the same step has one more payload.
LEMMA SuspensionsGetFurther ==
  ASSUME Typed, IInv, CallSuspends, ~disturbed, frame # NoFrame
  PROVE  \/ frame'.step > frame.step
         \/ frame'.step = frame.step /\ Answers(frame') = Answers(frame) \cup {frame.wait.for}
<1>1. InStep /\ ActiveRecords /\ frame' = FrameOf(body) /\ frame \in Frames /\ step \in DOMAIN bodies
  BY DEF IInv, CallSuspends, SuspendTask, InStep, Running, Typed, TypeOK
<1>2. frame'.step = step /\ frame'.answers = active.answers
  BY <1>1 DEF FrameOf
<1>3. CASE frame.step < step
  <2>1. step \in Nat /\ frame.step \in Nat
    BY <1>1, Shapes, FrameFields DEF Typed, TypeOK
  <2>2. QED BY <1>2, <1>3, <2>1
<1>4. CASE frame.step = step /\ active.answers = Seeded(frame).answers
  <2> DEFINE f == frame.answers
             key == frame.wait.key
             more == active.answers
  <2>1. more = [k \in DOMAIN f \cup {key} |-> IF k = key THEN frame.wait.for ELSE f[k]]
    BY <1>4 DEF Seeded, Begun
  <2>2. key \notin DOMAIN f
    BY DEF Typed
  <2>3. /\ DOMAIN more = DOMAIN f \cup {key} /\ more[key] = frame.wait.for
        /\ \A k \in DOMAIN f : more[k] = f[k]
    BY <2>1, <2>2
  <2> HIDE DEF more
  <2>4. {more[k] : k \in DOMAIN more} = {f[k] : k \in DOMAIN f} \cup {frame.wait.for}
    BY <2>3
  <2>5. QED BY <1>2, <1>4, <2>4 DEF Answers, more
<1>5. QED BY <1>1, <1>3, <1>4 DEF ActiveRecords

\* Each pass that suspends anew gets further, and drops no payload.
THEOREM EveryPassGetsFurther == Spec => PassesGetFurther
<1> DEFINE Further ==
      frame # NoFrame /\ frame' # NoFrame /\ frame' # frame /\ ~disturbed'
      => \/ frame'.step > frame.step
         \/ frame'.step = frame.step /\ Answers(frame') = Answers(frame) \cup {frame.wait.for}
<1>1. Typed /\ IInv /\ [Next]_vars => [Further]_vars
  <2> SUFFICES ASSUME Typed, IInv, Next, frame # NoFrame, frame' # NoFrame, frame' # frame, ~disturbed'
               PROVE  Further
    OBVIOUS
  <2>1. CASE CallSuspends
    <3>1. ~disturbed
      BY <2>1 DEF CallSuspends
    <3>2. QED BY <2>1, <3>1, SuspensionsGetFurther
  <2>2. ~(CallRecorded \/ Retry \/ Resume \/ Crash)
    BY DEF CallRecorded, Retry, Resume, Crash
  <2>3. ~(CallThrows \/ Throw \/ TimeOut \/ Refuse \/ Return)
    BY DEF CallThrows, Throw, TimeOut, Refuse, Return, AttemptFails, FailRun
  <2>4. ~(\E b \in late : LateCallRecorded(b) \/ LateCallSuspends(b) \/ LateCallThrows(b) \/ LateEnds(b))
    BY DEF LateCallRecorded, LateCallSuspends, LateCallThrows, LateEnds
  <2>5. QED BY <2>1, <2>2, <2>3, <2>4 DEF Next
<1>2. QED BY <1>1, Invariance, PTL DEF Spec, PassesGetFurther
=============================================================================
