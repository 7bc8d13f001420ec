---------------------- MODULE WorkflowCallStack_proofs ----------------------
(***************************************************************************)
(* Theorems about WorkflowCallStack, for any runs, calls and workers, and  *)
(* whatever happens besides events (Env).                                  *)
(***************************************************************************)
EXTENDS WorkflowCallStack, TLAPS

----------------------------------------------------------------------------
\* The inductive invariant.

\* A claim is of a worker that has the run in hand: in its pass, or to fail it.
HoldsOne ==
  \A w \in Worker : \A r \in Run :
    row[r].claim = w => \/ pc[w] = "pass" /\ job[w].run = r
                        \/ pc[w] = "failing" /\ job[w].target = r

\* A run that was suspended has counted it, and a caller is, or was, a run.
RowsWell ==
  \A r \in Run :
    /\ Suspended(r) => row[r].suspendedAt # 0
    /\ row[r].caller # None => row[row[r].caller].status # "absent"

\* A worker that runs a first pass does so for another one, that is in a pass.
CalledFrom ==
  \A v \in Worker : job[v].for # None => job[v].for # v /\ pc[job[v].for] = "pass"

\* The called runs the caller p may take the result of: its checkpoint waits on
\* them, the pass it is in may end on a wait for them, or will be told of them.
Takes(rows, jobs, p) ==
  {c \in Run :
     \/ c \in rows[p].waits
     \/ \E u \in Worker :
          /\ rows[p].claim = u
          /\ \/ c \in jobs[u].open
             \/ \E v \in Worker : jobs[v].for = u /\ jobs[v].first = c}

\* The first pass of c is over, and its caller will never wait on it again.
Unwanted(c) ==
  /\ row[c].status # "absent"
  /\ Active(c) => row[c].suspendedAt # 0
  /\ row[c].caller # None
  /\ Active(row[c].caller) => c \notin Takes(row, job, row[c].caller)

\* A run that ended stays so.
Gone(r) == row[r].status # "absent" /\ ~Active(r)

\* What worker w read of the run it reconciles holds while that run is on the
\* suspension it was read on.
ReadWell(w) ==
  LET r == job[w].run IN
  /\ r # None
  /\ row[r].status # "absent"
  /\ Active(r) =>
       /\ job[w].suspendedAt <= row[r].suspendedAt
       /\ job[w].suspendedAt = row[r].suspendedAt =>
            /\ job[w].look \subseteq row[r].waits
            /\ pc[w] = "deliver" => job[w].wait \in row[r].waits

\* The result a worker has in hand is one of a run that ended.
ResultWell(w) == job[w].wait # None => Gone(job[w].wait)

PassHand(w) ==
  LET r == job[w].run IN
  /\ r # None
  /\ job[w].look = {} /\ job[w].todo = {} /\ job[w].walk = {} /\ job[w].doomed = None
  /\ job[w].mode = "abandon"
  /\ ResultWell(w)
  /\ row[r].claim = w =>
       /\ job[w].suspendedAt = row[r].suspendedAt
       /\ job[w].wait # None => job[w].wait \in row[r].waits

\* Why a run may be failed that nobody asked to fail: nothing waits on it, or the
\* run that called it is about to be deleted.
CanBeFailed(w, r) ==
  \/ Unwanted(r)
  \/ job[w].doomed # None /\ row[r].status # "absent" /\ row[r].caller = job[w].doomed

\* A run read to be failed.
MayFail(w, s) ==
  /\ ~s.again /\ s.status = "suspended"
  /\ job[w].mode = "abandon" => CanBeFailed(w, s.run)

BusyHand(w) ==
  /\ job[w].open = {}
  /\ job[w].look # {} => ReadWell(w) /\ job[w].doomed = None /\ job[w].mode = "abandon"
  /\ job[w].doomed # None => job[w].mode = "abandon"
  /\ \A r \in job[w].walk : Gone(r)
  /\ job[w].mode \in {"refuse", "cancel"} =>
       /\ job[w].walk = {}
       /\ \A s, t \in job[w].todo : s = t
       /\ pc[w] = "failing" => job[w].todo = {}
  /\ job[w].mode # "close" => \A s \in job[w].todo : MayFail(w, s)
  /\ job[w].mode = "close" => job[w].walk = {}
  /\ pc[w] = "failing" =>
       job[w].target # None /\ (job[w].mode = "abandon" => CanBeFailed(w, job[w].target))

\* A suspended child of run r, as it was listed.
Child(s, r) ==
  /\ ~s.again /\ s.status = "suspended"
  /\ row[s.run].caller = r
  /\ row[s.run].status # "absent"
  /\ Active(s.run) => row[s.run].suspendedAt # 0

ReconcileHand(w) ==
  /\ job[w].open = {} /\ job[w].walk = {} /\ job[w].doomed = None /\ job[w].mode = "abandon"
  /\ job[w].run # None
  /\ \A s \in job[w].todo : Child(s, job[w].run)

ListedHand(w) == ReconcileHand(w) /\ job[w].look = {}

CallerHand(w) ==
  LET r == job[w].run IN
  /\ ReconcileHand(w) /\ ReadWell(w)
  /\ row[r].caller # None
  /\ Active(r) => row[r].suspendedAt # 0
  /\ \A s \in job[w].todo : s.run \in job[w].look \/ Unwanted(s.run)

DeliverHand(w) ==
  /\ ReconcileHand(w) /\ ReadWell(w) /\ ResultWell(w)
  /\ job[w].todo = {} /\ job[w].look = {} /\ job[w].wait # None

DeletingHand(w) ==
  /\ job[w].open = {} /\ job[w].look = {} /\ job[w].todo = {} /\ job[w].walk = {}
  /\ job[w].doomed # None /\ job[w].mode = "abandon"

Hand(w) ==
  /\ pc[w] = "idle" => job[w] = NoJob
  /\ pc[w] = "pass" => PassHand(w)
  /\ pc[w] \in {"busy", "failing"} => BusyHand(w)
  /\ pc[w] = "listed" => ListedHand(w)
  /\ pc[w] = "caller" => CallerHand(w)
  /\ pc[w] = "deliver" => DeliverHand(w)
  /\ pc[w] = "deleting" => DeletingHand(w)

Inv ==
  /\ TypeOK
  /\ HoldsOne
  /\ RowsWell
  /\ CalledFrom
  /\ \A w \in Worker : Hand(w)

----------------------------------------------------------------------------
\* Parts of a step that leave the others alone.

\* What any write does to a row: it is created once, keeps its caller, ends for
\* good, and has other waits only on another suspension.
Grows(x, y) ==
  x.status # "absent" =>
    /\ y.status # "absent"
    /\ y.caller = x.caller
    /\ y.status \in {"claimed", "suspended"} =>
         /\ x.status \in {"claimed", "suspended"}
         /\ x.suspendedAt <= y.suspendedAt
         /\ x.suspendedAt = y.suspendedAt => x.waits = y.waits

RowsGrow == \A r \in Run : Grows(row[r], row'[r])

\* A run takes nothing it did not, but the run that ends its first pass.
NoNewTakes ==
  \A p \in Run :
    row[p].status # "absent" /\ row'[p].status \in {"claimed", "suspended"} =>
      \A c \in Takes(row', job', p) :
        c \in Takes(row, job, p) \/ (Active(c) /\ row[c].suspendedAt = 0)

\* A step of others: at most, a pass is told of a call, or a call of nobody.
Untouched(u) ==
  /\ pc'[u] = pc[u]
  /\ \/ job'[u] = job[u]
     \/ /\ pc[u] # "idle"
        /\ \E f \in Worker \cup {None}, c \in Run \cup {None} :
             job'[u] = [job[u] EXCEPT !.for = f, !.first = c]
     \/ /\ pc[u] = "pass"
        /\ \E o \in SUBSET Run : job'[u] = [job[u] EXCEPT !.open = o]
  /\ \A r \in Run :
       row'[r].claim = u =>
         /\ row[r].claim = u
         /\ row'[r].suspendedAt = row[r].suspendedAt
         /\ row'[r].waits = row[r].waits

\* The fields of a job that tell a worker what to do.
LEMMA UntouchedJob ==
  ASSUME TypeOK, NEW u \in Worker, Untouched(u)
  PROVE  /\ job'[u].run = job[u].run /\ job'[u].suspendedAt = job[u].suspendedAt
         /\ job'[u].wait = job[u].wait /\ job'[u].look = job[u].look
         /\ job'[u].todo = job[u].todo /\ job'[u].walk = job[u].walk
         /\ job'[u].target = job[u].target /\ job'[u].mode = job[u].mode
         /\ job'[u].doomed = job[u].doomed
         /\ pc[u] # "pass" => job'[u].open = job[u].open
         /\ pc[u] = "idle" => job'[u] = job[u]
         /\ pc'[u] = pc[u]
<1>1. job[u] \in Jobs
  BY DEF TypeOK
<1>2. CASE job'[u] = job[u]
  BY <1>2 DEF Untouched
<1>3. CASE pc[u] # "idle" /\ \E f \in Worker \cup {None}, c \in Run \cup {None} :
             job'[u] = [job[u] EXCEPT !.for = f, !.first = c]
  BY <1>1, <1>3 DEF Untouched, Jobs
<1>4. CASE pc[u] = "pass" /\ \E o \in SUBSET Run : job'[u] = [job[u] EXCEPT !.open = o]
  BY <1>1, <1>4 DEF Untouched, Jobs
<1> QED
  BY <1>2, <1>3, <1>4 DEF Untouched

\* An ended run stays so.
LEMMA GoneStays ==
  ASSUME RowsGrow, NEW r \in Run, Gone(r)
  PROVE  Gone(r)'
BY DEF RowsGrow, Grows, Gone, Active, Claimed, Suspended

\* What nothing waits on, nothing will.
LEMMA UnwantedStays ==
  ASSUME TypeOK, TypeOK', RowsWell, RowsGrow, NoNewTakes, NEW c \in Run, Unwanted(c)
  PROVE  Unwanted(c)'
<1> DEFINE p == row[c].caller
<1>1. row[c] \in Rows /\ row'[c] \in Rows
  BY DEF TypeOK
<1>2. p \in Run /\ row[p].status # "absent" /\ row[c].status # "absent"
  BY <1>1 DEF Unwanted, RowsWell, Rows
<1>3. row'[c].caller = p /\ row'[c].status # "absent" /\ Grows(row[c], row'[c]) /\ Grows(row[p], row'[p])
  BY <1>2 DEF RowsGrow, Grows
<1>4. Active(c)' => row'[c].suspendedAt # 0
  <2>1. row[c].suspendedAt \in Nat /\ row'[c].suspendedAt \in Nat
    BY <1>1 DEF Rows
  <2> QED
    BY <2>1, <1>2, <1>3 DEF Active, Claimed, Suspended, Grows, Unwanted
<1>5. ASSUME row'[p].status \in {"claimed", "suspended"}, c \in Takes(row', job', p)
      PROVE  FALSE
  <2>1. Active(p)
    BY <1>2, <1>3, <1>5 DEF Grows, Active, Claimed, Suspended
  <2>2. c \notin Takes(row, job, p)
    BY <2>1, <1>2 DEF Unwanted
  <2>3. Active(c) /\ row[c].suspendedAt = 0
    BY <2>2, <1>2, <1>5 DEF NoNewTakes
  <2> QED
    BY <2>3 DEF Unwanted
<1> HIDE DEF p
<1>6. p # None
  BY <1>2, NobodyAssumption
<1> QED
  BY <1>3, <1>4, <1>5, <1>6 DEF Unwanted, Active, Claimed, Suspended

\* A called run, as it was listed, is still one.
LEMMA ChildStays ==
  ASSUME TypeOK, TypeOK', RowsGrow, NEW s \in Reads, NEW r \in Run, Child(s, r)
  PROVE  Child(s, r)'
<1> DEFINE q == s.run
<1>1. q \in Run
  BY DEF Reads
<1>2. row[q] \in Rows /\ row'[q] \in Rows /\ Grows(row[q], row'[q])
  BY <1>1 DEF TypeOK, RowsGrow
<1>3. row[q].suspendedAt \in Nat /\ row'[q].suspendedAt \in Nat
  BY <1>2 DEF Rows
<1> QED
  BY <1>2, <1>3 DEF Child, Grows, Active, Claimed, Suspended

\* What was read of a run may be out of date, but not wrong.
LEMMA ReadWellStays ==
  ASSUME TypeOK, TypeOK', RowsGrow, NEW u \in Worker, ReadWell(u),
         job'[u].run = job[u].run, job'[u].suspendedAt = job[u].suspendedAt,
         job'[u].look \subseteq job[u].look,
         pc'[u] = "deliver" => pc[u] = "deliver" /\ job'[u].wait = job[u].wait
  PROVE  ReadWell(u)'
<1> DEFINE r == job[u].run
<1>1. /\ job'[u].run = r /\ job'[u].suspendedAt = job[u].suspendedAt
      /\ job'[u].look \subseteq job[u].look
      /\ pc'[u] = "deliver" => pc[u] = "deliver" /\ job'[u].wait = job[u].wait
  OBVIOUS
<1>2. job[u] \in Jobs
  BY DEF TypeOK
<1>3. r \in Run
  BY <1>2 DEF ReadWell, Jobs
<1>4. row[r] \in Rows /\ row'[r] \in Rows /\ Grows(row[r], row'[r])
  BY <1>3 DEF TypeOK, RowsGrow
<1>5. row[r].suspendedAt \in Nat /\ row'[r].suspendedAt \in Nat /\ job[u].suspendedAt \in Nat
  BY <1>2, <1>4 DEF Rows, Jobs
<1>6. r # None /\ row'[r].status # "absent"
  BY <1>4 DEF ReadWell, Grows
<1>7. ASSUME row'[r].status \in {"claimed", "suspended"}
      PROVE  /\ job[u].suspendedAt <= row'[r].suspendedAt
             /\ job[u].suspendedAt = row'[r].suspendedAt =>
                  /\ job[u].look \subseteq row'[r].waits
                  /\ pc[u] = "deliver" => job[u].wait \in row'[r].waits
  <2>1. /\ Active(r)
        /\ row[r].suspendedAt <= row'[r].suspendedAt
        /\ row[r].suspendedAt = row'[r].suspendedAt => row[r].waits = row'[r].waits
    BY <1>4, <1>7 DEF ReadWell, Grows, Active, Claimed, Suspended
  <2>2. /\ job[u].suspendedAt <= row[r].suspendedAt
        /\ job[u].suspendedAt = row[r].suspendedAt =>
             /\ job[u].look \subseteq row[r].waits
             /\ pc[u] = "deliver" => job[u].wait \in row[r].waits
    BY <2>1 DEF ReadWell
  <2>3. job[u].suspendedAt <= row'[r].suspendedAt
    BY <2>1, <2>2, <1>5
  <2>4. job[u].suspendedAt = row'[r].suspendedAt => job[u].suspendedAt = row[r].suspendedAt /\ row[r].suspendedAt = row'[r].suspendedAt
    BY <2>1, <2>2, <1>5
  <2> QED
    BY <2>1, <2>2, <2>3, <2>4
<1> HIDE DEF r
<1> QED
  BY <1>1, <1>6, <1>7 DEF ReadWell, Active, Claimed, Suspended

\* A run that was called stays called.
LEMMA CallerStays ==
  ASSUME RowsGrow, NEW r \in Run, row[r].status # "absent"
  PROVE  row'[r].status # "absent" /\ row'[r].caller = row[r].caller
BY DEF RowsGrow, Grows

\* What could be failed, can be.
LEMMA CanStillBeFailed ==
  ASSUME TypeOK, TypeOK', RowsWell, RowsGrow, NoNewTakes, NEW w \in Worker, NEW r \in Run,
         CanBeFailed(w, r), job'[w].doomed = job[w].doomed
  PROVE  CanBeFailed(w, r)'
<1>1. Unwanted(r) => Unwanted(r)'
  BY UnwantedStays
<1>2. row[r].status # "absent" => row'[r].status # "absent" /\ row'[r].caller = row[r].caller
  BY CallerStays
<1> QED
  BY <1>1, <1>2 DEF CanBeFailed

\* A step of others leaves what a worker has in hand as it may be.
LEMMA HandStays ==
  ASSUME TypeOK, TypeOK', RowsWell, RowsGrow, NoNewTakes, NEW u \in Worker, Untouched(u), Hand(u)
  PROVE  Hand(u)'
<1>1. /\ job'[u].run = job[u].run /\ job'[u].suspendedAt = job[u].suspendedAt
      /\ job'[u].wait = job[u].wait /\ job'[u].look = job[u].look
      /\ job'[u].todo = job[u].todo /\ job'[u].walk = job[u].walk
      /\ job'[u].target = job[u].target /\ job'[u].mode = job[u].mode
      /\ job'[u].doomed = job[u].doomed
      /\ pc[u] # "pass" => job'[u].open = job[u].open
      /\ pc[u] = "idle" => job'[u] = job[u]
      /\ pc'[u] = pc[u]
  BY UntouchedJob
<1>2. /\ job[u] \in Jobs /\ job[u].run \in Run \cup {None} /\ job[u].wait \in Run \cup {None}
      /\ job[u].todo \subseteq Reads /\ job[u].walk \subseteq Run /\ pc[u] \in Steps
  BY DEF TypeOK, Jobs
<1>3. ResultWell(u) => ResultWell(u)'
  BY <1>1, <1>2, GoneStays DEF ResultWell
<1>4. ReadWell(u) => ReadWell(u)'
  BY <1>1, ReadWellStays
<1>5. CASE pc[u] = "pass"
  <2>1. PassHand(u)
    BY <1>5 DEF Hand
  <2>2. job[u].run \in Run
    BY <2>1, <1>2 DEF PassHand
  <2>3. PassHand(u)'
    BY <2>1, <2>2, <1>1, <1>3 DEF PassHand, Untouched
  <2> QED
    BY <2>3, <1>5, <1>1 DEF Hand
<1>6. CASE pc[u] \in {"busy", "failing"}
  <2>1. BusyHand(u)
    BY <1>6 DEF Hand
  <2>2. ASSUME NEW s \in job[u].todo, MayFail(u, s) PROVE MayFail(u, s)'
    <3>1. s.run \in Run
      BY <1>2 DEF Reads
    <3>2. CanBeFailed(u, s.run) => CanBeFailed(u, s.run)'
      BY <1>1, <3>1, CanStillBeFailed
    <3> QED
      BY <1>1, <3>2, <2>2 DEF MayFail
  <2>3. job[u].look # {} => ReadWell(u)' /\ job[u].doomed = None /\ job[u].mode = "abandon"
    BY <2>1, <1>4 DEF BusyHand
  <2>4. \A r \in job[u].walk : Gone(r)'
    BY <2>1, <1>2, GoneStays DEF BusyHand
  <2>5. job[u].mode # "close" => \A s \in job[u].todo : MayFail(u, s)'
    BY <2>1, <2>2 DEF BusyHand
  <2>6. BusyHand(u)'
    <3>1. job'[u].open = {}
      BY <2>1, <1>1, <1>6 DEF BusyHand
    <3>2. \A r \in job'[u].walk : Gone(r)'
      BY <2>4, <1>1
    <3>3. job'[u].mode # "close" => \A s \in job'[u].todo : MayFail(u, s)'
      BY <2>5, <1>1
    <3>4. job'[u].look # {} => ReadWell(u)' /\ job'[u].doomed = None /\ job'[u].mode = "abandon"
      BY <2>3, <1>1
    <3>5. ASSUME pc[u] = "failing", job[u].mode = "abandon"
          PROVE  CanBeFailed(u, job[u].target)'
      <4>1. PICK r \in Run : r = job[u].target
        BY <2>1, <3>5, <1>2 DEF BusyHand, Jobs
      <4>2. job'[u].target = r /\ CanBeFailed(u, r)
        BY <2>1, <3>5, <4>1, <1>1 DEF BusyHand
      <4>3. CanBeFailed(u, r)'
        BY <4>2, <1>1, CanStillBeFailed
      <4> QED
        BY <4>2, <4>3
    <3> QED
      BY <2>1, <3>1, <3>2, <3>3, <3>4, <3>5, <1>1 DEF BusyHand
  <2> QED
    BY <2>6, <1>6, <1>1 DEF Hand
<1>7. ReconcileHand(u) /\ pc[u] # "pass" => ReconcileHand(u)'
  <2>1. ASSUME ReconcileHand(u), NEW s \in job[u].todo PROVE Child(s, job[u].run)'
    BY <2>1, <1>1, <1>2, ChildStays DEF ReconcileHand, Child
  <2> QED
    BY <2>1, <1>1 DEF ReconcileHand
<1>8. CASE pc[u] = "listed"
  BY <1>8, <1>7, <1>1 DEF Hand, ListedHand
<1>9. CASE pc[u] = "caller"
  <2>1. CallerHand(u)
    BY <1>9 DEF Hand
  <2>2. ReconcileHand(u)' /\ ReadWell(u)' /\ ReconcileHand(u) /\ ReadWell(u)
    BY <2>1, <1>4, <1>7, <1>9 DEF CallerHand
  <2> DEFINE r == job[u].run
  <2>3. r \in Run /\ row[r].status # "absent"
    BY <2>2, <1>2 DEF ReadWell
  <2>4. row[r] \in Rows /\ row'[r] \in Rows /\ Grows(row[r], row'[r])
    BY <2>3 DEF TypeOK, RowsGrow
  <2>5. row'[r].caller # None
    BY <2>1, <2>3, <2>4 DEF CallerHand, Grows
  <2>6. row'[r].status \in {"claimed", "suspended"} => row'[r].suspendedAt # 0
    <3>1. row[r].suspendedAt \in Nat /\ row'[r].suspendedAt \in Nat
      BY <2>4 DEF Rows
    <3>2. Active(r) => row[r].suspendedAt # 0
      BY <2>1 DEF CallerHand
    <3> QED
      BY <2>3, <2>4, <3>1, <3>2 DEF Grows, Active, Claimed, Suspended
  <2>7. \A s \in job[u].todo : s.run \in job[u].look \/ Unwanted(s.run)'
    <3>1. ASSUME NEW s \in job[u].todo, Unwanted(s.run) PROVE Unwanted(s.run)'
      <4>1. s.run \in Run
        BY <1>2 DEF Reads
      <4> QED
        BY <4>1, <3>1, UnwantedStays
    <3> QED
      BY <3>1, <2>1 DEF CallerHand
  <2>8. CallerHand(u)'
    <3> HIDE DEF r
    <3>1. job[u].run = r /\ job'[u].run = r
      BY <1>1 DEF r
    <3>2. \A s \in job'[u].todo : s.run \in job'[u].look \/ Unwanted(s.run)'
      BY <2>7, <1>1
    <3>3. Active(job[u].run)' => row'[r].suspendedAt # 0
      BY <2>6, <3>1 DEF Active, Claimed, Suspended
    <3> QED
      BY <2>2, <2>5, <3>1, <3>2, <3>3 DEF CallerHand
  <2> QED
    BY <2>8, <1>9, <1>1 DEF Hand
<1>10. CASE pc[u] = "deliver"
  <2>1. DeliverHand(u)
    BY <1>10 DEF Hand
  <2>2. DeliverHand(u)'
    BY <2>1, <1>3, <1>4, <1>7, <1>1, <1>10 DEF DeliverHand
  <2> QED
    BY <2>2, <1>10, <1>1 DEF Hand
<1>11. CASE pc[u] = "deleting"
  <2>1. DeletingHand(u)
    BY <1>11 DEF Hand
  <2>2. DeletingHand(u)'
    BY <2>1, <1>1, <1>11 DEF DeletingHand
  <2> QED
    BY <2>2, <1>11, <1>1 DEF Hand
<1>12. CASE pc[u] = "idle"
  BY <1>12, <1>1 DEF Hand
<1> QED
  BY <1>2, <1>5, <1>6, <1>8, <1>9, <1>10, <1>11, <1>12 DEF Steps

\* Once every worker is accounted for, those in S by their own step, the others
\* because it leaves them alone, the invariant holds again.
LEMMA Preserves ==
  ASSUME Inv, TypeOK', RowsGrow, NoNewTakes, RowsWell', CalledFrom', NEW S \in SUBSET Worker,
         \A u \in Worker \ S : Untouched(u),
         \A u \in S : Hand(u)',
         \A u \in S : \A r \in Run :
           row'[r].claim = u => \/ pc'[u] = "pass" /\ job'[u].run = r
                                \/ pc'[u] = "failing" /\ job'[u].target = r
  PROVE  Inv'
<1>1. TypeOK /\ RowsWell /\ HoldsOne /\ \A u \in Worker : Hand(u)
  BY DEF Inv
<1>2. ASSUME NEW u \in Worker PROVE Hand(u)'
  <2>1. CASE u \in S
    BY <2>1
  <2>2. CASE u \notin S
    BY <2>2, <1>1, HandStays
  <2> QED
    BY <2>1, <2>2
<1>3. ASSUME NEW u \in Worker, NEW r \in Run, row'[r].claim = u
      PROVE  \/ pc'[u] = "pass" /\ job'[u].run = r
             \/ pc'[u] = "failing" /\ job'[u].target = r
  <2>1. CASE u \in S
    BY <2>1, <1>3
  <2>2. CASE u \notin S
    <3>1. Untouched(u)
      BY <2>2
    <3>2. row[r].claim = u
      BY <3>1, <1>3 DEF Untouched
    <3> QED
      BY <3>1, <3>2, <1>1, UntouchedJob DEF HoldsOne
  <2> QED
    BY <2>1, <2>2
<1> QED
  BY <1>2, <1>3 DEF Inv, HoldsOne

\* Rows that grow stay well.
LEMMA RowsWellStays ==
  ASSUME row \in [Run -> Rows], row' \in [Run -> Rows], RowsWell, RowsGrow,
         \A r \in Run : row'[r].status = "suspended" => row'[r].suspendedAt # 0,
         \A r \in Run : row'[r].caller # None =>
           row'[r].caller = row[r].caller \/ row[row'[r].caller].status # "absent"
  PROVE  RowsWell'
<1> SUFFICES ASSUME NEW r \in Run, row'[r].caller # None
             PROVE  row'[row'[r].caller].status # "absent"
  BY DEF RowsWell, Suspended
<1> DEFINE p == row'[r].caller
<1>1. row'[r] \in Rows
  OBVIOUS
<1>2. p \in Run
  BY <1>1 DEF Rows
<1>3. row[p].status # "absent"
  BY DEF RowsWell
<1>4. row'[p].status # "absent"
  BY <1>2, <1>3, CallerStays
<1> QED
  BY <1>4

\* What one write does to the table.
LEMMA OneRow ==
  ASSUME TypeOK, RowsWell, NEW r \in Run, NEW x \in Rows, Write(r, x), Grows(row[r], x),
         x.claim # None => x.status = "claimed",
         x.status = "suspended" => x.suspendedAt # 0,
         x.caller # None => x.caller = row[r].caller \/ row[x.caller].status # "absent"
  PROVE  /\ row' \in [Run -> Rows]
         /\ \A q \in Run : row'[q] = IF q = r THEN x ELSE row[q]
         /\ \A q \in Run : row'[q].claim # None => row'[q].status = "claimed"
         /\ RowsGrow
         /\ RowsWell'
<1>1. row' \in [Run -> Rows] /\ \A q \in Run : row'[q] = IF q = r THEN x ELSE row[q]
  BY DEF TypeOK, Write
<1>2. \A q \in Run : row'[q].claim # None => row'[q].status = "claimed"
  BY <1>1 DEF TypeOK
<1>3. \A q \in Run : row[q] \in Rows
  BY DEF TypeOK
<1>4. \A q \in Run : Grows(row[q], row[q])
  BY <1>3 DEF Grows, Rows
<1>5. RowsGrow
  BY <1>1, <1>4 DEF RowsGrow
<1>6. \A q \in Run : row'[q].status = "suspended" => row'[q].suspendedAt # 0
  BY <1>1 DEF RowsWell, Suspended
<1>7. \A q \in Run : row'[q].caller # None =>
        row'[q].caller = row[q].caller \/ row[row'[q].caller].status # "absent"
  BY <1>1
<1>8. row \in [Run -> Rows]
  BY DEF TypeOK
<1> QED
  BY <1>1, <1>2, <1>5, <1>6, <1>7, <1>8, RowsWellStays

\* What a pass may take from the workers it waits for, or from its run.
LEMMA TakesBy ==
  ASSUME NEW rows, NEW jobs, NEW p \in Run, NEW c \in Run
  PROVE  /\ c \in rows[p].waits => c \in Takes(rows, jobs, p)
         /\ \A u \in Worker : rows[p].claim = u /\ c \in jobs[u].open => c \in Takes(rows, jobs, p)
         /\ \A u, v \in Worker : rows[p].claim = u /\ jobs[v].for = u /\ jobs[v].first = c
              => c \in Takes(rows, jobs, p)
         /\ c \in Takes(rows, jobs, p) =>
              \/ c \in rows[p].waits
              \/ \E u \in Worker : rows[p].claim = u /\ c \in jobs[u].open
              \/ \E u, v \in Worker : rows[p].claim = u /\ jobs[v].for = u /\ jobs[v].first = c
BY DEF Takes

\* A row that its worker may go on with.
SameClaim(x, y) == y.claim = x.claim /\ y.suspendedAt = x.suspendedAt /\ y.waits = x.waits

\* A worker that is not in a pass writes rows, if any, and goes on with another job.
LEMMA Moved ==
  ASSUME Inv, NEW w \in Worker, NEW s \in Steps, NEW j \in Jobs,
         pc[w] # "pass", Goto(w, s), Set(w, j), closed' \in BOOLEAN,
         row' \in [Run -> Rows], RowsGrow, RowsWell',
         \A q \in Run : row'[q].claim # None => row'[q].status = "claimed",
         \A q \in Run : row'[q].waits \subseteq row[q].waits,
         \A q \in Run : row'[q].claim \in {w, None} \/ SameClaim(row[q], row'[q]),
         \A q \in Run : row'[q].claim = w => \/ s = "pass" /\ j.run = q
                                             \/ s = "failing" /\ j.target = q,
         j.for # None => pc[j.for] = "pass",
         j.for = None \/ j.first = None \/ (j.for = job[w].for /\ j.first = job[w].first),
         j.open = {} \/ (s = "pass" /\ j.open \subseteq row[j.run].waits)
  PROVE  TypeOK' /\ RowsGrow /\ NoNewTakes /\ (Hand(w)' => Inv')
<1>1. TypeOK /\ RowsWell /\ HoldsOne /\ CalledFrom
  BY DEF Inv
<1>3. /\ \A u \in Worker : pc'[u] = IF u = w THEN s ELSE pc[u]
      /\ \A u \in Worker : job'[u] = IF u = w THEN j ELSE job[u]
      /\ pc' \in [Worker -> Steps] /\ job' \in [Worker -> Jobs]
  BY <1>1 DEF TypeOK, Goto, Set
<1>4. TypeOK'
  BY <1>1, <1>3 DEF TypeOK
<1>5. j.for # w /\ \A v \in Worker : job[v].for # w
  <2>1. w # None
    BY NobodyAssumption
  <2>2. j.for # w
    BY <2>1
  <2>3. \A v \in Worker : job[v].for # w
    BY <2>1, <1>1 DEF CalledFrom
  <2> QED
    BY <2>2, <2>3
<1>6. CalledFrom'
  <2> SUFFICES ASSUME NEW v \in Worker, job'[v].for # None PROVE job'[v].for # v /\ pc'[job'[v].for] = "pass"
    BY DEF CalledFrom
  <2>1. job[v] \in Jobs
    BY <1>1 DEF TypeOK
  <2>2. job[v].for \in Worker \cup {None} /\ j.for \in Worker \cup {None}
    BY <2>1 DEF Jobs
  <2>3. CASE v = w
    <3>1. job'[v].for = j.for
      BY <2>3, <1>3
    <3>2. j.for \in Worker /\ j.for # w /\ pc[j.for] = "pass"
      BY <3>1, <2>2, <1>5
    <3> QED
      BY <2>3, <3>1, <3>2, <1>3
  <2>4. CASE v # w
    <3>1. job'[v].for = job[v].for
      BY <2>4, <1>3
    <3>2. job[v].for \in Worker /\ job[v].for \notin {v, w} /\ pc[job[v].for] = "pass"
      BY <3>1, <2>2, <1>1, <1>5 DEF CalledFrom
    <3> QED
      BY <3>1, <3>2, <1>3
  <2> QED
    BY <2>3, <2>4
<1>7. \A u \in Worker \ {w} : Untouched(u)
  <2> SUFFICES ASSUME NEW u \in Worker, u # w PROVE Untouched(u)
    OBVIOUS
  <2>1. pc'[u] = pc[u] /\ job'[u] = job[u]
    BY <1>3
  <2>2. ASSUME NEW q \in Run, row'[q].claim = u PROVE SameClaim(row[q], row'[q])
    BY <2>2, NobodyAssumption
  <2>3. \A q \in Run : row'[q].claim = u =>
          row[q].claim = u /\ row'[q].suspendedAt = row[q].suspendedAt /\ row'[q].waits = row[q].waits
    BY <2>2 DEF SameClaim
  <2> QED
    BY <2>1, <2>3 DEF Untouched
<1>8. NoNewTakes
  <2> SUFFICES ASSUME NEW p \in Run, NEW c \in Takes(row', job', p)
               PROVE  c \in Takes(row, job, p)
    BY DEF NoNewTakes
  <2>1. c \in Run
    BY DEF Takes
  <2>2. row'[p].waits \subseteq row[p].waits
    OBVIOUS
  <2>3. ASSUME NEW u \in Worker, row'[p].claim = u, c \in job'[u].open
        PROVE  c \in Takes(row, job, p)
    <3>1. CASE u = w
      <4>1. j.open # {} /\ c \in j.open
        BY <3>1, <2>3, <1>3
      <4>2. s = "pass" /\ c \in row[j.run].waits
        BY <4>1
      <4>3. j.run = p
        BY <4>2, <3>1, <2>3
      <4> QED
        BY <4>2, <4>3, <2>1, TakesBy
    <3>2. CASE u # w
      <4>1. row[p].claim = u /\ job'[u] = job[u]
        BY <3>2, <2>3, <1>3, NobodyAssumption DEF SameClaim
      <4> QED
        BY <4>1, <2>1, <2>3, TakesBy
    <3> QED
      BY <3>1, <3>2
  <2>4. ASSUME NEW u \in Worker, NEW v \in Worker, row'[p].claim = u, job'[v].for = u, job'[v].first = c
        PROVE  c \in Takes(row, job, p)
    <3>1. u # w
      BY <2>4, <1>3, <1>5
    <3>2. row[p].claim = u
      BY <3>1, <2>4, NobodyAssumption DEF SameClaim
    <3>3. job[v].for = u /\ job[v].first = c
      <4>1. u # None /\ c # None
        BY <2>1, NobodyAssumption
      <4> QED
        BY <4>1, <2>4, <1>3
    <3> QED
      BY <3>2, <3>3, <2>1, TakesBy
  <2> QED
    BY <2>1, <2>2, <2>3, <2>4, TakesBy
<1>9. ASSUME Hand(w)' PROVE Inv'
  <2>1. \A u \in {w} : \A q \in Run : row'[q].claim = u =>
          \/ pc'[u] = "pass" /\ job'[u].run = q
          \/ pc'[u] = "failing" /\ job'[u].target = q
    BY <1>3
  <2>2. {w} \in SUBSET Worker /\ \A u \in {w} : Hand(u)'
    BY <1>9 DEF Hand
  <2> QED
    BY <2>1, <2>2, <1>4, <1>6, <1>7, <1>8, Preserves
<1> QED
  BY <1>4, <1>8, <1>9

\* A worker that writes nothing goes on with another job.
LEMMA Stayed ==
  ASSUME Inv, NEW w \in Worker, NEW s \in Steps, NEW j \in Jobs,
         pc[w] # "pass", Goto(w, s), Set(w, j), closed' \in BOOLEAN, row' = row,
         \A q \in Run : row[q].claim # w,
         j.for \in {None, job[w].for}, j.first \in {None, job[w].first}, j.open = {}
  PROVE  TypeOK' /\ RowsGrow /\ NoNewTakes /\ (Hand(w)' => Inv')
<1>1. TypeOK /\ RowsWell /\ CalledFrom
  BY DEF Inv
<1>2. row' \in [Run -> Rows] /\ \A q \in Run : row'[q].claim # None => row'[q].status = "claimed"
  BY <1>1 DEF TypeOK
<1>3. RowsGrow
  BY <1>1 DEF RowsGrow, Grows, TypeOK, Rows
<1>4. RowsWell'
  BY <1>1 DEF RowsWell, Suspended
<1>5. j.for # None => pc[j.for] = "pass"
  BY <1>1 DEF CalledFrom
<1>6. j.for = None \/ j.first = None \/ (j.for = job[w].for /\ j.first = job[w].first)
  OBVIOUS
<1>7. \A q \in Run : row'[q].claim = w => \/ s = "pass" /\ j.run = q
                                          \/ s = "failing" /\ j.target = q
  OBVIOUS
<1>8. \A q \in Run : SameClaim(row[q], row'[q])
  BY DEF SameClaim
<1> QED
  BY <1>2, <1>3, <1>4, <1>5, <1>6, <1>7, <1>8, Moved

\* A worker that is neither in a pass nor failing a run claims none.
LEMMA ClaimsNone ==
  ASSUME HoldsOne, NEW w \in Worker, pc[w] \notin {"pass", "failing"}
  PROVE  \A q \in Run : row[q].claim # w
BY DEF HoldsOne

\* A worker that is not in a pass writes one row.
LEMMA MovedOne ==
  ASSUME Inv, NEW w \in Worker, NEW s \in Steps, NEW j \in Jobs, NEW r \in Run, NEW x \in Rows,
         pc[w] # "pass", Goto(w, s), Set(w, j), closed' = closed,
         Write(r, x), Grows(row[r], x),
         x.claim # None => x.status = "claimed",
         x.status = "suspended" => x.suspendedAt # 0,
         x.caller # None => x.caller = row[r].caller \/ row[x.caller].status # "absent",
         x.waits \subseteq row[r].waits,
         x.claim = None \/ (x.claim = w /\ ((s = "pass" /\ j.run = r) \/ (s = "failing" /\ j.target = r))),
         \A q \in Run : row[q].claim = w => q = r,
         j.for # None => pc[j.for] = "pass",
         j.for = None \/ j.first = None \/ (j.for = job[w].for /\ j.first = job[w].first),
         j.open = {} \/ (s = "pass" /\ j.open \subseteq row[j.run].waits)
  PROVE  TypeOK' /\ RowsGrow /\ NoNewTakes /\ (Hand(w)' => Inv')
<1>1. TypeOK /\ RowsWell
  BY DEF Inv
<1>2. /\ row' \in [Run -> Rows]
      /\ \A q \in Run : row'[q] = IF q = r THEN x ELSE row[q]
      /\ \A q \in Run : row'[q].claim # None => row'[q].status = "claimed"
      /\ RowsGrow
      /\ RowsWell'
  BY <1>1, OneRow
<1>3. closed' \in BOOLEAN
  BY <1>1 DEF TypeOK
<1>4. \A q \in Run : row'[q].waits \subseteq row[q].waits
  BY <1>2
<1>5. \A q \in Run : row'[q].claim \in {w, None} \/ SameClaim(row[q], row'[q])
  BY <1>2 DEF SameClaim
<1>6. \A q \in Run : row'[q].claim = w => \/ s = "pass" /\ j.run = q
                                          \/ s = "failing" /\ j.target = q
  BY <1>2, NobodyAssumption
<1> QED
  BY <1>2, <1>3, <1>4, <1>5, <1>6, Moved

\* A worker whose pass is over, and which was waited for or waits for others.
LEMMA Passed ==
  ASSUME Inv, NEW w \in Worker, NEW j \in Jobs, NEW r \in Run, NEW x \in Rows,
         pc[w] = "pass", r = job[w].run, Goto(w, "busy"), PassOver(w, j), closed' = closed,
         Write(r, x), Grows(row[r], x), x.claim = None \/ (x = row[r] /\ x.claim # w),
         x.claim # None => x.status = "claimed",
         x.status = "suspended" => x.suspendedAt # 0,
         x.caller = row[r].caller,
         x.waits \subseteq row[r].waits \/ (row[r].claim = w /\ x.waits \subseteq job[w].open),
         j.for = job[w].for, j.open = {},
         j.first = job[w].first \/ (j.first = r /\ Active(r) /\ row[r].suspendedAt = 0),
         Hand(w)'
  PROVE  Inv'
<1>1. TypeOK /\ RowsWell /\ HoldsOne /\ CalledFrom /\ \A u \in Worker : Hand(u)
  BY DEF Inv
<1>2. /\ row' \in [Run -> Rows]
      /\ \A q \in Run : row'[q] = IF q = r THEN x ELSE row[q]
      /\ \A q \in Run : row'[q].claim # None => row'[q].status = "claimed"
      /\ RowsGrow
      /\ RowsWell'
  BY <1>1, OneRow
<1>3. \A u \in Worker : job[u] \in Jobs /\ job[u].for \in Worker \cup {None}
                        /\ job[u].first \in Run \cup {None} /\ job[u].open \subseteq Run
  BY <1>1 DEF TypeOK, Jobs
<1>4. /\ \A u \in Worker : pc'[u] = IF u = w THEN "busy" ELSE pc[u]
      /\ pc' \in [Worker -> Steps]
  BY <1>1 DEF TypeOK, Goto, Steps
<1>5. /\ job'[w] = j
      /\ \A u \in Worker : u # w /\ job[u].for # w => job'[u] = job[u]
      /\ \A u \in Worker : u # w /\ job[u].for = w =>
           job'[u] = [job[u] EXCEPT !.for = None, !.first = None]
  BY DEF PassOver
<1>6. ASSUME NEW u \in Worker, u # w, job[u].for = w
      PROVE  /\ job'[u] \in Jobs /\ job'[u].for = None /\ job'[u].first = None
             /\ job'[u].open = job[u].open
  <2>1. job[u] \in Jobs
    BY <1>3
  <2>2. job'[u] = [job[u] EXCEPT !.for = None, !.first = None]
    BY <1>5, <1>6
  <2> QED
    BY <2>1, <2>2 DEF Jobs
<1>7. TypeOK'
  <2>1. \A u \in Worker : job'[u] \in Jobs
    BY <1>3, <1>5, <1>6
  <2>2. job' \in [Worker -> Jobs]
    BY <2>1 DEF PassOver
  <2> QED
    BY <2>2, <1>1, <1>2, <1>4 DEF TypeOK
<1>8. w # None /\ job[w].for # w
  BY <1>1, NobodyAssumption DEF CalledFrom
<1>9. CalledFrom'
  <2> SUFFICES ASSUME NEW v \in Worker, job'[v].for # None
               PROVE  job'[v].for # v /\ pc'[job'[v].for] = "pass"
    BY DEF CalledFrom
  <2>1. job'[v].for = job[v].for /\ job[v].for # w
    BY <1>5, <1>6, <1>8
  <2>2. job[v].for \in Worker /\ job[v].for # v /\ pc[job[v].for] = "pass"
    BY <2>1, <1>1, <1>3 DEF CalledFrom
  <2> QED
    BY <2>1, <2>2, <1>4
<1>10. \A u \in Worker \ {w} : Untouched(u)
  <2> SUFFICES ASSUME NEW u \in Worker, u # w PROVE Untouched(u)
    OBVIOUS
  <2>1. pc'[u] = pc[u]
    BY <1>4
  <2>2. ASSUME job[u].for = w PROVE pc[u] # "idle"
    <3>1. job[u] # NoJob
      BY <2>2, <1>8 DEF NoJob
    <3> QED
      BY <3>1, <1>1 DEF Hand
  <2>3. job'[u] = job[u] \/ (pc[u] # "idle" /\ \E f \in Worker \cup {None}, c \in Run \cup {None} :
             job'[u] = [job[u] EXCEPT !.for = f, !.first = c])
    <3>1. None \in Worker \cup {None} /\ None \in Run \cup {None}
      OBVIOUS
    <3> QED
      BY <3>1, <2>2, <1>5
  <2>4. ASSUME NEW q \in Run, row'[q].claim = u PROVE row'[q] = row[q]
    BY <2>4, <1>2, NobodyAssumption
  <2>5. \A q \in Run : row'[q].claim = u =>
          row[q].claim = u /\ row'[q].suspendedAt = row[q].suspendedAt /\ row'[q].waits = row[q].waits
    <3> SUFFICES ASSUME NEW q \in Run, row'[q].claim = u PROVE row'[q] = row[q]
      OBVIOUS
    <3> QED
      BY <2>4
  <2> QED
    BY <2>1, <2>3, <2>5 DEF Untouched
<1>11. ASSUME NEW q \in Run PROVE row'[q].claim # w
  BY <1>1, <1>2, <1>8 DEF HoldsOne
<1>12. NoNewTakes
  <2> SUFFICES ASSUME NEW p \in Run, NEW c \in Takes(row', job', p)
               PROVE  c \in Takes(row, job, p) \/ (Active(c) /\ row[c].suspendedAt = 0)
    BY DEF NoNewTakes
  <2>1. c \in Run
    BY DEF Takes
  <2>2. ASSUME c \in row'[p].waits PROVE c \in Takes(row, job, p)
    BY <2>1, <2>2, <1>2, TakesBy
  <2>3. ASSUME NEW u \in Worker, row'[p].claim = u, c \in job'[u].open
        PROVE  c \in Takes(row, job, p)
    <3>1. u # w
      BY <2>3, <1>11
    <3>2. row[p].claim = u
      BY <2>3, <1>2, NobodyAssumption
    <3>3. c \in job[u].open
      BY <2>3, <3>1, <1>5, <1>6
    <3> QED
      BY <3>2, <3>3, <2>1, TakesBy
  <2>4. ASSUME NEW u \in Worker, NEW v \in Worker, row'[p].claim = u, job'[v].for = u, job'[v].first = c
        PROVE  c \in Takes(row, job, p) \/ (Active(c) /\ row[c].suspendedAt = 0)
    <3>1. row[p].claim = u
      BY <2>4, <1>2, NobodyAssumption
    <3>2. job[v].for = u /\ (job[v].first = c \/ (c = r /\ Active(r) /\ row[r].suspendedAt = 0))
      <4>1. ASSUME v # w PROVE job'[v] = job[v]
        <5>1. ASSUME job[v].for = w PROVE FALSE
          <6>1. job'[v].for = None
            BY <1>6, <4>1, <5>1
          <6>2. QED BY <6>1, <2>4, NobodyAssumption
        <5>2. QED BY <1>5, <4>1, <5>1
      <4>2. QED BY <2>4, <1>5, <4>1, NobodyAssumption
    <3> QED
      BY <3>1, <3>2, <2>1, TakesBy
  <2> QED
    BY <2>1, <2>2, <2>3, <2>4, TakesBy
<1> QED
  <2>1. {w} \in SUBSET Worker /\ \A u \in {w} : Hand(u)'
    BY DEF Hand
  <2>2. \A u \in {w} : \A q \in Run : row'[q].claim = u =>
          \/ pc'[u] = "pass" /\ job'[u].run = q
          \/ pc'[u] = "failing" /\ job'[u].target = q
    BY <1>11
  <2> QED
    BY <2>1, <2>2, <1>2, <1>7, <1>9, <1>10, <1>11, <1>12, Preserves


----------------------------------------------------------------------------
\* What each write makes of a row.

LEMMA RowOf ==
  ASSUME TypeOK, NEW r \in Run
  PROVE  /\ row[r] \in Rows /\ row[r].suspendedAt \in Nat /\ row[r].waits \subseteq Run
         /\ row[r].claim \in Worker \cup {None} /\ row[r].caller \in Run \cup {None}
         /\ row[r].status \in Statuses
         /\ row[r].claim # None => row[r].status = "claimed"
BY DEF TypeOK, Rows

LEMMA EndedRow ==
  ASSUME TypeOK, NEW r \in Run, NEW e \in {"finished", "failed"}
  PROVE  /\ EndedAs(r, e) \in Rows
         /\ EndedAs(r, e).claim = None
         /\ EndedAs(r, e).status = e
         /\ EndedAs(r, e).caller = row[r].caller
         /\ EndedAs(r, e).waits = {}
         /\ Grows(row[r], EndedAs(r, e))
<1> DEFINE x == EndedAs(r, e)
<1>1. row[r] \in Rows
  BY RowOf
<1>2. /\ x.claim = None /\ x.status = e /\ x.caller = row[r].caller /\ x.waits = {}
      /\ x \in Rows
  BY <1>1 DEF EndedAs, Rows, Statuses
<1> HIDE DEF x
<1>3. Grows(row[r], x)
  BY <1>2 DEF Grows
<1> QED
  BY <1>2, <1>3 DEF x

LEMMA PutBackRow ==
  ASSUME TypeOK, NEW r \in Run, Claimed(r)
  PROVE  /\ PutBack(r) \in Rows
         /\ PutBack(r).claim = None
         /\ PutBack(r).status = "suspended"
         /\ PutBack(r).caller = row[r].caller
         /\ PutBack(r).waits = row[r].waits
         /\ PutBack(r).suspendedAt = row[r].suspendedAt
         /\ Grows(row[r], PutBack(r))
<1> DEFINE x == PutBack(r)
<1>1. row[r] \in Rows /\ row[r].status = "claimed" /\ row[r].suspendedAt \in Nat
  BY RowOf DEF Claimed
<1>2. /\ x.claim = None /\ x.status = "suspended" /\ x.caller = row[r].caller
      /\ x.waits = row[r].waits /\ x.suspendedAt = row[r].suspendedAt /\ x \in Rows
  BY <1>1 DEF PutBack, Rows, Statuses
<1> HIDE DEF x
<1>3. Grows(row[r], x)
  BY <1>1, <1>2 DEF Grows
<1> QED
  BY <1>2, <1>3 DEF x

LEMMA ClaimedRow ==
  ASSUME TypeOK, NEW r \in Run, NEW w \in Worker, Suspended(r)
  PROVE  /\ ClaimedBy(w, r) \in Rows
         /\ ClaimedBy(w, r).claim = w
         /\ ClaimedBy(w, r).status = "claimed"
         /\ ClaimedBy(w, r).caller = row[r].caller
         /\ ClaimedBy(w, r).waits = row[r].waits
         /\ ClaimedBy(w, r).suspendedAt = row[r].suspendedAt
         /\ Grows(row[r], ClaimedBy(w, r))
<1> DEFINE x == ClaimedBy(w, r)
<1>1. row[r] \in Rows /\ row[r].status = "suspended" /\ row[r].suspendedAt \in Nat
  BY RowOf DEF Suspended
<1>2. /\ x.claim = w /\ x.status = "claimed" /\ x.caller = row[r].caller
      /\ x.waits = row[r].waits /\ x.suspendedAt = row[r].suspendedAt /\ x \in Rows
  BY <1>1 DEF ClaimedBy, Rows, Statuses
<1> HIDE DEF x
<1>3. Grows(row[r], x)
  BY <1>1, <1>2 DEF Grows
<1> QED
  BY <1>2, <1>3 DEF x

LEMMA SuspendedRow ==
  ASSUME TypeOK, NEW r \in Run, NEW waits \in SUBSET Run, NEW asks \in BOOLEAN, Claimed(r)
  PROVE  /\ SuspendedOn(r, waits, asks) \in Rows
         /\ SuspendedOn(r, waits, asks).claim = None
         /\ SuspendedOn(r, waits, asks).status = "suspended"
         /\ SuspendedOn(r, waits, asks).caller = row[r].caller
         /\ SuspendedOn(r, waits, asks).waits = waits
         /\ SuspendedOn(r, waits, asks).suspendedAt # 0
         /\ Grows(row[r], SuspendedOn(r, waits, asks))
<1> DEFINE x == SuspendedOn(r, waits, asks)
<1>1. row[r] \in Rows /\ row[r].status = "claimed" /\ row[r].suspendedAt \in Nat
  BY RowOf DEF Claimed
<1>2. /\ x.claim = None /\ x.status = "suspended" /\ x.caller = row[r].caller
      /\ x.waits = waits /\ x.suspendedAt = row[r].suspendedAt + 1 /\ x \in Rows
  <2> DEFINE n == row[r].suspendedAt + 1
  <2>1. n \in Nat
    BY <1>1
  <2>2. x = [row[r] EXCEPT !.status = "suspended", !.claim = None, !.waits = waits,
                           !.asks = asks, !.suspendedAt = n]
    BY <1>1 DEF SuspendedOn, Rows
  <2> HIDE DEF n, x
  <2>3. /\ x.claim = None /\ x.status = "suspended" /\ x.caller = row[r].caller
        /\ x.waits = waits /\ x.suspendedAt = n
    BY <1>1, <2>2 DEF Rows
  <2>4. x \in Rows
    BY <1>1, <2>1, <2>2 DEF Rows, Statuses
  <2> QED
    BY <2>3, <2>4 DEF n
<1> HIDE DEF x
<1>3. Grows(row[r], x) /\ x.suspendedAt # 0
  BY <1>1, <1>2 DEF Grows
<1> QED
  BY <1>2, <1>3 DEF x

LEMMA CreatedRow ==
  ASSUME NEW r \in Run, row[r].status = "absent", NEW w \in Worker, NEW c \in Run \cup {None}
  PROVE  /\ Created(w, c) \in Rows
         /\ Created(w, c).claim = w
         /\ Created(w, c).status = "claimed"
         /\ Created(w, c).caller = c
         /\ Created(w, c).waits = {}
         /\ Created(w, c).suspendedAt = 0
         /\ Grows(row[r], Created(w, c))
<1> DEFINE x == Created(w, c)
<1>1. /\ x.claim = w /\ x.status = "claimed" /\ x.caller = c
      /\ x.waits = {} /\ x.suspendedAt = 0 /\ x \in Rows
  BY DEF Created, AbsentRow, Rows, Statuses
<1> HIDE DEF x
<1>2. Grows(row[r], x)
  BY <1>1 DEF Grows
<1> QED
  BY <1>1, <1>2 DEF x

\* What workers have in hand.
LEMMA JobOf ==
  ASSUME TypeOK, NEW w \in Worker
  PROVE  /\ job[w] \in Jobs /\ pc[w] \in Steps
         /\ job[w].run \in Run \cup {None} /\ job[w].suspendedAt \in Nat
         /\ job[w].open \subseteq Run /\ job[w].wait \in Run \cup {None}
         /\ job[w].for \in Worker \cup {None} /\ job[w].first \in Run \cup {None}
         /\ job[w].queue \in Seq(Run \cup {None}) /\ job[w].look \subseteq Run
         /\ job[w].todo \subseteq Reads /\ job[w].walk \subseteq Run
         /\ job[w].target \in Run \cup {None} /\ job[w].mode \in Modes
         /\ job[w].doomed \in Run \cup {None}
BY DEF TypeOK, Jobs

LEMMA NoJobIsJob == NoJob \in Jobs
<1>1. <<>> \in Seq(Run \cup {None})
  OBVIOUS
<1> QED
  BY <1>1 DEF NoJob, Jobs, Modes

\* A worker with nothing but a queue.
LEMMA QueueHand ==
  ASSUME NEW w \in Worker, pc'[w] = "busy", job'[w].open = {}, job'[w].look = {},
         job'[w].todo = {}, job'[w].walk = {}, job'[w].mode = "abandon"
  PROVE  Hand(w)'
BY DEF Hand, BusyHand

\* A worker about to fail one run, that was refused or cancelled.
LEMMA FailHand ==
  ASSUME NEW w \in Worker, NEW t, pc'[w] = "busy", job'[w].open = {}, job'[w].look = {},
         job'[w].todo = {t}, job'[w].walk = {}, job'[w].mode \in {"refuse", "cancel"},
         job'[w].doomed = None, ~t.again, t.status = "suspended"
  PROVE  Hand(w)'
BY DEF Hand, BusyHand, MayFail, CanBeFailed

----------------------------------------------------------------------------
\* The steps.

\* A worker starts a run, whoever calls it.
LEMMA StartsPass ==
  ASSUME Inv, NEW v \in Worker, NEW r \in Run, NEW c \in Run \cup {None}, NEW f \in Worker \cup {None},
         pc[v] = "idle", row[r].status = "absent",
         c # None => row[c].status # "absent",
         f # None => pc[f] = "pass",
         Write(r, Created(v, c)), Goto(v, "pass"), Set(v, [NoJob EXCEPT !.run = r, !.for = f]),
         closed' = closed
  PROVE  Inv'
<1> DEFINE j == [NoJob EXCEPT !.run = r, !.for = f]
           x == Created(v, c)
<1>1. TypeOK /\ HoldsOne
  BY DEF Inv
<1>2. /\ j.run = r /\ j.for = f /\ j.first = None /\ j.open = {} /\ j.look = {} /\ j.todo = {}
      /\ j.walk = {} /\ j.doomed = None /\ j.mode = "abandon" /\ j.wait = None
      /\ j.suspendedAt = 0
  BY DEF NoJob
<1>3. j \in Jobs
  BY NoJobIsJob DEF Jobs
<1>4. /\ x \in Rows /\ x.claim = v /\ x.status = "claimed" /\ x.caller = c /\ x.waits = {}
      /\ x.suspendedAt = 0 /\ Grows(row[r], x)
  BY CreatedRow
<1>5. row'[r] = x /\ pc'[v] = "pass" /\ job'[v] = j
  BY <1>1 DEF TypeOK, Write, Goto, Set
<1>6. r # None /\ v # None
  BY NobodyAssumption
<1> HIDE DEF j, x
<1>7. Hand(v)'
  <2>1. PassHand(v)'
    BY <1>2, <1>4, <1>5, <1>6 DEF PassHand, ResultWell
  <2> QED
    BY <2>1, <1>5 DEF Hand
<1>8. \A q \in Run : row[q].claim # v
  BY <1>1, ClaimsNone
<1>9. Write(r, x) /\ Set(v, j)
  BY DEF x, j
<1>10. "pass" \in Steps
  BY DEF Steps
<1> QED
  BY <1>2, <1>3, <1>4, <1>6, <1>7, <1>8, <1>9, <1>10, MovedOne

\* A first pass that nobody waits for.
LEMMA ForNobody ==
  ASSUME NEW r \in Run
  PROVE  [NoJob EXCEPT !.run = r] = [NoJob EXCEPT !.run = r, !.for = None]
<1> DEFINE j == NoJob
<1>1. j \in Jobs /\ j.for = None
  BY NoJobIsJob DEF NoJob
<1> HIDE DEF j
<1>2. [j EXCEPT !.run = r] = [j EXCEPT !.run = r, !.for = None]
  BY <1>1 DEF Jobs
<1> QED
  BY <1>2 DEF j

LEMMA StartRunStep ==
  ASSUME Inv, NEW w \in Worker, NEW r \in Run, StartRun(w, r)
  PROVE  Inv'
<1>1. [NoJob EXCEPT !.run = r] = [NoJob EXCEPT !.run = r, !.for = None]
  BY ForNobody
<1> QED
  BY <1>1, StartsPass DEF StartRun

LEMMA CallStep ==
  ASSUME Inv, NEW w \in Worker, NEW v \in Worker, NEW c \in Run, Call(w, v, c)
  PROVE  Inv'
<1>1. job[w].run \in Run
  BY CallsAssumption DEF Call
<1>2. row[job[w].run].status # "absent"
  BY DEF Call, Exists
<1> QED
  BY <1>1, <1>2, StartsPass DEF Call

LEMMA LateCallStep ==
  ASSUME Inv, NEW v \in Worker, NEW p \in Run, NEW c \in Run, LateCall(v, p, c)
  PROVE  Inv'
<1>1. [NoJob EXCEPT !.run = c] = [NoJob EXCEPT !.run = c, !.for = None]
  BY ForNobody
<1> QED
  BY <1>1, StartsPass DEF LateCall, Exists

LEMMA ResumeRunStep ==
  ASSUME Inv, NEW w \in Worker, NEW r \in Run, ResumeRun(w, r)
  PROVE  Inv'
<1> DEFINE j == Pass(r, row[r].waits, None)
           x == ClaimedBy(w, r)
<1>1. TypeOK /\ HoldsOne /\ RowsWell
  BY DEF Inv
<1>2. row[r].waits \subseteq Run /\ row[r].suspendedAt \in Nat /\ row[r].suspendedAt # 0
  BY <1>1, RowOf DEF ResumeRun, RowsWell
<1>3. /\ j.run = r /\ j.for = None /\ j.first = None /\ j.open = row[r].waits /\ j.look = {} /\ j.todo = {}
      /\ j.walk = {} /\ j.doomed = None /\ j.mode = "abandon" /\ j.wait = None
      /\ j.suspendedAt = row[r].suspendedAt
  BY DEF Pass, NoJob
<1>4. j \in Jobs
  BY NoJobIsJob, <1>2 DEF Jobs, Pass
<1>5. /\ x \in Rows /\ x.claim = w /\ x.status = "claimed" /\ x.caller = row[r].caller
      /\ x.waits = row[r].waits /\ x.suspendedAt = row[r].suspendedAt /\ Grows(row[r], x)
  BY <1>1, ClaimedRow DEF ResumeRun
<1>6. row'[r] = x /\ pc'[w] = "pass" /\ job'[w] = j
  BY <1>1 DEF TypeOK, Write, Goto, Set, ResumeRun
<1>7. r # None /\ w # None
  BY NobodyAssumption
<1>8. Write(r, x) /\ Set(w, j) /\ Goto(w, "pass") /\ closed' = closed /\ pc[w] = "idle"
  BY DEF ResumeRun
<1> HIDE DEF j, x
<1>9. Hand(w)'
  <2>1. PassHand(w)'
    BY <1>3, <1>5, <1>6, <1>7 DEF PassHand, ResultWell
  <2> QED
    BY <2>1, <1>6 DEF Hand
<1>10. \A q \in Run : row[q].claim # w
  BY <1>1, <1>8, ClaimsNone
<1>11. "pass" \in Steps
  BY DEF Steps
<1> QED
  BY <1>3, <1>4, <1>5, <1>8, <1>9, <1>10, <1>11, MovedOne

\* What is left to a worker once its pass is over.
LEMMA AfterPassJob ==
  ASSUME TypeOK, NEW w \in Worker, NEW q \in Seq(Run \cup {None})
  PROVE  LET j == AfterPass(w, q) IN
         /\ j \in Jobs
         /\ j.for = job[w].for /\ j.first = job[w].first /\ j.open = {} /\ j.look = {}
         /\ j.todo = {} /\ j.walk = {} /\ j.mode = "abandon" /\ j.doomed = None
<1>1. job[w].for \in Worker \cup {None} /\ job[w].first \in Run \cup {None}
      /\ job[w].queue \in Seq(Run \cup {None})
  BY JobOf
<1> DEFINE n == job[w].queue \o q
<1>2. n \in Seq(Run \cup {None})
  BY <1>1
<1> DEFINE j == AfterPass(w, q)
<1>3. j = [NoJob EXCEPT !.for = job[w].for, !.first = job[w].first, !.queue = n]
  BY DEF AfterPass
<1> HIDE DEF n, j
<1>4. j \in Jobs
  BY <1>1, <1>2, <1>3, NoJobIsJob DEF Jobs
<1>5. /\ j.for = job[w].for /\ j.first = job[w].first /\ j.open = {} /\ j.look = {}
      /\ j.todo = {} /\ j.walk = {} /\ j.mode = "abandon" /\ j.doomed = None
  BY <1>3 DEF NoJob
<1> QED
  BY <1>4, <1>5 DEF j

LEMMA FollowUpsAreRuns ==
  ASSUME TypeOK, NEW r \in Run
  PROVE  /\ ParentOf(r) \in Run \cup {None}
         /\ EndedFollowUps(r) \in Seq(Run \cup {None})
         /\ SuspendedFollowUps(r) \in Seq(Run \cup {None})
         /\ <<ParentOf(r)>> \in Seq(Run \cup {None})
         /\ <<>> \in Seq(Run \cup {None})
<1>1. ParentOf(r) \in Run \cup {None}
  BY RowOf DEF ParentOf
<1> QED
  BY <1>1 DEF EndedFollowUps, SuspendedFollowUps

\* A worker in a pass has the run of the pass.
LEMMA InPass ==
  ASSUME Inv, NEW w \in Worker, pc[w] = "pass"
  PROVE  PassHand(w) /\ job[w].run \in Run /\ TypeOK /\ RowsWell
<1>1. PassHand(w) /\ TypeOK /\ RowsWell
  BY DEF Inv, Hand
<1> QED
  BY <1>1, JobOf DEF PassHand

\* The outcome of a pass that ended its run is written.
LEMMA PassEnds ==
  ASSUME Inv, NEW w \in Worker, NEW r \in Run, r = job[w].run,
         NEW e \in {"finished", "failed"}, NEW q \in Seq(Run \cup {None}),
         pc[w] = "pass", row[r].claim = w, Goto(w, "busy"), closed' = closed,
         Write(r, EndedAs(r, e)), PassOver(w, AfterPass(w, q))
  PROVE  Inv'
<1> DEFINE j == AfterPass(w, q)
           x == EndedAs(r, e)
<1>1. TypeOK
  BY InPass
<1>2. /\ x \in Rows /\ x.claim = None /\ x.status = e /\ x.caller = row[r].caller
      /\ x.waits = {} /\ Grows(row[r], x)
  BY <1>1, EndedRow
<1>3. /\ j \in Jobs /\ j.for = job[w].for /\ j.first = job[w].first /\ j.open = {} /\ j.look = {}
      /\ j.todo = {} /\ j.walk = {} /\ j.mode = "abandon" /\ j.doomed = None
  BY <1>1, AfterPassJob
<1>4. Write(r, x) /\ PassOver(w, j)
  OBVIOUS
<1> HIDE DEF j, x
<1>5. pc'[w] = "busy" /\ job'[w] = j
  BY <1>1, <1>4 DEF TypeOK, Goto, PassOver
<1>6. Hand(w)'
  BY <1>3, <1>5, QueueHand
<1> QED
  BY <1>2, <1>3, <1>4, <1>6, Passed

\* A pass ends on waits; first: the runs its caller may be told of.
LEMMA PassSuspends ==
  ASSUME Inv, NEW w \in Worker, NEW r \in Run, r = job[w].run,
         NEW waits \in SUBSET job[w].open, NEW asks \in BOOLEAN, NEW j \in Jobs,
         pc[w] = "pass", row[r].claim = w, Goto(w, "busy"), closed' = closed,
         Write(r, SuspendedOn(r, waits, asks)), PassOver(w, j),
         /\ j.for = job[w].for /\ j.open = {} /\ j.look = {}
         /\ j.todo = {} /\ j.walk = {} /\ j.mode = "abandon" /\ j.doomed = None,
         j.first = job[w].first \/ (j.first = r /\ job[w].suspendedAt = 0)
  PROVE  Inv'
<1> DEFINE x == SuspendedOn(r, waits, asks)
<1>1. TypeOK /\ PassHand(w)
  BY InPass
<1>2. Claimed(r) /\ waits \in SUBSET Run
  BY <1>1, RowOf, JobOf, NobodyAssumption DEF Claimed
<1>3. /\ x \in Rows /\ x.claim = None /\ x.status = "suspended" /\ x.caller = row[r].caller
      /\ x.waits = waits /\ x.suspendedAt # 0 /\ Grows(row[r], x)
  BY <1>1, <1>2, SuspendedRow
<1>4. Write(r, x)
  OBVIOUS
<1> HIDE DEF x
<1>5. pc'[w] = "busy" /\ job'[w] = j
  BY <1>1 DEF TypeOK, Goto, PassOver
<1>6. Hand(w)'
  BY <1>5, QueueHand
<1>7. j.first = job[w].first \/ (j.first = r /\ Active(r) /\ row[r].suspendedAt = 0)
  BY <1>1, <1>2 DEF PassHand, Active
<1>8. x.waits \subseteq job[w].open
  BY <1>3
<1> QED
  BY <1>3, <1>4, <1>6, <1>7, <1>8, Passed

LEMMA EndPassStep ==
  ASSUME Inv, NEW w \in Worker, EndPass(w)
  PROVE  Inv'
<1> DEFINE r == job[w].run
<1>1. /\ pc[w] = "pass" /\ row[r].claim = w /\ Goto(w, "busy") /\ closed' = closed
      /\ r \in Run /\ TypeOK
  BY InPass DEF EndPass
<1>2. ASSUME NEW e \in {"finished", "failed"}, Write(r, EndedAs(r, e)),
             PassOver(w, AfterPass(w, EndedFollowUps(r)))
      PROVE  Inv'
  BY <1>1, <1>2, FollowUpsAreRuns, PassEnds
<1>3. ASSUME NEW waits \in SUBSET job[w].open, NEW asks \in BOOLEAN,
             Write(r, SuspendedOn(r, waits, asks)),
             PassOver(w, [AfterPass(w, SuspendedFollowUps(r))
                            EXCEPT !.first = IF job[w].for # None /\ job[w].suspendedAt = 0
                                             THEN r ELSE @])
      PROVE  Inv'
  <2> DEFINE i == AfterPass(w, SuspendedFollowUps(r))
             f == IF job[w].for # None /\ job[w].suspendedAt = 0 THEN r ELSE i.first
             j == [i EXCEPT !.first = f]
  <2>1. /\ i \in Jobs /\ i.for = job[w].for /\ i.first = job[w].first /\ i.open = {} /\ i.look = {}
        /\ i.todo = {} /\ i.walk = {} /\ i.mode = "abandon" /\ i.doomed = None
    BY <1>1, FollowUpsAreRuns, AfterPassJob
  <2>2. PassOver(w, j)
    BY <1>3
  <2>3. f \in Run \cup {None} /\ (f = job[w].first \/ (f = r /\ job[w].suspendedAt = 0))
    BY <1>1, <2>1, JobOf
  <2> HIDE DEF i, f
  <2>4. /\ j \in Jobs
        /\ j.for = job[w].for /\ j.open = {} /\ j.look = {} /\ j.first = f
        /\ j.todo = {} /\ j.walk = {} /\ j.mode = "abandon" /\ j.doomed = None
    BY <2>1, <2>3 DEF Jobs
  <2> HIDE DEF j
  <2> QED
    BY <1>1, <1>3, <2>2, <2>3, <2>4, PassSuspends
<1> QED
  BY <1>2, <1>3 DEF EndPass

LEMMA OutcomeNotReadBackStep ==
  ASSUME Inv, NEW w \in Worker, OutcomeNotReadBack(w)
  PROVE  Inv'
<1> DEFINE r == job[w].run
           j == AfterPass(w, <<>>)
<1>1. /\ pc[w] = "pass" /\ row[r].claim = w /\ Goto(w, "busy") /\ closed' = closed
      /\ r \in Run /\ TypeOK /\ PassOver(w, j)
  BY InPass DEF OutcomeNotReadBack
<1>2. ASSUME NEW e \in {"finished", "failed"}, Write(r, EndedAs(r, e))
      PROVE  Inv'
  BY <1>1, <1>2, FollowUpsAreRuns, PassEnds
<1>3. ASSUME NEW waits \in SUBSET job[w].open, NEW asks \in BOOLEAN,
             Write(r, SuspendedOn(r, waits, asks))
      PROVE  Inv'
  <2>1. /\ j \in Jobs /\ j.for = job[w].for /\ j.first = job[w].first /\ j.open = {} /\ j.look = {}
        /\ j.todo = {} /\ j.walk = {} /\ j.mode = "abandon" /\ j.doomed = None
    BY <1>1, FollowUpsAreRuns, AfterPassJob
  <2> HIDE DEF j
  <2> QED
    BY <1>1, <1>3, <2>1, PassSuspends
<1> QED
  BY <1>2, <1>3 DEF OutcomeNotReadBack

LEMMA LosePassStep ==
  ASSUME Inv, NEW w \in Worker, LosePass(w)
  PROVE  Inv'
<1> DEFINE r == job[w].run
           j == AfterPass(w, <<>>)
           x == row[r]
<1>1. /\ pc[w] = "pass" /\ row[r].claim # w /\ Goto(w, "busy") /\ closed' = closed /\ row' = row
      /\ r \in Run /\ TypeOK /\ RowsWell /\ PassOver(w, j)
  BY InPass DEF LosePass
<1>2. /\ j \in Jobs /\ j.for = job[w].for /\ j.first = job[w].first /\ j.open = {} /\ j.look = {}
      /\ j.todo = {} /\ j.walk = {} /\ j.mode = "abandon" /\ j.doomed = None
  BY <1>1, FollowUpsAreRuns, AfterPassJob
<1>3. x \in Rows /\ (x.claim # None => x.status = "claimed")
  BY <1>1, RowOf
<1>4. Write(r, x)
  BY <1>1 DEF Write, TypeOK
<1>5. Grows(row[r], x)
  <2>1. x.suspendedAt \in Nat
    BY <1>3 DEF Rows
  <2> QED
    BY <2>1 DEF Grows
<1>6. x.status = "suspended" => x.suspendedAt # 0
  BY <1>1 DEF RowsWell, Suspended
<1> HIDE DEF j
<1>7. pc'[w] = "busy" /\ job'[w] = j
  BY <1>1 DEF TypeOK, Goto, PassOver
<1>8. Hand(w)'
  BY <1>2, <1>7, QueueHand
<1> QED
  BY <1>1, <1>2, <1>3, <1>4, <1>5, <1>6, <1>8, Passed

LEMMA RefuseResumeStep ==
  ASSUME Inv, NEW w \in Worker, RefuseResume(w)
  PROVE  Inv'
<1> DEFINE r == job[w].run
           x == PutBack(r)
           j == IF job[w].wait = None
                  THEN AfterPass(w, SuspendedFollowUps(r))
                  ELSE [AfterPass(w, <<>>) EXCEPT
                          !.mode = "refuse",
                          !.todo = {[run |-> r, status |-> "suspended", again |-> FALSE,
                                     suspendedAt |-> job[w].suspendedAt]}]
<1>1. /\ pc[w] = "pass" /\ row[r].claim = w /\ Goto(w, "busy") /\ closed' = closed
      /\ r \in Run /\ TypeOK /\ Write(r, x) /\ row[r].suspendedAt # 0
  BY InPass DEF RefuseResume
<1>2. Claimed(r) /\ job[w].suspendedAt \in Nat
  BY <1>1, RowOf, JobOf, NobodyAssumption DEF Claimed
<1>3. /\ x \in Rows /\ x.claim = None /\ x.status = "suspended" /\ x.caller = row[r].caller
      /\ x.waits = row[r].waits /\ x.suspendedAt = row[r].suspendedAt /\ Grows(row[r], x)
  BY <1>1, <1>2, PutBackRow
<1>4. PassOver(w, j)
  BY DEF RefuseResume
<1> HIDE DEF x
<1>5. pc'[w] = "busy" /\ job'[w] = j
  BY <1>1, <1>4 DEF TypeOK, Goto, PassOver
<1>6. CASE job[w].wait = None
  <2>1. j = AfterPass(w, SuspendedFollowUps(r))
    BY <1>6
  <2> HIDE DEF j
  <2>2. /\ j \in Jobs /\ j.for = job[w].for /\ j.first = job[w].first /\ j.open = {} /\ j.look = {}
        /\ j.todo = {} /\ j.walk = {} /\ j.mode = "abandon" /\ j.doomed = None
    BY <1>1, <2>1, FollowUpsAreRuns, AfterPassJob
  <2>3. Hand(w)'
    BY <1>5, <2>2, QueueHand
  <2> QED
    BY <1>1, <1>3, <1>4, <2>2, <2>3, Passed
<1>7. CASE job[w].wait # None
  <2> DEFINE i == AfterPass(w, <<>>)
             t == [run |-> r, status |-> "suspended", again |-> FALSE,
                   suspendedAt |-> job[w].suspendedAt]
  <2>1. j = [i EXCEPT !.mode = "refuse", !.todo = {t}]
    BY <1>7
  <2>2. /\ i \in Jobs /\ i.for = job[w].for /\ i.first = job[w].first /\ i.open = {} /\ i.look = {}
        /\ i.walk = {} /\ i.doomed = None
    BY <1>1, FollowUpsAreRuns, AfterPassJob
  <2>3. t \in Reads /\ ~t.again /\ t.status = "suspended"
    BY <1>1, <1>2 DEF Reads, Statuses
  <2> HIDE DEF i, t, j
  <2>4. /\ j \in Jobs /\ j.for = job[w].for /\ j.first = job[w].first /\ j.open = {} /\ j.look = {}
        /\ j.todo = {t} /\ j.walk = {} /\ j.mode = "refuse" /\ j.doomed = None
    BY ZenonT(60), <2>1, <2>2, <2>3 DEF Jobs, Modes
  <2>5. Hand(w)'
    BY <1>5, <2>3, <2>4, FailHand
  <2> QED
    BY <1>1, <1>3, <1>4, <2>4, <2>5, Passed
<1> QED
  BY <1>6, <1>7

\* A busy worker goes on with what it has in hand.
LEMMA BusyStays ==
  ASSUME TypeOK, TypeOK', RowsWell, RowsGrow, NoNewTakes, NEW w \in Worker,
         BusyHand(w), pc[w] = "busy" \/ pc[w] = "failing",
         pc'[w] = "busy" \/ pc'[w] = "failing",
         job'[w].open = {}, job'[w].run = job[w].run, job'[w].suspendedAt = job[w].suspendedAt,
         job'[w].look \subseteq job[w].look, job'[w].doomed = job[w].doomed,
         \A q \in job'[w].walk : q \in job[w].walk \/ Gone(q)',
         job'[w].mode = job[w].mode \/ job'[w].todo = {},
         job'[w].mode \in {"refuse", "cancel", "close"} => job'[w].walk = {},
         job'[w].mode \in {"refuse", "cancel"} =>
           /\ \A s, t \in job'[w].todo : s = t
           /\ pc'[w] = "failing" => job'[w].todo = {},
         job'[w].mode \in {job[w].mode, "abandon"},
         job'[w].mode # "close" => \A s \in job'[w].todo : s \in job[w].todo \/ MayFail(w, s)',
         pc'[w] = "failing" => job'[w].target # None,
         (pc[w] = "failing" /\ job[w].mode = "abandon" => CanBeFailed(w, job[w].target))'
  PROVE  Hand(w)'
<1>1. job[w].todo \subseteq Reads /\ job[w].walk \subseteq Run
  BY JobOf
<1>2. job'[w].look # {} => ReadWell(w)' /\ job'[w].doomed = None /\ job'[w].mode = "abandon"
  <2> SUFFICES ASSUME job'[w].look # {}
               PROVE  ReadWell(w)' /\ job'[w].doomed = None /\ job'[w].mode = "abandon"
    OBVIOUS
  <2>1. ReadWell(w) /\ job[w].doomed = None /\ job[w].mode = "abandon"
    BY DEF BusyHand
  <2>2. pc'[w] # "deliver"
    OBVIOUS
  <2>3. ReadWell(w)'
    BY <2>1, <2>2, ReadWellStays
  <2> QED
    BY <2>1, <2>3
<1>3. \A q \in job'[w].walk : Gone(q)'
  BY <1>1, GoneStays DEF BusyHand
<1>4. ASSUME job'[w].mode # "close", NEW s \in job'[w].todo
      PROVE  MayFail(w, s)'
  <2>1. CASE s \in job[w].todo
    <3>1. s.run \in Run
      BY <2>1, <1>1 DEF Reads
    <3>2. job'[w].mode = job[w].mode
      OBVIOUS
    <3>3. MayFail(w, s)
      BY <2>1, <3>2, <1>4 DEF BusyHand
    <3>4. CanBeFailed(w, s.run) => CanBeFailed(w, s.run)'
      BY <3>1, CanStillBeFailed
    <3> QED
      BY <3>2, <3>3, <3>4 DEF MayFail
  <2>2. CASE s \notin job[w].todo
    BY <2>2, <1>4
  <2> QED
    BY <2>1, <2>2
<1>5. job'[w].doomed # None => job'[w].mode = "abandon"
  BY DEF BusyHand
<1>6. BusyHand(w)'
  BY <1>2, <1>3, <1>4, <1>5 DEF BusyHand
<1> QED
  BY <1>6 DEF Hand

\* What a worker that is busy may rely on.
LEMMA Busy ==
  ASSUME Inv, NEW w \in Worker, pc[w] = "busy" \/ pc[w] = "failing"
  PROVE  /\ BusyHand(w) /\ TypeOK /\ RowsWell
         /\ pc[w] = "busy" => \A q \in Run : row[q].claim # w
         /\ pc[w] = "failing" => \A q \in Run : row[q].claim = w => q = job[w].target
         /\ job[w].for # None => pc[job[w].for] = "pass"
<1>1. BusyHand(w) /\ TypeOK /\ RowsWell /\ HoldsOne /\ CalledFrom
  BY DEF Inv, Hand
<1> QED
  BY <1>1 DEF HoldsOne, CalledFrom

\* A run that changed since it was read is not failed.
LEMMA MissedStep ==
  ASSUME Inv, NEW w \in Worker, pc[w] = "busy", NEW s \in job[w].todo, Missed(w, s), closed' = closed
  PROVE  Inv'
<1> DEFINE read == IF s.again /\ Active(s.run) THEN {Read(s.run, FALSE)} ELSE {}
           n == (job[w].todo \ {s}) \cup read
           j == [job[w] EXCEPT !.todo = n]
<1>1. BusyHand(w) /\ TypeOK /\ RowsWell /\ \A q \in Run : row[q].claim # w
  BY Busy
<1>2. job[w] \in Jobs /\ job[w].todo \subseteq Reads
  BY <1>1, JobOf
<1>3. n \subseteq Reads
  <2>1. s.run \in Run
    BY <1>2 DEF Reads
  <2>2. Read(s.run, FALSE) \in Reads
    BY <2>1, <1>1, RowOf DEF Read, Reads
  <2> QED
    BY <1>2, <2>2
<1>4. job[w].mode # "close" => n \subseteq job[w].todo
  BY <1>1 DEF BusyHand, MayFail, CanBeFailed
<1>5. Goto(w, "busy") /\ Set(w, j) /\ row' = row
  BY DEF Missed
<1> HIDE DEF n
<1>6. /\ j \in Jobs /\ j.open = job[w].open /\ j.run = job[w].run /\ j.suspendedAt = job[w].suspendedAt
      /\ j.look = job[w].look /\ j.doomed = job[w].doomed /\ j.walk = job[w].walk
      /\ j.mode = job[w].mode /\ j.todo = n /\ j.for = job[w].for /\ j.first = job[w].first
  BY <1>2, <1>3 DEF Jobs
<1> HIDE DEF j
<1>7. pc'[w] = "busy" /\ job'[w] = j
  BY <1>1, <1>5 DEF TypeOK, Goto, Set
<1>8. closed' \in BOOLEAN /\ "busy" \in Steps
  BY <1>1 DEF TypeOK, Steps
<1>9. j.open = {}
  BY <1>1, <1>6 DEF BusyHand
<1>10. TypeOK' /\ RowsGrow /\ NoNewTakes /\ (Hand(w)' => Inv')
  BY <1>1, <1>5, <1>6, <1>8, <1>9, Stayed
<1>11. /\ job[w].mode \in {"refuse", "cancel", "close"} => job[w].walk = {}
       /\ job[w].mode \in {"refuse", "cancel"} => \A x, y \in n : x = y
  BY <1>1, <1>4 DEF BusyHand
<1>12. Hand(w)'
  BY <1>1, <1>4, <1>6, <1>7, <1>9, <1>10, <1>11, BusyStays
<1> QED
  BY <1>10, <1>12

LEMMA ClaimToFailStep ==
  ASSUME Inv, NEW w \in Worker, NEW s \in job[w].todo, ClaimToFail(w, s)
  PROVE  Inv'
<1>1. CASE ~StillOn(s.run, s.suspendedAt)
  BY <1>1, MissedStep DEF ClaimToFail
<1>2. CASE StillOn(s.run, s.suspendedAt)
  <2> DEFINE r == s.run
             n == job[w].todo \ {s}
             j == [job[w] EXCEPT !.todo = n, !.target = r]
             x == ClaimedBy(w, r)
  <2>1. /\ pc[w] = "busy" /\ BusyHand(w) /\ TypeOK /\ RowsWell
        /\ \A q \in Run : row[q].claim # w
        /\ job[w].for # None => pc[job[w].for] = "pass"
    BY Busy DEF ClaimToFail
  <2>2. job[w] \in Jobs /\ n \subseteq Reads /\ r \in Run
    BY <2>1, JobOf DEF Reads
  <2>3. /\ x \in Rows /\ x.claim = w /\ x.status = "claimed" /\ x.caller = row[r].caller
        /\ x.waits = row[r].waits /\ x.suspendedAt = row[r].suspendedAt /\ Grows(row[r], x)
    BY <2>1, <2>2, <1>2, ClaimedRow DEF StillOn
  <2>4. Write(r, x) /\ Goto(w, "failing") /\ Set(w, j) /\ closed' = closed
    BY <1>2 DEF ClaimToFail
  <2>5. n \subseteq job[w].todo /\ s \in job[w].todo /\ s \notin n
    OBVIOUS
  <2> HIDE DEF n, r, x
  <2>6. /\ j \in Jobs /\ j.open = job[w].open /\ j.run = job[w].run /\ j.suspendedAt = job[w].suspendedAt
        /\ j.look = job[w].look /\ j.doomed = job[w].doomed /\ j.walk = job[w].walk
        /\ j.mode = job[w].mode /\ j.todo = n /\ j.target = r
        /\ j.for = job[w].for /\ j.first = job[w].first
    BY <2>2 DEF Jobs
  <2> HIDE DEF j
  <2>7. pc'[w] = "failing" /\ job'[w] = j
    BY <2>1, <2>4 DEF TypeOK, Goto, Set
  <2>8. j.open = {} /\ "failing" \in Steps /\ r # None
    BY <2>1, <2>2, <2>6, NobodyAssumption DEF BusyHand, Steps
  <2>9. TypeOK' /\ RowsGrow /\ NoNewTakes /\ (Hand(w)' => Inv')
    BY <2>1, <2>2, <2>3, <2>4, <2>6, <2>8, MovedOne
  <2>10. /\ job[w].mode \in {"refuse", "cancel", "close"} => job[w].walk = {}
         /\ job[w].mode \in {"refuse", "cancel"} => n = {}
    BY <2>1, <2>5 DEF BusyHand
  <2>11. ASSUME job[w].mode = "abandon" PROVE CanBeFailed(w, job[w].target)'
    <3>1. CanBeFailed(w, r)
      BY <2>1, <2>11 DEF BusyHand, MayFail, r
    <3>2. CanBeFailed(w, r)'
      BY <2>1, <2>2, <2>6, <2>7, <2>9, <3>1, CanStillBeFailed
    <3> QED
      BY <3>2, <2>6, <2>7
  <2>12. (pc[w] = "failing" /\ job[w].mode = "abandon" => CanBeFailed(w, job[w].target))'
    BY <2>6, <2>7, <2>11
  <2>13. Hand(w)'
    BY <2>1, <2>5, <2>6, <2>7, <2>8, <2>9, <2>10, <2>12, BusyStays
  <2> QED
    BY <2>9, <2>13
<1> QED
  BY <1>1, <1>2

LEMMA TakeOverStep ==
  ASSUME Inv, NEW w \in Worker, NEW s \in job[w].todo, TakeOver(w, s)
  PROVE  Inv'
<1>1. CASE ~Claimed(s.run)
  BY <1>1, MissedStep DEF TakeOver
<1>2. CASE Claimed(s.run)
  <2> DEFINE r == s.run
             n == job[w].todo \ {s}
             j == [job[w] EXCEPT !.todo = n]
             x == EndedAs(r, "failed")
  <2>1. /\ pc[w] = "busy" /\ BusyHand(w) /\ TypeOK /\ RowsWell
        /\ \A q \in Run : row[q].claim # w
        /\ job[w].for # None => pc[job[w].for] = "pass"
    BY Busy DEF TakeOver
  <2>2. job[w] \in Jobs /\ n \subseteq Reads /\ r \in Run
    BY <2>1, JobOf DEF Reads
  <2>3. /\ x \in Rows /\ x.claim = None /\ x.status = "failed" /\ x.caller = row[r].caller
        /\ x.waits = {} /\ Grows(row[r], x)
    BY <2>1, <2>2, EndedRow
  <2>4. Write(r, x) /\ Goto(w, "busy") /\ Set(w, j) /\ closed' = closed
    BY <1>2 DEF TakeOver
  <2>5. n \subseteq job[w].todo
    OBVIOUS
  <2> HIDE DEF n, r, x
  <2>6. /\ j \in Jobs /\ j.open = job[w].open /\ j.run = job[w].run /\ j.suspendedAt = job[w].suspendedAt
        /\ j.look = job[w].look /\ j.doomed = job[w].doomed /\ j.walk = job[w].walk
        /\ j.mode = job[w].mode /\ j.todo = n
        /\ j.for = job[w].for /\ j.first = job[w].first
    BY <2>2 DEF Jobs
  <2> HIDE DEF j
  <2>7. pc'[w] = "busy" /\ job'[w] = j
    BY <2>1, <2>4 DEF TypeOK, Goto, Set
  <2>8. j.open = {} /\ "busy" \in Steps
    BY <2>1, <2>2, <2>6 DEF BusyHand, Steps
  <2>9. TypeOK' /\ RowsGrow /\ NoNewTakes /\ (Hand(w)' => Inv')
    BY <2>1, <2>2, <2>3, <2>4, <2>6, <2>8, MovedOne
  <2>10. /\ job[w].mode \in {"refuse", "cancel", "close"} => job[w].walk = {}
         /\ job[w].mode \in {"refuse", "cancel"} => \A a, b \in n : a = b
    BY <2>1, <2>5 DEF BusyHand
  <2>11. Hand(w)'
    BY <2>1, <2>5, <2>6, <2>7, <2>8, <2>9, <2>10, BusyStays
  <2> QED
    BY <2>9, <2>11
<1> QED
  BY <1>1, <1>2

\* What follows a run that was failed.
LEMMA AfterFailingJob ==
  ASSUME TypeOK, NEW j \in Jobs, NEW r \in Run
  PROVE  LET k == AfterFailing(j, r) IN
         /\ k \in Jobs
         /\ k.open = j.open /\ k.run = j.run /\ k.suspendedAt = j.suspendedAt
         /\ k.look = j.look /\ k.doomed = j.doomed /\ k.todo = j.todo
         /\ k.for = j.for /\ k.first = j.first
         /\ k.mode = IF j.mode = "close" THEN "close" ELSE "abandon"
         /\ k.walk \subseteq j.walk \cup {r}
         /\ j.mode = "close" => k.walk = j.walk
<1> DEFINE q == j.queue \o EndedFollowUps(r)
           walk == j.walk \cup {r}
           k == AfterFailing(j, r)
<1>1. j.queue \in Seq(Run \cup {None}) /\ j.walk \subseteq Run /\ j.mode \in Modes
  BY DEF Jobs
<1>2. q \in Seq(Run \cup {None}) /\ walk \subseteq Run
  BY <1>1, FollowUpsAreRuns
<1>3. walk \subseteq j.walk \cup {r}
  OBVIOUS
<1>4. CASE j.mode = "close"
  <2>1. k = j
    BY <1>4 DEF AfterFailing
  <2> QED
    BY <2>1, <1>4
<1>5. CASE j.mode = "abandon"
  <2>1. k = [j EXCEPT !.walk = walk]
    BY <1>5 DEF AfterFailing
  <2> HIDE DEF k, walk, q
  <2> QED
    BY ZenonT(60), <2>1, <1>2, <1>3, <1>5 DEF Jobs, k
<1>6. CASE j.mode = "refuse"
  <2>1. k = [j EXCEPT !.queue = q, !.mode = "abandon"]
    BY <1>6 DEF AfterFailing
  <2> HIDE DEF k, walk, q
  <2> QED
    BY ZenonT(60), <2>1, <1>2, <1>3, <1>6 DEF Jobs, Modes, k
<1>7. CASE j.mode = "cancel"
  <2>1. k = [j EXCEPT !.queue = q, !.walk = walk, !.mode = "abandon"]
    BY <1>7 DEF AfterFailing
  <2> HIDE DEF k, walk, q
  <2> QED
    BY ZenonT(60), <2>1, <1>2, <1>3, <1>7 DEF Jobs, Modes, k
<1> QED
  BY <1>1, <1>4, <1>5, <1>6, <1>7 DEF Modes

LEMMA SettleFailedStep ==
  ASSUME Inv, NEW w \in Worker, SettleFailed(w)
  PROVE  Inv'
<1> DEFINE j == [job[w] EXCEPT !.target = None]
<1>1. /\ pc[w] = "failing" /\ BusyHand(w) /\ TypeOK /\ RowsWell
      /\ \A q \in Run : row[q].claim = w => q = job[w].target
      /\ job[w].for # None => pc[job[w].for] = "pass"
  BY Busy DEF SettleFailed
<1>2. PICK r \in Run : r = job[w].target
  BY <1>1, JobOf DEF BusyHand
<1> DEFINE k == AfterFailing(j, r)
<1>0. job[w] \in Jobs
  BY <1>1, JobOf
<1>3. /\ j \in Jobs /\ j.open = job[w].open /\ j.run = job[w].run /\ j.suspendedAt = job[w].suspendedAt
      /\ j.look = job[w].look /\ j.doomed = job[w].doomed /\ j.walk = job[w].walk
      /\ j.mode = job[w].mode /\ j.todo = job[w].todo
      /\ j.for = job[w].for /\ j.first = job[w].first
  BY <1>0 DEF Jobs
<1>4. Goto(w, "busy") /\ closed' = closed /\ closed' \in BOOLEAN /\ "busy" \in Steps
  BY <1>1 DEF SettleFailed, TypeOK, Steps
<1>5. job[w].open = {}
  BY <1>1 DEF BusyHand
<1>6. CASE row[r].claim # w
  <2>1. Set(w, j) /\ row' = row
    BY <1>2, <1>6 DEF SettleFailed
  <2>2. pc'[w] = "busy" /\ job'[w] = j
    BY <1>1, <1>4, <2>1 DEF TypeOK, Goto, Set
  <2> HIDE DEF j
  <2>3. \A q \in Run : row[q].claim # w
    BY <1>1, <1>2, <1>6
  <2>4. TypeOK' /\ RowsGrow /\ NoNewTakes /\ (Hand(w)' => Inv')
    BY <1>1, <1>3, <1>4, <1>5, <2>1, <2>3, Stayed
  <2>5. /\ job[w].mode \in {"refuse", "cancel", "close"} => job[w].walk = {}
        /\ job[w].mode \in {"refuse", "cancel"} => job[w].todo = {}
    BY <1>1 DEF BusyHand
  <2>6. Hand(w)'
    BY <1>1, <1>3, <1>5, <2>2, <2>4, <2>5, BusyStays
  <2> QED
    BY <2>4, <2>6
<1>7. CASE row[r].claim = w
  <2> DEFINE x == EndedAs(r, "failed")
  <2>1. Set(w, k) /\ Write(r, x)
    BY <1>2, <1>7 DEF SettleFailed
  <2>2. /\ x \in Rows /\ x.claim = None /\ x.status = "failed" /\ x.caller = row[r].caller
        /\ x.waits = {} /\ Grows(row[r], x)
    BY <1>1, <1>2, EndedRow
  <2>3. /\ k \in Jobs
        /\ k.open = j.open /\ k.run = j.run /\ k.suspendedAt = j.suspendedAt
        /\ k.look = j.look /\ k.doomed = j.doomed /\ k.todo = j.todo
        /\ k.for = j.for /\ k.first = j.first
        /\ k.mode = IF j.mode = "close" THEN "close" ELSE "abandon"
        /\ k.walk \subseteq j.walk \cup {r}
        /\ j.mode = "close" => k.walk = j.walk
    BY ZenonT(60), <1>1, <1>2, <1>3, AfterFailingJob
  <2>4. pc'[w] = "busy" /\ job'[w] = k /\ row'[r] = x
    BY <1>1, <1>2, <1>4, <2>1 DEF TypeOK, Goto, Set, Write
  <2> HIDE DEF j, k, x
  <2>5. TypeOK' /\ RowsGrow /\ NoNewTakes /\ (Hand(w)' => Inv')
    BY <1>1, <1>2, <1>3, <1>4, <1>5, <2>1, <2>2, <2>3, MovedOne
  <2>6. Gone(r)'
    BY <2>2, <2>4 DEF Gone, Active, Claimed, Suspended
  <2>7. /\ job[w].mode = "close" => job[w].walk = {}
        /\ job[w].mode \in {"refuse", "cancel"} => job[w].todo = {}
        /\ job[w].mode \in Modes
    BY <1>1, JobOf DEF BusyHand
  <2>8. k.mode = job[w].mode \/ k.todo = {}
    BY <1>3, <2>3, <2>7 DEF Modes
  <2>9. Hand(w)'
    BY <1>1, <1>3, <1>5, <2>3, <2>4, <2>5, <2>6, <2>7, <2>8, BusyStays
  <2> QED
    BY <2>5, <2>9
<1> QED
  BY <1>6, <1>7

\* The suspended children of a run, as they are listed.
LEMMA ChildrenListed ==
  ASSUME TypeOK, RowsWell, NEW r \in Run
  PROVE  /\ SuspendedChildren(r) \subseteq Reads
         /\ \A s \in SuspendedChildren(r) : Child(s, r) /\ Suspended(s.run)
<1> SUFFICES ASSUME NEW c \in ChildrenOf(r), Suspended(c)
             PROVE  Read(c, FALSE) \in Reads /\ Child(Read(c, FALSE), r) /\ Suspended(Read(c, FALSE).run)
  BY DEF SuspendedChildren
<1>1. c \in Run /\ row[c].caller = r
  BY DEF ChildrenOf
<1>2. row[c].status = "suspended" /\ row[c].suspendedAt \in Nat /\ row[c].suspendedAt # 0
  BY <1>1, RowOf DEF RowsWell, Suspended
<1> DEFINE t == Read(c, FALSE)
<1>3. t \in Reads /\ t.run = c /\ t.status = "suspended" /\ ~t.again
  BY <1>1, <1>2 DEF Read, Reads, Statuses
<1> HIDE DEF t
<1>4. Child(t, r) /\ Suspended(t.run)
  BY <1>1, <1>2, <1>3 DEF Child, Suspended
<1> QED
  BY <1>3, <1>4 DEF t

\* Nothing waits on a child of a run that ended.
LEMMA ChildOfGone ==
  ASSUME NEW s, NEW r \in Run, Child(s, r), Gone(r)
  PROVE  Unwanted(s.run)
<1>1. row[s.run].caller = r /\ r # None /\ ~Active(r)
  BY NobodyAssumption DEF Child, Gone
<1> QED
  BY <1>1 DEF Child, Unwanted

LEMMA ListDescendantsStep ==
  ASSUME Inv, NEW w \in Worker, NEW r \in job[w].walk, ListDescendants(w, r)
  PROVE  Inv'
<1> DEFINE n == job[w].todo \cup SuspendedChildren(r)
           m == job[w].walk \ {r}
           j == [job[w] EXCEPT !.walk = m, !.todo = n]
<1>1. /\ pc[w] = "busy" /\ BusyHand(w) /\ TypeOK /\ RowsWell
      /\ \A q \in Run : row[q].claim # w
  BY Busy DEF ListDescendants
<1>2. job[w] \in Jobs /\ job[w].todo \subseteq Reads /\ job[w].walk \subseteq Run /\ job[w].mode \in Modes
  BY <1>1, JobOf
<1>3. r \in Run /\ Gone(r)
  BY <1>1, <1>2 DEF BusyHand
<1>4. /\ SuspendedChildren(r) \subseteq Reads
      /\ \A s \in SuspendedChildren(r) : Child(s, r) /\ Unwanted(s.run)
  BY <1>1, <1>3, ChildrenListed, ChildOfGone
<1>5. job[w].mode = "abandon"
  BY <1>1, <1>2 DEF BusyHand, Modes
<1>6. /\ Goto(w, "busy") /\ Set(w, j) /\ row' = row /\ closed' = closed
      /\ closed' \in BOOLEAN /\ "busy" \in Steps
  BY <1>1 DEF ListDescendants, TypeOK, Steps
<1>7. n \subseteq Reads /\ m \subseteq job[w].walk /\ n = job[w].todo \cup SuspendedChildren(r) /\ m \subseteq Run
  BY <1>2, <1>4
<1> HIDE DEF n, m
<1>8. /\ j \in Jobs /\ j.open = job[w].open /\ j.run = job[w].run /\ j.suspendedAt = job[w].suspendedAt
      /\ j.look = job[w].look /\ j.doomed = job[w].doomed /\ j.walk = m
      /\ j.mode = job[w].mode /\ j.todo = n
      /\ j.for = job[w].for /\ j.first = job[w].first
  BY <1>2, <1>7 DEF Jobs
<1> HIDE DEF j
<1>9. pc'[w] = "busy" /\ job'[w] = j
  BY <1>1, <1>6 DEF TypeOK, Goto, Set
<1>10. j.open = {}
  BY <1>1, <1>8 DEF BusyHand
<1>11. TypeOK' /\ RowsGrow /\ NoNewTakes /\ (Hand(w)' => Inv')
  BY <1>1, <1>6, <1>8, <1>10, Stayed
<1>12. ASSUME NEW s \in SuspendedChildren(r) PROVE MayFail(w, s)'
  <2>1. s.run \in Run /\ ~s.again /\ s.status = "suspended"
    BY <1>4 DEF Child, Reads
  <2>2. Unwanted(s.run)'
    BY <2>1, <1>1, <1>4, <1>11, UnwantedStays
  <2> QED
    BY <2>1, <2>2 DEF MayFail, CanBeFailed
<1>13. Hand(w)'
  BY <1>1, <1>5, <1>7, <1>8, <1>9, <1>10, <1>11, <1>12, BusyStays
<1> QED
  BY <1>11, <1>13

\* A worker with nothing to do takes a run to fail.
LEMMA TakesToFail ==
  ASSUME Inv, NEW w \in Worker, pc[w] = "idle", NEW r \in Run, Suspended(r),
         NEW mode \in {"refuse", "cancel"},
         Goto(w, "busy"), Set(w, ToFail(r, mode)), row' = row, closed' = closed
  PROVE  Inv'
<1> DEFINE t == Read(r, FALSE)
           j == ToFail(r, mode)
<1>1. TypeOK /\ HoldsOne
  BY DEF Inv
<1>2. row[r].suspendedAt \in Nat
  BY <1>1, RowOf
<1>3. t \in Reads /\ ~t.again /\ t.status = "suspended"
  BY <1>2 DEF Read, Reads, Statuses, Suspended
<1>4. j = [NoJob EXCEPT !.mode = mode, !.todo = {t}] /\ Set(w, j)
  BY DEF ToFail
<1> HIDE DEF t, j
<1>5. /\ j \in Jobs /\ j.for = None /\ j.first = None /\ j.open = {} /\ j.look = {} /\ j.todo = {t}
      /\ j.walk = {} /\ j.mode = mode /\ j.doomed = None
  BY <1>3, <1>4, NoJobIsJob DEF Jobs, Modes, NoJob
<1>6. pc'[w] = "busy" /\ job'[w] = j
  BY <1>1, <1>4 DEF TypeOK, Goto, Set
<1>7. Hand(w)'
  BY <1>3, <1>5, <1>6, FailHand
<1>8. closed' \in BOOLEAN /\ "busy" \in Steps /\ \A q \in Run : row[q].claim # w
  BY <1>1, ClaimsNone DEF TypeOK, Steps
<1> QED
  BY <1>4, <1>5, <1>7, <1>8, Stayed

LEMMA CancelRunStep ==
  ASSUME Inv, NEW w \in Worker, NEW r \in Run, CancelRun(w, r) \/ FailUnresumable(w, r)
  PROVE  Inv'
BY TakesToFail DEF CancelRun, FailUnresumable

----------------------------------------------------------------------------
\* Reconciling.

\* Nothing waits on a child its caller, suspended, does not.
LEMMA ChildNotWaited ==
  ASSUME TypeOK, NEW s, NEW r \in Run, Child(s, r), Suspended(r), s.run \notin row[r].waits
  PROVE  Unwanted(s.run)
<1>1. row[r].claim = None
  BY RowOf DEF Suspended
<1>2. Takes(row, job, r) \subseteq row[r].waits
  BY <1>1, NobodyAssumption DEF Takes
<1>3. row[s.run].caller = r /\ r # None
  BY NobodyAssumption DEF Child
<1> QED
  BY <1>2, <1>3 DEF Child, Unwanted

\* What a reconcile may rely on.
LEMMA Reconciling ==
  ASSUME Inv, NEW w \in Worker, pc[w] \in {"listed", "caller", "deliver"}
  PROVE  /\ ReconcileHand(w) /\ TypeOK /\ RowsWell /\ Hand(w)
         /\ job[w].run \in Run /\ job[w] \in Jobs
         /\ \A q \in Run : row[q].claim # w
         /\ job[w].for # None => pc[job[w].for] = "pass"
<1>1. Hand(w) /\ TypeOK /\ RowsWell /\ HoldsOne /\ CalledFrom
  BY DEF Inv
<1>2. ReconcileHand(w)
  BY <1>1 DEF Hand, ListedHand, CallerHand, DeliverHand
<1> QED
  BY <1>1, <1>2, JobOf, ClaimsNone DEF ReconcileHand, CalledFrom

LEMMA ListChildrenStep ==
  ASSUME Inv, NEW w \in Worker, ListChildren(w)
  PROVE  Inv'
<1> DEFINE i == [job[w] EXCEPT !.queue = Tail(@), !.run = None, !.wait = None,
                               !.suspendedAt = 0, !.mode = "abandon"]
<1>1. /\ pc[w] = "busy" /\ BusyHand(w) /\ TypeOK /\ RowsWell
      /\ \A q \in Run : row[q].claim # w
      /\ job[w].queue # <<>> /\ job[w].look = {} /\ job[w].todo = {} /\ job[w].walk = {}
      /\ job[w].doomed = None /\ row' = row /\ closed' = closed
  BY Busy DEF ListChildren, AtQueue, Failing
<1>2. job[w] \in Jobs /\ job[w].queue \in Seq(Run \cup {None}) /\ job[w].open = {}
  BY <1>1, JobOf DEF BusyHand
<1>3. Head(job[w].queue) \in Run \cup {None} /\ Tail(job[w].queue) \in Seq(Run \cup {None})
  BY <1>1, <1>2
<1>4. /\ i \in Jobs /\ i.open = {} /\ i.look = {} /\ i.todo = {} /\ i.walk = {} /\ i.doomed = None
      /\ i.mode = "abandon" /\ i.for = job[w].for /\ i.first = job[w].first
  <2> DEFINE n == Tail(job[w].queue)
  <2>1. n \in Seq(Run \cup {None})
    BY <1>3
  <2>2. i = [job[w] EXCEPT !.queue = n, !.run = None, !.wait = None,
                           !.suspendedAt = 0, !.mode = "abandon"]
    BY <1>2 DEF Jobs
  <2> HIDE DEF n, i
  <2>3. i \in Jobs
    BY <1>2, <2>1, <2>2 DEF Jobs, Modes
  <2>4. /\ i.open = job[w].open /\ i.look = job[w].look /\ i.todo = job[w].todo
        /\ i.walk = job[w].walk /\ i.doomed = job[w].doomed
        /\ i.mode = "abandon" /\ i.for = job[w].for /\ i.first = job[w].first
    BY <1>2, <2>2 DEF Jobs
  <2> QED
    BY <1>1, <1>2, <2>3, <2>4
<1>5. closed' \in BOOLEAN /\ {"busy", "listed"} \subseteq Steps
  BY <1>1 DEF TypeOK, Steps
<1>6. CASE Head(job[w].queue) = None
  <2>1. Goto(w, "busy") /\ Set(w, i)
    BY <1>6 DEF ListChildren
  <2> HIDE DEF i
  <2>2. pc'[w] = "busy" /\ job'[w] = i
    BY <1>1, <2>1 DEF TypeOK, Goto, Set
  <2>3. Hand(w)'
    BY <1>4, <2>2, QueueHand
  <2> QED
    BY <1>1, <1>4, <1>5, <2>1, <2>3, Stayed
<1>7. ASSUME NEW r \in Run, r = Head(job[w].queue) PROVE Inv'
  <2> DEFINE n == SuspendedChildren(r)
             j == [i EXCEPT !.run = r, !.todo = n]
  <2>1. Goto(w, "listed") /\ Set(w, j)
    BY <1>7, NobodyAssumption DEF ListChildren
  <2>2. n \subseteq Reads /\ \A s \in n : Child(s, r)
    BY <1>1, ChildrenListed
  <2> HIDE DEF i, n
  <2>3. /\ j \in Jobs /\ j.open = {} /\ j.look = {} /\ j.todo = n /\ j.walk = {} /\ j.doomed = None
        /\ j.mode = "abandon" /\ j.for = job[w].for /\ j.first = job[w].first /\ j.run = r
    BY ZenonT(60), <1>4, <2>2 DEF Jobs
  <2> HIDE DEF j
  <2>4. pc'[w] = "listed" /\ job'[w] = j
    BY <1>1, <2>1 DEF TypeOK, Goto, Set
  <2>5. \A s \in n : Child(s, r)'
    BY <1>1, <2>2 DEF Child, Active, Claimed, Suspended
  <2>6. ReconcileHand(w)'
    <3>1. \A s \in job'[w].todo : Child(s, job[w].run)'
      BY <2>3, <2>4, <2>5, <1>1 DEF Child, Active, Claimed, Suspended
    <3>2. r # None
      BY NobodyAssumption
    <3> QED
      BY <2>3, <2>4, <3>1, <3>2 DEF ReconcileHand
  <2>7. Hand(w)'
    BY <2>3, <2>4, <2>6 DEF Hand, ListedHand
  <2> QED
    BY <1>1, <1>5, <2>1, <2>3, <2>7, Stayed
<1> QED
  BY <1>3, <1>6, <1>7

\* A reconcile that is done with what it read: only what nothing waits on is failed.
LEMMA ReadDone ==
  ASSUME Inv, NEW w \in Worker, pc[w] \in {"listed", "caller"}, NEW j \in Jobs,
         Goto(w, "busy"), Set(w, j), row' = row, closed' = closed,
         j.for = job[w].for, j.first = job[w].first, j.open = {}, j.walk = {}, j.doomed = None,
         j.mode = "abandon", j.run = job[w].run,
         \A s \in j.todo : ~s.again /\ s.status = "suspended" /\ s.run \in Run /\ Unwanted(s.run),
         j.look # {} => /\ Active(j.run) => j.suspendedAt <= row[j.run].suspendedAt
                        /\ Active(j.run) /\ j.suspendedAt = row[j.run].suspendedAt =>
                             j.look \subseteq row[j.run].waits
                        /\ row[j.run].status # "absent"
  PROVE  Inv'
<1>1. /\ TypeOK /\ RowsWell /\ job[w].run \in Run /\ \A q \in Run : row[q].claim # w
  BY Reconciling
<1>2. pc'[w] = "busy" /\ job'[w] = j
  BY <1>1 DEF TypeOK, Goto, Set
<1>3. closed' \in BOOLEAN /\ "busy" \in Steps
  BY <1>1 DEF TypeOK, Steps
<1>4. TypeOK' /\ RowsGrow /\ NoNewTakes /\ (Hand(w)' => Inv')
  BY <1>1, <1>3, Stayed
<1>5. \A s \in j.todo : MayFail(w, s)'
  <2> SUFFICES ASSUME NEW s \in j.todo PROVE MayFail(w, s)'
    OBVIOUS
  <2>1. Unwanted(s.run)'
    BY <1>1, <1>4, UnwantedStays
  <2> QED
    BY <2>1 DEF MayFail, CanBeFailed
<1>6. j.look # {} => ReadWell(w)'
  <2>1. j.run # None
    BY <1>1, NobodyAssumption
  <2> QED
    BY <1>2, <2>1 DEF ReadWell, Active, Claimed, Suspended
<1>7. BusyHand(w)'
  BY <1>2, <1>5, <1>6 DEF BusyHand
<1>8. Hand(w)'
  BY <1>2, <1>7 DEF Hand
<1> QED
  BY <1>4, <1>8

LEMMA ReadRunStep ==
  ASSUME Inv, NEW w \in Worker, ReadRun(w)
  PROVE  Inv'
<1> DEFINE i == [job[w] EXCEPT !.suspendedAt = row[job[w].run].suspendedAt]
<1>1. /\ pc[w] = "listed" /\ ReconcileHand(w) /\ job[w].look = {} /\ TypeOK /\ RowsWell
      /\ job[w] \in Jobs /\ \A q \in Run : row[q].claim # w
      /\ row' = row /\ closed' = closed
  BY Reconciling DEF ReadRun, Hand, ListedHand
<1>2. PICK r \in Run : r = job[w].run
  BY <1>1, Reconciling
<1>3. row[r].suspendedAt \in Nat /\ row[r].waits \subseteq Run /\ row[r].status \in Statuses
  BY <1>1, RowOf
<1>4. /\ i \in Jobs /\ i.run = r /\ i.suspendedAt = row[r].suspendedAt /\ i.open = {} /\ i.look = {}
      /\ i.todo = job[w].todo /\ i.walk = {} /\ i.doomed = None /\ i.mode = "abandon"
      /\ i.for = job[w].for /\ i.first = job[w].first
  <2> DEFINE n == row[r].suspendedAt
  <2>1. i = [job[w] EXCEPT !.suspendedAt = n] /\ n \in Nat
    BY <1>2, <1>3
  <2> HIDE DEF i, n
  <2>2. /\ i \in Jobs /\ i.run = job[w].run /\ i.suspendedAt = n /\ i.open = job[w].open
        /\ i.look = job[w].look
        /\ i.todo = job[w].todo /\ i.walk = job[w].walk /\ i.doomed = job[w].doomed
        /\ i.mode = job[w].mode /\ i.for = job[w].for /\ i.first = job[w].first
    BY <1>1, <2>1 DEF Jobs
  <2> QED
    BY <1>1, <1>2, <2>2 DEF ReconcileHand, n
<1>5. job[w].todo \subseteq Reads /\ \A s \in job[w].todo : Child(s, r) /\ s.run \in Run
  BY <1>1, <1>2, JobOf DEF ReconcileHand, Reads
<1>6. CASE Suspended(r) /\ row[r].caller # None
  <2> DEFINE n == row[r].waits
             j == [i EXCEPT !.look = n]
  <2>1. Goto(w, "caller") /\ Set(w, j)
    BY <1>2, <1>6 DEF ReadRun, Ended, Claimed, Suspended, Exists
  <2> HIDE DEF i
  <2>2. /\ j \in Jobs /\ j.run = r /\ j.suspendedAt = row[r].suspendedAt /\ j.open = {} /\ j.look = n
        /\ j.todo = job[w].todo /\ j.walk = {} /\ j.doomed = None /\ j.mode = "abandon"
        /\ j.for = job[w].for /\ j.first = job[w].first
    BY ZenonT(60), <1>3, <1>4 DEF Jobs
  <2> HIDE DEF j
  <2>3. pc'[w] = "caller" /\ job'[w] = j
    BY <1>1, <2>1 DEF TypeOK, Goto, Set
  <2>4. closed' \in BOOLEAN /\ "caller" \in Steps
    BY <1>1 DEF TypeOK, Steps
  <2>5. TypeOK' /\ RowsGrow /\ NoNewTakes /\ (Hand(w)' => Inv')
    BY <1>1, <2>1, <2>2, <2>4, Stayed
  <2>6. \A s \in j.todo : s.run \in n \/ Unwanted(s.run)'
    <3> SUFFICES ASSUME NEW s \in job[w].todo, s.run \notin n PROVE Unwanted(s.run)'
      BY <2>2
    <3>1. Unwanted(s.run) /\ s.run \in Run
      BY <1>1, <1>5, <1>6, ChildNotWaited
    <3> QED
      BY <3>1, <1>1, <2>5, UnwantedStays
  <2>7. \A s \in j.todo : Child(s, r)'
    BY <1>1, <1>5, <2>2 DEF Child, Active, Claimed, Suspended
  <2>8. r # None /\ row[r].suspendedAt # 0 /\ row[r].status # "absent"
    BY <1>1, <1>6, NobodyAssumption DEF RowsWell, Suspended
  <2>9. ReconcileHand(w)'
    <3>1. \A s \in job'[w].todo : Child(s, job[w].run)'
      BY <2>2, <2>3, <2>7 DEF Child, Active, Claimed, Suspended
    <3> QED
      BY <2>2, <2>3, <2>8, <3>1 DEF ReconcileHand
  <2>10. ReadWell(w)'
    BY <1>1, <1>3, <2>2, <2>3, <2>8 DEF ReadWell, Active, Claimed, Suspended
  <2>11. CallerHand(w)'
    BY <1>1, <1>6, <2>2, <2>3, <2>6, <2>8, <2>9, <2>10 DEF CallerHand, Active, Claimed, Suspended
  <2>12. Hand(w)'
    BY <2>3, <2>11 DEF Hand
  <2> QED
    BY <2>5, <2>12
<1>7. CASE Suspended(r) /\ row[r].caller = None
  <2> DEFINE n == row[r].waits
             m == {s \in job[w].todo : s.run \notin n}
             j == [i EXCEPT !.look = n, !.todo = m]
  <2>1. Goto(w, "busy") /\ Set(w, j)
    BY <1>2, <1>4, <1>7 DEF ReadRun, Unwaited, Ended, Claimed, Suspended, Exists
  <2>2. m \subseteq Reads /\ \A s \in m : Unwanted(s.run) /\ Child(s, r) /\ s.run \in Run
    BY <1>1, <1>5, <1>7, ChildNotWaited
  <2> HIDE DEF i, m
  <2>3. /\ j \in Jobs /\ j.run = r /\ j.suspendedAt = row[r].suspendedAt /\ j.open = {} /\ j.look = n
        /\ j.todo = m /\ j.walk = {} /\ j.doomed = None /\ j.mode = "abandon"
        /\ j.for = job[w].for /\ j.first = job[w].first
    BY ZenonT(60), <1>3, <1>4, <2>2 DEF Jobs
  <2> HIDE DEF j
  <2>4. \A s \in j.todo : ~s.again /\ s.status = "suspended" /\ s.run \in Run /\ Unwanted(s.run)
    BY <2>2, <2>3 DEF Child
  <2>5. row[r].status # "absent" /\ j.suspendedAt <= row[r].suspendedAt /\ j.look = row[r].waits
    BY <1>3, <1>7, <2>3 DEF Suspended
  <2> QED
    BY <1>1, <1>2, <2>1, <2>3, <2>4, <2>5, ReadDone
<1>8. CASE Ended(r)
  <2> DEFINE m == {s \in job[w].todo : s.run \notin {}}
             j == [i EXCEPT !.look = {}, !.todo = m]
  <2>1. Goto(w, "busy") /\ Set(w, j)
    BY <1>2, <1>4, <1>8 DEF ReadRun, Unwaited, Ended, Claimed, Suspended, Exists
  <2>2. Gone(r)
    BY <1>8 DEF Gone, Ended, Active, Claimed, Suspended
  <2>3. m \subseteq Reads /\ \A s \in m : Unwanted(s.run) /\ Child(s, r) /\ s.run \in Run
    BY <1>5, <2>2, ChildOfGone
  <2> HIDE DEF i, m
  <2>4. /\ j \in Jobs /\ j.run = r /\ j.open = {} /\ j.look = {}
        /\ j.todo = m /\ j.walk = {} /\ j.doomed = None /\ j.mode = "abandon"
        /\ j.for = job[w].for /\ j.first = job[w].first
    BY ZenonT(60), <1>4, <2>3 DEF Jobs
  <2> HIDE DEF j
  <2>5. \A s \in j.todo : ~s.again /\ s.status = "suspended" /\ s.run \in Run /\ Unwanted(s.run)
    BY <2>3, <2>4 DEF Child
  <2> QED
    BY <1>1, <1>2, <2>1, <2>4, <2>5, ReadDone
<1>9. CASE Claimed(r) \/ ~Exists(r)
  <2> DEFINE j == [i EXCEPT !.todo = {}]
  <2>1. Goto(w, "busy") /\ Set(w, j)
    BY <1>2, <1>9 DEF ReadRun, Ended, Claimed, Suspended, Exists
  <2> HIDE DEF i
  <2>2. /\ j \in Jobs /\ j.run = r /\ j.open = {} /\ j.look = {}
        /\ j.todo = {} /\ j.walk = {} /\ j.doomed = None /\ j.mode = "abandon"
        /\ j.for = job[w].for /\ j.first = job[w].first
    BY ZenonT(60), <1>4 DEF Jobs
  <2> HIDE DEF j
  <2> QED
    BY <1>1, <1>2, <2>1, <2>2, ReadDone
<1> QED
  BY <1>3, <1>6, <1>7, <1>8, <1>9 DEF Statuses, Ended, Claimed, Suspended, Exists

LEMMA ReadCallerStep ==
  ASSUME Inv, NEW w \in Worker, ReadCaller(w)
  PROVE  Inv'
<1>1. /\ pc[w] = "caller" /\ ReconcileHand(w) /\ CallerHand(w) /\ TypeOK /\ RowsWell /\ ReadWell(w)
      /\ job[w] \in Jobs /\ Goto(w, "busy") /\ row' = row /\ closed' = closed
      /\ job[w].todo \subseteq Reads /\ job[w].suspendedAt \in Nat
  BY Reconciling, JobOf DEF ReadCaller, Hand, CallerHand
<1>2. PICK r \in Run : r = job[w].run
  BY <1>1, Reconciling
<1>3. row[r].caller # None /\ row[r].status # "absent" /\ (Active(r) => row[r].suspendedAt # 0)
  BY <1>1, <1>2 DEF CallerHand, ReadWell
<1>4. PICK p \in Run : p = row[r].caller
  BY <1>1, <1>3, RowOf
<1>5. CASE WaitedOnBy(r, p)
  <2> DEFINE n == job[w].look
             m == {s \in job[w].todo : s.run \notin n}
             j == [job[w] EXCEPT !.look = n, !.todo = m]
  <2>1. Set(w, j)
    BY <1>2, <1>4, <1>5 DEF ReadCaller, Unwaited
  <2>2. m \subseteq Reads /\ n \subseteq Run
    BY <1>1, JobOf
  <2>3. \A s \in m : ~s.again /\ s.status = "suspended" /\ s.run \in Run /\ Unwanted(s.run)
    BY <1>1 DEF CallerHand, ReconcileHand, Child, Reads
  <2> HIDE DEF m, n
  <2>4. /\ j \in Jobs /\ j.run = r /\ j.suspendedAt = job[w].suspendedAt /\ j.open = {} /\ j.look = n
        /\ j.todo = m /\ j.walk = {} /\ j.doomed = None /\ j.mode = "abandon"
        /\ j.for = job[w].for /\ j.first = job[w].first
    <3>1. /\ j \in Jobs /\ j.run = job[w].run /\ j.suspendedAt = job[w].suspendedAt
          /\ j.open = job[w].open /\ j.look = n
          /\ j.todo = m /\ j.walk = job[w].walk /\ j.doomed = job[w].doomed /\ j.mode = job[w].mode
          /\ j.for = job[w].for /\ j.first = job[w].first
      BY <1>1, <2>2 DEF Jobs
    <3> QED
      BY <3>1, <1>1, <1>2 DEF ReconcileHand
  <2> HIDE DEF j
  <2>5. /\ Active(r) => job[w].suspendedAt <= row[r].suspendedAt
        /\ Active(r) /\ job[w].suspendedAt = row[r].suspendedAt => n \subseteq row[r].waits
    BY <1>1, <1>2 DEF ReadWell, n
  <2> QED
    BY <1>1, <1>2, <1>3, <2>1, <2>3, <2>4, <2>5, ReadDone
<1>6. CASE ~WaitedOnBy(r, p)
  <2> DEFINE t == [run |-> r, status |-> "suspended", again |-> FALSE,
                   suspendedAt |-> job[w].suspendedAt]
             j == [job[w] EXCEPT !.look = {}, !.todo = {t}]
  <2>1. Set(w, j)
    BY <1>2, <1>4, <1>6 DEF ReadCaller
  <2>2. t \in Reads /\ ~t.again /\ t.status = "suspended" /\ t.run = r
    BY <1>1 DEF Reads, Statuses
  <2> HIDE DEF t
  <2>3. /\ j \in Jobs /\ j.run = r /\ j.open = {} /\ j.look = {}
        /\ j.todo = {t} /\ j.walk = {} /\ j.doomed = None /\ j.mode = "abandon"
        /\ j.for = job[w].for /\ j.first = job[w].first
    <3>1. /\ j \in Jobs /\ j.run = job[w].run
          /\ j.open = job[w].open /\ j.look = {}
          /\ j.todo = {t} /\ j.walk = job[w].walk /\ j.doomed = job[w].doomed /\ j.mode = job[w].mode
          /\ j.for = job[w].for /\ j.first = job[w].first
      BY <1>1, <2>2 DEF Jobs
    <3> QED
      BY <3>1, <1>1, <1>2 DEF ReconcileHand
  <2> HIDE DEF j
  <2>4. Unwanted(r)
    <3>1. ASSUME Active(p) PROVE r \notin Takes(row, job, p)
      <4>1. row[p].status = "suspended" /\ r \notin row[p].waits
        BY <1>6, <3>1 DEF WaitedOnBy, Active, Claimed, Suspended
      <4>2. row[p].claim = None
        BY <1>1, <4>1, RowOf
      <4> QED
        BY <4>1, <4>2, NobodyAssumption DEF Takes
    <3> QED
      BY <1>3, <1>4, <3>1 DEF Unwanted
  <2>5. \A s \in j.todo : ~s.again /\ s.status = "suspended" /\ s.run \in Run /\ Unwanted(s.run)
    BY <2>2, <2>3, <2>4
  <2> QED
    BY <1>1, <1>2, <2>1, <2>3, <2>5, ReadDone
<1> QED
  BY <1>5, <1>6

LEMMA LookAtStep ==
  ASSUME Inv, NEW w \in Worker, NEW c \in job[w].look, LookAt(w, c)
  PROVE  Inv'
<1> DEFINE result == row[c].status = "deleted" \/ (Ended(c) /\ ParentOf(c) = job[w].run)
<1>1. /\ pc[w] = "busy" /\ BusyHand(w) /\ TypeOK /\ RowsWell
      /\ \A q \in Run : row[q].claim # w
      /\ job[w].todo = {} /\ job[w].walk = {} /\ row' = row /\ closed' = closed
  BY Busy DEF LookAt, Failing
<1>2. /\ job[w] \in Jobs /\ job[w].look \subseteq Run /\ c \in Run /\ job[w].open = {}
      /\ ReadWell(w) /\ job[w].doomed = None /\ job[w].mode = "abandon"
  BY <1>1, JobOf DEF BusyHand
<1>3. closed' \in BOOLEAN /\ {"busy", "deliver"} \subseteq Steps
  BY <1>1 DEF TypeOK, Steps
<1>4. CASE result
  <2> DEFINE j == [job[w] EXCEPT !.look = {}, !.wait = c]
  <2>1. Goto(w, "deliver") /\ Set(w, j)
    BY <1>4 DEF LookAt
  <2>2. /\ j \in Jobs /\ j.run = job[w].run /\ j.suspendedAt = job[w].suspendedAt /\ j.wait = c
        /\ j.open = job[w].open /\ j.look = {}
        /\ j.todo = job[w].todo /\ j.walk = job[w].walk /\ j.doomed = job[w].doomed
        /\ j.mode = job[w].mode /\ j.for = job[w].for /\ j.first = job[w].first
    BY ZenonT(60), <1>2 DEF Jobs
  <2> HIDE DEF j
  <2>3. pc'[w] = "deliver" /\ job'[w] = j
    BY <1>1, <2>1 DEF TypeOK, Goto, Set
  <2>4. Gone(c)'
    BY <1>1, <1>4 DEF Gone, Ended, Active, Claimed, Suspended
  <2>5. c # None /\ job[w].run # None
    BY <1>2, NobodyAssumption DEF ReadWell
  <2>6. ReadWell(w)'
    BY <1>1, <1>2, <2>2, <2>3 DEF ReadWell, Active, Claimed, Suspended
  <2>7. ReconcileHand(w)'
    BY <1>1, <1>2, <2>2, <2>3, <2>5 DEF ReconcileHand
  <2>8. DeliverHand(w)'
    BY <1>1, <2>2, <2>3, <2>4, <2>5, <2>6, <2>7 DEF DeliverHand, ResultWell
  <2>9. Hand(w)'
    BY <2>3, <2>8 DEF Hand
  <2> QED
    BY <1>1, <1>2, <1>3, <2>1, <2>2, <2>9, Stayed
<1>5. CASE ~result
  <2> DEFINE n == job[w].look \ {c}
             j == [job[w] EXCEPT !.look = n]
  <2>1. Goto(w, "busy") /\ Set(w, j)
    BY <1>5 DEF LookAt
  <2>2. n \subseteq job[w].look /\ n \subseteq Run
    BY <1>2
  <2> HIDE DEF n
  <2>3. /\ j \in Jobs /\ j.run = job[w].run /\ j.suspendedAt = job[w].suspendedAt
        /\ j.open = job[w].open /\ j.look = n
        /\ j.todo = job[w].todo /\ j.walk = job[w].walk /\ j.doomed = job[w].doomed
        /\ j.mode = job[w].mode /\ j.for = job[w].for /\ j.first = job[w].first
    BY <1>2, <2>2 DEF Jobs
  <2> HIDE DEF j
  <2>4. pc'[w] = "busy" /\ job'[w] = j
    BY <1>1, <2>1 DEF TypeOK, Goto, Set
  <2>5. TypeOK' /\ RowsGrow /\ NoNewTakes /\ (Hand(w)' => Inv')
    BY <1>1, <1>2, <1>3, <2>1, <2>3, Stayed
  <2>6. Hand(w)'
    BY <1>1, <1>2, <2>2, <2>3, <2>4, <2>5, BusyStays
  <2> QED
    BY <2>5, <2>6
<1> QED
  BY <1>4, <1>5

\* What a worker about to deliver a result may rely on.
LEMMA Delivering ==
  ASSUME Inv, NEW w \in Worker, pc[w] = "deliver"
  PROVE  /\ DeliverHand(w) /\ TypeOK /\ RowsWell /\ job[w] \in Jobs
         /\ job[w].run \in Run /\ job[w].wait \in Run /\ job[w].suspendedAt \in Nat
         /\ job[w].open = {} /\ job[w].look = {} /\ job[w].todo = {} /\ job[w].walk = {}
         /\ job[w].doomed = None /\ job[w].mode = "abandon"
         /\ \A q \in Run : row[q].claim # w
         /\ job[w].for # None => pc[job[w].for] = "pass"
<1>1. DeliverHand(w)
  BY DEF Inv, Hand
<1> QED
  BY <1>1, Reconciling, JobOf DEF DeliverHand, ReconcileHand

LEMMA DeliverStep ==
  ASSUME Inv, NEW w \in Worker, Deliver(w)
  PROVE  Inv'
<1>1. /\ DeliverHand(w) /\ TypeOK /\ RowsWell /\ job[w] \in Jobs
      /\ job[w].run \in Run /\ job[w].wait \in Run /\ job[w].suspendedAt \in Nat
      /\ job[w].open = {} /\ job[w].look = {} /\ job[w].todo = {} /\ job[w].walk = {}
      /\ job[w].doomed = None /\ job[w].mode = "abandon"
      /\ \A q \in Run : row[q].claim # w
      /\ job[w].for # None => pc[job[w].for] = "pass"
      /\ pc[w] = "deliver" /\ closed' = closed
  BY Delivering DEF Deliver
<1>2. PICK r \in Run : r = job[w].run
  BY <1>1
<1>3. closed' \in BOOLEAN /\ {"busy", "pass"} \subseteq Steps
  BY <1>1 DEF TypeOK, Steps
<1>4. CASE ~StillOn(r, job[w].suspendedAt)
  <2> DEFINE j == [job[w] EXCEPT !.wait = None]
  <2>1. Goto(w, "busy") /\ Set(w, j) /\ row' = row
    BY <1>2, <1>4 DEF Deliver
  <2>2. /\ j \in Jobs /\ j.open = job[w].open /\ j.look = job[w].look
        /\ j.todo = job[w].todo /\ j.walk = job[w].walk /\ j.doomed = job[w].doomed
        /\ j.mode = job[w].mode /\ j.for = job[w].for /\ j.first = job[w].first
    BY <1>1 DEF Jobs
  <2> HIDE DEF j
  <2>3. pc'[w] = "busy" /\ job'[w] = j
    BY <1>1, <2>1 DEF TypeOK, Goto, Set
  <2>4. Hand(w)'
    BY <1>1, <2>2, <2>3, QueueHand
  <2> QED
    BY <1>1, <1>3, <2>1, <2>2, <2>4, Stayed
<1>5. CASE StillOn(r, job[w].suspendedAt)
  <2> DEFINE n == row[r].waits \ {job[w].wait}
             j == [job[w] EXCEPT !.open = n]
             x == ClaimedBy(w, r)
  <2>1. Goto(w, "pass") /\ Set(w, j) /\ Write(r, x)
    BY <1>2, <1>5 DEF Deliver
  <2>2. n \subseteq Run /\ n \subseteq row[r].waits
    BY <1>1, RowOf
  <2>3. /\ x \in Rows /\ x.claim = w /\ x.status = "claimed" /\ x.caller = row[r].caller
        /\ x.waits = row[r].waits /\ x.suspendedAt = row[r].suspendedAt /\ Grows(row[r], x)
    BY <1>1, <1>5, ClaimedRow DEF StillOn
  <2> HIDE DEF n, x
  <2>4. /\ j \in Jobs /\ j.open = n /\ j.look = job[w].look /\ j.run = job[w].run
        /\ j.suspendedAt = job[w].suspendedAt /\ j.wait = job[w].wait
        /\ j.todo = job[w].todo /\ j.walk = job[w].walk /\ j.doomed = job[w].doomed
        /\ j.mode = job[w].mode /\ j.for = job[w].for /\ j.first = job[w].first
    BY <1>1, <2>2 DEF Jobs
  <2> HIDE DEF j
  <2>5. pc'[w] = "pass" /\ job'[w] = j /\ row'[r] = x
    BY <1>1, <2>1 DEF TypeOK, Goto, Set, Write
  <2>6. TypeOK' /\ RowsGrow /\ NoNewTakes /\ (Hand(w)' => Inv')
    BY <1>1, <1>2, <1>3, <2>1, <2>2, <2>3, <2>4, MovedOne
  <2>7. ResultWell(w)'
    <3>1. Gone(job[w].wait)
      BY <1>1, NobodyAssumption DEF DeliverHand, ResultWell
    <3>2. PICK c \in Run : c = job[w].wait
      BY <1>1
    <3>3. Gone(c)'
      BY <3>1, <3>2, <2>6, GoneStays
    <3> QED
      BY <3>2, <3>3, <2>4, <2>5 DEF ResultWell
  <2>8. row[r].suspendedAt = job[w].suspendedAt /\ job[w].wait \in row[r].waits
    BY <1>1, <1>2, <1>5 DEF StillOn, DeliverHand, ReadWell, Active
  <2>9. r # None
    BY NobodyAssumption
  <2>10. PassHand(w)'
    BY <1>1, <1>2, <2>3, <2>4, <2>5, <2>7, <2>8, <2>9 DEF PassHand
  <2>11. Hand(w)'
    BY <2>5, <2>10 DEF Hand
  <2> QED
    BY <2>6, <2>11
<1> QED
  BY <1>4, <1>5

LEMMA RefuseResultStep ==
  ASSUME Inv, NEW w \in Worker, RefuseResult(w)
  PROVE  Inv'
<1> DEFINE t == [run |-> job[w].run, status |-> "suspended", again |-> FALSE,
                 suspendedAt |-> job[w].suspendedAt]
           j == [job[w] EXCEPT !.mode = "refuse", !.wait = None, !.todo = {t}]
<1>1. /\ TypeOK /\ job[w] \in Jobs /\ job[w].run \in Run /\ job[w].suspendedAt \in Nat
      /\ job[w].open = {} /\ job[w].look = {} /\ job[w].walk = {} /\ job[w].doomed = None
      /\ \A q \in Run : row[q].claim # w
      /\ pc[w] = "deliver" /\ closed' = closed /\ row' = row /\ Goto(w, "busy") /\ Set(w, j)
  BY Delivering DEF RefuseResult
<1>2. t \in Reads /\ ~t.again /\ t.status = "suspended"
  BY <1>1 DEF Reads, Statuses
<1> HIDE DEF t
<1>3. /\ j \in Jobs /\ j.open = job[w].open /\ j.look = job[w].look
      /\ j.todo = {t} /\ j.walk = job[w].walk /\ j.doomed = job[w].doomed
      /\ j.mode = "refuse" /\ j.for = job[w].for /\ j.first = job[w].first
  BY ZenonT(60), <1>1, <1>2 DEF Jobs, Modes
<1> HIDE DEF j
<1>4. pc'[w] = "busy" /\ job'[w] = j
  BY <1>1 DEF TypeOK, Goto, Set
<1>5. Hand(w)'
  BY <1>1, <1>2, <1>3, <1>4, FailHand
<1>6. closed' \in BOOLEAN /\ "busy" \in Steps
  BY <1>1 DEF TypeOK, Steps
<1> QED
  BY <1>1, <1>3, <1>5, <1>6, Stayed

----------------------------------------------------------------------------
\* Events, admins, recoveries, deletions.

\* A worker with nothing to do takes something up.
LEMMA Idle ==
  ASSUME Inv, NEW w \in Worker, pc[w] = "idle"
  PROVE  /\ TypeOK /\ RowsWell /\ job[w] = NoJob /\ \A q \in Run : row[q].claim # w
         /\ closed \in BOOLEAN
<1>1. TypeOK /\ RowsWell /\ HoldsOne /\ Hand(w)
  BY DEF Inv
<1> QED
  BY <1>1, ClaimsNone DEF Hand, TypeOK

LEMMA HoldEventStep ==
  ASSUME Inv, NEW w \in Worker, NEW r \in Run, HoldEvent(w, r)
  PROVE  Inv'
<1> DEFINE q == <<r>>
           j == [NoJob EXCEPT !.queue = q]
<1>1. /\ pc[w] = "idle" /\ TypeOK /\ (\A p \in Run : row[p].claim # w)
      /\ closed' \in BOOLEAN /\ row' = row /\ Goto(w, "busy") /\ Set(w, j) /\ "busy" \in Steps
  BY Idle DEF HoldEvent, Steps
<1>2. q \in Seq(Run \cup {None})
  OBVIOUS
<1> HIDE DEF q
<1>3. /\ j \in Jobs /\ j.for = None /\ j.first = None /\ j.open = {} /\ j.look = {} /\ j.todo = {}
      /\ j.walk = {} /\ j.mode = "abandon" /\ j.doomed = None
  BY <1>2, NoJobIsJob DEF Jobs, NoJob
<1> HIDE DEF j
<1>4. pc'[w] = "busy" /\ job'[w] = j
  BY <1>1 DEF TypeOK, Goto, Set
<1>5. Hand(w)'
  BY <1>3, <1>4, QueueHand
<1> QED
  BY <1>1, <1>3, <1>5, Stayed

LEMMA CloseThreadStep ==
  ASSUME Inv, NEW w \in Worker, CloseThread(w)
  PROVE  Inv'
<1> DEFINE n == {Read(r, TRUE) : r \in {q \in Run : Active(q)}}
           j == [NoJob EXCEPT !.mode = "close", !.todo = n]
<1>1. /\ pc[w] = "idle" /\ TypeOK /\ (\A p \in Run : row[p].claim # w)
      /\ closed' \in BOOLEAN /\ row' = row /\ Goto(w, "busy") /\ Set(w, j) /\ "busy" \in Steps
  BY Idle DEF CloseThread, Steps
<1>2. n \subseteq Reads
  <2> SUFFICES ASSUME NEW r \in Run PROVE Read(r, TRUE) \in Reads
    OBVIOUS
  <2>1. row[r].suspendedAt \in Nat /\ row[r].status \in Statuses
    BY <1>1, RowOf
  <2> QED
    BY <2>1 DEF Read, Reads
<1> HIDE DEF n
<1>3. /\ j \in Jobs /\ j.for = None /\ j.first = None /\ j.open = {} /\ j.look = {} /\ j.todo = n
      /\ j.walk = {} /\ j.mode = "close" /\ j.doomed = None
  BY <1>2, NoJobIsJob DEF Jobs, NoJob, Modes
<1> HIDE DEF j
<1>4. pc'[w] = "busy" /\ job'[w] = j
  BY <1>1 DEF TypeOK, Goto, Set
<1>5. Hand(w)'
  BY <1>3, <1>4 DEF Hand, BusyHand
<1> QED
  BY <1>1, <1>3, <1>5, Stayed

LEMMA PrepareDeletionStep ==
  ASSUME Inv, NEW w \in Worker, NEW r \in Run, PrepareDeletion(w, r)
  PROVE  Inv'
<1> DEFINE n == SuspendedChildren(r)
           j == [NoJob EXCEPT !.doomed = r, !.todo = n]
<1>1. /\ pc[w] = "idle" /\ TypeOK /\ RowsWell /\ (\A p \in Run : row[p].claim # w)
      /\ closed' \in BOOLEAN /\ row' = row /\ Goto(w, "busy") /\ Set(w, j) /\ "busy" \in Steps
  BY Idle DEF PrepareDeletion, Steps
<1>2. n \subseteq Reads /\ \A s \in n : Child(s, r)
  BY <1>1, ChildrenListed
<1> HIDE DEF n
<1>3. /\ j \in Jobs /\ j.for = None /\ j.first = None /\ j.open = {} /\ j.look = {} /\ j.todo = n
      /\ j.walk = {} /\ j.mode = "abandon" /\ j.doomed = r
  BY <1>2, NoJobIsJob DEF Jobs, NoJob
<1> HIDE DEF j
<1>4. pc'[w] = "busy" /\ job'[w] = j /\ r # None
  BY <1>1, NobodyAssumption DEF TypeOK, Goto, Set
<1>5. \A s \in n : MayFail(w, s)'
  BY <1>1, <1>2, <1>3, <1>4 DEF MayFail, CanBeFailed, Child
<1>6. BusyHand(w)'
  BY <1>3, <1>4, <1>5 DEF BusyHand
<1>7. Hand(w)'
  BY <1>4, <1>6 DEF Hand
<1> QED
  BY <1>1, <1>3, <1>7, Stayed

LEMMA ListCallersStep ==
  ASSUME Inv, NEW w \in Worker, ListCallers(w)
  PROVE  Inv'
<1> DEFINE q == IF Active(job[w].doomed) THEN <<ParentOf(job[w].doomed)>> ELSE <<>>
           j == [job[w] EXCEPT !.queue = q]
<1>1. /\ pc[w] = "busy" /\ BusyHand(w) /\ TypeOK /\ (\A p \in Run : row[p].claim # w)
      /\ job[w].doomed # None /\ job[w].todo = {} /\ job[w].walk = {}
      /\ closed' = closed /\ row' = row /\ Goto(w, "deleting") /\ Set(w, j)
  BY Busy DEF ListCallers, Failing
<1>2. job[w] \in Jobs /\ job[w].doomed \in Run
  BY <1>1, JobOf
<1>3. q \in Seq(Run \cup {None})
  BY <1>1, <1>2, FollowUpsAreRuns
<1>4. job[w].look = {} /\ job[w].open = {} /\ job[w].mode = "abandon"
  BY <1>1 DEF BusyHand
<1> HIDE DEF q
<1>5. /\ j \in Jobs /\ j.for = job[w].for /\ j.first = job[w].first /\ j.open = job[w].open
      /\ j.look = job[w].look /\ j.todo = job[w].todo
      /\ j.walk = job[w].walk /\ j.mode = job[w].mode /\ j.doomed = job[w].doomed
  BY <1>2, <1>3 DEF Jobs
<1> HIDE DEF j
<1>6. pc'[w] = "deleting" /\ job'[w] = j /\ closed' \in BOOLEAN /\ "deleting" \in Steps
  BY <1>1 DEF TypeOK, Goto, Set, Steps
<1>7. Hand(w)'
  BY <1>1, <1>4, <1>5, <1>6 DEF Hand, DeletingHand
<1> QED
  BY <1>1, <1>4, <1>5, <1>6, <1>7, Stayed

LEMMA DeleteRunsStep ==
  ASSUME Inv, NEW w \in Worker, DeleteRuns(w)
  PROVE  Inv'
<1> DEFINE j == [job[w] EXCEPT !.doomed = None]
<1>1. /\ pc[w] = "deleting" /\ DeletingHand(w) /\ TypeOK /\ RowsWell /\ HoldsOne /\ CalledFrom
      /\ closed' = closed /\ Goto(w, "busy") /\ Set(w, j)
  BY DEF DeleteRuns, Inv, Hand
<1>2. \A q \in Run : row[q].claim # w
  BY <1>1, ClaimsNone
<1>3. PICK r \in Run : r = job[w].doomed
  BY <1>1, JobOf DEF DeletingHand
<1> DEFINE y == [AbsentRow EXCEPT !.status = "deleted", !.caller = row[r].caller]
<1>4. /\ y \in Rows /\ y.status = "deleted" /\ y.claim = None /\ y.waits = {}
      /\ y.caller = row[r].caller
  BY <1>1, RowOf DEF AbsentRow, Rows, Statuses
<1>5. \A c \in Run : c # r =>
        row'[c] = IF c \in ChildrenOf(r) THEN [row[c] EXCEPT !.linked = FALSE] ELSE row[c]
  BY <1>3 DEF DeleteRuns
<1>6. row'[r] = y
  BY <1>3 DEF DeleteRuns
<1> HIDE DEF y
<1>7. ASSUME NEW c \in Run, c # r
      PROVE  /\ row'[c] \in Rows /\ row'[c].status = row[c].status /\ row'[c].claim = row[c].claim
             /\ row'[c].waits = row[c].waits /\ row'[c].caller = row[c].caller
             /\ row'[c].suspendedAt = row[c].suspendedAt
             /\ row[c].suspendedAt \in Nat
             /\ row'[c] = row[c] \/ row'[c] = [row[c] EXCEPT !.linked = FALSE]
  <2>1. row[c] \in Rows
    BY <1>1, RowOf
  <2>2. row'[c] = row[c] \/ row'[c] = [row[c] EXCEPT !.linked = FALSE]
    BY <1>5, <1>7
  <2> QED
    BY <2>1, <2>2 DEF Rows
<1>8. row' \in [Run -> Rows]
  <2>1. \A c \in Run : row'[c] \in Rows
    BY <1>4, <1>6, <1>7
  <2> QED
    BY <2>1 DEF DeleteRuns
<1>9. RowsGrow
  <2> SUFFICES ASSUME NEW c \in Run PROVE Grows(row[c], row'[c])
    BY DEF RowsGrow
  <2>1. CASE c = r
    BY <1>4, <1>6, <2>1 DEF Grows
  <2>2. CASE c # r
    <3>1. row'[c].status = row[c].status /\ row'[c].caller = row[c].caller
      BY <1>7, <2>2
    <3>2. row'[c].waits = row[c].waits /\ row'[c].suspendedAt = row[c].suspendedAt
      BY <1>7, <2>2
    <3>3. row[c].suspendedAt \in Nat
      BY <1>1, RowOf
    <3>4. row[c].suspendedAt <= row'[c].suspendedAt
      BY <3>2, <3>3
    <3> QED
      BY <3>1, <3>2, <3>4 DEF Grows
  <2> QED
    BY <2>1, <2>2
<1>10. RowsWell'
  <2>1. \A c \in Run : row'[c].status = "suspended" => row'[c].suspendedAt # 0
    <3> SUFFICES ASSUME NEW c \in Run, row'[c].status = "suspended"
                 PROVE  row'[c].suspendedAt # 0
      OBVIOUS
    <3>1. c # r
      BY <1>4, <1>6
    <3>2. row'[c].status = row[c].status /\ row'[c].suspendedAt = row[c].suspendedAt
      BY <1>7, <3>1
    <3>3. RowsWell
      BY <1>1
    <3> QED
      BY <3>2, <3>3 DEF RowsWell, Suspended
  <2>2. \A c \in Run : row'[c].caller = row[c].caller
    BY <1>4, <1>6, <1>7
  <2>3. row \in [Run -> Rows]
    BY <1>1 DEF TypeOK
  <2> QED
    BY <1>1, <1>8, <1>9, <2>1, <2>2, <2>3, RowsWellStays
<1>11. job[w] \in Jobs
  BY <1>1, JobOf
<1>12. /\ j \in Jobs /\ j.for = job[w].for /\ j.first = job[w].first /\ j.open = job[w].open
       /\ j.look = job[w].look /\ j.todo = job[w].todo
       /\ j.walk = job[w].walk /\ j.mode = job[w].mode /\ j.doomed = None
  BY <1>11 DEF Jobs
<1> HIDE DEF j
<1>13. pc'[w] = "busy" /\ job'[w] = j /\ closed' \in BOOLEAN /\ "busy" \in Steps
  BY <1>1 DEF TypeOK, Goto, Set, Steps
<1>14. j.open = {} /\ Hand(w)'
  BY <1>1, <1>12, <1>13, QueueHand DEF DeletingHand
<1>15. /\ \A q \in Run : row'[q].claim # None => row'[q].status = "claimed"
       /\ \A q \in Run : row'[q].waits \subseteq row[q].waits
       /\ \A q \in Run : row'[q].claim \in {w, None} \/ SameClaim(row[q], row'[q])
       /\ \A q \in Run : row'[q].claim # w
  <2> SUFFICES ASSUME NEW q \in Run
               PROVE  /\ row'[q].claim # None => row'[q].status = "claimed"
                      /\ row'[q].waits \subseteq row[q].waits
                      /\ row'[q].claim = None \/ SameClaim(row[q], row'[q])
                      /\ row'[q].claim # w
    OBVIOUS
  <2>1. CASE q = r
    BY <1>4, <1>6, <2>1, NobodyAssumption
  <2>2. CASE q # r
    <3>1. /\ row'[q].status = row[q].status /\ row'[q].claim = row[q].claim
          /\ row'[q].waits = row[q].waits /\ row'[q].suspendedAt = row[q].suspendedAt
      BY <1>7, <2>2
    <3>2. row[q].claim # None => row[q].status = "claimed"
      BY <1>1, RowOf
    <3> QED
      BY <1>2, <3>1, <3>2 DEF SameClaim
  <2> QED
    BY <2>1, <2>2
<1>16. j.for # None => pc[j.for] = "pass"
  BY <1>1, <1>12 DEF CalledFrom
<1> QED
  BY <1>1, <1>8, <1>9, <1>10, <1>12, <1>13, <1>14, <1>15, <1>16, Moved

\* A worker with nothing to do puts back, or fails, a run whose worker died.
LEMMA Recovers ==
  ASSUME Inv, NEW w \in Worker, NEW r \in Run, NEW x \in Rows, NEW j \in Jobs, pc[w] = "idle",
         Write(r, x), Grows(row[r], x), x.claim = None, x.caller = row[r].caller,
         x.waits \subseteq row[r].waits, x.status = "suspended" => x.suspendedAt # 0,
         Goto(w, "busy"), Set(w, j), closed' = closed,
         j.for = None, j.open = {}, Hand(w)'
  PROVE  Inv'
<1>1. \A q \in Run : row[q].claim # w
  BY Idle
<1>2. "busy" \in Steps
  BY DEF Steps
<1> QED
  BY <1>1, <1>2, MovedOne

LEMMA RecoverResumeStep ==
  ASSUME Inv, NEW w \in Worker, NEW r \in Run, RecoverResume(w, r)
  PROVE  Inv'
<1> DEFINE x == PutBack(r)
<1>1. /\ pc[w] = "idle" /\ TypeOK /\ Claimed(r) /\ row[r].suspendedAt # 0
      /\ Write(r, x) /\ Goto(w, "busy") /\ closed' = closed
  BY Idle DEF RecoverResume
<1>2. /\ x \in Rows /\ x.claim = None /\ x.status = "suspended" /\ x.caller = row[r].caller
      /\ x.waits = row[r].waits /\ x.suspendedAt = row[r].suspendedAt /\ Grows(row[r], x)
  BY <1>1, PutBackRow
<1>3. pc'[w] = "busy" /\ row[r].suspendedAt \in Nat
  BY <1>1, RowOf DEF TypeOK, Goto
<1> HIDE DEF x
<1>4. ASSUME Set(w, [NoJob EXCEPT !.queue = SuspendedFollowUps(r)]) PROVE Inv'
  <2> DEFINE q == SuspendedFollowUps(r)
             j == [NoJob EXCEPT !.queue = q]
  <2>1. q \in Seq(Run \cup {None})
    BY <1>1, FollowUpsAreRuns
  <2>2. Set(w, j)
    BY <1>4
  <2> HIDE DEF q
  <2>3. /\ j \in Jobs /\ j.for = None /\ j.open = {} /\ j.look = {} /\ j.todo = {}
        /\ j.walk = {} /\ j.mode = "abandon" /\ j.doomed = None
    BY <2>1, NoJobIsJob DEF Jobs, NoJob
  <2> HIDE DEF j
  <2>4. job'[w] = j
    BY <1>1, <2>2 DEF TypeOK, Set
  <2>5. Hand(w)'
    BY <1>3, <2>3, <2>4, QueueHand
  <2> QED
    BY <1>1, <1>2, <2>2, <2>3, <2>5, Recovers
<1>5. ASSUME Set(w, [NoJob EXCEPT !.mode = "cancel",
                       !.todo = {[run |-> r, status |-> "suspended", again |-> FALSE,
                                  suspendedAt |-> row[r].suspendedAt]}])
      PROVE  Inv'
  <2> DEFINE t == [run |-> r, status |-> "suspended", again |-> FALSE,
                   suspendedAt |-> row[r].suspendedAt]
             j == [NoJob EXCEPT !.mode = "cancel", !.todo = {t}]
  <2>1. t \in Reads /\ ~t.again /\ t.status = "suspended"
    BY <1>3 DEF Reads, Statuses
  <2>2. Set(w, j)
    BY <1>5
  <2> HIDE DEF t
  <2>3. /\ j \in Jobs /\ j.for = None /\ j.open = {} /\ j.look = {} /\ j.todo = {t}
        /\ j.walk = {} /\ j.mode = "cancel" /\ j.doomed = None
    BY <2>1, NoJobIsJob DEF Jobs, NoJob, Modes
  <2> HIDE DEF j
  <2>4. job'[w] = j
    BY <1>1, <2>2 DEF TypeOK, Set
  <2>5. Hand(w)'
    BY <1>3, <2>1, <2>3, <2>4, FailHand
  <2> QED
    BY <1>1, <1>2, <2>2, <2>3, <2>5, Recovers
<1> QED
  BY <1>4, <1>5 DEF RecoverResume

LEMMA RecoverFirstPassStep ==
  ASSUME Inv, NEW w \in Worker, NEW r \in Run, RecoverFirstPass(w, r)
  PROVE  Inv'
<1> DEFINE x == EndedAs(r, "failed")
           q == <<ParentOf(r)>>
           j == [NoJob EXCEPT !.walk = {r}, !.queue = q]
<1>1. /\ pc[w] = "idle" /\ TypeOK /\ Write(r, x) /\ Goto(w, "busy") /\ Set(w, j) /\ closed' = closed
  BY Idle DEF RecoverFirstPass
<1>2. /\ x \in Rows /\ x.claim = None /\ x.status = "failed" /\ x.caller = row[r].caller
      /\ x.waits = {} /\ Grows(row[r], x)
  BY <1>1, EndedRow
<1>3. q \in Seq(Run \cup {None})
  BY <1>1, FollowUpsAreRuns
<1> HIDE DEF x, q
<1>4. /\ j \in Jobs /\ j.for = None /\ j.open = {} /\ j.look = {} /\ j.todo = {}
      /\ j.walk = {r} /\ j.mode = "abandon" /\ j.doomed = None
  BY <1>3, NoJobIsJob DEF Jobs, NoJob
<1> HIDE DEF j
<1>5. job'[w] = j /\ pc'[w] = "busy" /\ row'[r] = x
  BY <1>1 DEF TypeOK, Set, Goto, Write
<1>6. Gone(r)'
  BY <1>2, <1>5 DEF Gone, Active, Claimed, Suspended
<1>7. Hand(w)'
  BY <1>4, <1>5, <1>6 DEF Hand, BusyHand
<1> QED
  BY <1>1, <1>2, <1>4, <1>7, Recovers

LEMMA ReturnStep ==
  ASSUME Inv, NEW w \in Worker, Return(w)
  PROVE  Inv'
<1> DEFINE v == job[w].for
           f == job[w].first
<1>1. /\ pc[w] = "busy" /\ TypeOK /\ RowsWell /\ HoldsOne /\ CalledFrom
      /\ row' = row /\ closed' = closed /\ Goto(w, "idle")
      /\ \A q \in Run : row[q].claim # w
  BY Busy DEF Return, AtQueue, Inv
<1>2. \A u \in Worker : /\ job[u] \in Jobs /\ job[u].open \subseteq Run
                        /\ job[u].for \in Worker \cup {None} /\ job[u].first \in Run \cup {None}
  BY <1>1, JobOf
<1>3. w # None /\ \A u \in Worker : job[u].for # w
  BY <1>1, NobodyAssumption DEF CalledFrom
<1>4. /\ job'[w] = NoJob
      /\ \A u \in Worker : u # w /\ ~(u = v /\ f # None) => job'[u] = job[u]
      /\ v \in Worker /\ v # w /\ f # None => job'[v] = [job[v] EXCEPT !.open = @ \cup {f}]
  BY DEF Return
<1>5. ASSUME v \in Worker, v # w, f # None
      PROVE  /\ pc[v] = "pass" /\ f \in Run
             /\ \E o \in SUBSET Run : job'[v] = [job[v] EXCEPT !.open = o]
             /\ job'[v] \in Jobs /\ job'[v].for = job[v].for /\ job'[v].first = job[v].first
             /\ job'[v].open = job[v].open \cup {f}
  <2> DEFINE o == job[v].open \cup {f}
  <2>1. f \in Run /\ o \in SUBSET Run /\ job[v] \in Jobs
    BY <1>2, <1>5
  <2>2. job'[v] = [job[v] EXCEPT !.open = o]
    BY <1>4, <1>5, <2>1 DEF Jobs
  <2>3. pc[v] = "pass"
    BY <1>1, <1>5, NobodyAssumption DEF CalledFrom
  <2>4. /\ \E n \in SUBSET Run : job'[v] = [job[v] EXCEPT !.open = n]
    BY <2>1, <2>2
  <2> HIDE DEF o, v, f
  <2>5. /\ job'[v] \in Jobs /\ job'[v].for = job[v].for /\ job'[v].first = job[v].first
        /\ job'[v].open = o
    BY <2>1, <2>2 DEF Jobs
  <2> QED
    BY <2>1, <2>3, <2>4, <2>5 DEF o
<1>6. \A u \in Worker : pc'[u] = IF u = w THEN "idle" ELSE pc[u]
  BY <1>1 DEF TypeOK, Goto
<1>7. TypeOK'
  <2>1. \A u \in Worker : job'[u] \in Jobs
    BY <1>2, <1>4, <1>5, NoJobIsJob
  <2>2. job' \in [Worker -> Jobs]
    BY <2>1 DEF Return
  <2>3. pc' \in [Worker -> Steps]
    BY <1>1 DEF TypeOK, Goto, Steps
  <2> QED
    BY <1>1, <2>2, <2>3 DEF TypeOK
<1>8. \A u \in Worker : u # w => job'[u].for = job[u].for /\ job'[u].first = job[u].first
  BY <1>4, <1>5
<1>9. CalledFrom'
  <2>1. job'[w].for = None
    BY <1>4 DEF NoJob
  <2> QED
    BY <2>1, <1>1, <1>2, <1>3, <1>6, <1>8 DEF CalledFrom
<1>10. RowsGrow
  BY <1>1 DEF RowsGrow, Grows, TypeOK, Rows
<1>11. RowsWell'
  BY <1>1 DEF RowsWell, Suspended
<1>12. NoNewTakes
  <2> SUFFICES ASSUME NEW p \in Run, NEW c \in Takes(row', job', p)
               PROVE  c \in Takes(row, job, p)
    BY DEF NoNewTakes
  <2>1. c \in Run
    BY DEF Takes
  <2>2. ASSUME NEW u \in Worker, row[p].claim = u, c \in job'[u].open
        PROVE  c \in Takes(row, job, p)
    <3>1. u # w
      BY <2>2, <1>1
    <3>2. CASE c \in job[u].open
      BY <3>2, <2>1, <2>2, TakesBy
    <3>3. CASE c \notin job[u].open
      <4>1. u = v /\ f # None
        BY <3>1, <3>3, <2>2, <1>4
      <4>2. c = f
        BY <4>1, <3>1, <3>3, <2>2, <1>5
      <4> QED
        BY <4>1, <4>2, <2>1, <2>2, TakesBy
    <3> QED
      BY <3>2, <3>3
  <2>3. ASSUME NEW u \in Worker, NEW z \in Worker, row[p].claim = u, job'[z].for = u, job'[z].first = c
        PROVE  c \in Takes(row, job, p)
    <3>1. z # w
      BY <2>3, <1>4, NobodyAssumption DEF NoJob
    <3>2. job[z].for = u /\ job[z].first = c
      BY <3>1, <2>3, <1>8
    <3> QED
      BY <3>2, <2>1, <2>3, TakesBy
  <2> QED
    BY <1>1, <2>1, <2>2, <2>3, TakesBy
<1>13. \A u \in Worker \ {w} : Untouched(u)
  <2> SUFFICES ASSUME NEW u \in Worker, u # w PROVE Untouched(u)
    OBVIOUS
  <2>1. pc'[u] = pc[u]
    BY <1>6
  <2>2. job'[u] = job[u] \/ (pc[u] = "pass" /\ \E o \in SUBSET Run : job'[u] = [job[u] EXCEPT !.open = o])
    BY <1>4, <1>5
  <2> QED
    BY <1>1, <2>1, <2>2 DEF Untouched
<1>14. Hand(w)'
  BY <1>4, <1>6 DEF Hand
<1> QED
  <2>1. {w} \in SUBSET Worker /\ \A u \in {w} : Hand(u)'
    BY <1>14 DEF Hand
  <2>2. \A u \in {w} : \A q \in Run : row'[q].claim = u =>
          \/ pc'[u] = "pass" /\ job'[u].run = q
          \/ pc'[u] = "failing" /\ job'[u].target = q
    BY <1>1
  <2> QED
    BY <2>1, <2>2, <1>7, <1>9, <1>10, <1>11, <1>12, <1>13, Preserves

LEMMA CrashStep ==
  ASSUME Inv, NEW S \in SUBSET Worker, Crash(S)
  PROVE  Inv'
<1>1. TypeOK /\ RowsWell /\ HoldsOne /\ CalledFrom
  BY DEF Inv
<1>2. /\ \A r \in Run : row'[r] = IF row[r].claim \in S THEN Unheld(r) ELSE row[r]
      /\ \A u \in Worker : pc'[u] = IF u \in S THEN "idle" ELSE pc[u]
      /\ \A u \in Worker : job'[u] = IF u \in S THEN NoJob ELSE job[u]
      /\ closed' = closed /\ Together(S)
  BY DEF Crash
<1>3. ASSUME NEW r \in Run
      PROVE  /\ row'[r] \in Rows /\ row'[r].claim = IF row[r].claim \in S THEN None ELSE row[r].claim
             /\ row'[r].status = row[r].status /\ row'[r].caller = row[r].caller
             /\ row'[r].waits = row[r].waits /\ row'[r].suspendedAt = row[r].suspendedAt
             /\ row[r].suspendedAt \in Nat
  <2>1. row[r] \in Rows /\ row[r].suspendedAt \in Nat
    BY <1>1, RowOf
  <2>2. CASE row[r].claim \in S
    <3>1. row'[r] = [row[r] EXCEPT !.claim = None]
      BY <1>2, <2>2 DEF Unheld
    <3> QED
      BY <2>1, <2>2, <3>1 DEF Rows
  <2>3. CASE row[r].claim \notin S
    <3>1. row'[r] = row[r]
      BY <1>2, <2>3
    <3> QED
      BY <2>1, <2>3, <3>1
  <2> QED
    BY <2>2, <2>3
<1>4. TypeOK'
  <2>1. \A r \in Run : row'[r].claim # None => row'[r].status = "claimed"
    BY <1>1, <1>3, RowOf
  <2>2. row' \in [Run -> Rows]
    <3>1. \A r \in Run : row'[r] \in Rows
      BY <1>3
    <3> QED
      BY <3>1 DEF Crash
  <2>3. pc' \in [Worker -> Steps] /\ job' \in [Worker -> Jobs]
    BY <1>1, NoJobIsJob DEF Crash, TypeOK, Steps
  <2> QED
    BY <1>1, <1>2, <2>1, <2>2, <2>3 DEF TypeOK
<1>5. RowsGrow
  <2> SUFFICES ASSUME NEW r \in Run PROVE Grows(row[r], row'[r])
    BY DEF RowsGrow
  <2>1. row[r].suspendedAt <= row'[r].suspendedAt
    BY <1>3
  <2> QED
    BY <2>1, <1>3 DEF Grows
<1>6. RowsWell'
  <2>1. row' \in [Run -> Rows] /\ row \in [Run -> Rows]
    BY <1>1, <1>4 DEF TypeOK
  <2>2. \A r \in Run : row'[r].status = "suspended" => row'[r].suspendedAt # 0
    BY <1>1, <1>3 DEF RowsWell, Suspended
  <2>3. \A r \in Run : row'[r].caller = row[r].caller
    BY <1>3
  <2> QED
    BY <1>1, <1>5, <2>1, <2>2, <2>3, RowsWellStays
<1>7. ASSUME NEW u \in Worker, NEW r \in Run, row'[r].claim = u
      PROVE  u \notin S /\ row[r].claim = u
  BY <1>3, <1>7, NobodyAssumption
<1>8. CalledFrom'
  <2> SUFFICES ASSUME NEW u \in Worker, job'[u].for # None
               PROVE  job'[u].for # u /\ pc'[job'[u].for] = "pass"
    BY DEF CalledFrom
  <2>1. u \notin S
    BY <1>2 DEF NoJob
  <2>2. job'[u].for = job[u].for /\ job[u].for \in Worker
    BY <2>1, <1>1, <1>2, JobOf
  <2>3. job[u].for # u /\ pc[job[u].for] = "pass" /\ job[u].for \notin S
    BY <2>1, <2>2, <1>1, <1>2 DEF CalledFrom, Together
  <2> QED
    BY <2>2, <2>3, <1>2
<1>9. NoNewTakes
  <2> SUFFICES ASSUME NEW p \in Run, NEW c \in Takes(row', job', p)
               PROVE  c \in Takes(row, job, p)
    BY DEF NoNewTakes
  <2>1. c \in Run
    BY DEF Takes
  <2>2. ASSUME NEW u \in Worker, row'[p].claim = u, c \in job'[u].open
        PROVE  c \in Takes(row, job, p)
    BY <2>1, <2>2, <1>2, <1>7, TakesBy
  <2>3. ASSUME NEW u \in Worker, NEW z \in Worker, row'[p].claim = u, job'[z].for = u, job'[z].first = c
        PROVE  c \in Takes(row, job, p)
    <3>1. z \notin S
      BY <2>3, <1>2, NobodyAssumption DEF NoJob
    <3> QED
      BY <3>1, <2>1, <2>3, <1>2, <1>7, TakesBy
  <2>4. c \in row'[p].waits => c \in row[p].waits
    BY <1>3
  <2> QED
    BY <2>1, <2>2, <2>3, <2>4, TakesBy
<1>10. \A u \in Worker \ S : Untouched(u)
  <2> SUFFICES ASSUME NEW u \in Worker, u \notin S PROVE Untouched(u)
    OBVIOUS
  <2> QED
    BY <1>2, <1>3, <1>7 DEF Untouched
<1>11. \A u \in S : Hand(u)'
  BY <1>2 DEF Hand
<1>12. \A u \in S : \A r \in Run :
         row'[r].claim = u => \/ pc'[u] = "pass" /\ job'[u].run = r
                              \/ pc'[u] = "failing" /\ job'[u].target = r
  BY <1>7
<1> QED
  BY <1>4, <1>5, <1>6, <1>8, <1>9, <1>10, <1>11, <1>12, Preserves

----------------------------------------------------------------------------
\* The invariant is inductive.

LEMMA InitInv == Init => Inv
<1> SUFFICES ASSUME Init PROVE Inv
  OBVIOUS
<1>1. AbsentRow \in Rows
  BY DEF AbsentRow, Rows, Statuses
<1>2. \A r \in Run : row[r] = AbsentRow
  BY DEF Init
<1>3. \A w \in Worker : pc[w] = "idle" /\ job[w] = NoJob
  BY DEF Init
<1>4. TypeOK
  BY <1>1, NoJobIsJob DEF Init, TypeOK, Steps, AbsentRow
<1>5. HoldsOne
  BY <1>2, NobodyAssumption DEF HoldsOne, AbsentRow
<1>6. RowsWell
  BY <1>2 DEF RowsWell, Suspended, AbsentRow
<1>7. CalledFrom
  BY <1>3 DEF CalledFrom, NoJob
<1>8. \A w \in Worker : Hand(w)
  BY <1>3 DEF Hand
<1> QED
  BY <1>4, <1>5, <1>6, <1>7, <1>8 DEF Inv

LEMMA ContinueStep ==
  ASSUME Inv, NEW w \in Worker, Continue(w)
  PROVE  Inv'
BY EndPassStep, LosePassStep, OutcomeNotReadBackStep, RefuseResumeStep, ClaimToFailStep,
   TakeOverStep, SettleFailedStep, ListDescendantsStep, ListChildrenStep, ReadRunStep,
   ReadCallerStep, LookAtStep, DeliverStep, RefuseResultStep, ListCallersStep, DeleteRunsStep,
   ReturnStep
   DEF Continue

LEMMA StutterStep ==
  ASSUME Inv, UNCHANGED vars
  PROVE  Inv'
<1>1. /\ row' = row /\ pc' = pc /\ job' = job
      /\ TypeOK' /\ HoldsOne' /\ RowsWell' /\ CalledFrom'
  BY DEF vars, Inv, TypeOK, HoldsOne, RowsWell, CalledFrom, Suspended
<1>2. ASSUME NEW w \in Worker PROVE Hand(w)'
  <2>1. Hand(w)
    BY DEF Inv
  <2>2. RowsGrow
    BY <1>1 DEF RowsGrow, Grows, TypeOK, Rows
  <2>3. NoNewTakes /\ Untouched(w)
    BY <1>1 DEF NoNewTakes, Untouched
  <2> QED
    BY <1>1, <2>1, <2>2, <2>3, HandStays DEF Inv
<1> QED
  BY <1>1, <1>2 DEF Inv

LEMMA NextStep == Inv /\ [Next]_vars => Inv'
<1> SUFFICES ASSUME Inv, [Next]_vars PROVE Inv'
  OBVIOUS
<1>1. ASSUME NEW w \in Worker, Continue(w) PROVE Inv'
  BY <1>1, ContinueStep
<1>2. ASSUME NEW w \in Worker, CloseThread(w) PROVE Inv'
  BY <1>2, CloseThreadStep
<1>3. ASSUME NEW w \in Worker, NEW r \in Run,
             \/ StartRun(w, r) \/ ResumeRun(w, r) \/ HoldEvent(w, r)
             \/ CancelRun(w, r) \/ FailUnresumable(w, r)
             \/ RecoverResume(w, r) \/ RecoverFirstPass(w, r)
             \/ PrepareDeletion(w, r)
      PROVE  Inv'
  BY <1>3, StartRunStep, ResumeRunStep, HoldEventStep, CancelRunStep, RecoverResumeStep,
     RecoverFirstPassStep, PrepareDeletionStep
<1>4. ASSUME NEW w \in Worker, NEW v \in Worker, NEW c \in Run, Call(w, v, c) PROVE Inv'
  BY <1>4, CallStep
<1>5. ASSUME NEW w \in Worker, NEW p \in Run, NEW c \in Run, LateCall(w, p, c) PROVE Inv'
  BY <1>5, LateCallStep
<1>6. ASSUME NEW S \in SUBSET Worker, Crash(S) PROVE Inv'
  BY <1>6, CrashStep
<1>7. CASE UNCHANGED vars
  BY <1>7, StutterStep
<1> QED
  BY <1>1, <1>2, <1>3, <1>4, <1>5, <1>6, <1>7 DEF Next

LEMMA Invariance == Spec => []Inv
BY InitInv, NextStep, PTL DEF Spec

----------------------------------------------------------------------------
\* The theorems.

\* The rows and the state of the workers keep their types, and only `idle` and
\* `running` runs hold a claim, however runs call each other (claimSuspended,
\* settle, recoverRun).
THEOREM TypeCorrect == Spec => []TypeOK
<1>1. Inv => TypeOK
  BY DEF Inv
<1> QED
  BY <1>1, Invariance, PTL

\* A pass is resumed with the result of a called run only on a suspension that waits
\* on it, and once it ended (deliver, findEndedChild).
THEOREM ResultsDeliveredOnce == Spec => []DeliveredOnce
<1>1. Inv => DeliveredOnce
  <2> SUFFICES ASSUME Inv, NEW w \in Worker, pc[w] = "pass", job[w].wait # None,
                      row[job[w].run].claim = w
               PROVE  job[w].wait \in row[job[w].run].waits /\ ~Active(job[w].wait)
    BY DEF DeliveredOnce
  <2>1. PassHand(w)
    BY InPass
  <2> QED
    BY <2>1 DEF PassHand, ResultWell, Gone
<1> QED
  BY <1>1, Invariance, PTL

\* What nothing waits on is not wanted.
LEMMA UnwantedIsNot ==
  ASSUME TypeOK, NEW c \in Run, Unwanted(c)
  PROVE  ~Wanted(c)
<1> SUFFICES ASSUME Wanted(c) PROVE FALSE
  OBVIOUS
<1>1. PICK p \in Run : p = row[c].caller
  BY RowOf DEF Unwanted
<1>2. Active(p) /\ c \notin Takes(row, job, p)
  BY <1>1 DEF Wanted, Unwanted
<1>3. row[p].claim \in Worker \cup {None}
  BY RowOf
<1>4. c \in row[p].waits \/ (row[p].claim # None /\ (c \in job[row[p].claim].open
        \/ \E v \in Worker : job[v].for = row[p].claim /\ job[v].first = c))
  BY <1>1 DEF Wanted
<1> QED
  BY <1>2, <1>3, <1>4, TakesBy

\* Only claiming a run it has read makes a busy worker fail it.
LEMMA OnlyClaims ==
  ASSUME TypeOK, Next, NEW w \in Worker, pc[w] = "busy", pc'[w] = "failing"
  PROVE  \E s \in job[w].todo : ClaimToFail(w, s) /\ job'[w].target = s.run
<1>1. ASSUME NEW u \in Worker, NEW k \in Steps, Goto(u, k) PROVE u = w /\ k = "failing"
  BY <1>1 DEF TypeOK, Goto
<1>2. {"idle", "pass", "busy", "listed", "caller", "deliver", "deleting"} \subseteq Steps
  BY DEF Steps
<1>3. ASSUME NEW u \in Worker, Continue(u)
      PROVE  \E s \in job[u].todo : ClaimToFail(u, s)
  <2>1. ~EndPass(u) /\ ~LosePass(u) /\ ~OutcomeNotReadBack(u) /\ ~RefuseResume(u)
    BY <1>1, <1>2 DEF EndPass, LosePass, OutcomeNotReadBack, RefuseResume
  <2>2. ~SettleFailed(u) /\ ~ListChildren(u) /\ ~ReadRun(u) /\ ~ReadCaller(u)
    BY <1>1, <1>2 DEF SettleFailed, ListChildren, ReadRun, ReadCaller
  <2>3. /\ \A r \in job[u].walk : ~ListDescendants(u, r)
        /\ \A c \in job[u].look : ~LookAt(u, c)
        /\ \A s \in job[u].todo : ~TakeOver(u, s)
    BY <1>1, <1>2 DEF ListDescendants, LookAt, TakeOver, Missed
  <2>4. ~Deliver(u)
    BY <1>1, <1>2 DEF Deliver
  <2>5. ~RefuseResult(u) /\ ~ListCallers(u) /\ ~DeleteRuns(u) /\ ~Return(u)
    BY <1>1, <1>2 DEF RefuseResult, ListCallers, DeleteRuns, Return
  <2> QED
    BY <1>3, <2>1, <2>2, <2>3, <2>4, <2>5 DEF Continue
<1>4. ASSUME NEW u \in Worker, NEW r \in Run
      PROVE  /\ ~CloseThread(u) /\ ~StartRun(u, r) /\ ~ResumeRun(u, r) /\ ~HoldEvent(u, r)
             /\ ~CancelRun(u, r) /\ ~FailUnresumable(u, r) /\ ~RecoverResume(u, r)
             /\ ~RecoverFirstPass(u, r) /\ ~PrepareDeletion(u, r)
  <2>1. ~CloseThread(u) /\ ~StartRun(u, r) /\ ~ResumeRun(u, r) /\ ~HoldEvent(u, r)
    BY <1>1, <1>2 DEF CloseThread, StartRun, ResumeRun, HoldEvent
  <2>2. /\ ~CancelRun(u, r) /\ ~FailUnresumable(u, r) /\ ~RecoverResume(u, r)
        /\ ~RecoverFirstPass(u, r) /\ ~PrepareDeletion(u, r)
    BY <1>1, <1>2 DEF CancelRun, FailUnresumable, RecoverResume, RecoverFirstPass, PrepareDeletion
  <2> QED
    BY <2>1, <2>2
<1>5. ASSUME NEW u \in Worker PROVE ~CloseThread(u)
  BY <1>1, <1>2, <1>5 DEF CloseThread
<1>6. ASSUME NEW v \in Worker, NEW p \in Run, NEW c \in Run
      PROVE  ~LateCall(v, p, c) /\ \A u \in Worker : ~Call(u, v, c)
  BY <1>1, <1>2 DEF LateCall, Call
<1>7. ASSUME NEW S \in SUBSET Worker PROVE ~Crash(S)
  BY DEF Crash
<1>8. PICK u \in Worker : Continue(u)
  BY <1>4, <1>5, <1>6, <1>7 DEF Next
<1>9. PICK s \in job[u].todo : ClaimToFail(u, s)
  BY <1>3, <1>8
<1>10. ~StillOn(s.run, s.suspendedAt) => FALSE
  BY <1>1, <1>2, <1>9 DEF ClaimToFail, Missed
<1>11. Goto(u, "failing") /\ Set(u, [job[u] EXCEPT !.todo = @ \ {s}, !.target = s.run])
  BY <1>9, <1>10 DEF ClaimToFail
<1>12. u = w
  BY <1>1, <1>11 DEF Steps
<1>13. job[w] \in Jobs /\ job'[w] = [job[w] EXCEPT !.todo = @ \ {s}, !.target = s.run]
  BY <1>11, <1>12 DEF TypeOK, Set
<1>14. job'[w].target = s.run
  BY <1>13 DEF Jobs
<1> QED
  BY <1>9, <1>12, <1>14

\* Reconciling never claims, to cancel it, a called run whose result its caller may
\* still take (cancelAbandonedRuns, isWaitedOnBy).
THEOREM WantedAreKept == Spec => WantedRunsKept
<1> DEFINE Kept == \A w \in Worker : \A c \in Run :
       /\ pc[w] = "busy" /\ pc'[w] = "failing" /\ job'[w].target = c
       /\ job[w].mode = "abandon"
       /\ row[c].caller \notin {None, job[w].doomed}
       => ~Wanted(c)
<1>1. Inv /\ [Next]_vars => [Kept]_vars
  <2> SUFFICES ASSUME Inv, Next, NEW w \in Worker, NEW c \in Run,
                      pc[w] = "busy", pc'[w] = "failing", job'[w].target = c,
                      job[w].mode = "abandon", row[c].caller \notin {None, job[w].doomed}
               PROVE  ~Wanted(c)
    OBVIOUS
  <2>1. TypeOK /\ BusyHand(w)
    BY Busy
  <2>2. PICK s \in job[w].todo : s.run = c
    BY <2>1, OnlyClaims
  <2>3. MayFail(w, s)
    BY <2>1 DEF BusyHand
  <2>4. Unwanted(c)
    BY <2>2, <2>3 DEF MayFail, CanBeFailed
  <2> QED
    BY <2>1, <2>4, UnwantedIsNot
<1> QED
  BY <1>1, Invariance, PTL DEF Spec, WantedRunsKept
============================================================================
