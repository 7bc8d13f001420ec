------------------- MODULE WorkflowCallStackDebts_proofs -------------------
(***************************************************************************)
(* What workers owe to runs: theorems that nothing is left undone once no  *)
(* worker has anything left to do, whatever runs, calls and workers there  *)
(* are, as long as no thread is closed, no workflow deleted and outcomes   *)
(* are read back.                                                          *)
(***************************************************************************)
EXTENDS WorkflowCallStack_proofs

----------------------------------------------------------------------------
\* Who called whom.

\* Nothing is deleted: `parentRun` names the caller as long as there is one, and a
\* run waits on runs it called.
RowsLinked ==
  \A r \in Run :
    /\ row[r].status # "deleted"
    /\ row[r].linked <=> row[r].caller # None
    /\ row[r].status = "absent" => row[r].caller = None
    /\ \A c \in row[r].waits : row[c].caller = r

\* A pass is told of runs that its run called.
JobLinked(w) ==
  LET u == job[w].for
      r == job[w].run IN
  /\ pc[w] = "pass" => \A c \in job[w].open : row[c].caller = r
  /\ u # None /\ job[w].first # None => row[job[w].first].caller = job[u].run
  /\ u # None /\ pc[w] = "pass" /\ job[w].suspendedAt = 0 => row[r].caller = job[u].run

----------------------------------------------------------------------------
\* What a worker at step k with job j will do, given the table.

Queued(j) == {j.queue[i] : i \in DOMAIN j.queue}

Over(rows, r) == rows[r].status \in {"finished", "failed", "deleted"}

\* A queue is a run and its caller at most, the first of which ended: no result is
\* delivered, and no process dies, while another run is in the queue.
QueueWell(rows, k, j) ==
  /\ \/ j.queue = <<>>
     \/ \E r \in Run \cup {None} : j.queue = <<r>>
     \/ \E e \in Run, r \in Run \cup {None} : j.queue = <<e, r>> /\ Over(rows, e)
  /\ k \in {"idle", "pass", "caller", "deliver"} => j.queue = <<>>
  /\ j.look # {} => j.queue = <<>>
  /\ j.mode \in {"refuse", "cancel"} => j.queue = <<>>
  /\ k = "listed" /\ j.queue # <<>> =>
       Over(rows, j.run) /\ \E r \in Run \cup {None} : j.queue = <<r>>

\* No thread is closed and no workflow deleted.
Calm(k, j) == j.mode # "close" /\ j.doomed = None /\ k # "deleting"

\* It will read run r.
WillRead(k, j, r) == r \in Queued(j) \/ (k = "listed" /\ j.run = r)

\* It read run r to fail it, and r is on the suspension it was read on.
ReadToFail(rows, j, r) ==
  /\ rows[r].status = "suspended"
  /\ \E s \in j.todo : s.run = r /\ s.status = "suspended" /\ s.suspendedAt = rows[r].suspendedAt

\* It will claim run r to fail it, unless somebody else claims it first.
WillFail(rows, k, j, r) == k \in {"busy", "failing"} /\ ReadToFail(rows, j, r)

\* It reconciles run r, which is on the suspension it was read on.
ReadAsIs(rows, j, r) ==
  j.run = r /\ rows[r].status = "suspended" /\ j.suspendedAt = rows[r].suspendedAt

\* Run p waits on run c, which ended: p is delivered that result, or another, or fails.
OwesResult(rows, k, j, p, c) ==
  \/ WillRead(k, j, p)
  \/ WillFail(rows, k, j, p)
  \/ ReadAsIs(rows, j, p) /\ k = "deliver"
  \/ ReadAsIs(rows, j, p) /\ k \in {"caller", "busy", "failing"} /\ c \in j.look

\* Nothing waits on run c, which was called by run p: c is cancelled, or p is first.
OwesCancel(rows, k, j, p, c) ==
  \/ p \in Queued(j)
  \/ p \in j.walk
  \/ WillFail(rows, k, j, p)
  \/ WillRead(k, j, c)
  \/ WillFail(rows, k, j, c)
  \/ k = "caller" /\ ReadAsIs(rows, j, c)
  \/ k = "listed" /\ j.run = p /\ ReadToFail(rows, j, c)
  \/ k = "caller" /\ ReadAsIs(rows, j, p) /\ c \notin j.look /\ ReadToFail(rows, j, c)

ResultDue(rows, p, c) ==
  rows[p].status = "suspended" /\ c \in rows[p].waits /\ rows[c].status \in {"finished", "failed"}

CancelDue(rows, p, c) ==
  /\ rows[c].status = "suspended" /\ rows[c].caller = p
  /\ \/ rows[p].status \in {"finished", "failed"}
     \/ rows[p].status = "suspended" /\ c \notin rows[p].waits

----------------------------------------------------------------------------
\* The inductive invariant: what is due is owed by somebody.

Debts ==
  \A p, c \in Run :
    /\ ResultDue(row, p, c) => \E u \in Worker : OwesResult(row, pc[u], job[u], p, c)
    /\ CancelDue(row, p, c) => \E u \in Worker : OwesCancel(row, pc[u], job[u], p, c)

Owing ==
  /\ RowsLinked
  /\ \A w \in Worker : JobLinked(w)
  /\ \A w \in Worker : QueueWell(row, pc[w], job[w]) /\ Calm(pc[w], job[w])
  /\ Debts

----------------------------------------------------------------------------
\* Queues.

LEMMA Queues ==
  ASSUME NEW j
  PROVE  /\ j.queue = <<>> => Queued(j) = {}
         /\ \A r : j.queue = <<r>> => Queued(j) = {r}
         /\ \A e, r : j.queue = <<e, r>> => Queued(j) = {e, r}
BY DEF Queued

LEMMA QueueEnds ==
  /\ \A r \in Run \cup {None} :
       /\ Head(<<r>>) = r /\ Tail(<<r>>) = <<>> /\ <<r>> # <<>>
       /\ <<>> \o <<r>> = <<r>>
       /\ \A e \in Run : /\ Head(<<e, r>>) = e /\ Tail(<<e, r>>) = <<r>> /\ <<e, r>> # <<>>
                         /\ <<>> \o <<e, r>> = <<e, r>>
  /\ <<>> \o <<>> = <<>>
OBVIOUS

----------------------------------------------------------------------------
\* A step that writes run x, or none, and is one of the workers S.

\* What others look at of a run that is not written.
SameRow(r) ==
  /\ row'[r].status = row[r].status /\ row'[r].waits = row[r].waits
  /\ row'[r].suspendedAt = row[r].suspendedAt
  /\ row'[r].caller = row[r].caller /\ row'[r].linked = row[r].linked

\* What a worker that does not move goes on with.
SameHand(u) ==
  /\ pc'[u] = pc[u]
  /\ job'[u].run = job[u].run /\ job'[u].suspendedAt = job[u].suspendedAt
  /\ job'[u].queue = job[u].queue /\ job'[u].look = job[u].look
  /\ job'[u].todo = job[u].todo /\ job'[u].walk = job[u].walk
  /\ job'[u].mode = job[u].mode /\ job'[u].doomed = job[u].doomed

\* The run that is written did not end before; it was created, or keeps its caller.
RowFits(x) ==
  /\ ~Over(row, x)
  /\ row'[x].status \notin {"absent", "deleted"}
  /\ row'[x].linked <=> row'[x].caller # None
  /\ row[x].status = "absent" \/ row'[x].caller = row[x].caller
  /\ \A c \in row'[x].waits : row[c].caller = x

\* What worker w owed between other runs, it still owes at step k with job j.
Keeps(w, k, j, x) ==
  \A p, c \in Run \ {x} :
    /\ ResultDue(row, p, c) /\ OwesResult(row, pc[w], job[w], p, c) => OwesResult(row', k, j, p, c)
    /\ CancelDue(row, p, c) /\ OwesCancel(row, pc[w], job[w], p, c) => OwesCancel(row', k, j, p, c)

\* What is due because run x was written, is owed at step k with job j.
Pays(k, j, x) ==
  \A p, c \in Run :
    x \in {p, c} =>
      /\ ResultDue(row', p, c) => OwesResult(row', k, j, p, c)
      /\ CancelDue(row', p, c) => OwesCancel(row', k, j, p, c)

\* The same debts, of runs and workers that stay as they are.
LEMMA SameDebts ==
  ASSUME NEW p \in Run, NEW c \in Run, SameRow(p), SameRow(c)
  PROVE  /\ ResultDue(row', p, c) <=> ResultDue(row, p, c)
         /\ CancelDue(row', p, c) <=> CancelDue(row, p, c)
         /\ \A k, j : OwesResult(row', k, j, p, c) <=> OwesResult(row, k, j, p, c)
         /\ \A k, j : OwesCancel(row', k, j, p, c) <=> OwesCancel(row, k, j, p, c)
BY DEF SameRow, ResultDue, CancelDue, OwesResult, OwesCancel, WillRead, WillFail, ReadToFail, ReadAsIs

LEMMA SameOwed ==
  ASSUME NEW p \in Run, NEW c \in Run, NEW rows, NEW u \in Worker, SameHand(u)
  PROVE  /\ OwesResult(rows, pc[u], job[u], p, c) => OwesResult(rows, pc'[u], job'[u], p, c)
         /\ OwesCancel(rows, pc[u], job[u], p, c) => OwesCancel(rows, pc'[u], job'[u], p, c)
BY DEF SameHand, OwesResult, OwesCancel, WillRead, WillFail, ReadToFail, ReadAsIs, Queued

\* An ended run stays so.
LEMMA OverStays ==
  ASSUME NEW x \in Run \cup {None}, \A r \in Run \ {x} : SameRow(r), x # None => RowFits(x)
  PROVE  \A r \in Run : Over(row, r) => Over(row', r)
<1> SUFFICES ASSUME NEW r \in Run, Over(row, r) PROVE Over(row', r)
  OBVIOUS
<1>1. r # None
  BY NobodyAssumption
<1>2. r # x
  BY <1>1 DEF RowFits
<1>3. SameRow(r)
  BY <1>2
<1> QED
  BY <1>3 DEF SameRow, Over

LEMMA QueueStays ==
  ASSUME TypeOK, NEW u \in Worker, SameHand(u), \A r \in Run : Over(row, r) => Over(row', r),
         QueueWell(row, pc[u], job[u]), Calm(pc[u], job[u]), pc[u] = "listed" => job[u].run \in Run
  PROVE  QueueWell(row', pc'[u], job'[u]) /\ Calm(pc'[u], job'[u])
BY DEF SameHand, QueueWell, Calm

\* Who called whom stays.
LEMMA LinkedStays ==
  ASSUME TypeOK, TypeOK', RowsLinked, NEW x \in Run \cup {None},
         \A r \in Run \ {x} : SameRow(r), x # None => RowFits(x)
  PROVE  /\ RowsLinked'
         /\ \A r \in Run : row[r].caller # None => row'[r].caller = row[r].caller
<1>1. \A r \in Run : r # None /\ row[r].waits \subseteq Run /\ row[r].caller \in Run \cup {None}
  BY RowOf, NobodyAssumption
<1>2. ASSUME NEW r \in Run, row[r].caller # None PROVE row'[r].caller = row[r].caller
  <2>1. CASE r = x
    <3>1. row[r].status # "absent" /\ RowFits(r)
      BY <1>1, <1>2, <2>1 DEF RowsLinked
    <3> QED
      BY <3>1 DEF RowFits
  <2>2. CASE r # x
    BY <2>2 DEF SameRow
  <2> QED
    BY <2>1, <2>2
<1>3. ASSUME NEW r \in Run, NEW c \in row'[r].waits PROVE row'[c].caller = r
  <2>1. c \in Run /\ row[c].caller = r
    <3>1. CASE r = x
      <4>1. RowFits(r)
        BY <1>1, <3>1
      <4>2. row[c].caller = r
        BY <3>1, <4>1 DEF RowFits
      <4>3. row'[r].waits \subseteq Run
        BY DEF TypeOK, Rows
      <4> QED
        BY <4>2, <4>3
    <3>2. CASE r # x
      <4>1. c \in row[r].waits
        BY <3>2 DEF SameRow
      <4> QED
        BY <4>1, <1>1 DEF RowsLinked
    <3> QED
      BY <3>1, <3>2
  <2> QED
    BY <1>1, <1>2, <2>1
<1>4. ASSUME NEW r \in Run
      PROVE  /\ row'[r].status # "deleted"
             /\ row'[r].linked <=> row'[r].caller # None
             /\ row'[r].status = "absent" => row'[r].caller = None
  <2>1. CASE r = x
    <3>1. RowFits(r)
      BY <1>1, <2>1
    <3> QED
      BY <3>1 DEF RowFits
  <2>2. CASE r # x
    BY <2>2 DEF SameRow, RowsLinked
  <2> QED
    BY <2>1, <2>2
<1> QED
  <2>1. \A r \in Run : \A c \in row'[r].waits : row'[c].caller = r
    BY <1>3
  <2> QED
    BY <1>2, <1>4, <2>1 DEF RowsLinked

\* The debts of a step.
LEMMA DebtsStay ==
  ASSUME Debts, NEW S \in SUBSET Worker, NEW x \in Run \cup {None},
         \A r \in Run \ {x} : SameRow(r),
         \A u \in Worker \ S : SameHand(u),
         \A u \in S : Keeps(u, pc'[u], job'[u], x),
         x # None => \E u \in Worker : Pays(pc'[u], job'[u], x)
  PROVE  Debts'
<1> SUFFICES ASSUME NEW p \in Run, NEW c \in Run
             PROVE  /\ ResultDue(row', p, c) => \E u \in Worker : OwesResult(row', pc'[u], job'[u], p, c)
                    /\ CancelDue(row', p, c) => \E u \in Worker : OwesCancel(row', pc'[u], job'[u], p, c)
  BY DEF Debts
<1>1. p # None /\ c # None
  BY NobodyAssumption
<1>2. CASE x \in {p, c}
  BY <1>1, <1>2 DEF Pays
<1>3. CASE x \notin {p, c}
  <2>1. SameRow(p) /\ SameRow(c) /\ p \in Run \ {x} /\ c \in Run \ {x}
    BY <1>3
  <2>2. /\ ResultDue(row', p, c) <=> ResultDue(row, p, c)
        /\ CancelDue(row', p, c) <=> CancelDue(row, p, c)
        /\ \A k, j : OwesResult(row', k, j, p, c) <=> OwesResult(row, k, j, p, c)
        /\ \A k, j : OwesCancel(row', k, j, p, c) <=> OwesCancel(row, k, j, p, c)
    BY <2>1, SameDebts
  <2>3. ASSUME ResultDue(row, p, c) PROVE \E u \in Worker : OwesResult(row', pc'[u], job'[u], p, c)
    <3>1. PICK u \in Worker : OwesResult(row, pc[u], job[u], p, c)
      BY <2>3 DEF Debts
    <3>2. CASE u \in S
      <4>1. Keeps(u, pc'[u], job'[u], x)
        BY <3>2
      <4>2. OwesResult(row', pc'[u], job'[u], p, c)
        BY <4>1, <2>1, <2>3, <3>1 DEF Keeps
      <4> QED
        BY <4>2
    <3>3. CASE u \notin S
      <4>1. SameHand(u)
        BY <3>3
      <4>2. OwesResult(row, pc'[u], job'[u], p, c)
        BY <4>1, <3>1, SameOwed
      <4> QED
        BY <4>2, <2>2
    <3> QED
      BY <3>2, <3>3
  <2>4. ASSUME CancelDue(row, p, c) PROVE \E u \in Worker : OwesCancel(row', pc'[u], job'[u], p, c)
    <3>1. PICK u \in Worker : OwesCancel(row, pc[u], job[u], p, c)
      BY <2>4 DEF Debts
    <3>2. CASE u \in S
      <4>1. Keeps(u, pc'[u], job'[u], x)
        BY <3>2
      <4>2. OwesCancel(row', pc'[u], job'[u], p, c)
        BY <4>1, <2>1, <2>4, <3>1 DEF Keeps
      <4> QED
        BY <4>2
    <3>3. CASE u \notin S
      <4>1. SameHand(u)
        BY <3>3
      <4>2. OwesCancel(row, pc'[u], job'[u], p, c)
        BY <4>1, <3>1, SameOwed
      <4> QED
        BY <4>2, <2>2
    <3> QED
      BY <3>2, <3>3
  <2> QED
    BY <2>2, <2>3, <2>4
<1> QED
  BY <1>2, <1>3

\* Who is told of which calls.
LEMMA JobLinkedStays ==
  ASSUME Inv, Inv', NEW w \in Worker, JobLinked(w),
         \A r \in Run : row[r].caller # None => row'[r].caller = row[r].caller,
         \A u \in Worker : pc[u] = "pass" /\ pc'[u] = "pass" => job'[u].run = job[u].run,
         pc'[w] = "pass" => /\ pc[w] = "pass" /\ job'[w].suspendedAt = job[w].suspendedAt
                            /\ job'[w].open \subseteq job[w].open,
         job'[w].for # None => job'[w].for = job[w].for /\ job'[w].first \in {None, job[w].first}
  PROVE  JobLinked(w)'
<1>1. TypeOK /\ CalledFrom /\ CalledFrom' /\ Hand(w)
  BY DEF Inv
<1>2. /\ job[w].run \in Run \cup {None} /\ job[w].open \subseteq Run
      /\ job[w].for \in Worker \cup {None} /\ job[w].first \in Run \cup {None}
  BY <1>1, JobOf
<1>3. ASSUME pc'[w] = "pass" PROVE \A c \in job'[w].open : row'[c].caller = job'[w].run
  <2>1. job[w].run # None /\ job'[w].run = job[w].run
    BY <1>1, <1>3 DEF Hand, PassHand
  <2>2. \A c \in job'[w].open : row[c].caller = job[w].run
    BY <1>3 DEF JobLinked
  <2> QED
    BY <1>2, <1>3, <2>1, <2>2
<1>4. ASSUME job'[w].for # None
      PROVE  /\ job'[w].first # None => row'[job'[w].first].caller = job'[job'[w].for].run
             /\ pc'[w] = "pass" /\ job'[w].suspendedAt = 0 => row'[job'[w].run].caller = job'[job'[w].for].run
  <2>1. job'[w].for = job[w].for
    BY <1>4
  <2>2. PICK u \in Worker : u = job[w].for
    BY <1>2, <1>4, <2>1
  <2>3. pc[u] = "pass" /\ pc'[u] = "pass"
    BY <1>1, <1>4, <2>1, <2>2 DEF CalledFrom
  <2>4. job'[u].run = job[u].run /\ job[u].run \in Run
    BY <2>3, InPass
  <2>5. job[u].run # None
    BY <2>4, NobodyAssumption
  <2>6. ASSUME job'[w].first # None PROVE row'[job'[w].first].caller = job'[u].run
    <3>1. job'[w].first = job[w].first /\ job[w].first \in Run
      BY <1>2, <1>4, <2>6
    <3>2. row[job[w].first].caller = job[u].run
      BY <3>1, <1>4, <2>1, <2>2, <2>6 DEF JobLinked
    <3> QED
      BY <3>1, <3>2, <2>4, <2>5
  <2>7. ASSUME pc'[w] = "pass", job'[w].suspendedAt = 0 PROVE row'[job'[w].run].caller = job'[u].run
    <3>1. pc[w] = "pass" /\ job[w].suspendedAt = 0 /\ job'[w].run = job[w].run
      BY <2>7
    <3>2. job[w].run \in Run
      BY <3>1, InPass
    <3>3. row[job[w].run].caller = job[u].run
      BY <3>1, <1>4, <2>1, <2>2 DEF JobLinked
    <3> QED
      BY <3>1, <3>2, <3>3, <2>4, <2>5
  <2> QED
    BY <2>1, <2>2, <2>6, <2>7
<1> QED
  BY <1>3, <1>4 DEF JobLinked


----------------------------------------------------------------------------
\* What a step of one worker has to pay.

\* A worker that is idle, or in a pass, owes nothing.
LEMMA NoDebts ==
  ASSUME Inv, Owing, NEW w \in Worker, pc[w] \in {"idle", "pass"}, NEW k, NEW j, NEW x
  PROVE  Keeps(w, k, j, x)
<1>1. job[w].queue = <<>>
  BY DEF Owing, QueueWell
<1>2. job[w].look = {} /\ job[w].todo = {} /\ job[w].walk = {}
  BY DEF Inv, Hand, PassHand, NoJob
<1>3. Queued(job[w]) = {}
  BY <1>1, Queues
<1>4. \A p, c \in Run : /\ ~OwesResult(row, pc[w], job[w], p, c)
                        /\ ~OwesCancel(row, pc[w], job[w], p, c)
  BY <1>2, <1>3 DEF OwesResult, OwesCancel, WillRead, WillFail, ReadToFail
<1> QED
  BY <1>4 DEF Keeps

\* Nothing is due of a run that is claimed.
LEMMA ClaimedPays ==
  ASSUME NEW x \in Run, row'[x].status = "claimed", NEW k, NEW j
  PROVE  Pays(k, j, x)
BY DEF Pays, ResultDue, CancelDue

\* A run that is left suspended is read again, or failed.
LEMMA SuspendedPays ==
  ASSUME NEW x \in Run, row'[x].status = "suspended", NEW k, NEW j,
         x \in Queued(j) \/ WillFail(row', k, j, x)
  PROVE  Pays(k, j, x)
<1> SUFFICES ASSUME NEW p \in Run, NEW c \in Run, x \in {p, c}
             PROVE  /\ ResultDue(row', p, c) => OwesResult(row', k, j, p, c)
                    /\ CancelDue(row', p, c) => OwesCancel(row', k, j, p, c)
  BY DEF Pays
<1>1. CASE x = c
  <2>1. ~ResultDue(row', p, c)
    BY <1>1 DEF ResultDue
  <2>2. OwesCancel(row', k, j, p, c)
    BY <1>1 DEF OwesCancel, WillRead
  <2> QED
    BY <2>1, <2>2
<1>2. CASE x = p
  BY <1>2 DEF OwesResult, OwesCancel, WillRead
<1> QED
  BY <1>1, <1>2

\* The callees of a run that ended are cancelled, and a caller that waits on it is
\* reconciled.
LEMMA EndedPays ==
  ASSUME NEW x \in Run, row'[x].status \in {"finished", "failed"}, NEW k, NEW j,
         x \in Queued(j) \/ x \in j.walk,
         \A p \in Run : row'[p].status = "suspended" /\ x \in row'[p].waits => p \in Queued(j)
  PROVE  Pays(k, j, x)
<1> SUFFICES ASSUME NEW p \in Run, NEW c \in Run, x \in {p, c}
             PROVE  /\ ResultDue(row', p, c) => OwesResult(row', k, j, p, c)
                    /\ CancelDue(row', p, c) => OwesCancel(row', k, j, p, c)
  BY DEF Pays
<1>1. ResultDue(row', p, c) => x = c /\ p \in Queued(j)
  BY DEF ResultDue
<1>2. CancelDue(row', p, c) => x = p
  BY DEF CancelDue
<1> QED
  BY <1>1, <1>2 DEF OwesResult, OwesCancel, WillRead

\* A caller that waits on a run is its `parentRun`.
LEMMA WaitingIsParent ==
  ASSUME TypeOK, RowsLinked, NEW x \in Run, \A r \in Run \ {x} : SameRow(r),
         row'[x].status # "suspended", NEW p \in Run,
         row'[p].status = "suspended", x \in row'[p].waits
  PROVE  p = ParentOf(x) /\ row[p].status = "suspended" /\ x \in row[p].waits /\ row[x].caller = p
<1>1. p # x
  OBVIOUS
<1>2. row[p].status = "suspended" /\ x \in row[p].waits
  BY <1>1 DEF SameRow
<1>3. row[x].caller = p /\ p # None
  BY <1>2, NobodyAssumption DEF RowsLinked
<1>4. row[x].linked
  BY <1>3 DEF RowsLinked
<1> QED
  BY <1>2, <1>3, <1>4 DEF ParentOf

\* The step of one worker.
LEMMA OneWorker ==
  ASSUME Inv, Inv', Owing, NEW w \in Worker, NEW x \in Run \cup {None},
         \A r \in Run \ {x} : SameRow(r), x # None => RowFits(x),
         \A u \in Worker \ {w} : SameHand(u),
         \A u \in Worker : JobLinked(u)',
         QueueWell(row', pc'[w], job'[w]), Calm(pc'[w], job'[w]),
         Keeps(w, pc'[w], job'[w], x), x # None => Pays(pc'[w], job'[w], x)
  PROVE  Owing'
<1>1. TypeOK /\ TypeOK' /\ RowsLinked /\ Debts
  BY DEF Inv, Owing
<1>2. RowsLinked'
  BY <1>1, LinkedStays
<1>3. Debts'
  <2>1. {w} \in SUBSET Worker
    OBVIOUS
  <2>2. \A u \in {w} : Keeps(u, pc'[u], job'[u], x)
    OBVIOUS
  <2>3. x # None => \E u \in Worker : Pays(pc'[u], job'[u], x)
    OBVIOUS
  <2> HIDE DEF Keeps, Pays
  <2> QED
    BY <1>1, <2>1, <2>2, <2>3, DebtsStay
<1>4. \A r \in Run : Over(row, r) => Over(row', r)
  BY OverStays
<1>5. ASSUME NEW u \in Worker PROVE QueueWell(row', pc'[u], job'[u]) /\ Calm(pc'[u], job'[u])
  <2>1. CASE u = w
    BY <2>1
  <2>2. CASE u # w
    <3>1. SameHand(u)
      BY <2>2
    <3>2. pc[u] = "listed" => job[u].run \in Run
      BY <1>1, JobOf DEF Inv, Hand, ListedHand, ReconcileHand
    <3>3. QueueWell(row, pc[u], job[u]) /\ Calm(pc[u], job[u])
      BY DEF Owing
    <3> QED
      BY <1>1, <1>4, <3>1, <3>2, <3>3, QueueStays
  <2> QED
    BY <2>1, <2>2
<1>6. /\ \A u \in Worker : QueueWell(row', pc'[u], job'[u]) /\ Calm(pc'[u], job'[u])
  BY <1>5
<1> QED
  BY <1>2, <1>3, <1>6 DEF Owing


\* A worker that is not in a pass moves, and nobody else does.
LEMMA Alone ==
  ASSUME Inv, Inv', Owing, NEW w \in Worker, NEW k, NEW j, NEW x \in Run \cup {None},
         pc[w] # "pass", Goto(w, k), Set(w, j),
         \A r \in Run \ {x} : SameRow(r), x # None => RowFits(x),
         \/ JobLinked(w)'
         \/ k # "pass" /\ (j.for = None \/ (j.for = job[w].for /\ j.first = job[w].first)),
         QueueWell(row', k, j), Calm(k, j),
         Keeps(w, k, j, x), x # None => Pays(k, j, x)
  PROVE  Owing'
<1>1. TypeOK /\ TypeOK' /\ RowsLinked
  BY DEF Inv, Owing
<1>2. pc'[w] = k /\ job'[w] = j
  BY <1>1 DEF TypeOK, Goto, Set
<1>3. \A u \in Worker \ {w} : pc'[u] = pc[u] /\ job'[u] = job[u]
  BY <1>1 DEF TypeOK, Goto, Set
<1>4. \A u \in Worker \ {w} : SameHand(u)
  BY <1>3 DEF SameHand
<1>5. \A r \in Run : row[r].caller # None => row'[r].caller = row[r].caller
  BY <1>1, LinkedStays
<1>6. \A u \in Worker : pc[u] = "pass" /\ pc'[u] = "pass" => job'[u].run = job[u].run
  BY <1>3
<1>7. ASSUME NEW u \in Worker PROVE JobLinked(u)'
  <2>1. JobLinked(u)
    BY DEF Owing
  <2>2. CASE u # w
    <3>1. pc'[u] = pc[u] /\ job'[u] = job[u]
      BY <1>3, <2>2
    <3> QED
      BY <1>5, <1>6, <2>1, <3>1, JobLinkedStays
  <2>3. CASE u = w /\ k # "pass" /\ (j.for = None \/ (j.for = job[w].for /\ j.first = job[w].first))
    BY <1>2, <1>5, <1>6, <2>1, <2>3, JobLinkedStays
  <2> QED
    BY <2>2, <2>3
<1>8. QueueWell(row', pc'[w], job'[w]) /\ Calm(pc'[w], job'[w])
  BY <1>2
<1>9. Keeps(w, pc'[w], job'[w], x) /\ (x # None => Pays(pc'[w], job'[w], x))
  BY <1>2
<1> QED
  BY <1>4, <1>7, <1>8, <1>9, OneWorker

\* A pass is over: the calls it gave up on are of nobody.
LEMMA PassIsOver ==
  ASSUME Inv, Inv', Owing, NEW w \in Worker, NEW j, NEW x \in Run \cup {None},
         pc[w] = "pass", Goto(w, "busy"), PassOver(w, j),
         \A r \in Run \ {x} : SameRow(r), x # None => RowFits(x),
         j.for = job[w].for,
         j.first = job[w].first \/ (j.first = job[w].run /\ job[w].suspendedAt = 0),
         QueueWell(row', "busy", j), Calm("busy", j),
         x # None => Pays("busy", j, x)
  PROVE  Owing'
<1>1. TypeOK /\ TypeOK' /\ RowsLinked /\ CalledFrom /\ CalledFrom'
  BY DEF Inv, Owing
<1>2. pc'[w] = "busy" /\ job'[w] = j
  BY <1>1 DEF TypeOK, Goto, PassOver
<1>3. ASSUME NEW u \in Worker, u # w
      PROVE  /\ pc'[u] = pc[u]
             /\ job'[u].run = job[u].run /\ job'[u].suspendedAt = job[u].suspendedAt
             /\ job'[u].queue = job[u].queue /\ job'[u].look = job[u].look
             /\ job'[u].todo = job[u].todo /\ job'[u].walk = job[u].walk
             /\ job'[u].mode = job[u].mode /\ job'[u].doomed = job[u].doomed
             /\ job'[u].open = job[u].open
             /\ job'[u].for = None \/ (job'[u].for = job[u].for /\ job'[u].first = job[u].first)
  <2>1. pc'[u] = pc[u]
    BY <1>1, <1>3 DEF TypeOK, Goto
  <2>2. job[u] \in Jobs
    BY <1>1, JobOf
  <2>3. job'[u] = IF job[u].for = w THEN [job[u] EXCEPT !.for = None, !.first = None] ELSE job[u]
    BY <1>3 DEF PassOver
  <2> QED
    BY <2>1, <2>2, <2>3 DEF Jobs
<1>4. \A u \in Worker \ {w} : SameHand(u)
  BY <1>3 DEF SameHand
<1>5. \A r \in Run : row[r].caller # None => row'[r].caller = row[r].caller
  BY <1>1, LinkedStays
<1>6. \A u \in Worker : pc[u] = "pass" /\ pc'[u] = "pass" => job'[u].run = job[u].run
  BY <1>2, <1>3
<1>7. ASSUME NEW u \in Worker PROVE JobLinked(u)'
  <2>1. JobLinked(u)
    BY DEF Owing
  <2>2. CASE u # w
    BY <1>3, <1>5, <1>6, <2>1, <2>2, JobLinkedStays
  <2>3. CASE u = w /\ j.first = job[w].first
    BY <1>2, <1>5, <1>6, <2>1, <2>3, JobLinkedStays
  <2>4. CASE u = w /\ j.first = job[w].run /\ job[w].suspendedAt = 0
    <3>1. pc'[w] # "pass"
      BY <1>2
    <3>2. SUFFICES ASSUME job'[w].for # None PROVE row'[job'[w].first].caller = job'[job'[w].for].run
      BY <2>4, <3>1 DEF JobLinked
    <3>3. PICK v \in Worker : v = job[w].for
      BY <1>1, <1>2, <3>2, JobOf
    <3>4. job'[w].for = v /\ job'[w].first = job[w].run
      BY <1>2, <2>4, <3>3
    <3>5. pc[v] = "pass" /\ pc'[v] = "pass" /\ v # None
      BY <1>1, <3>2, <3>3, <3>4 DEF CalledFrom
    <3>6. row[job[w].run].caller = job[v].run
      BY <2>1, <2>4, <3>3, <3>5, NobodyAssumption DEF JobLinked
    <3>7. job[w].run \in Run /\ job[v].run \in Run
      BY <3>5, InPass
    <3>8. job[v].run # None /\ job'[v].run = job[v].run
      BY <1>6, <3>5, <3>7, NobodyAssumption
    <3> QED
      BY <1>5, <3>4, <3>6, <3>7, <3>8
  <2> QED
    BY <2>2, <2>3, <2>4
<1>8. QueueWell(row', pc'[w], job'[w]) /\ Calm(pc'[w], job'[w])
  BY <1>2
<1>9. Keeps(w, pc'[w], job'[w], x)
  BY NoDebts
<1>10. x # None => Pays(pc'[w], job'[w], x)
  BY <1>2
<1> QED
  BY <1>4, <1>7, <1>8, <1>9, <1>10, OneWorker


----------------------------------------------------------------------------
\* What steps write.

LEMMA WritesRow ==
  ASSUME TypeOK, NEW r \in Run, NEW y, Write(r, y)
  PROVE  row'[r] = y /\ \A q \in Run \ {r} : SameRow(q)
BY DEF TypeOK, Write, SameRow

LEMMA WritesNone ==
  ASSUME row' = row
  PROVE  \A q \in Run \ {None} : SameRow(q)
BY DEF SameRow

\* A run that is claimed or suspended is written under its caller.
LEMMA ActiveFits ==
  ASSUME TypeOK, RowsLinked, NEW r \in Run, NEW y, Write(r, y), Active(r),
         y.status \in {"claimed", "suspended", "finished", "failed"},
         y.caller = row[r].caller, y.linked = row[r].linked,
         y.waits \subseteq row[r].waits \/ \A c \in y.waits : row[c].caller = r
  PROVE  RowFits(r)
<1>1. row'[r] = y
  BY WritesRow
<1>2. \A c \in y.waits : row[c].caller = r
  BY DEF RowsLinked
<1> QED
  BY <1>1, <1>2 DEF RowFits, RowsLinked, Active, Claimed, Suspended, Over

LEMMA EndedFits ==
  ASSUME TypeOK, RowsLinked, NEW r \in Run, NEW e \in {"finished", "failed"},
         Write(r, EndedAs(r, e)), Active(r)
  PROVE  RowFits(r) /\ row'[r].status = e /\ row'[r].waits = {}
<1> DEFINE x == EndedAs(r, e)
<1>1. x.status = e /\ x.caller = row[r].caller /\ x.waits = {} /\ x.linked = row[r].linked
  BY RowOf DEF EndedAs, Rows
<1>2. Write(r, x)
  OBVIOUS
<1> HIDE DEF x
<1>3. row'[r] = x
  BY <1>2, WritesRow
<1> QED
  BY <1>1, <1>2, <1>3, ActiveFits

LEMMA ClaimFits ==
  ASSUME TypeOK, RowsLinked, NEW r \in Run, NEW w \in Worker, Write(r, ClaimedBy(w, r)), Suspended(r)
  PROVE  RowFits(r) /\ row'[r].status = "claimed"
<1> DEFINE x == ClaimedBy(w, r)
<1>1. /\ x.status = "claimed" /\ x.caller = row[r].caller /\ x.waits = row[r].waits
      /\ x.linked = row[r].linked
  BY RowOf DEF ClaimedBy, Rows
<1>2. Write(r, x) /\ Active(r)
  BY DEF Active
<1> HIDE DEF x
<1>3. row'[r] = x
  BY <1>2, WritesRow
<1> QED
  BY <1>1, <1>2, <1>3, ActiveFits

LEMMA PutBackFits ==
  ASSUME TypeOK, RowsLinked, NEW r \in Run, Write(r, PutBack(r)), Claimed(r)
  PROVE  RowFits(r) /\ row'[r].status = "suspended" /\ row'[r].suspendedAt = row[r].suspendedAt
<1> DEFINE x == PutBack(r)
<1>1. /\ x.status = "suspended" /\ x.caller = row[r].caller /\ x.waits = row[r].waits
      /\ x.linked = row[r].linked /\ x.suspendedAt = row[r].suspendedAt
  BY RowOf DEF PutBack, Rows
<1>2. Write(r, x) /\ Active(r)
  BY DEF Active
<1> HIDE DEF x
<1>3. row'[r] = x
  BY <1>2, WritesRow
<1> QED
  BY <1>1, <1>2, <1>3, ActiveFits

LEMMA SuspendedFits ==
  ASSUME TypeOK, RowsLinked, NEW r \in Run, NEW waits, NEW asks,
         Write(r, SuspendedOn(r, waits, asks)), Claimed(r), \A c \in waits : row[c].caller = r
  PROVE  RowFits(r) /\ row'[r].status = "suspended"
<1> DEFINE x == SuspendedOn(r, waits, asks)
<1>1. /\ x.status = "suspended" /\ x.caller = row[r].caller /\ x.waits = waits
      /\ x.linked = row[r].linked
  BY RowOf DEF SuspendedOn, Rows
<1>2. Write(r, x) /\ Active(r)
  BY DEF Active
<1> HIDE DEF x
<1>3. row'[r] = x
  BY <1>2, WritesRow
<1> QED
  BY <1>1, <1>2, <1>3, ActiveFits

LEMMA CreatedFits ==
  ASSUME TypeOK, RowsLinked, NEW r \in Run, NEW w \in Worker, NEW c \in Run \cup {None},
         row[r].status = "absent", Write(r, Created(w, c))
  PROVE  RowFits(r) /\ row'[r].status = "claimed" /\ row'[r].caller = c
<1> DEFINE x == Created(w, c)
<1>1. x.status = "claimed" /\ x.caller = c /\ x.waits = {} /\ x.linked = (c # None)
  BY DEF Created, AbsentRow
<1>2. Write(r, x)
  OBVIOUS
<1> HIDE DEF x
<1>3. row'[r] = x
  BY <1>2, WritesRow
<1> QED
  BY <1>1, <1>3 DEF RowFits, Over

----------------------------------------------------------------------------
\* The steps.

\* A worker starts a run.
LEMMA StartsOwing ==
  ASSUME Inv, Inv', Owing, NEW v \in Worker, NEW r \in Run, NEW c \in Run \cup {None},
         NEW f \in Worker \cup {None}, pc[v] = "idle", row[r].status = "absent",
         f # None => pc[f] = "pass" /\ job[f].run = c,
         Write(r, Created(v, c)), Goto(v, "pass"), Set(v, [NoJob EXCEPT !.run = r, !.for = f])
  PROVE  Owing'
<1> DEFINE j == [NoJob EXCEPT !.run = r, !.for = f]
<1>1. TypeOK /\ RowsLinked
  BY DEF Inv, Owing
<1>2. /\ j.run = r /\ j.for = f /\ j.first = None /\ j.open = {} /\ j.look = {}
      /\ j.mode = "abandon" /\ j.queue = <<>> /\ j.doomed = None
  BY DEF NoJob
<1>3. RowFits(r) /\ row'[r].status = "claimed" /\ row'[r].caller = c /\ \A q \in Run \ {r} : SameRow(q)
  BY <1>1, CreatedFits, WritesRow
<1>4. pc'[v] = "pass" /\ job'[v] = j /\ Set(v, j)
  BY <1>1 DEF TypeOK, Goto, Set
<1> HIDE DEF j
<1>5. JobLinked(v)'
  <2>1. f # None => job'[f].run = c
    BY <1>1, <1>4 DEF TypeOK, Set
  <2> QED
    BY <1>2, <1>3, <1>4, <2>1 DEF JobLinked
<1>6. QueueWell(row', "pass", j) /\ Calm("pass", j)
  BY <1>2 DEF QueueWell, Calm
<1>7. Keeps(v, "pass", j, r) /\ Pays("pass", j, r)
  BY <1>3, NoDebts, ClaimedPays
<1> QED
  BY <1>3, <1>4, <1>5, <1>6, <1>7, Alone

LEMMA StartRunOwing ==
  ASSUME Inv, Inv', Owing, NEW w \in Worker, NEW r \in Run, StartRun(w, r)
  PROVE  Owing'
<1>1. [NoJob EXCEPT !.run = r] = [NoJob EXCEPT !.run = r, !.for = None]
  BY ForNobody
<1> QED
  BY <1>1, StartsOwing DEF StartRun

LEMMA CallOwing ==
  ASSUME Inv, Inv', Owing, NEW w \in Worker, NEW v \in Worker, NEW c \in Run, Call(w, v, c)
  PROVE  Owing'
<1>1. job[w].run \in Run
  BY CallsAssumption DEF Call
<1> QED
  BY <1>1, StartsOwing DEF Call

LEMMA LateCallOwing ==
  ASSUME Inv, Inv', Owing, NEW v \in Worker, NEW p \in Run, NEW c \in Run, LateCall(v, p, c)
  PROVE  Owing'
<1>1. [NoJob EXCEPT !.run = c] = [NoJob EXCEPT !.run = c, !.for = None]
  BY ForNobody
<1> QED
  BY <1>1, StartsOwing DEF LateCall

LEMMA ResumeRunOwing ==
  ASSUME Inv, Inv', Owing, NEW w \in Worker, NEW r \in Run, ResumeRun(w, r)
  PROVE  Owing'
<1> DEFINE j == Pass(r, row[r].waits, None)
<1>1. TypeOK /\ RowsLinked
  BY DEF Inv, Owing
<1>2. /\ j.run = r /\ j.for = None /\ j.first = None /\ j.open = row[r].waits /\ j.look = {}
      /\ j.mode = "abandon" /\ j.queue = <<>> /\ j.doomed = None
  BY DEF Pass, NoJob
<1>3. RowFits(r) /\ row'[r].status = "claimed" /\ \A q \in Run \ {r} : SameRow(q)
  BY <1>1, ClaimFits, WritesRow DEF ResumeRun
<1>4. pc'[w] = "pass" /\ job'[w] = j /\ Set(w, j) /\ Goto(w, "pass") /\ pc[w] = "idle"
  BY <1>1 DEF TypeOK, Goto, Set, ResumeRun
<1> HIDE DEF j
<1>5. JobLinked(w)'
  <2>1. \A c \in row[r].waits : c \in Run /\ row[c].caller = r
    BY <1>1, RowOf DEF RowsLinked
  <2>2. \A c \in Run : row[c].caller # None => row'[c].caller = row[c].caller
    BY <1>1, <1>3, LinkedStays DEF Inv
  <2>3. r # None
    BY NobodyAssumption
  <2> QED
    BY <1>2, <1>4, <2>1, <2>2, <2>3 DEF JobLinked
<1>6. QueueWell(row', "pass", j) /\ Calm("pass", j)
  BY <1>2 DEF QueueWell, Calm
<1>7. Keeps(w, "pass", j, r) /\ Pays("pass", j, r)
  BY <1>3, <1>4, NoDebts, ClaimedPays
<1> QED
  BY <1>3, <1>4, <1>5, <1>6, <1>7, Alone


\* What is left to a worker once its pass is over: the runs to reconcile, no other.
LEMMA PassLeaves ==
  ASSUME Inv, Owing, NEW w \in Worker, pc[w] = "pass",
         NEW q, q \in {<<>>} \cup {<<r>> : r \in Run \cup {None}}
                  \cup {<<e, r>> : e \in Run, r \in Run \cup {None}}
  PROVE  LET j == AfterPass(w, q) IN
         /\ j.queue = q
         /\ j.for = job[w].for /\ j.first = job[w].first /\ j.look = {} /\ j.todo = {} /\ j.walk = {}
         /\ j.mode = "abandon" /\ j.doomed = None
<1>1. job[w].queue = <<>> /\ TypeOK
  BY DEF Owing, QueueWell, Inv
<1> DEFINE n == job[w].queue \o q
<1>2. n = q
  BY <1>1, QueueEnds
<1> DEFINE j == AfterPass(w, q)
<1>3. j = [NoJob EXCEPT !.for = job[w].for, !.first = job[w].first, !.queue = n]
  BY DEF AfterPass
<1> HIDE DEF n, j
<1>4. /\ j.for = job[w].for /\ j.first = job[w].first /\ j.look = {} /\ j.queue = n
      /\ j.todo = {} /\ j.walk = {} /\ j.mode = "abandon" /\ j.doomed = None
  BY <1>3 DEF NoJob
<1> QED
  BY <1>2, <1>4 DEF j

\* A run that ended, and its caller, are reconciled.
LEMMA EndedIsQueued ==
  ASSUME TypeOK, RowsLinked, NEW x \in Run, \A r \in Run \ {x} : SameRow(r),
         row'[x].status \in {"finished", "failed"}, NEW k, NEW j,
         \/ j.queue = EndedFollowUps(x)
         \/ j.queue = <<ParentOf(x)>> /\ x \in j.walk
  PROVE  Pays(k, j, x)
<1>1. ParentOf(x) \in Queued(j)
  BY Queues DEF EndedFollowUps
<1>2. x \in Queued(j) \/ x \in j.walk
  BY Queues DEF EndedFollowUps
<1>3. \A p \in Run : row'[p].status = "suspended" /\ x \in row'[p].waits => p = ParentOf(x)
  BY WaitingIsParent
<1> QED
  BY <1>1, <1>2, <1>3, EndedPays

LEMMA EndPassOwing ==
  ASSUME Inv, Inv', Owing, NEW w \in Worker, EndPass(w)
  PROVE  Owing'
<1> DEFINE r == job[w].run
<1>1. /\ pc[w] = "pass" /\ row[r].claim = w /\ Goto(w, "busy")
      /\ r \in Run /\ TypeOK /\ RowsLinked /\ JobLinked(w)
  BY InPass DEF EndPass, Owing
<1>2. Claimed(r) /\ Active(r)
  BY <1>1, RowOf, NobodyAssumption DEF Claimed, Active
<1>3. ASSUME NEW e \in {"finished", "failed"}, Write(r, EndedAs(r, e)),
             PassOver(w, AfterPass(w, EndedFollowUps(r)))
      PROVE  Owing'
  <2> DEFINE j == AfterPass(w, EndedFollowUps(r))
  <2>1. ParentOf(r) \in Run \cup {None}
    BY <1>1, FollowUpsAreRuns
  <2>2. EndedFollowUps(r) \in {<<d, q>> : d \in Run, q \in Run \cup {None}}
    BY <1>1, <2>1 DEF EndedFollowUps
  <2>3. /\ j.queue = EndedFollowUps(r) /\ j.look = {} /\ j.mode = "abandon" /\ j.doomed = None
        /\ j.for = job[w].for /\ j.first = job[w].first
    BY <1>1, <2>2, PassLeaves
  <2> HIDE DEF j
  <2>4. RowFits(r) /\ row'[r].status = e /\ \A q \in Run \ {r} : SameRow(q)
    BY <1>1, <1>2, <1>3, EndedFits, WritesRow
  <2>5. QueueWell(row', "busy", j) /\ Calm("busy", j)
    <3>1. j.queue = <<r, ParentOf(r)>> /\ Over(row', r)
      BY <2>3, <2>4 DEF EndedFollowUps, Over
    <3> QED
      BY <1>1, <2>1, <2>3, <3>1 DEF QueueWell, Calm
  <2>6. Pays("busy", j, r)
    BY <1>1, <2>3, <2>4, EndedIsQueued
  <2>7. PassOver(w, j)
    BY <1>3 DEF j
  <2> HIDE DEF r
  <2> QED
    BY <1>1, <2>3, <2>4, <2>5, <2>6, <2>7, PassIsOver
<1>4. ASSUME NEW waits \in SUBSET job[w].open, NEW asks \in BOOLEAN,
             Write(r, SuspendedOn(r, waits, asks)),
             PassOver(w, [AfterPass(w, SuspendedFollowUps(r))
                            EXCEPT !.first = IF job[w].for # None /\ job[w].suspendedAt = 0
                                             THEN r ELSE @])
      PROVE  Owing'
  <2> DEFINE i == AfterPass(w, SuspendedFollowUps(r))
             f == IF job[w].for # None /\ job[w].suspendedAt = 0 THEN r ELSE i.first
             j == [i EXCEPT !.first = f]
  <2>1. i \in Jobs
    BY <1>1, FollowUpsAreRuns, AfterPassJob
  <2>2. /\ i.queue = <<r>> /\ i.look = {} /\ i.mode = "abandon" /\ i.doomed = None
        /\ i.for = job[w].for /\ i.first = job[w].first
    BY <1>1, PassLeaves DEF SuspendedFollowUps
  <2>3. PassOver(w, j)
    BY <1>4
  <2>4. f = job[w].first \/ (f = r /\ job[w].suspendedAt = 0)
    BY <2>2
  <2> HIDE DEF i, f
  <2>5. /\ j.queue = <<r>> /\ j.look = {} /\ j.mode = "abandon" /\ j.doomed = None
        /\ j.for = job[w].for /\ j.first = f
    BY <2>1, <2>2 DEF Jobs
  <2> HIDE DEF j
  <2>6. \A c \in waits : row[c].caller = r
    BY <1>1, <1>4 DEF JobLinked
  <2>7. RowFits(r) /\ row'[r].status = "suspended" /\ \A q \in Run \ {r} : SameRow(q)
    BY <1>1, <1>2, <1>4, <2>6, SuspendedFits, WritesRow
  <2>8. QueueWell(row', "busy", j) /\ Calm("busy", j)
    BY <1>1, <2>5 DEF QueueWell, Calm
  <2>9. Pays("busy", j, r)
    BY <1>1, <2>5, <2>7, Queues, SuspendedPays
  <2> QED
    BY <1>1, <2>3, <2>4, <2>5, <2>7, <2>8, <2>9, PassIsOver
<1> QED
  BY <1>3, <1>4 DEF EndPass

LEMMA LosePassOwing ==
  ASSUME Inv, Inv', Owing, NEW w \in Worker, LosePass(w)
  PROVE  Owing'
<1> DEFINE j == AfterPass(w, <<>>)
<1>1. pc[w] = "pass" /\ Goto(w, "busy") /\ PassOver(w, j) /\ row' = row
  BY DEF LosePass
<1>2. /\ j.queue = <<>> /\ j.look = {} /\ j.mode = "abandon" /\ j.doomed = None
      /\ j.for = job[w].for /\ j.first = job[w].first
  BY <1>1, PassLeaves
<1> HIDE DEF j
<1>3. QueueWell(row', "busy", j) /\ Calm("busy", j)
  BY <1>2 DEF QueueWell, Calm
<1>4. None \in Run \cup {None} /\ \A q \in Run \ {None} : SameRow(q)
  BY <1>1, WritesNone
<1> QED
  BY <1>1, <1>2, <1>3, <1>4, PassIsOver

LEMMA RefuseResumeOwing ==
  ASSUME Inv, Inv', Owing, NEW w \in Worker, RefuseResume(w)
  PROVE  Owing'
<1> DEFINE r == job[w].run
           j == IF job[w].wait = None
                  THEN AfterPass(w, SuspendedFollowUps(r))
                  ELSE [AfterPass(w, <<>>) EXCEPT
                          !.mode = "refuse",
                          !.todo = {[run |-> r, status |-> "suspended", again |-> FALSE,
                                     suspendedAt |-> job[w].suspendedAt]}]
<1>1. /\ pc[w] = "pass" /\ row[r].claim = w /\ Goto(w, "busy") /\ PassHand(w)
      /\ r \in Run /\ TypeOK /\ RowsLinked /\ Write(r, PutBack(r))
  BY InPass DEF RefuseResume, Owing
<1>2. Claimed(r) /\ job[w].suspendedAt = row[r].suspendedAt
  BY <1>1, RowOf, NobodyAssumption DEF Claimed, PassHand
<1>3. /\ RowFits(r) /\ row'[r].status = "suspended" /\ row'[r].suspendedAt = row[r].suspendedAt
      /\ \A q \in Run \ {r} : SameRow(q)
  BY <1>1, <1>2, PutBackFits, WritesRow
<1>4. PassOver(w, j)
  BY DEF RefuseResume
<1>5. CASE job[w].wait = None
  <2>1. j = AfterPass(w, SuspendedFollowUps(r))
    BY <1>5
  <2> HIDE DEF j
  <2>2. /\ j.queue = <<r>> /\ j.look = {} /\ j.mode = "abandon" /\ j.doomed = None
        /\ j.for = job[w].for /\ j.first = job[w].first
    BY <1>1, <2>1, PassLeaves DEF SuspendedFollowUps
  <2>3. QueueWell(row', "busy", j) /\ Calm("busy", j)
    BY <1>1, <2>2 DEF QueueWell, Calm
  <2>4. Pays("busy", j, r)
    BY <1>1, <1>3, <2>2, Queues, SuspendedPays
  <2> QED
    BY <1>1, <1>3, <1>4, <2>2, <2>3, <2>4, PassIsOver
<1>6. CASE job[w].wait # None
  <2> DEFINE i == AfterPass(w, <<>>)
             t == [run |-> r, status |-> "suspended", again |-> FALSE,
                   suspendedAt |-> job[w].suspendedAt]
  <2>1. j = [i EXCEPT !.mode = "refuse", !.todo = {t}]
    BY <1>6
  <2>2. /\ i.queue = <<>> /\ i.look = {} /\ i.doomed = None
        /\ i.for = job[w].for /\ i.first = job[w].first /\ i \in Jobs
    <3>1. i \in Jobs
      BY <1>1, FollowUpsAreRuns, AfterPassJob
    <3>2. /\ i.queue = <<>> /\ i.look = {} /\ i.doomed = None
          /\ i.for = job[w].for /\ i.first = job[w].first
      BY <1>1, PassLeaves
    <3> QED
      BY <3>1, <3>2
  <2>3. t.run = r /\ t.status = "suspended" /\ t.suspendedAt = row'[r].suspendedAt
    BY <1>2, <1>3
  <2> HIDE DEF i, t, j
  <2>4. /\ j.queue = <<>> /\ j.look = {} /\ j.mode = "refuse" /\ j.doomed = None /\ j.todo = {t}
        /\ j.for = job[w].for /\ j.first = job[w].first
    BY <2>1, <2>2 DEF Jobs
  <2>5. QueueWell(row', "busy", j) /\ Calm("busy", j)
    BY <2>4 DEF QueueWell, Calm
  <2>6. Pays("busy", j, r)
    <3>1. WillFail(row', "busy", j, r)
      BY <1>3, <2>3, <2>4 DEF WillFail, ReadToFail
    <3> QED
      BY <1>1, <1>3, <3>1, SuspendedPays
  <2> QED
    BY <1>1, <1>3, <1>4, <2>4, <2>5, <2>6, PassIsOver
<1> QED
  BY <1>5, <1>6


\* A busy worker goes on with what it owes.
LEMMA BusyKeeps ==
  ASSUME NEW w \in Worker, NEW k \in {"busy", "failing"}, NEW j, NEW x \in Run \cup {None},
         pc[w] \in {"busy", "failing"}, \A r \in Run \ {x} : SameRow(r),
         Queued(job[w]) \subseteq Queued(j), job[w].look \subseteq j.look,
         j.run = job[w].run, j.suspendedAt = job[w].suspendedAt,
         \A s \in job[w].todo : s \in j.todo \/ s.run = x \/ ~StillOn(s.run, s.suspendedAt),
         \A r \in job[w].walk : \/ r \in j.walk
                                \/ \A c \in Run : row[c].status = "suspended" /\ row[c].caller = r =>
                                     ReadToFail(row, j, c)
  PROVE  Keeps(w, k, j, x)
<1> SUFFICES ASSUME NEW p \in Run \ {x}, NEW c \in Run \ {x}
             PROVE  /\ ResultDue(row, p, c) /\ OwesResult(row, pc[w], job[w], p, c) =>
                         OwesResult(row', k, j, p, c)
                    /\ CancelDue(row, p, c) /\ OwesCancel(row, pc[w], job[w], p, c) =>
                         OwesCancel(row', k, j, p, c)
  BY DEF Keeps
<1>1. SameRow(p) /\ SameRow(c)
  OBVIOUS
<1>2. ASSUME NEW r \in Run \ {x}, ReadToFail(row, job[w], r) PROVE ReadToFail(row, j, r)
  <2>1. PICK s \in job[w].todo : s.run = r /\ s.status = "suspended" /\ s.suspendedAt = row[r].suspendedAt
    BY <1>2 DEF ReadToFail
  <2>2. StillOn(s.run, s.suspendedAt)
    BY <1>2, <2>1 DEF StillOn, Suspended, ReadToFail
  <2> QED
    BY <1>2, <2>1, <2>2 DEF ReadToFail
<1>3. \A r \in {p, c} : WillFail(row, pc[w], job[w], r) => WillFail(row, k, j, r)
  BY <1>2 DEF WillFail
<1>4. \A r \in {p, c} : WillRead(pc[w], job[w], r) => WillRead(k, j, r)
  BY DEF WillRead
<1>5. \A r \in {p, c} : ReadAsIs(row, job[w], r) => ReadAsIs(row, j, r)
  BY DEF ReadAsIs
<1>6. OwesResult(row, pc[w], job[w], p, c) => OwesResult(row, k, j, p, c)
  BY <1>3, <1>4, <1>5 DEF OwesResult
<1>7. CancelDue(row, p, c) /\ OwesCancel(row, pc[w], job[w], p, c) => OwesCancel(row, k, j, p, c)
  <2>1. CancelDue(row, p, c) /\ p \in job[w].walk => p \in j.walk \/ WillFail(row, k, j, c)
    BY DEF CancelDue, WillFail
  <2> QED
    BY <1>3, <1>4, <2>1 DEF OwesCancel
<1> QED
  BY <1>1, <1>6, <1>7, SameDebts

\* No thread is closed, no workflow deleted, and outcomes are read back.
LEMMA BusyOwing ==
  ASSUME Inv, Owing, NEW w \in Worker, pc[w] \in {"busy", "failing"}
  PROVE  /\ TypeOK /\ RowsLinked /\ BusyHand(w) /\ JobLinked(w)
         /\ QueueWell(row, pc[w], job[w]) /\ Calm(pc[w], job[w])
         /\ job[w].mode # "close" /\ job[w].doomed = None
         /\ \A s \in job[w].todo : MayFail(w, s) /\ s.run \in Run
         /\ \A r \in job[w].walk : Gone(r) /\ r \in Run
<1>1. TypeOK /\ RowsLinked /\ BusyHand(w) /\ JobLinked(w)
      /\ QueueWell(row, pc[w], job[w]) /\ Calm(pc[w], job[w])
  BY DEF Inv, Hand, Owing
<1>2. job[w].mode # "close" /\ job[w].doomed = None
  BY <1>1 DEF Calm
<1>3. \A s \in job[w].todo : s.run \in Run
  BY <1>1, JobOf DEF Reads
<1>4. job[w].walk \subseteq Run
  BY <1>1, JobOf
<1> QED
  BY <1>1, <1>2, <1>3, <1>4 DEF BusyHand

LEMMA MissedOwing ==
  ASSUME Inv, Inv', Owing, NEW w \in Worker, pc[w] = "busy", NEW s \in job[w].todo,
         ~StillOn(s.run, s.suspendedAt), Missed(w, s)
  PROVE  Owing'
<1> DEFINE n == job[w].todo \ {s}
           j == [job[w] EXCEPT !.todo = n]
<1>1. /\ TypeOK /\ RowsLinked /\ QueueWell(row, "busy", job[w]) /\ Calm("busy", job[w])
      /\ ~s.again /\ job[w] \in Jobs
  BY BusyOwing, JobOf DEF MayFail
<1>2. Goto(w, "busy") /\ row' = row
  BY DEF Missed
<1>3. Set(w, j)
  <2> DEFINE read == IF s.again /\ Active(s.run) THEN {Read(s.run, FALSE)} ELSE {}
  <2>1. read = {}
    BY <1>1
  <2> HIDE DEF read
  <2>2. Set(w, [job[w] EXCEPT !.todo = (@ \ {s}) \cup read])
    BY DEF Missed, read
  <2>3. (job[w].todo \ {s}) \cup read = n
    BY <2>1
  <2> QED
    BY <1>1, <2>2, <2>3 DEF Jobs
<1> HIDE DEF n
<1>4. /\ j.queue = job[w].queue /\ j.look = job[w].look /\ j.mode = job[w].mode /\ j.walk = job[w].walk
      /\ j.doomed = job[w].doomed /\ j.run = job[w].run /\ j.suspendedAt = job[w].suspendedAt
      /\ j.for = job[w].for /\ j.first = job[w].first /\ j.todo = n
  BY <1>1 DEF Jobs
<1> HIDE DEF j
<1>5. None \in Run \cup {None} /\ \A q \in Run \ {None} : SameRow(q)
  BY <1>2, WritesNone
<1>6. QueueWell(row', "busy", j) /\ Calm("busy", j)
  BY <1>1, <1>2, <1>4 DEF QueueWell, Calm
<1>7. Keeps(w, "busy", j, None)
  <2>1. \A t \in job[w].todo : t \in j.todo \/ t = s
    BY <1>4 DEF n
  <2>2. Queued(job[w]) = Queued(j)
    BY <1>4 DEF Queued
  <2> QED
    BY <1>4, <1>5, <2>1, <2>2, BusyKeeps
<1> QED
  BY <1>2, <1>3, <1>4, <1>5, <1>6, <1>7, Alone

LEMMA ClaimToFailOwing ==
  ASSUME Inv, Inv', Owing, NEW w \in Worker, NEW s \in job[w].todo, ClaimToFail(w, s)
  PROVE  Owing'
<1> DEFINE x == s.run
           n == job[w].todo \ {s}
           j == [job[w] EXCEPT !.todo = n, !.target = x]
<1>1. /\ pc[w] = "busy" /\ TypeOK /\ RowsLinked /\ QueueWell(row, "busy", job[w])
      /\ Calm("busy", job[w]) /\ job[w] \in Jobs /\ x \in Run
  BY BusyOwing, JobOf DEF ClaimToFail
<1>2. CASE ~StillOn(s.run, s.suspendedAt)
  BY <1>1, <1>2, MissedOwing DEF ClaimToFail
<1>3. CASE StillOn(s.run, s.suspendedAt)
  <2>1. Suspended(x) /\ Write(x, ClaimedBy(w, x)) /\ Goto(w, "failing") /\ Set(w, j)
    BY <1>3 DEF ClaimToFail, StillOn
  <2>2. RowFits(x) /\ row'[x].status = "claimed" /\ \A q \in Run \ {x} : SameRow(q)
    BY <1>1, <2>1, ClaimFits, WritesRow
  <2> HIDE DEF x, n
  <2>3. /\ j.queue = job[w].queue /\ j.look = job[w].look /\ j.mode = job[w].mode /\ j.walk = job[w].walk
        /\ j.doomed = job[w].doomed /\ j.run = job[w].run /\ j.suspendedAt = job[w].suspendedAt
        /\ j.for = job[w].for /\ j.first = job[w].first /\ j.todo = n
    BY <1>1 DEF Jobs
  <2> HIDE DEF j
  <2>4. QueueWell(row', "failing", j) /\ Calm("failing", j)
    <3>1. \A r \in Run : Over(row, r) => Over(row', r)
      BY <1>1, <2>2, OverStays
    <3> QED
      BY <1>1, <2>3, <3>1 DEF QueueWell, Calm
  <2>5. Keeps(w, "failing", j, x)
    <3>1. \A t \in job[w].todo : t \in j.todo \/ t.run = x
      BY <2>3 DEF n, x
    <3>2. Queued(job[w]) = Queued(j)
      BY <2>3 DEF Queued
    <3> QED
      BY <1>1, <2>2, <2>3, <3>1, <3>2, BusyKeeps
  <2>6. Pays("failing", j, x)
    BY <1>1, <2>2, ClaimedPays
  <2> QED
    BY <1>1, <2>1, <2>2, <2>3, <2>4, <2>5, <2>6, Alone
<1> QED
  BY <1>2, <1>3

LEMMA TakeOverOwing ==
  ASSUME Inv, Owing, NEW w \in Worker, NEW s \in job[w].todo, TakeOver(w, s)
  PROVE  FALSE
BY BusyOwing DEF TakeOver, MayFail


\* What follows a run that was failed, with no other run in the queue of the worker.
LEMMA FailedFollowUps ==
  ASSUME TypeOK, NEW j \in Jobs, NEW r \in Run, j.mode # "close",
         j.mode \in {"refuse", "cancel"} => j.queue = <<>>
  PROVE  LET k == AfterFailing(j, r) IN
         /\ k.mode = "abandon"
         /\ j.walk \subseteq k.walk
         /\ \/ j.mode = "abandon" /\ k.queue = j.queue /\ r \in k.walk
            \/ j.mode # "abandon" /\ k.queue = EndedFollowUps(r) /\ j.queue = <<>>
<1> DEFINE q == j.queue \o EndedFollowUps(r)
           walk == j.walk \cup {r}
           k == AfterFailing(j, r)
<1>1. ParentOf(r) \in Run \cup {None}
  BY FollowUpsAreRuns
<1>2. j.mode \in Modes
  BY DEF Jobs
<1>3. j.queue = <<>> => q = EndedFollowUps(r)
  BY <1>1, QueueEnds DEF EndedFollowUps
<1>4. walk = j.walk \cup {r}
  OBVIOUS
<1>5. CASE j.mode = "abandon"
  <2>1. k = [j EXCEPT !.walk = walk]
    BY <1>5 DEF AfterFailing
  <2> HIDE DEF k, walk, q
  <2> QED
    BY <2>1, <1>4, <1>5 DEF Jobs, k
<1>6. CASE j.mode = "refuse"
  <2>1. k = [j EXCEPT !.queue = q, !.mode = "abandon"]
    BY <1>6 DEF AfterFailing
  <2> HIDE DEF k, walk, q
  <2> QED
    BY <2>1, <1>3, <1>6 DEF Jobs, k
<1>7. CASE j.mode = "cancel"
  <2>1. k = [j EXCEPT !.queue = q, !.walk = walk, !.mode = "abandon"]
    BY <1>7 DEF AfterFailing
  <2> HIDE DEF k, walk, q
  <2> QED
    BY <2>1, <1>3, <1>4, <1>7 DEF Jobs, k
<1> QED
  BY <1>2, <1>5, <1>6, <1>7 DEF Modes

LEMMA SettleFailedOwing ==
  ASSUME Inv, Inv', Owing, NEW w \in Worker, SettleFailed(w)
  PROVE  Owing'
<1> DEFINE j == [job[w] EXCEPT !.target = None]
<1>1. /\ pc[w] = "failing" /\ TypeOK /\ RowsLinked /\ BusyHand(w)
      /\ QueueWell(row, "failing", job[w]) /\ Calm("failing", job[w]) /\ job[w] \in Jobs
      /\ job[w].mode # "close" /\ job[w].doomed = None
  BY BusyOwing, JobOf DEF SettleFailed
<1>2. PICK r \in Run : r = job[w].target
  BY <1>1, JobOf DEF BusyHand
<1> DEFINE k == AfterFailing(j, r)
<1>3. /\ j \in Jobs /\ j.run = job[w].run /\ j.suspendedAt = job[w].suspendedAt
      /\ j.look = job[w].look /\ j.doomed = job[w].doomed /\ j.walk = job[w].walk
      /\ j.mode = job[w].mode /\ j.todo = job[w].todo /\ j.queue = job[w].queue
      /\ j.for = job[w].for /\ j.first = job[w].first
  BY <1>1 DEF Jobs
<1>4. Goto(w, "busy")
  BY DEF SettleFailed
<1>5. CASE row[r].claim # w
  <2>1. Set(w, j) /\ row' = row
    BY <1>2, <1>5 DEF SettleFailed
  <2> HIDE DEF j
  <2>2. None \in Run \cup {None} /\ \A q \in Run \ {None} : SameRow(q)
    BY <2>1, WritesNone
  <2>3. QueueWell(row', "busy", j) /\ Calm("busy", j)
    BY <1>1, <1>3, <2>1 DEF QueueWell, Calm
  <2>4. Keeps(w, "busy", j, None)
    <3>1. Queued(job[w]) = Queued(j)
      BY <1>3 DEF Queued
    <3> QED
      BY <1>1, <1>3, <2>2, <3>1, BusyKeeps
  <2> QED
    BY <1>1, <1>3, <1>4, <2>1, <2>2, <2>3, <2>4, Alone
<1>6. CASE row[r].claim = w
  <2>1. Set(w, k) /\ Write(r, EndedAs(r, "failed"))
    BY <1>2, <1>6 DEF SettleFailed
  <2>2. Active(r)
    BY <1>1, <1>6, RowOf, NobodyAssumption DEF Active, Claimed
  <2>3. /\ RowFits(r) /\ row'[r].status = "failed" /\ \A q \in Run \ {r} : SameRow(q)
    BY <1>1, <2>1, <2>2, EndedFits, WritesRow
  <2>4. /\ k.run = j.run /\ k.suspendedAt = j.suspendedAt
        /\ k.look = j.look /\ k.doomed = j.doomed /\ k.todo = j.todo
        /\ k.for = j.for /\ k.first = j.first
    <3> HIDE DEF j
    <3> QED
      BY <1>1, <1>3, AfterFailingJob
  <2>5. j.mode \in {"refuse", "cancel"} => j.queue = <<>>
    BY <1>1, <1>3 DEF QueueWell
  <2>6. /\ k.mode = "abandon"
        /\ j.walk \subseteq k.walk
        /\ \/ j.mode = "abandon" /\ k.queue = j.queue /\ r \in k.walk
           \/ j.mode # "abandon" /\ k.queue = EndedFollowUps(r) /\ j.queue = <<>>
    BY <1>1, <1>3, <2>5, FailedFollowUps
  <2> HIDE DEF j, k
  <2>7. QueueWell(row', "busy", k) /\ Calm("busy", k)
    <3>1. CASE k.queue = j.queue /\ j.mode = "abandon"
      <4>1. \A q \in Run : Over(row, q) => Over(row', q)
        BY <1>1, <2>3, OverStays
      <4> QED
        BY <1>1, <1>3, <2>4, <2>6, <3>1, <4>1 DEF QueueWell, Calm
    <3>2. CASE k.queue = EndedFollowUps(r) /\ j.mode # "abandon"
      <4>1. k.queue = <<r, ParentOf(r)>> /\ Over(row', r) /\ ParentOf(r) \in Run \cup {None}
        BY <1>1, <2>3, <3>2, FollowUpsAreRuns DEF EndedFollowUps, Over
      <4>2. k.look = {}
        BY <1>1, <1>3, <2>4, <3>2 DEF BusyHand
      <4> QED
        BY <1>1, <1>3, <2>4, <2>6, <4>1, <4>2 DEF QueueWell, Calm
    <3> QED
      BY <2>6, <3>1, <3>2
  <2>8. Keeps(w, "busy", k, r)
    <3>1. Queued(job[w]) \subseteq Queued(k)
      <4>1. CASE k.queue = j.queue
        BY <1>3, <4>1 DEF Queued
      <4>2. CASE j.queue = <<>>
        BY <1>3, <4>2, Queues
      <4> QED
        BY <2>6, <4>1, <4>2
    <3> QED
      BY <1>1, <1>3, <2>3, <2>4, <2>6, <3>1, BusyKeeps
  <2>9. Pays("busy", k, r)
    <3>1. CASE k.queue = EndedFollowUps(r)
      BY <1>1, <2>3, <3>1, EndedIsQueued
    <3>2. CASE j.mode = "abandon" /\ r \in k.walk
      <4>1. Unwanted(r)
        BY <1>1, <1>2, <1>3, <3>2 DEF BusyHand, CanBeFailed
      <4>2. ASSUME NEW p \in Run, row'[p].status = "suspended", r \in row'[p].waits PROVE FALSE
        <5>1. p = row[r].caller /\ row[p].status = "suspended" /\ r \in row[p].waits
          BY <1>1, <2>3, <4>2, WaitingIsParent
        <5>2. Active(p)
          BY <5>1 DEF Active, Suspended
        <5> QED
          BY <4>1, <5>1, <5>2 DEF Unwanted, Takes
      <4> QED
        BY <2>3, <3>2, <4>2, EndedPays
    <3> QED
      BY <2>6, <3>1, <3>2
  <2> QED
    BY <1>1, <1>3, <1>4, <2>1, <2>3, <2>4, <2>7, <2>8, <2>9, Alone
<1> QED
  BY <1>5, <1>6

LEMMA ListDescendantsOwing ==
  ASSUME Inv, Inv', Owing, NEW w \in Worker, NEW r \in job[w].walk, ListDescendants(w, r)
  PROVE  Owing'
<1> DEFINE n == job[w].todo \cup SuspendedChildren(r)
           walk == job[w].walk \ {r}
           j == [job[w] EXCEPT !.walk = walk, !.todo = n]
<1>1. /\ pc[w] = "busy" /\ TypeOK /\ RowsLinked /\ QueueWell(row, "busy", job[w])
      /\ Calm("busy", job[w]) /\ job[w] \in Jobs /\ r \in Run
  BY BusyOwing, JobOf DEF ListDescendants
<1>2. Goto(w, "busy") /\ row' = row /\ Set(w, j)
  BY DEF ListDescendants
<1> HIDE DEF n, walk
<1>3. /\ j.queue = job[w].queue /\ j.look = job[w].look /\ j.mode = job[w].mode
      /\ j.doomed = job[w].doomed /\ j.run = job[w].run /\ j.suspendedAt = job[w].suspendedAt
      /\ j.for = job[w].for /\ j.first = job[w].first /\ j.todo = n /\ j.walk = walk
  BY <1>1 DEF Jobs
<1> HIDE DEF j
<1>4. None \in Run \cup {None} /\ \A q \in Run \ {None} : SameRow(q)
  BY <1>2, WritesNone
<1>5. QueueWell(row', "busy", j) /\ Calm("busy", j)
  BY <1>1, <1>2, <1>3 DEF QueueWell, Calm
<1>6. Keeps(w, "busy", j, None)
  <2>1. ASSUME NEW c \in Run, row[c].status = "suspended", row[c].caller = r
        PROVE  ReadToFail(row, j, c)
    <3>1. Read(c, FALSE) \in SuspendedChildren(r)
      BY <1>1, <2>1, NobodyAssumption DEF SuspendedChildren, ChildrenOf, Suspended, RowsLinked
    <3>2. Read(c, FALSE) \in j.todo
      BY <1>3, <3>1 DEF n
    <3> QED
      BY <2>1, <3>2 DEF ReadToFail, Read
  <2>2. \A s \in job[w].todo : s \in j.todo
    BY <1>3 DEF n
  <2>3. \A q \in job[w].walk : q \in j.walk \/ q = r
    BY <1>3 DEF walk
  <2>4. Queued(job[w]) = Queued(j)
    BY <1>3 DEF Queued
  <2> QED
    BY <1>1, <1>3, <1>4, <2>1, <2>2, <2>3, <2>4, BusyKeeps
<1> QED
  BY <1>1, <1>2, <1>3, <1>4, <1>5, <1>6, Alone


\* A worker that had nothing in hand takes a run up.
LEMMA TakesUp ==
  ASSUME Inv, Inv', Owing, NEW w \in Worker, NEW j, NEW x \in Run \cup {None},
         pc[w] = "idle", Goto(w, "busy"), Set(w, j),
         \A r \in Run \ {x} : SameRow(r), x # None => RowFits(x) /\ Pays("busy", j, x),
         j.for = None, j.look = {}, j.doomed = None,
         \/ j.queue = <<>> /\ j.mode # "close"
         \/ j.mode = "abandon" /\ \E r \in Run \cup {None} : j.queue = <<r>>
  PROVE  Owing'
<1>1. QueueWell(row', "busy", j) /\ Calm("busy", j)
  BY DEF QueueWell, Calm
<1>2. Keeps(w, "busy", j, x)
  BY NoDebts
<1> QED
  BY <1>1, <1>2, Alone

LEMMA CancelRunOwing ==
  ASSUME Inv, Inv', Owing, NEW w \in Worker, NEW r \in Run, CancelRun(w, r) \/ FailUnresumable(w, r)
  PROVE  Owing'
<1>1. PICK m \in {"cancel", "refuse"} :
        pc[w] = "idle" /\ Goto(w, "busy") /\ Set(w, ToFail(r, m)) /\ row' = row
  BY DEF CancelRun, FailUnresumable
<1> DEFINE j == ToFail(r, m)
<1>2. j.for = None /\ j.look = {} /\ j.doomed = None /\ j.queue = <<>> /\ j.mode = m
  BY DEF ToFail, NoJob
<1> HIDE DEF j
<1>3. None \in Run \cup {None} /\ \A q \in Run \ {None} : SameRow(q)
  BY <1>1, WritesNone
<1>4. Set(w, j)
  BY <1>1 DEF j
<1> QED
  BY <1>1, <1>2, <1>3, <1>4, TakesUp

LEMMA HoldEventOwing ==
  ASSUME Inv, Inv', Owing, NEW w \in Worker, NEW r \in Run, HoldEvent(w, r)
  PROVE  Owing'
<1> DEFINE j == [NoJob EXCEPT !.queue = <<r>>]
<1>1. pc[w] = "idle" /\ Goto(w, "busy") /\ Set(w, j) /\ row' = row
  BY DEF HoldEvent
<1>2. j.for = None /\ j.look = {} /\ j.doomed = None /\ j.queue = <<r>> /\ j.mode = "abandon"
  BY DEF NoJob
<1> HIDE DEF j
<1>3. None \in Run \cup {None} /\ \A q \in Run \ {None} : SameRow(q)
  BY <1>1, WritesNone
<1> QED
  BY <1>1, <1>2, <1>3, TakesUp

LEMMA RecoverResumeOwing ==
  ASSUME Inv, Inv', Owing, NEW w \in Worker, NEW r \in Run, RecoverResume(w, r)
  PROVE  Owing'
<1>1. pc[w] = "idle" /\ Goto(w, "busy") /\ Claimed(r) /\ Write(r, PutBack(r)) /\ TypeOK /\ RowsLinked
  BY DEF RecoverResume, Inv, Owing
<1>2. /\ RowFits(r) /\ row'[r].status = "suspended" /\ row'[r].suspendedAt = row[r].suspendedAt
      /\ \A q \in Run \ {r} : SameRow(q)
  BY <1>1, PutBackFits, WritesRow
<1>3. ASSUME Set(w, [NoJob EXCEPT !.queue = SuspendedFollowUps(r)])
      PROVE  Owing'
  <2> DEFINE j == [NoJob EXCEPT !.queue = SuspendedFollowUps(r)]
  <2>1. j.for = None /\ j.look = {} /\ j.doomed = None /\ j.queue = <<r>> /\ j.mode = "abandon"
    BY DEF NoJob, SuspendedFollowUps
  <2>2. Set(w, j)
    BY <1>3
  <2> HIDE DEF j
  <2>3. Pays("busy", j, r)
    BY <1>2, <2>1, Queues, SuspendedPays
  <2> QED
    BY <1>1, <1>2, <2>1, <2>2, <2>3, TakesUp
<1>4. ASSUME Set(w, [NoJob EXCEPT !.mode = "cancel",
                  !.todo = {[run |-> r, status |-> "suspended", again |-> FALSE,
                             suspendedAt |-> row[r].suspendedAt]}])
      PROVE  Owing'
  <2> DEFINE t == [run |-> r, status |-> "suspended", again |-> FALSE,
                   suspendedAt |-> row[r].suspendedAt]
             j == [NoJob EXCEPT !.mode = "cancel", !.todo = {t}]
  <2>1. /\ j.for = None /\ j.look = {} /\ j.doomed = None /\ j.queue = <<>> /\ j.mode = "cancel"
        /\ j.todo = {t}
    BY DEF NoJob
  <2>2. t.run = r /\ t.status = "suspended" /\ t.suspendedAt = row'[r].suspendedAt
    BY <1>2
  <2>3. Set(w, j)
    BY <1>4
  <2> HIDE DEF j, t
  <2>4. WillFail(row', "busy", j, r)
    BY <1>2, <2>1, <2>2 DEF WillFail, ReadToFail
  <2>5. Pays("busy", j, r)
    BY <1>2, <2>4, SuspendedPays
  <2> QED
    BY <1>1, <1>2, <2>1, <2>3, <2>5, TakesUp
<1> QED
  BY <1>3, <1>4 DEF RecoverResume

LEMMA RecoverFirstPassOwing ==
  ASSUME Inv, Inv', Owing, NEW w \in Worker, NEW r \in Run, RecoverFirstPass(w, r)
  PROVE  Owing'
<1> DEFINE j == [NoJob EXCEPT !.walk = {r}, !.queue = <<ParentOf(r)>>]
<1>1. /\ pc[w] = "idle" /\ Goto(w, "busy") /\ Set(w, j) /\ Active(r) /\ Write(r, EndedAs(r, "failed"))
      /\ TypeOK /\ RowsLinked
  BY DEF RecoverFirstPass, Inv, Owing, Active
<1>2. RowFits(r) /\ row'[r].status = "failed" /\ \A q \in Run \ {r} : SameRow(q)
  BY <1>1, EndedFits, WritesRow
<1>3. /\ j.for = None /\ j.look = {} /\ j.doomed = None /\ j.mode = "abandon"
      /\ j.queue = <<ParentOf(r)>> /\ j.walk = {r}
  BY DEF NoJob
<1> HIDE DEF j
<1>4. ParentOf(r) \in Run \cup {None}
  BY <1>1, FollowUpsAreRuns
<1>5. Pays("busy", j, r)
  BY <1>1, <1>2, <1>3, EndedIsQueued
<1> QED
  BY <1>1, <1>2, <1>3, <1>4, <1>5, TakesUp


\* A worker that only reads goes on with what it owes.
LEMMA OnlyReads ==
  ASSUME Inv, Inv', Owing, NEW w \in Worker, NEW k \in Steps \ {"pass"}, NEW j,
         pc[w] # "pass", Goto(w, k), Set(w, j), row' = row,
         j.for = job[w].for, j.first = job[w].first,
         QueueWell(row, k, j), Calm(k, j),
         \A p, c \in Run :
           /\ ResultDue(row, p, c) /\ OwesResult(row, pc[w], job[w], p, c) => OwesResult(row, k, j, p, c)
           /\ CancelDue(row, p, c) /\ OwesCancel(row, pc[w], job[w], p, c) => OwesCancel(row, k, j, p, c)
  PROVE  Owing'
<1>1. None \in Run \cup {None} /\ \A q \in Run \ {None} : SameRow(q)
  BY WritesNone
<1>2. Keeps(w, k, j, None)
  BY DEF Keeps
<1>3. QueueWell(row', k, j)
  BY DEF QueueWell
<1> QED
  BY <1>1, <1>2, <1>3, Alone

\* A worker at its queue owes only what the queue names.
LEMMA QueueDebts ==
  ASSUME Inv, Owing, NEW w \in Worker, AtQueue(w), NEW p \in Run, NEW c \in Run
  PROVE  /\ OwesResult(row, pc[w], job[w], p, c) => p \in Queued(job[w])
         /\ OwesCancel(row, pc[w], job[w], p, c) => p \in Queued(job[w]) \/ c \in Queued(job[w])
BY DEF AtQueue, Failing, OwesResult, OwesCancel, WillRead, WillFail, ReadToFail

\* A queue of runs, and what is left of it.
LEMMA QueueShape ==
  ASSUME NEW j, QueueWell(row, "busy", j), j.queue # <<>>
  PROVE  LET r == Head(j.queue) IN
         /\ r \in Run \cup {None}
         /\ \/ Queued(j) = {r} /\ Tail(j.queue) = <<>>
            \/ \E q \in Run \cup {None} :
                 /\ Queued(j) = {r, q} /\ Tail(j.queue) = <<q>>
                 /\ r \in Run /\ Over(row, r)
<1>1. CASE \E r \in Run \cup {None} : j.queue = <<r>>
  <2>1. PICK r \in Run \cup {None} : j.queue = <<r>>
    BY <1>1
  <2>2. Head(j.queue) = r /\ Tail(j.queue) = <<>> /\ Queued(j) = {r}
    BY <2>1, Queues
  <2> QED
    BY <2>2
<1>2. CASE \E e \in Run, q \in Run \cup {None} : j.queue = <<e, q>> /\ Over(row, e)
  <2>1. PICK e \in Run, q \in Run \cup {None} : j.queue = <<e, q>> /\ Over(row, e)
    BY <1>2
  <2>2. Head(j.queue) = e /\ Tail(j.queue) = <<q>>
    BY <2>1
  <2>3. Queued(j) = {e, q}
    BY <2>1, Queues
  <2> QED
    BY <2>1, <2>2, <2>3
<1> QED
  BY <1>1, <1>2 DEF QueueWell

LEMMA ListChildrenOwing ==
  ASSUME Inv, Inv', Owing, NEW w \in Worker, ListChildren(w)
  PROVE  Owing'
<1> DEFINE n == Tail(job[w].queue)
           i == [job[w] EXCEPT !.queue = n, !.run = None, !.wait = None,
                               !.suspendedAt = 0, !.mode = "abandon"]
<1>1. /\ pc[w] = "busy" /\ TypeOK /\ RowsLinked /\ QueueWell(row, "busy", job[w])
      /\ Calm("busy", job[w]) /\ job[w] \in Jobs /\ AtQueue(w) /\ job[w].queue # <<>> /\ row' = row
  BY BusyOwing, JobOf DEF ListChildren, AtQueue
<1>2. /\ job[w].look = {} /\ job[w].todo = {} /\ job[w].walk = {} /\ job[w].doomed = None
  BY <1>1 DEF AtQueue, Failing
<1>3. /\ i = [job[w] EXCEPT !.queue = Tail(@), !.run = None, !.wait = None,
                            !.suspendedAt = 0, !.mode = "abandon"]
  BY <1>1 DEF Jobs
<1>4. PICK r : r = Head(job[w].queue)
  OBVIOUS
<1>5. /\ r \in Run \cup {None}
      /\ \/ Queued(job[w]) = {r} /\ n = <<>>
         \/ \E q \in Run \cup {None} :
              Queued(job[w]) = {r, q} /\ n = <<q>> /\ r \in Run /\ Over(row, r)
  BY <1>1, <1>4, QueueShape
<1> HIDE DEF n
<1>6. /\ i.queue = n /\ i.look = {} /\ i.todo = {} /\ i.walk = {} /\ i.doomed = None
      /\ i.mode = "abandon" /\ i.for = job[w].for /\ i.first = job[w].first
  BY <1>1, <1>2 DEF Jobs
<1>7. i.run = None
  BY <1>1 DEF Jobs
<1>8. CASE r = None
  <2>1. Goto(w, "busy") /\ Set(w, i)
    BY <1>3, <1>4, <1>8, NobodyAssumption DEF ListChildren
  <2> HIDE DEF i
  <2>2. Queued(job[w]) = {None} /\ n = <<>>
    BY <1>5, <1>8, NobodyAssumption
  <2>3. QueueWell(row, "busy", i) /\ Calm("busy", i)
    BY <1>6, <2>2 DEF QueueWell, Calm
  <2>4. \A p, c \in Run : /\ ~OwesResult(row, pc[w], job[w], p, c)
                          /\ ~OwesCancel(row, pc[w], job[w], p, c)
    BY <1>1, <2>2, QueueDebts, NobodyAssumption
  <2>5. "busy" \in Steps \ {"pass"}
    BY DEF Steps
  <2> QED
    BY <1>1, <1>6, <2>1, <2>3, <2>4, <2>5, OnlyReads
<1>9. CASE r \in Run
  <2> DEFINE kids == SuspendedChildren(r)
             j == [i EXCEPT !.run = r, !.todo = kids]
  <2>1. Goto(w, "listed") /\ Set(w, j)
    BY <1>3, <1>4, <1>9, NobodyAssumption DEF ListChildren
  <2>2. job[w].for = i.for /\ job[w].first = i.first
    BY <1>6
  <2>3. DOMAIN i = DOMAIN job[w]
    OBVIOUS
  <2> HIDE DEF i, kids
  <2>4. /\ j.queue = n /\ j.look = {} /\ j.todo = kids /\ j.walk = {} /\ j.doomed = None
        /\ j.mode = "abandon" /\ j.for = job[w].for /\ j.first = job[w].first /\ j.run = r
    BY <1>1, <1>6, <2>3 DEF Jobs
  <2> HIDE DEF j
  <2>5. QueueWell(row, "listed", j) /\ Calm("listed", j)
    <3>1. n = <<>> \/ \E q \in Run \cup {None} : n = <<q>> /\ Over(row, r)
      BY <1>5
    <3> QED
      BY <2>4, <3>1 DEF QueueWell, Calm
  <2>6. \A q \in Queued(job[w]) : q = r \/ q \in Queued(j)
    <3>1. CASE n = <<>> /\ Queued(job[w]) = {r}
      BY <3>1
    <3>2. CASE \E q \in Run \cup {None} : Queued(job[w]) = {r, q} /\ n = <<q>>
      <4>1. PICK q \in Run \cup {None} : Queued(job[w]) = {r, q} /\ n = <<q>>
        BY <3>2
      <4>2. Queued(j) = {q}
        BY <2>4, <4>1, Queues
      <4> QED
        BY <4>1, <4>2
    <3> QED
      BY <1>5, <3>1, <3>2
  <2>7. ASSUME NEW c \in Run, CancelDue(row, r, c) PROVE ReadToFail(row, j, c)
    <3>1. row[c].status = "suspended" /\ row[c].caller = r
      BY <2>7 DEF CancelDue
    <3>2. Read(c, FALSE) \in j.todo
      BY <1>1, <1>9, <2>4, <3>1, NobodyAssumption DEF kids, SuspendedChildren, ChildrenOf, Suspended, RowsLinked
    <3> QED
      BY <3>1, <3>2 DEF ReadToFail, Read
  <2>8. ASSUME NEW p \in Run, NEW c \in Run
        PROVE  /\ OwesResult(row, pc[w], job[w], p, c) => OwesResult(row, "listed", j, p, c)
               /\ CancelDue(row, p, c) /\ OwesCancel(row, pc[w], job[w], p, c) =>
                    OwesCancel(row, "listed", j, p, c)
    <3>1. p = r /\ CancelDue(row, p, c) => OwesCancel(row, "listed", j, p, c)
      BY <2>4, <2>7 DEF OwesCancel
    <3>2. p \in Queued(j) \/ c = r \/ c \in Queued(j) => OwesCancel(row, "listed", j, p, c)
      BY <2>4 DEF OwesCancel, WillRead
    <3>3. p = r \/ p \in Queued(j) => OwesResult(row, "listed", j, p, c)
      BY <2>4 DEF OwesResult, WillRead
    <3> QED
      BY <1>1, <2>6, <3>1, <3>2, <3>3, QueueDebts
  <2>9. "listed" \in Steps \ {"pass"}
    BY DEF Steps
  <2> QED
    BY <1>1, <2>1, <2>4, <2>5, <2>8, <2>9, OnlyReads
<1> QED
  BY <1>5, <1>8, <1>9


\* What a worker that reconciles has in hand.
LEMMA Reconciles ==
  ASSUME Inv, Owing, NEW w \in Worker, pc[w] \in {"listed", "caller", "deliver"}
  PROVE  /\ ReconcileHand(w) /\ TypeOK /\ RowsWell /\ Hand(w) /\ RowsLinked
         /\ job[w].run \in Run /\ job[w] \in Jobs
         /\ QueueWell(row, pc[w], job[w]) /\ Calm(pc[w], job[w])
         /\ job[w].mode = "abandon" /\ job[w].walk = {} /\ job[w].doomed = None
         /\ \A s \in job[w].todo : ~s.again /\ s.status = "suspended" /\ s.run \in Run
<1>1. /\ ReconcileHand(w) /\ TypeOK /\ RowsWell /\ Hand(w) /\ job[w].run \in Run /\ job[w] \in Jobs
  BY Reconciling
<1>2. RowsLinked /\ QueueWell(row, pc[w], job[w]) /\ Calm(pc[w], job[w])
  BY DEF Owing
<1>3. \A s \in job[w].todo : s.run \in Run
  BY <1>1, JobOf DEF Reads
<1> QED
  BY <1>1, <1>2, <1>3 DEF ReconcileHand, Child

\* The reconcile of a run is done with its children.
LEMMA UnwaitedJob ==
  ASSUME NEW j \in Jobs, NEW waits
  PROVE  LET k == Unwaited(j, waits) IN
         /\ k.look = waits /\ k.todo = {s \in j.todo : s.run \notin waits}
         /\ k.run = j.run /\ k.suspendedAt = j.suspendedAt /\ k.queue = j.queue /\ k.walk = j.walk
         /\ k.mode = j.mode /\ k.doomed = j.doomed /\ k.for = j.for /\ k.first = j.first
<1> DEFINE n == {s \in j.todo : s.run \notin waits}
           k == Unwaited(j, waits)
<1>1. k = [j EXCEPT !.look = waits, !.todo = n]
  BY DEF Unwaited, Jobs
<1>2. n = {s \in j.todo : s.run \notin waits}
  OBVIOUS
<1> HIDE DEF n, k
<1>3. /\ k.look = waits /\ k.todo = n
      /\ k.run = j.run /\ k.suspendedAt = j.suspendedAt /\ k.queue = j.queue /\ k.walk = j.walk
      /\ k.mode = j.mode /\ k.doomed = j.doomed /\ k.for = j.for /\ k.first = j.first
  BY <1>1 DEF Jobs
<1> QED
  BY <1>2, <1>3 DEF k

\* A run that was listed owes to itself, to its children, and to what is queued.
LEMMA ListedDebts ==
  ASSUME Inv, Owing, NEW w \in Worker, pc[w] = "listed", NEW p \in Run, NEW c \in Run
  PROVE  /\ OwesResult(row, pc[w], job[w], p, c) => p \in Queued(job[w]) \/ p = job[w].run
         /\ OwesCancel(row, pc[w], job[w], p, c) =>
              \/ p \in Queued(job[w]) \/ c \in Queued(job[w])
              \/ c = job[w].run
              \/ p = job[w].run /\ ReadToFail(row, job[w], c)
<1>1. job[w].walk = {}
  BY Reconciles
<1> QED
  BY <1>1 DEF OwesResult, OwesCancel, WillRead, WillFail

LEMMA ReadRunOwing ==
  ASSUME Inv, Inv', Owing, NEW w \in Worker, ReadRun(w)
  PROVE  Owing'
<1> DEFINE at == row[job[w].run].suspendedAt
           i == [job[w] EXCEPT !.suspendedAt = at]
<1>1. /\ pc[w] = "listed" /\ TypeOK /\ RowsLinked /\ QueueWell(row, "listed", job[w])
      /\ Calm("listed", job[w]) /\ job[w] \in Jobs /\ row' = row
      /\ job[w].mode = "abandon" /\ job[w].walk = {} /\ job[w].doomed = None
      /\ \A s \in job[w].todo : ~s.again /\ s.status = "suspended" /\ s.run \in Run
  BY Reconciles DEF ReadRun
<1>2. PICK r \in Run : r = job[w].run
  BY <1>1, Reconciles
<1>3. row[r].waits \subseteq Run /\ at = row[r].suspendedAt /\ at \in Nat
  BY <1>1, <1>2, RowOf
<1>4. job[w].look = {}
  BY <1>1 DEF Inv, Hand, ListedHand
<1> HIDE DEF at
<1>5. /\ i \in Jobs /\ i.run = r /\ i.suspendedAt = at /\ i.queue = job[w].queue /\ i.look = {}
      /\ i.todo = job[w].todo /\ i.walk = {} /\ i.mode = "abandon" /\ i.doomed = None
      /\ i.for = job[w].for /\ i.first = job[w].first
  BY ZenonT(60), <1>1, <1>2, <1>3, <1>4 DEF Jobs
<1>6. {"busy", "caller"} \subseteq Steps \ {"pass"}
  BY DEF Steps
<1>7. Suspended(r) => job[w].queue = <<>> /\ Queued(job[w]) = {}
  BY <1>1, <1>2, Queues DEF Suspended, QueueWell, Over
<1>8. i = [job[w] EXCEPT !.suspendedAt = row[job[w].run].suspendedAt]
  BY DEF at
<1> HIDE DEF i
\* The caller is read next.
<1>9. CASE Suspended(r) /\ row[r].caller # None
  <2> DEFINE waits == row[r].waits
             j == [i EXCEPT !.look = waits]
  <2>1. Goto(w, "caller") /\ Set(w, j)
    BY <1>2, <1>8, <1>9 DEF ReadRun, Suspended, Ended, Claimed, Exists
  <2>2. waits = row[r].waits
    OBVIOUS
  <2> HIDE DEF waits
  <2>3. /\ j.look = waits /\ j.run = r /\ j.suspendedAt = at /\ j.queue = <<>>
        /\ j.todo = job[w].todo /\ j.mode = "abandon" /\ j.doomed = None
        /\ j.for = job[w].for /\ j.first = job[w].first
    BY <1>5, <1>7, <1>9 DEF Jobs
  <2> HIDE DEF j
  <2>4. QueueWell(row, "caller", j) /\ Calm("caller", j)
    BY <2>3 DEF QueueWell, Calm
  <2>5. ReadAsIs(row, j, r)
    BY <1>3, <1>9, <2>3 DEF ReadAsIs, Suspended
  <2>6. ASSUME NEW p \in Run, NEW c \in Run
        PROVE  /\ ResultDue(row, p, c) /\ OwesResult(row, pc[w], job[w], p, c) => OwesResult(row, "caller", j, p, c)
               /\ CancelDue(row, p, c) /\ OwesCancel(row, pc[w], job[w], p, c) => OwesCancel(row, "caller", j, p, c)
    <3>1. p = r /\ ResultDue(row, p, c) => OwesResult(row, "caller", j, p, c)
      BY <2>2, <2>3, <2>5 DEF ResultDue, OwesResult
    <3>2. c = r => OwesCancel(row, "caller", j, p, c)
      BY <2>5 DEF OwesCancel
    <3>3. p = r /\ CancelDue(row, p, c) /\ ReadToFail(row, job[w], c) => OwesCancel(row, "caller", j, p, c)
      <4>1. p = r /\ CancelDue(row, p, c) => c \notin j.look
        BY <1>9, <2>2, <2>3 DEF CancelDue, Suspended
      <4>2. ReadToFail(row, job[w], c) => ReadToFail(row, j, c)
        BY <2>3 DEF ReadToFail
      <4> QED
        BY <2>5, <4>1, <4>2 DEF OwesCancel
    <3> QED
      BY <1>1, <1>2, <1>7, <1>9, <3>1, <3>2, <3>3, ListedDebts
  <2> QED
    BY <1>1, <1>6, <2>1, <2>3, <2>4, <2>6, OnlyReads
\* The children none of the waits names are cancelled.
<1>10. CASE Suspended(r) /\ row[r].caller = None
  <2> DEFINE waits == row[r].waits
             j == Unwaited(i, waits)
  <2>1. Goto(w, "busy") /\ Set(w, j)
    BY <1>2, <1>8, <1>10 DEF ReadRun, Suspended, Ended, Claimed, Exists
  <2>2. waits = row[r].waits
    OBVIOUS
  <2> HIDE DEF waits
  <2>3. /\ j.look = waits /\ j.run = r /\ j.suspendedAt = at /\ j.queue = <<>>
        /\ j.todo = {s \in job[w].todo : s.run \notin waits} /\ j.mode = "abandon" /\ j.doomed = None
        /\ j.for = job[w].for /\ j.first = job[w].first
    BY <1>5, <1>7, <1>10, UnwaitedJob
  <2> HIDE DEF j
  <2>4. QueueWell(row, "busy", j) /\ Calm("busy", j)
    BY <2>3 DEF QueueWell, Calm
  <2>5. ReadAsIs(row, j, r)
    BY <1>3, <1>10, <2>3 DEF ReadAsIs, Suspended
  <2>6. ASSUME NEW p \in Run, NEW c \in Run
        PROVE  /\ ResultDue(row, p, c) /\ OwesResult(row, pc[w], job[w], p, c) => OwesResult(row, "busy", j, p, c)
               /\ CancelDue(row, p, c) /\ OwesCancel(row, pc[w], job[w], p, c) => OwesCancel(row, "busy", j, p, c)
    <3>1. p = r /\ ResultDue(row, p, c) => OwesResult(row, "busy", j, p, c)
      BY <2>2, <2>3, <2>5 DEF ResultDue, OwesResult
    <3>2. ~(c = r /\ CancelDue(row, p, c))
      BY <1>10, NobodyAssumption DEF CancelDue
    <3>3. p = r /\ CancelDue(row, p, c) /\ ReadToFail(row, job[w], c) => OwesCancel(row, "busy", j, p, c)
      <4>1. p = r /\ CancelDue(row, p, c) => c \notin waits
        BY <1>10, <2>2 DEF CancelDue, Suspended
      <4>2. c \notin waits /\ ReadToFail(row, job[w], c) => ReadToFail(row, j, c)
        BY <2>3 DEF ReadToFail
      <4> QED
        BY <4>1, <4>2 DEF OwesCancel, WillFail
    <3> QED
      BY <1>1, <1>2, <1>7, <1>10, <3>1, <3>2, <3>3, ListedDebts
  <2> QED
    BY <1>1, <1>6, <2>1, <2>3, <2>4, <2>6, OnlyReads
\* Nothing is awaited any more: the children are all cancelled.
<1>11. CASE Ended(r)
  <2> DEFINE j == Unwaited(i, {})
  <2>1. Goto(w, "busy") /\ Set(w, j)
    BY <1>2, <1>8, <1>11 DEF ReadRun, Suspended, Ended, Claimed, Exists
  <2>2. /\ j.look = {} /\ j.run = r /\ j.queue = job[w].queue
        /\ j.todo = {s \in job[w].todo : s.run \notin {}} /\ j.mode = "abandon" /\ j.doomed = None
        /\ j.for = job[w].for /\ j.first = job[w].first
    BY <1>5, UnwaitedJob
  <2> HIDE DEF j
  <2>3. QueueWell(row, "busy", j) /\ Calm("busy", j)
    BY <1>1, <2>2 DEF QueueWell, Calm
  <2>4. Queued(j) = Queued(job[w])
    BY <2>2 DEF Queued
  <2>5. ASSUME NEW p \in Run, NEW c \in Run
        PROVE  /\ ResultDue(row, p, c) /\ OwesResult(row, pc[w], job[w], p, c) => OwesResult(row, "busy", j, p, c)
               /\ CancelDue(row, p, c) /\ OwesCancel(row, pc[w], job[w], p, c) => OwesCancel(row, "busy", j, p, c)
    <3>1. ~(p = r /\ ResultDue(row, p, c)) /\ ~(c = r /\ CancelDue(row, p, c))
      BY <1>11 DEF ResultDue, CancelDue, Ended
    <3>2. ReadToFail(row, job[w], c) => OwesCancel(row, "busy", j, p, c)
      BY <2>2 DEF OwesCancel, WillFail, ReadToFail
    <3>3. p \in Queued(j) \/ c \in Queued(j) => OwesCancel(row, "busy", j, p, c)
      BY DEF OwesCancel, WillRead
    <3>4. p \in Queued(j) => OwesResult(row, "busy", j, p, c)
      BY DEF OwesResult, WillRead
    <3> QED
      BY <1>1, <1>2, <2>4, <3>1, <3>2, <3>3, <3>4, ListedDebts
  <2> QED
    BY <1>1, <1>6, <2>1, <2>2, <2>3, <2>5, OnlyReads
\* The run is in a pass: it is left alone.
<1>12. CASE Claimed(r) \/ ~Exists(r)
  <2> DEFINE j == [i EXCEPT !.todo = {}]
  <2>1. Goto(w, "busy") /\ Set(w, j)
    BY <1>2, <1>8, <1>12 DEF ReadRun, Suspended, Ended, Claimed, Exists
  <2>2. /\ j.look = {} /\ j.queue = job[w].queue /\ j.mode = "abandon" /\ j.doomed = None
        /\ j.for = job[w].for /\ j.first = job[w].first
    BY <1>5 DEF Jobs
  <2> HIDE DEF j
  <2>3. QueueWell(row, "busy", j) /\ Calm("busy", j)
    BY <1>1, <2>2 DEF QueueWell, Calm
  <2>4. Queued(j) = Queued(job[w])
    BY <2>2 DEF Queued
  <2>5. ASSUME NEW p \in Run, NEW c \in Run
        PROVE  /\ ResultDue(row, p, c) /\ OwesResult(row, pc[w], job[w], p, c) => OwesResult(row, "busy", j, p, c)
               /\ CancelDue(row, p, c) /\ OwesCancel(row, pc[w], job[w], p, c) => OwesCancel(row, "busy", j, p, c)
    <3>1. /\ ~(p = r /\ ResultDue(row, p, c)) /\ ~(c = r /\ CancelDue(row, p, c))
          /\ ~(p = r /\ CancelDue(row, p, c))
      BY <1>12 DEF ResultDue, CancelDue, Claimed, Exists
    <3>2. p \in Queued(j) \/ c \in Queued(j) => OwesCancel(row, "busy", j, p, c)
      BY DEF OwesCancel, WillRead
    <3>3. p \in Queued(j) => OwesResult(row, "busy", j, p, c)
      BY DEF OwesResult, WillRead
    <3> QED
      BY <1>1, <1>2, <2>4, <3>1, <3>2, <3>3, ListedDebts
  <2> QED
    BY <1>1, <1>6, <2>1, <2>2, <2>3, <2>5, OnlyReads
<1> QED
  BY <1>2, <1>9, <1>10, <1>11, <1>12 DEF ReadRun


\* A run that was read, or that it reads the caller of.
LEMMA CallerDebts ==
  ASSUME Inv, Owing, NEW w \in Worker, pc[w] = "caller", NEW p \in Run, NEW c \in Run
  PROVE  /\ OwesResult(row, pc[w], job[w], p, c) => ReadAsIs(row, job[w], p) /\ c \in job[w].look
         /\ OwesCancel(row, pc[w], job[w], p, c) =>
              \/ ReadAsIs(row, job[w], c)
              \/ ReadAsIs(row, job[w], p) /\ c \notin job[w].look /\ ReadToFail(row, job[w], c)
<1>1. job[w].walk = {} /\ QueueWell(row, pc[w], job[w])
  BY Reconciles
<1>2. Queued(job[w]) = {}
  BY <1>1, Queues DEF QueueWell
<1> QED
  BY <1>1, <1>2 DEF OwesResult, OwesCancel, WillRead, WillFail

LEMMA ReadCallerOwing ==
  ASSUME Inv, Inv', Owing, NEW w \in Worker, ReadCaller(w)
  PROVE  Owing'
<1>1. /\ pc[w] = "caller" /\ TypeOK /\ RowsLinked /\ QueueWell(row, "caller", job[w])
      /\ job[w] \in Jobs /\ row' = row /\ Goto(w, "busy")
      /\ job[w].mode = "abandon" /\ job[w].walk = {} /\ job[w].doomed = None
      /\ \A s \in job[w].todo : ~s.again /\ s.status = "suspended" /\ s.run \in Run
  BY Reconciles DEF ReadCaller
<1>2. PICK r \in Run : r = job[w].run
  BY <1>1, Reconciles
<1>3. job[w].queue = <<>> /\ job[w].suspendedAt \in Nat
  BY <1>1, JobOf DEF QueueWell
<1>4. "busy" \in Steps \ {"pass"}
  BY DEF Steps
<1>5. CASE WaitedOnBy(r, row[r].caller)
  <2> DEFINE waits == job[w].look
             j == Unwaited(job[w], waits)
  <2>1. Set(w, j)
    BY <1>2, <1>5 DEF ReadCaller
  <2>2. waits = job[w].look
    OBVIOUS
  <2> HIDE DEF waits
  <2>3. /\ j.look = waits /\ j.run = r /\ j.suspendedAt = job[w].suspendedAt /\ j.queue = <<>>
        /\ j.todo = {s \in job[w].todo : s.run \notin waits} /\ j.mode = "abandon" /\ j.doomed = None
        /\ j.for = job[w].for /\ j.first = job[w].first
    BY <1>1, <1>2, <1>3, UnwaitedJob
  <2> HIDE DEF j
  <2>4. QueueWell(row, "busy", j) /\ Calm("busy", j)
    BY <2>3 DEF QueueWell, Calm
  <2>5. ASSUME NEW p \in Run, NEW c \in Run
        PROVE  /\ ResultDue(row, p, c) /\ OwesResult(row, pc[w], job[w], p, c) => OwesResult(row, "busy", j, p, c)
               /\ CancelDue(row, p, c) /\ OwesCancel(row, pc[w], job[w], p, c) => OwesCancel(row, "busy", j, p, c)
    <3>1. ReadAsIs(row, job[w], p) => ReadAsIs(row, j, p)
      BY <1>2, <2>3 DEF ReadAsIs
    <3>2. ~(CancelDue(row, p, c) /\ ReadAsIs(row, job[w], c))
      <4> SUFFICES ASSUME CancelDue(row, p, c), c = r PROVE FALSE
        BY <1>2 DEF ReadAsIs
      <4>1. row[r].caller = p
        BY DEF CancelDue
      <4> QED
        BY <1>5, <4>1 DEF CancelDue, WaitedOnBy, Suspended, Claimed
    <3>3. c \notin waits /\ ReadToFail(row, job[w], c) => ReadToFail(row, j, c)
      BY <2>3 DEF ReadToFail
    <3>4. ReadAsIs(row, job[w], p) /\ c \in job[w].look => OwesResult(row, "busy", j, p, c)
      BY <2>2, <2>3, <3>1 DEF OwesResult
    <3>5. c \notin waits /\ ReadToFail(row, job[w], c) => OwesCancel(row, "busy", j, p, c)
      BY <3>3 DEF OwesCancel, WillFail
    <3> QED
      BY <1>1, <2>2, <3>2, <3>4, <3>5, CallerDebts
  <2> QED
    BY <1>1, <1>4, <2>1, <2>3, <2>4, <2>5, OnlyReads
<1>6. CASE ~WaitedOnBy(r, row[r].caller)
  <2> DEFINE t == [run |-> r, status |-> "suspended", again |-> FALSE,
                   suspendedAt |-> job[w].suspendedAt]
             j == [job[w] EXCEPT !.look = {}, !.todo = {t}]
  <2>1. Set(w, j)
    BY <1>2, <1>6 DEF ReadCaller
  <2>2. t.run = r /\ t.status = "suspended" /\ t.suspendedAt = job[w].suspendedAt
    OBVIOUS
  <2> HIDE DEF t
  <2>3. /\ j.look = {} /\ j.run = r /\ j.suspendedAt = job[w].suspendedAt /\ j.queue = <<>>
        /\ j.todo = {t} /\ j.mode = "abandon" /\ j.doomed = None
        /\ j.for = job[w].for /\ j.first = job[w].first
    BY <1>1, <1>2, <1>3 DEF Jobs
  <2> HIDE DEF j
  <2>4. QueueWell(row, "busy", j) /\ Calm("busy", j)
    BY <2>3 DEF QueueWell, Calm
  <2>5. ASSUME NEW q \in Run, ReadAsIs(row, job[w], q) PROVE WillFail(row, "busy", j, q)
    <3>1. q = r /\ row[r].status = "suspended" /\ t.suspendedAt = row[r].suspendedAt
      BY <1>2, <2>2, <2>5 DEF ReadAsIs
    <3> QED
      BY <2>2, <2>3, <3>1 DEF WillFail, ReadToFail
  <2>6. ASSUME NEW p \in Run, NEW c \in Run
        PROVE  /\ ResultDue(row, p, c) /\ OwesResult(row, pc[w], job[w], p, c) => OwesResult(row, "busy", j, p, c)
               /\ CancelDue(row, p, c) /\ OwesCancel(row, pc[w], job[w], p, c) => OwesCancel(row, "busy", j, p, c)
    <3>1. WillFail(row, "busy", j, p) => OwesResult(row, "busy", j, p, c) /\ OwesCancel(row, "busy", j, p, c)
      BY DEF OwesResult, OwesCancel
    <3>2. WillFail(row, "busy", j, c) => OwesCancel(row, "busy", j, p, c)
      BY DEF OwesCancel
    <3> QED
      BY <1>1, <2>5, <3>1, <3>2, CallerDebts
  <2> QED
    BY <1>1, <1>4, <2>1, <2>3, <2>4, <2>6, OnlyReads
<1> QED
  BY <1>5, <1>6

LEMMA LookAtOwing ==
  ASSUME Inv, Inv', Owing, NEW w \in Worker, NEW d \in job[w].look, LookAt(w, d)
  PROVE  Owing'
<1>1. /\ pc[w] = "busy" /\ TypeOK /\ RowsLinked /\ QueueWell(row, "busy", job[w])
      /\ job[w] \in Jobs /\ row' = row /\ Calm("busy", job[w])
      /\ job[w].walk = {} /\ job[w].todo = {} /\ job[w].doomed = None /\ job[w].mode # "close"
  BY BusyOwing, JobOf DEF LookAt, Failing
<1>2. job[w].queue = <<>> /\ Queued(job[w]) = {}
  BY <1>1, Queues DEF QueueWell
<1>3. ASSUME NEW p \in Run, NEW c \in Run
      PROVE  /\ OwesResult(row, pc[w], job[w], p, c) => ReadAsIs(row, job[w], p) /\ c \in job[w].look
             /\ ~OwesCancel(row, pc[w], job[w], p, c)
  BY <1>1, <1>2 DEF OwesResult, OwesCancel, WillRead, WillFail, ReadToFail
<1>4. {"busy", "deliver"} \subseteq Steps \ {"pass"}
  BY DEF Steps
<1> DEFINE result == row[d].status = "deleted" \/ (Ended(d) /\ ParentOf(d) = job[w].run)
\* It ended: its result is delivered.
<1>5. CASE result
  <2> DEFINE j == [job[w] EXCEPT !.look = {}, !.wait = d]
  <2>1. Goto(w, "deliver") /\ Set(w, j)
    BY <1>5 DEF LookAt
  <2>2. /\ j.look = {} /\ j.run = job[w].run /\ j.suspendedAt = job[w].suspendedAt /\ j.queue = <<>>
        /\ j.mode = job[w].mode /\ j.doomed = None
        /\ j.for = job[w].for /\ j.first = job[w].first
    BY <1>1, <1>2 DEF Jobs
  <2> HIDE DEF j
  <2>3. QueueWell(row, "deliver", j) /\ Calm("deliver", j)
    BY <1>1, <2>2 DEF QueueWell, Calm
  <2>4. ASSUME NEW p \in Run, NEW c \in Run, ReadAsIs(row, job[w], p)
        PROVE  OwesResult(row, "deliver", j, p, c)
    BY <2>2, <2>4 DEF OwesResult, ReadAsIs
  <2> QED
    BY <1>1, <1>3, <1>4, <2>1, <2>2, <2>3, <2>4, OnlyReads
\* The next wait is looked at: this one has no result.
<1>6. CASE ~result
  <2> DEFINE n == job[w].look \ {d}
             j == [job[w] EXCEPT !.look = n]
  <2>1. Goto(w, "busy") /\ Set(w, j)
    BY <1>6 DEF LookAt
  <2>2. n = job[w].look \ {d}
    OBVIOUS
  <2> HIDE DEF n
  <2>3. /\ j.look = n /\ j.run = job[w].run /\ j.suspendedAt = job[w].suspendedAt /\ j.queue = <<>>
        /\ j.mode = job[w].mode /\ j.doomed = None
        /\ j.for = job[w].for /\ j.first = job[w].first
    BY <1>1, <1>2 DEF Jobs
  <2> HIDE DEF j
  <2>4. QueueWell(row, "busy", j) /\ Calm("busy", j)
    BY <1>1, <2>3 DEF QueueWell, Calm
  <2>5. ASSUME NEW p \in Run, NEW c \in Run, ReadAsIs(row, job[w], p), c \in job[w].look, ResultDue(row, p, c)
        PROVE  OwesResult(row, "busy", j, p, c)
    <3>1. c # d
      <4>1. row[c].caller = p /\ Ended(c) /\ p = job[w].run /\ p # None
        BY <2>5, <1>1, NobodyAssumption DEF ResultDue, ReadAsIs, Ended, RowsLinked
      <4>2. row[c].linked
        BY <1>1, <4>1 DEF RowsLinked
      <4> QED
        BY <1>6, <4>1, <4>2 DEF ParentOf
    <3>2. ReadAsIs(row, j, p) /\ c \in j.look
      BY <2>2, <2>3, <2>5, <3>1 DEF ReadAsIs
    <3> QED
      BY <3>2 DEF OwesResult
  <2> QED
    BY <1>1, <1>3, <1>4, <2>1, <2>3, <2>4, <2>5, OnlyReads
<1> QED
  BY <1>5, <1>6

\* A worker about to deliver a result owes it to the run it read.
LEMMA DeliverDebts ==
  ASSUME Inv, Owing, NEW w \in Worker, pc[w] = "deliver", NEW p \in Run, NEW c \in Run
  PROVE  /\ OwesResult(row, pc[w], job[w], p, c) => ReadAsIs(row, job[w], p)
         /\ ~OwesCancel(row, pc[w], job[w], p, c)
<1>1. job[w].walk = {} /\ QueueWell(row, pc[w], job[w])
  BY Reconciles
<1>2. Queued(job[w]) = {}
  BY <1>1, Queues DEF QueueWell
<1> QED
  BY <1>1, <1>2 DEF OwesResult, OwesCancel, WillRead, WillFail

LEMMA DeliverOwing ==
  ASSUME Inv, Inv', Owing, NEW w \in Worker, Deliver(w)
  PROVE  Owing'
<1>1. /\ pc[w] = "deliver" /\ TypeOK /\ RowsLinked /\ QueueWell(row, "deliver", job[w]) /\ RowsWell
      /\ job[w] \in Jobs /\ job[w].mode = "abandon" /\ job[w].walk = {} /\ job[w].doomed = None
      /\ DeliverHand(w)
  BY Reconciles DEF Deliver, Hand
<1>2. PICK r \in Run : r = job[w].run
  BY <1>1, Reconciles
<1>3. job[w].queue = <<>> /\ job[w].look = {}
  BY <1>1 DEF QueueWell, DeliverHand
<1>4. CASE ~StillOn(r, job[w].suspendedAt)
  <2> DEFINE j == [job[w] EXCEPT !.wait = None]
  <2>1. Goto(w, "busy") /\ Set(w, j) /\ row' = row
    BY <1>2, <1>4 DEF Deliver
  <2>2. /\ j.look = {} /\ j.queue = <<>> /\ j.mode = "abandon" /\ j.doomed = None
        /\ j.for = job[w].for /\ j.first = job[w].first
    BY <1>1, <1>3 DEF Jobs
  <2> HIDE DEF j
  <2>3. QueueWell(row, "busy", j) /\ Calm("busy", j)
    BY <2>2 DEF QueueWell, Calm
  <2>4. \A p \in Run : ~ReadAsIs(row, job[w], p)
    BY <1>2, <1>4 DEF ReadAsIs, StillOn, Suspended
  <2>5. "busy" \in Steps \ {"pass"}
    BY DEF Steps
  <2> QED
    BY <1>1, <2>1, <2>2, <2>3, <2>4, <2>5, DeliverDebts, OnlyReads
<1>5. CASE StillOn(r, job[w].suspendedAt)
  <2> DEFINE n == row[r].waits \ {job[w].wait}
             j == [job[w] EXCEPT !.open = n]
  <2>1. Goto(w, "pass") /\ Set(w, j) /\ Write(r, ClaimedBy(w, r)) /\ Suspended(r)
    BY <1>2, <1>5 DEF Deliver, StillOn
  <2>2. \A c \in n : c \in Run /\ row[c].caller = r
    BY <1>1, RowOf DEF RowsLinked
  <2> HIDE DEF n
  <2>3. /\ j.look = {} /\ j.queue = <<>> /\ j.mode = "abandon" /\ j.doomed = None /\ j.open = n
        /\ j.for = job[w].for /\ j.first = job[w].first /\ j.run = r /\ j.suspendedAt = job[w].suspendedAt
    BY <1>1, <1>2, <1>3 DEF Jobs
  <2> HIDE DEF j
  <2>4. RowFits(r) /\ row'[r].status = "claimed" /\ \A q \in Run \ {r} : SameRow(q)
    BY <1>1, <2>1, ClaimFits, WritesRow
  <2>5. QueueWell(row', "pass", j) /\ Calm("pass", j)
    BY <2>3 DEF QueueWell, Calm
  <2>6. Keeps(w, "pass", j, r)
    <3>1. \A p \in Run \ {r} : ~ReadAsIs(row, job[w], p)
      BY <1>2 DEF ReadAsIs
    <3> QED
      BY <1>1, <3>1, DeliverDebts DEF Keeps
  <2>7. Pays("pass", j, r)
    BY <2>4, ClaimedPays
  <2>8. JobLinked(w)'
    <3>1. pc'[w] = "pass" /\ job'[w] = j /\ \A u \in Worker \ {w} : job'[u] = job[u]
      BY <1>1, <2>1 DEF TypeOK, Goto, Set
    <3>2. \A q \in Run : row[q].caller # None => row'[q].caller = row[q].caller
      BY <1>1, <2>4, LinkedStays DEF Inv
    <3>3. r # None /\ job[w].suspendedAt # 0
      BY <1>1, <1>5, NobodyAssumption DEF StillOn, RowsWell
    <3>4. \A c \in n : row'[c].caller = r
      BY <2>2, <3>2, <3>3
    <3>5. ASSUME job[w].for # None, job[w].first # None
          PROVE  row'[job[w].first].caller = job'[job[w].for].run
      <4>1. PICK v \in Worker : v = job[w].for
        BY <1>1, <3>5, JobOf
      <4>2. pc[v] = "pass"
        BY <3>5, <4>1 DEF Inv, CalledFrom
      <4>3. v # w /\ job[v].run \in Run
        BY <1>1, <4>2, InPass
      <4>4. row[job[w].first].caller = job[v].run /\ job[w].first \in Run
        BY <1>1, <3>5, <4>1, JobOf DEF Owing, JobLinked
      <4>5. job[v].run # None
        BY <4>3, NobodyAssumption
      <4> QED
        BY <3>1, <3>2, <4>1, <4>3, <4>4, <4>5
    <3> QED
      BY <2>3, <3>1, <3>3, <3>4, <3>5 DEF JobLinked
  <2> QED
    BY <1>1, <2>1, <2>4, <2>5, <2>6, <2>7, <2>8, Alone
<1> QED
  BY <1>4, <1>5

LEMMA RefuseResultOwing ==
  ASSUME Inv, Inv', Owing, NEW w \in Worker, RefuseResult(w)
  PROVE  Owing'
<1>1. /\ pc[w] = "deliver" /\ TypeOK /\ QueueWell(row, "deliver", job[w])
      /\ job[w] \in Jobs /\ job[w].walk = {} /\ job[w].doomed = None
      /\ DeliverHand(w) /\ Goto(w, "busy") /\ row' = row
  BY Reconciles DEF RefuseResult, Hand
<1>2. PICK r \in Run : r = job[w].run
  BY <1>1, Reconciles
<1>3. job[w].queue = <<>> /\ job[w].look = {}
  BY <1>1 DEF QueueWell, DeliverHand
<1> DEFINE t == [run |-> r, status |-> "suspended", again |-> FALSE,
                 suspendedAt |-> job[w].suspendedAt]
           j == [job[w] EXCEPT !.mode = "refuse", !.wait = None, !.todo = {t}]
<1>4. Set(w, j)
  BY <1>2 DEF RefuseResult
<1>5. t.run = r /\ t.status = "suspended" /\ t.suspendedAt = job[w].suspendedAt
  OBVIOUS
<1> HIDE DEF t
<1>6. /\ j.look = {} /\ j.queue = <<>> /\ j.todo = {t} /\ j.mode = "refuse" /\ j.doomed = None
      /\ j.for = job[w].for /\ j.first = job[w].first
  BY <1>1, <1>3 DEF Jobs
<1> HIDE DEF j
<1>7. QueueWell(row, "busy", j) /\ Calm("busy", j)
  BY <1>6 DEF QueueWell, Calm
<1>8. ASSUME NEW p \in Run, NEW c \in Run, ReadAsIs(row, job[w], p)
      PROVE  OwesResult(row, "busy", j, p, c)
  <2>1. p = r /\ row[r].status = "suspended" /\ t.suspendedAt = row[r].suspendedAt
    BY <1>2, <1>5, <1>8 DEF ReadAsIs
  <2>2. WillFail(row, "busy", j, p)
    BY <1>5, <1>6, <2>1 DEF WillFail, ReadToFail
  <2> QED
    BY <2>2 DEF OwesResult
<1>9. "busy" \in Steps \ {"pass"}
  BY DEF Steps
<1> QED
  BY <1>1, <1>4, <1>6, <1>7, <1>8, <1>9, DeliverDebts, OnlyReads


LEMMA ReturnOwing ==
  ASSUME Inv, Inv', Owing, NEW w \in Worker, Return(w)
  PROVE  Owing'
<1> DEFINE v == job[w].for
           f == job[w].first
<1>1. /\ pc[w] = "busy" /\ TypeOK /\ CalledFrom /\ AtQueue(w) /\ job[w].queue = <<>>
      /\ row' = row /\ Goto(w, "idle") /\ job[w].for \in Worker \cup {None}
  BY JobOf DEF Return, AtQueue, Inv
<1>2. /\ job'[w] = NoJob
      /\ \A u \in Worker : u # w /\ ~(u = v /\ f # None) => job'[u] = job[u]
      /\ v \in Worker /\ v # w /\ f # None => job'[v] = [job[v] EXCEPT !.open = @ \cup {f}]
  BY DEF Return
<1>3. pc'[w] = "idle" /\ \A u \in Worker : u # w => pc'[u] = pc[u]
  BY <1>1 DEF TypeOK, Goto
<1>4. ASSUME NEW u \in Worker, u # w
      PROVE  /\ job'[u].run = job[u].run /\ job'[u].suspendedAt = job[u].suspendedAt
             /\ job'[u].queue = job[u].queue /\ job'[u].look = job[u].look
             /\ job'[u].todo = job[u].todo /\ job'[u].walk = job[u].walk
             /\ job'[u].mode = job[u].mode /\ job'[u].doomed = job[u].doomed
             /\ job'[u].for = job[u].for /\ job'[u].first = job[u].first
             /\ job'[u].open = job[u].open \/ (u = v /\ f # None /\ job'[u].open = job[u].open \cup {f})
  <2>1. job[u] \in Jobs
    BY <1>1, JobOf
  <2>2. CASE u = v /\ f # None
    <3> DEFINE o == job[u].open \cup {f}
    <3>1. job'[u] = [job[u] EXCEPT !.open = o]
      BY <1>2, <1>4, <2>1, <2>2 DEF Jobs
    <3> HIDE DEF o
    <3>2. /\ job'[u].run = job[u].run /\ job'[u].suspendedAt = job[u].suspendedAt
          /\ job'[u].queue = job[u].queue /\ job'[u].look = job[u].look
          /\ job'[u].todo = job[u].todo /\ job'[u].walk = job[u].walk
          /\ job'[u].mode = job[u].mode /\ job'[u].doomed = job[u].doomed
          /\ job'[u].for = job[u].for /\ job'[u].first = job[u].first /\ job'[u].open = o
      BY <2>1, <3>1 DEF Jobs
    <3> QED
      BY <2>2, <3>2 DEF o
  <2>3. CASE ~(u = v /\ f # None)
    BY <1>2, <1>4, <2>3
  <2> QED
    BY <2>2, <2>3
<1>5. \A u \in Worker \ {w} : SameHand(u)
  BY <1>3, <1>4 DEF SameHand
<1>6. ASSUME NEW u \in Worker PROVE JobLinked(u)'
  <2>1. JobLinked(u) /\ JobLinked(w)
    BY DEF Owing
  <2>2. CASE u = w
    BY <1>2, <1>3, <2>2 DEF JobLinked, NoJob
  <2>3. CASE u # w
    <3>1. job[u].for # None => job[u].for \in Worker /\ pc[job[u].for] = "pass"
      BY <1>1, JobOf DEF CalledFrom
    <3>2. job[u].for # None => job'[job[u].for].run = job[job[u].for].run
      BY <1>1, <1>4, <3>1
    <3>3. pc[u] = "pass" => \A c \in job'[u].open : row[c].caller = job[u].run
      <4>1. pc[u] = "pass" => \A c \in job[u].open : row[c].caller = job[u].run
        BY <2>1 DEF JobLinked
      <4>2. u = v /\ f # None => row[f].caller = job[u].run
        BY <2>1, NobodyAssumption DEF JobLinked
      <4> QED
        BY <1>4, <2>3, <4>1, <4>2
    <3> QED
      BY <1>1, <1>3, <1>4, <2>1, <2>3, <3>2, <3>3 DEF JobLinked
  <2> QED
    BY <2>2, <2>3
<1>7. None \in Run \cup {None} /\ \A q \in Run \ {None} : SameRow(q)
  BY <1>1, WritesNone
<1>8. QueueWell(row', pc'[w], job'[w]) /\ Calm(pc'[w], job'[w])
  BY <1>2, <1>3 DEF QueueWell, Calm, NoJob
<1>9. Keeps(w, pc'[w], job'[w], None)
  <2>1. Queued(job[w]) = {}
    BY <1>1, Queues
  <2>2. \A p, c \in Run : /\ ~OwesResult(row, pc[w], job[w], p, c)
                          /\ ~OwesCancel(row, pc[w], job[w], p, c)
    BY <1>1, <2>1, QueueDebts
  <2> QED
    BY <2>2 DEF Keeps
<1> QED
  BY <1>5, <1>6, <1>7, <1>8, <1>9, OneWorker

LEMMA CrashOwing ==
  ASSUME Inv, Inv', Owing, NEW S \in SUBSET Worker, Crash(S)
  PROVE  Owing'
<1>1. TypeOK /\ TypeOK' /\ RowsLinked /\ Debts
  BY DEF Inv, Owing
<1>2. /\ \A r \in Run : row'[r] = IF row[r].claim \in S THEN Unheld(r) ELSE row[r]
      /\ \A u \in Worker : pc'[u] = IF u \in S THEN "idle" ELSE pc[u]
      /\ \A u \in Worker : job'[u] = IF u \in S THEN NoJob ELSE job[u]
      /\ \A u \in S : pc[u] = "pass"
  BY DEF Crash
<1>3. ASSUME NEW r \in Run PROVE SameRow(r)
  <2>1. row[r] \in Rows
    BY <1>1, RowOf
  <2>2. CASE row[r].claim \in S
    <3>1. row'[r] = [row[r] EXCEPT !.claim = None]
      BY <1>2, <2>2 DEF Unheld
    <3> QED
      BY <2>1, <3>1 DEF Rows, SameRow
  <2>3. CASE row[r].claim \notin S
    BY <1>2, <2>3 DEF SameRow
  <2> QED
    BY <2>2, <2>3
<1>4. None \in Run \cup {None} /\ \A r \in Run \ {None} : SameRow(r)
  BY <1>3
<1>5. \A u \in Worker \ S : SameHand(u)
  BY <1>2 DEF SameHand
<1>6. RowsLinked' /\ \A r \in Run : row[r].caller # None => row'[r].caller = row[r].caller
  BY <1>1, <1>4, LinkedStays
<1>7. ASSUME NEW u \in Worker PROVE JobLinked(u)'
  <2>1. JobLinked(u)
    BY DEF Owing
  <2>2. \A z \in Worker : pc[z] = "pass" /\ pc'[z] = "pass" => job'[z].run = job[z].run
    BY <1>2
  <2>3. CASE u \in S
    BY <1>2, <2>3 DEF JobLinked, NoJob
  <2>4. CASE u \notin S
    <3>1. pc'[u] = pc[u] /\ job'[u] = job[u]
      BY <1>2, <2>4
    <3> QED
      BY <1>6, <2>1, <2>2, <3>1, JobLinkedStays
  <2> QED
    BY <2>3, <2>4
<1>8. \A r \in Run : Over(row, r) => Over(row', r)
  BY <1>3 DEF SameRow, Over
<1>9. ASSUME NEW u \in Worker PROVE QueueWell(row', pc'[u], job'[u]) /\ Calm(pc'[u], job'[u])
  <2>1. CASE u \in S
    BY <1>2, <2>1 DEF QueueWell, Calm, NoJob
  <2>2. CASE u \notin S
    <3>1. SameHand(u)
      BY <1>5, <2>2
    <3>2. pc[u] = "listed" => job[u].run \in Run
      BY Reconciling
    <3>3. QueueWell(row, pc[u], job[u]) /\ Calm(pc[u], job[u])
      BY DEF Owing
    <3> QED
      BY <1>1, <1>8, <3>1, <3>2, <3>3, QueueStays
  <2> QED
    BY <2>1, <2>2
<1>10. Debts'
  <2>1. \A u \in S : Keeps(u, pc'[u], job'[u], None)
    BY <1>2, NoDebts
  <2> QED
    BY <1>1, <1>4, <1>5, <2>1, DebtsStay
<1>11. /\ \A u \in Worker : QueueWell(row', pc'[u], job'[u]) /\ Calm(pc'[u], job'[u])
  BY <1>9
<1> QED
  BY <1>6, <1>7, <1>10, <1>11 DEF Owing

----------------------------------------------------------------------------
\* The invariant is inductive, when no thread is closed, no workflow deleted, and
\* outcomes are read back.

LEMMA InitOwing == Init => Owing
<1> SUFFICES ASSUME Init PROVE Owing
  OBVIOUS
<1>1. \A r \in Run : row[r] = AbsentRow
  BY DEF Init
<1>2. \A w \in Worker : pc[w] = "idle" /\ job[w] = NoJob
  BY DEF Init
<1>3. RowsLinked
  BY <1>1 DEF RowsLinked, AbsentRow
<1>4. \A w \in Worker : JobLinked(w)
  BY <1>2 DEF JobLinked, NoJob
<1>5. \A w \in Worker : QueueWell(row, pc[w], job[w]) /\ Calm(pc[w], job[w])
  BY <1>2 DEF QueueWell, Calm, NoJob
<1>6. Debts
  BY <1>1 DEF Debts, ResultDue, CancelDue, AbsentRow
<1> QED
  BY <1>3, <1>4, <1>5, <1>6 DEF Owing

LEMMA ContinueOwing ==
  ASSUME Inv, Inv', Owing, Env \cap {"close", "delete", "read"} = {}, NEW w \in Worker, Continue(w)
  PROVE  Owing'
<1>1. ~OutcomeNotReadBack(w)
  BY DEF OutcomeNotReadBack
<1>2. ~ListCallers(w)
  BY BusyOwing DEF ListCallers
<1>3. ~DeleteRuns(w)
  BY DEF DeleteRuns, Owing, Calm
<1> QED
  BY <1>1, <1>2, <1>3, EndPassOwing, LosePassOwing, RefuseResumeOwing, ClaimToFailOwing, TakeOverOwing,
     SettleFailedOwing, ListDescendantsOwing, ListChildrenOwing, ReadRunOwing, ReadCallerOwing,
     LookAtOwing, DeliverOwing, RefuseResultOwing, ReturnOwing
     DEF Continue

LEMMA NextOwing ==
  ASSUME Env \cap {"close", "delete", "read"} = {}
  PROVE  Inv /\ Owing /\ [Next]_vars => Owing'
<1> SUFFICES ASSUME Inv, Owing, [Next]_vars PROVE Owing'
  OBVIOUS
<1>0. Inv'
  BY NextStep
<1>1. ASSUME NEW w \in Worker, Continue(w) PROVE Owing'
  BY <1>0, <1>1, ContinueOwing
<1>2. \A w \in Worker : ~CloseThread(w) /\ \A r \in Run : ~PrepareDeletion(w, r)
  BY DEF CloseThread, PrepareDeletion
<1>3. ASSUME NEW w \in Worker, NEW r \in Run,
             \/ StartRun(w, r) \/ ResumeRun(w, r) \/ HoldEvent(w, r)
             \/ CancelRun(w, r) \/ FailUnresumable(w, r)
             \/ RecoverResume(w, r) \/ RecoverFirstPass(w, r)
      PROVE  Owing'
  BY <1>0, <1>3, StartRunOwing, ResumeRunOwing, HoldEventOwing, CancelRunOwing, RecoverResumeOwing,
     RecoverFirstPassOwing
<1>4. ASSUME NEW w \in Worker, NEW v \in Worker, NEW c \in Run, Call(w, v, c) PROVE Owing'
  BY <1>0, <1>4, CallOwing
<1>5. ASSUME NEW w \in Worker, NEW p \in Run, NEW c \in Run, LateCall(w, p, c) PROVE Owing'
  BY <1>0, <1>5, LateCallOwing
<1>6. ASSUME NEW S \in SUBSET Worker, Crash(S) PROVE Owing'
  BY <1>0, <1>6, CrashOwing
<1>7. CASE UNCHANGED vars
  BY <1>7 DEF vars, Owing, RowsLinked, JobLinked, Debts
<1> QED
  BY <1>1, <1>2, <1>3, <1>4, <1>5, <1>6, <1>7 DEF Next

LEMMA OwingAlways ==
  ASSUME Env \cap {"close", "delete", "read"} = {}
  PROVE  Spec => [](Inv /\ Owing)
<1>1. Init => Inv /\ Owing
  BY InitInv, InitOwing
<1>2. Inv /\ Owing /\ [Next]_vars => (Inv /\ Owing)'
  BY NextStep, NextOwing
<1> QED
  BY <1>1, <1>2, PTL DEF Spec

----------------------------------------------------------------------------
\* The theorems.

\* Once nobody has anything left to do, nothing is owed.
LEMMA NothingOwed ==
  ASSUME Inv, Owing, Quiescent
  PROVE  \A p, c \in Run : ~ResultDue(row, p, c) /\ ~CancelDue(row, p, c)
<1>1. ASSUME NEW u \in Worker
      PROVE  \A p, c \in Run : /\ ~OwesResult(row, pc[u], job[u], p, c)
                               /\ ~OwesCancel(row, pc[u], job[u], p, c)
  <2>1. pc[u] = "idle" /\ job[u] = NoJob
    BY DEF Quiescent, Inv, Hand
  <2>2. Queued(job[u]) = {} /\ job[u].walk = {}
    BY <2>1, Queues DEF NoJob
  <2> QED
    BY <2>1, <2>2 DEF OwesResult, OwesCancel, WillRead, WillFail
<1> QED
  BY <1>1 DEF Owing, Debts

\* No result is missed (reconcile, followUps), whatever runs call each other and
\* however many workers resume, put back, fail or recover them, as long as no thread
\* is closed, no workflow deleted, and outcomes are read back.
THEOREM NoResultIsMissed ==
  ASSUME Env \cap {"close", "delete", "read"} = {}
  PROVE  Spec => []NoMissedResult
<1>1. Inv /\ Owing => NoMissedResult
  <2> SUFFICES ASSUME Inv, Owing, Quiescent, NEW p \in Run, NEW c \in Run, Suspended(p), c \in row[p].waits
               PROVE  Active(c)
    BY DEF NoMissedResult
  <2>1. ~ResultDue(row, p, c)
    BY NothingOwed
  <2>2. row[c].status \notin {"finished", "failed"}
    BY <2>1 DEF ResultDue, Suspended
  <2>3. row[c].caller = p /\ p # None /\ row[c].status # "deleted"
    BY NobodyAssumption DEF Owing, RowsLinked
  <2>4. row[c].status # "absent"
    BY <2>3 DEF Owing, RowsLinked
  <2>5. row[c].status \in Statuses
    BY RowOf DEF Inv
  <2> QED
    BY <2>2, <2>3, <2>4, <2>5 DEF Statuses, Active, Claimed, Suspended
<1> QED
  BY <1>1, OwingAlways, PTL

\* No called run is left behind (cancelAbandonedRuns), as long as no thread is closed,
\* no workflow deleted, and outcomes are read back.
THEOREM NoOrphanIsLeft ==
  ASSUME Env \cap {"close", "delete", "read"} = {}
  PROVE  Spec => []NoOrphanLeft
<1>1. Inv /\ Owing => NoOrphanLeft
  <2> SUFFICES ASSUME Inv, Owing, Quiescent, NEW c \in Run, Suspended(c), row[c].caller # None
               PROVE  Suspended(row[c].caller) /\ c \in row[row[c].caller].waits
    BY DEF NoOrphanLeft
  <2>1. PICK p \in Run : p = row[c].caller
    BY RowOf DEF Inv
  <2>2. ~CancelDue(row, p, c)
    BY NothingOwed
  <2>3. row[p].status \notin {"finished", "failed"} /\ (row[p].status = "suspended" => c \in row[p].waits)
    BY <2>1, <2>2 DEF CancelDue, Suspended
  <2>4. row[p].status # "absent" /\ row[p].status # "deleted"
    BY <2>1 DEF Inv, RowsWell, Owing, RowsLinked
  <2>5. row[p].status \in Statuses /\ row[p].status # "claimed"
    BY RowOf DEF Inv, Quiescent, Claimed
  <2> QED
    BY <2>1, <2>3, <2>4, <2>5 DEF Statuses, Suspended
<1> QED
  BY <1>1, OwingAlways, PTL

============================================================================
