------------------------- MODULE WorkflowScheduler -------------------------
(***************************************************************************)
(* The cron job of one workflow, in one API process                        *)
(* (services/workflow-scheduler.service.ts).  Whoever saves or deletes the *)
(* workflow emits a hook; its handler awaits the row, drops the job, then  *)
(* awaits the initiator and adds a job.  Jobs are told apart by the        *)
(* handler call that added them.                                           *)
(***************************************************************************)
CONSTANTS Schedule,      \* cron expressions
          Handler,       \* calls of the handlers, each of one hook
          None           \* no schedule; also no job

VARIABLES row,           \* the row of the workflow
          pc,            \* how far a handler call got
          read,          \* the row it read
          registry,      \* SchedulerRegistry: the job of the workflow
          started        \* jobs that tick

vars == <<row, pc, read, registry, started>>

----------------------------------------------------------------------------
Row == [exists : BOOLEAN, schedule : Schedule \cup {None}, initiator : BOOLEAN]
Deleted == [exists |-> FALSE, schedule |-> None, initiator |-> FALSE]

Quiet == \A h \in Handler : pc[h] \in {"unused", "done"}

Init ==
  /\ row \in {r \in Row : r.exists}
  /\ pc = [h \in Handler |-> "unused"]
  /\ read = [h \in Handler |-> Deleted]
  /\ registry = None
  /\ started = {}

----------------------------------------------------------------------------
\* A handler call begins for the hook of a save or a deletion, or at boot.
Begins(h, at) ==
  /\ pc[h] = "unused"
  /\ pc' = [pc EXCEPT ![h] = at]

\* The module boots, or the workflow is created: the row is asked for.
Boot(h) ==
  /\ row.exists
  /\ Begins(h, "asking")
  /\ UNCHANGED <<row, read, registry, started>>

\* An admin changes the schedule, or clears the author.
Update(h, changed) ==
  /\ row.exists
  /\ changed.exists
  /\ row' = changed
  /\ Begins(h, "asking")
  /\ UNCHANGED <<read, registry, started>>

\* The workflow is deleted; its hook follows.
Delete(h) ==
  /\ row.exists
  /\ row' = Deleted
  /\ Begins(h, "deleted")
  /\ UNCHANGED <<read, registry, started>>

\* The query of the row is answered.
FindOne(h) ==
  /\ pc[h] = "asking"
  /\ read' = [read EXCEPT ![h] = row]
  /\ pc' = [pc EXCEPT ![h] = "found"]
  /\ UNCHANGED <<row, registry, started>>

\* removeCronJob: the registered job, if any, is stopped and forgotten.
RemoveCronJob == registry' = None /\ started' = started \ {registry}

\* The row is there: its job goes, and its initiator is asked for if it needs a
\* new one.
Reregister(h) ==
  /\ pc[h] = "found"
  /\ IF ~read[h].exists
     THEN UNCHANGED <<registry, started>>
     ELSE RemoveCronJob
  /\ pc' = [pc EXCEPT ![h] = IF read[h].schedule # None /\ read[h].initiator
                             THEN "initiator" ELSE "done"]
  /\ UNCHANGED <<row, read>>

\* The initiator is there.  addCronJob throws if the workflow has a job, and then
\* the new one is not started.
AddCronJob(h) ==
  /\ pc[h] = "initiator"
  /\ IF registry = None
     THEN registry' = h /\ started' = started \cup {h}
     ELSE UNCHANGED <<registry, started>>
  /\ pc' = [pc EXCEPT ![h] = "done"]
  /\ UNCHANGED <<row, read>>

\* handleWorkflowDeleted.
Unregister(h) ==
  /\ pc[h] = "deleted"
  /\ RemoveCronJob
  /\ pc' = [pc EXCEPT ![h] = "done"]
  /\ UNCHANGED <<row, read>>

----------------------------------------------------------------------------
Next ==
  \E h \in Handler :
    \/ Boot(h) \/ Delete(h)
    \/ \E changed \in Row : Update(h, changed)
    \/ FindOne(h) \/ Reregister(h) \/ AddCronJob(h) \/ Unregister(h)

Spec == Init /\ [][Next]_vars

----------------------------------------------------------------------------
(* Properties *)

\* The job that should tick is one of the row as it is, if that needs a job.
FollowsRow ==
  IF row.schedule # None /\ row.initiator
  THEN registry # None /\ read[registry] = row
  ELSE registry = None

NeverHandled == \A h \in Handler : pc[h] = "unused"

\* Once every handler call is over, the job that ticks is that of the row, if the row
\* needs one ("Re-register a workflow when it is updated", "Unregister a workflow when
\* it is deleted", handleWorkflowUpdated and handleWorkflowDeleted).
JobFollowsRow ==
  Quiet /\ ~NeverHandled => FollowsRow /\ started = {registry} \ {None}
============================================================================
