------------------------ MODULE WorkflowSchedulerMC ------------------------
\* Instances of WorkflowScheduler for model checking.
EXTENDS WorkflowScheduler, TLC

Interchangeable == Permutations(Handler) \cup Permutations(Schedule)
============================================================================
