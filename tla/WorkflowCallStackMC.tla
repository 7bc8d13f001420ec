------------------------ MODULE WorkflowCallStackMC ------------------------
\* Instances of WorkflowCallStack for model checking.
EXTENDS WorkflowCallStack, TLC

CONSTANTS top, mid, low   \* runs

\* top calls mid; mid calls low.
Chain2 == {<<top, mid>>}
Chain3 == {<<top, mid>>, <<mid, low>>}

Workers == Permutations(Worker)
=============================================================================
