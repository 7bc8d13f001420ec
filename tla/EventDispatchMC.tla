-------------------------- MODULE EventDispatchMC --------------------------
\* Instances of EventDispatch for model checking.
EXTENDS EventDispatch, TLC

Interchangeable == Permutations(Workflow)
============================================================================
