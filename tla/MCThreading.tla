---------------------------- MODULE MCThreading ----------------------------
EXTENDS Threading

CONSTANTS t1, t2

\* Both threads add to the sum, or both have coroutines.
MCTasks == {[t \in Threads |-> job] : job \in {"sum", "coroutines"}}
=============================================================================
