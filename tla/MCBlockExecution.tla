-------------------------- MODULE MCBlockExecution --------------------------
(* Scripts of up to three steps and blocks of up to two transactions, so that *)
(* a planner can be reused, run dry in the middle of a block and be out of    *)
(* step; among the patches one has descending keys, one an unequal length     *)
(* and one is empty.                                                          *)
EXTENDS BlockExecution, TLC

CONSTANTS t1, t2, r1, r2, v1, v2

SeqsUpTo(S, n) == UNION {[1 .. m -> S] : m \in 0 .. n}

Patch(accesses, new_values) == [accesses |-> accesses, new_values |-> new_values]
WriteOne == Patch(<<1>>, <<v1>>)
WriteBoth == Patch(<<1, 2>>, <<v2, v1>>)
WriteNothing == Patch(<<>>, <<>>)
Descending == Patch(<<2, 1>>, <<v1, v1>>)
Ragged == Patch(<<1, 2>>, <<v2>>)

MCPatches == {WriteOne, WriteBoth, WriteNothing, Descending, Ragged}

Step(t, patch, r) == [transaction_root |-> t, plan |-> [state_patch |-> patch, receipt |-> r]]

MCPlannings ==
    {<<>>,
     <<Step(t1, WriteOne, r1), Step(t2, WriteBoth, r2), Step(t1, WriteOne, r2)>>,
     <<Step(t1, WriteBoth, r1), Step(t2, Descending, r2), Step(t2, WriteOne, r1)>>,
     <<Step(t1, WriteNothing, r2), Step(t1, Ragged, r1), Step(t1, WriteBoth, r1)>>}

MaxTransactions == 2
MCBodies == SeqsUpTo(TxRoots, MaxTransactions)
MCReceiptLists == {<<>>, <<r1>>, <<r2>>, <<r1, r2>>}

\* The roots of every state the scripts lead to, and one they never reach.
MCKnownRoots ==
    {ZeroRoot} \cup
    {compute_reference_root(leaves) : leaves \in
        {NoLeaves, 1 :> v1 @@ 2 :> Absent, 1 :> v2 @@ 2 :> v1, 1 :> v1 @@ 2 :> v1,
         1 :> v2 @@ 2 :> v2}}
=============================================================================
