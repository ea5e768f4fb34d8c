--------------------------- MODULE BlockExecution ---------------------------
(***************************************************************************)
(* StatelessBlockExecutor::execute_block over a PlannedTransactionExecutor *)
(* and a ReferenceStateApplier, followed by the comparison with the roots  *)
(* the header commits (execute_and_compare).                               *)
(*                                                                         *)
(* The planner's cursor and the applier's accumulator are shared cells     *)
(* that outlive a call: a caller may run the next block on them, with a    *)
(* pre_state_root that is no longer theirs, whatever the last call did.    *)
(***************************************************************************)
EXTENDS StateOps

CONSTANTS
    TxRoots,        \* canonical transaction roots
    Receipts,       \* execution receipts
    Patches,        \* the state patches of the plans
    Plannings,      \* the scripts a planner may be built with
    KnownRoots,     \* the state roots a caller or a header may name
    Bodies,         \* the transaction lists a block may carry, by root
    ReceiptLists    \* the receipts a header may commit to

Plans == [state_patch : Patches, receipt : Receipts]
PlannedTransactions == [transaction_root : TxRoots, plan : Plans]

ASSUME PatchesAreStatePatches == Patches \subseteq StatePatches
ASSUME PlanningsAreScripts == Plannings \subseteq Seq(PlannedTransactions)
ASSUME KnownRootsAreRoots == KnownRoots \subseteq Roots
ASSUME BodiesAreTxLists == Bodies \subseteq Seq(TxRoots)
ASSUME ReceiptListsAreLists == ReceiptLists \subseteq Seq(Receipts)

VARIABLES
    planned,            \* PlannedTransactionExecutor.planned_transactions
    next_index,         \* PlannedTransactionExecutor.next_index
    acc,                \* the accumulator inside the applier
    pc,                 \* "idle", "executing", "executed" or "compared"
    pre_state_root,     \* arguments of the current call
    body,
    current_state_root, \* locals of the current call
    outcomes,           \* transaction_outcomes
    result,             \* what execute_block, then execute_and_compare, returned
    committed,          \* the header's roots, once they have been compared with
    start               \* history: cursor and accumulator when the call began

executionVars == <<planned, next_index, acc, pc, pre_state_root, body, current_state_root,
          outcomes, result, committed, start>>

\* A result names its ExecutionError and what the error carries.
Result(kind, cause) == [kind |-> kind, cause |-> cause]
Ok == Result("Ok", "-")
MissingStep == Result("Executor", "missing planned transaction step")
RootMismatch == Result("Executor", "planned transaction root mismatch")
StateTransition(error) == Result("StateTransition", error)
PostStateRootMismatch == Result("PostStateRootMismatch", "-")
ReceiptsRootMismatch == Result("ReceiptsRootMismatch", "-")

ExecutionErrors == {MissingStep, RootMismatch} \cup {StateTransition(e) : e \in TransitionErrors}
MismatchErrors == {PostStateRootMismatch, ReceiptsRootMismatch}

Outcomes == [transaction_root : TxRoots, post_state_root : Roots, receipt : Receipts]

\* A receipts root is named by the receipts it hashes, in order: the digest is
\* domain-separated and prefixed with their number.
compute_receipts_root(receipts) == <<"receipts", receipts>>

ReceiptsRoots == {"receipts"} \X Seq(Receipts)

ExecutionTypeOK ==
    /\ planned \in Seq(PlannedTransactions)
    /\ next_index \in 0 .. Len(planned)
    /\ acc \in Accumulators
    /\ pc \in {"idle", "executing", "executed", "compared"}
    /\ pre_state_root \in Roots
    /\ body \in Seq(TxRoots)
    /\ current_state_root \in Roots
    /\ outcomes \in Seq(Outcomes)
    /\ result \in {Ok} \cup ExecutionErrors \cup MismatchErrors
    /\ committed \in [state_root : Roots, receipts_root : ReceiptsRoots]
    /\ start \in [next_index : 0 .. Len(planned), acc : Accumulators]

NotCompared == [state_root |-> ZeroRoot, receipts_root |-> compute_receipts_root(<<>>)]

ExecutionInit ==
    /\ planned \in Plannings
    /\ next_index = 0
    /\ acc = EmptyAccumulator
    /\ pc = "idle"
    /\ pre_state_root = ZeroRoot
    /\ body = <<>>
    /\ current_state_root = ZeroRoot
    /\ outcomes = <<>>
    /\ result = Ok
    /\ committed = NotCompared
    /\ start = [next_index |-> 0, acc |-> EmptyAccumulator]

-----------------------------------------------------------------------------

\* execute_block is entered.
BeginBlock(root, transactions) ==
    /\ pc # "executing"
    /\ pc' = "executing"
    /\ pre_state_root' = root
    /\ body' = transactions
    /\ current_state_root' = root
    /\ outcomes' = <<>>
    /\ result' = Ok
    /\ committed' = NotCompared
    /\ start' = [next_index |-> next_index, acc |-> acc]
    /\ UNCHANGED <<planned, next_index, acc>>

\* PlannedTransactionExecutor::execute_transaction: the error, Ok when it
\* hands out a plan.
ExecutorResult(transaction_root) ==
    IF next_index >= Len(planned) THEN MissingStep
    ELSE IF planned[next_index + 1].transaction_root # transaction_root THEN RootMismatch
    ELSE Ok

\* Fault: the cursor moves also when no plan is handed out.
CursorMovesAnyway ==
    LET error == ExecutorResult(body[Len(outcomes) + 1])
    IN  /\ pc = "executing"
        /\ Len(outcomes) < Len(body)
        /\ error # Ok
        /\ result' = error
        /\ pc' = "executed"
        /\ next_index' = next_index + 1
        /\ UNCHANGED <<planned, acc, pre_state_root, body, current_state_root, outcomes,
                       committed, start>>

\* The executor refuses the transaction: the cursor stays.
ExecutorRefuses ==
    LET error == ExecutorResult(body[Len(outcomes) + 1])
    IN  /\ pc = "executing"
        /\ Len(outcomes) < Len(body)
        /\ error # Ok
        /\ result' = error
        /\ pc' = "executed"
        /\ UNCHANGED <<planned, next_index, acc, pre_state_root, body, current_state_root,
                       outcomes, committed, start>>

\* The rest of one turn of the loop: the executor advances its cursor and hands
\* out the plan, then the applier takes or refuses the plan's patch.
ExecuteTransaction ==
    LET transaction_root == body[Len(outcomes) + 1]
        plan == planned[next_index + 1].plan
        transition == applier_apply_transition(acc, current_state_root, plan.state_patch)
    IN  /\ pc = "executing"
        /\ Len(outcomes) < Len(body)
        /\ ExecutorResult(transaction_root) = Ok
        /\ next_index' = next_index + 1
        /\ acc' = transition.acc
        /\ \/ /\ transition.result = "Ok"
              /\ current_state_root' = transition.acc.root
              /\ outcomes' = Append(outcomes, [transaction_root |-> transaction_root,
                                               post_state_root |-> transition.acc.root,
                                               receipt |-> plan.receipt])
              /\ UNCHANGED <<result, pc>>
           \/ /\ transition.result # "Ok"
              /\ result' = StateTransition(transition.result)
              /\ pc' = "executed"
              /\ UNCHANGED <<current_state_root, outcomes>>
        /\ UNCHANGED <<planned, pre_state_root, body, committed, start>>

\* The loop is over and execute_block returns Ok.
FinishBlock ==
    /\ pc = "executing"
    /\ Len(outcomes) = Len(body)
    /\ pc' = "executed"
    /\ UNCHANGED <<planned, next_index, acc, pre_state_root, body, current_state_root,
                   outcomes, result, committed, start>>

\* BlockExecutionOutcome.receipts_root.
receipts_root ==
    compute_receipts_root([i \in 1 .. Len(outcomes) |-> outcomes[i].receipt])

\* Fault: only the state root is compared.
StateRootOnly(roots) ==
    IF current_state_root # roots.state_root THEN PostStateRootMismatch ELSE Ok

\* BlockExecutionOutcome::ensure_matches: the state root is compared first.
ensure_matches(roots) ==
    IF current_state_root # roots.state_root THEN PostStateRootMismatch
    ELSE IF receipts_root # roots.receipts_root THEN ReceiptsRootMismatch
    ELSE Ok

\* execute_and_compare after the engine returned: an execution error is passed on.
ExecuteAndCompare(roots) ==
    /\ pc = "executed"
    /\ committed' = roots
    /\ result' = IF result = Ok THEN ensure_matches(roots) ELSE result
    /\ pc' = "compared"
    /\ UNCHANGED <<planned, next_index, acc, pre_state_root, body, current_state_root,
                   outcomes, start>>

ExecutionNext ==
    \/ \E root \in KnownRoots, transactions \in Bodies : BeginBlock(root, transactions)
    \/ ExecutorRefuses
    \/ ExecuteTransaction
    \/ FinishBlock
    \/ \E root \in KnownRoots, receipts \in ReceiptLists :
          ExecuteAndCompare([state_root |-> root,
                             receipts_root |-> compute_receipts_root(receipts)])

ExecutionSpec == ExecutionInit /\ [][ExecutionNext]_executionVars

-----------------------------------------------------------------------------
(* Correctness.                                                            *)

PatchOf(i) == planned[start.next_index + i].plan.state_patch

\* The accumulators an ideal block goes through: every planned patch applied in
\* full, one after the other, to the accumulator the call found.
Replay[n \in 0 .. Len(planned) - start.next_index] ==
    IF n = 0 THEN start.acc ELSE Transitioned(Replay[n - 1], PatchOf(n))

\* However far the block got, and whether or not it failed, the shared
\* accumulator is the one that results from exactly the transactions reported
\* in transaction_outcomes, and each of them reports the root it left: a
\* transaction is applied in full or not at all, and never without a record.
EffectsAreTheReportedPrefix ==
    /\ acc = Replay[Len(outcomes)]
    /\ \A i \in 1 .. Len(outcomes) :
          /\ outcomes[i].transaction_root = body[i]
          /\ outcomes[i].post_state_root = Replay[i].root
          /\ outcomes[i].receipt = planned[start.next_index + i].plan.receipt

\* The planner hands out one step per executed transaction, plus one that is
\* lost for good when the applier refuses its patch: next_index moves before
\* apply_transition can fail, so a retry on the same planner is off by one.
CursorCountsHandedOutPlans ==
    next_index = start.next_index + Len(outcomes)
                    + (IF result.kind = "StateTransition" THEN 1 ELSE 0)

\* Root continuity over the block: inside the loop the root passed on is the
\* applier's own as soon as one transaction went through, and a call made with
\* a root that is not the applier's changes no leaf at all.
ContinuityHolds ==
    /\ outcomes # <<>> => current_state_root = acc.root /\ pre_state_root = start.acc.root
    /\ outcomes = <<>> => current_state_root = pre_state_root /\ acc = start.acc

\* A block accepted by execute_and_compare took the applier from its
\* pre_state_root to the state root its header commits, with the committed
\* receipts.  A block without transactions is the exception: no continuity
\* check runs, and it is accepted whenever it commits the root it was given.
AcceptedBlockIsATransition ==
    pc = "compared" /\ result = Ok =>
        /\ committed.receipts_root = receipts_root
        /\ Len(outcomes) = Len(body)
        /\ IF body = <<>>
           THEN committed.state_root = pre_state_root /\ acc = start.acc
           ELSE committed.state_root = acc.root /\ pre_state_root = start.acc.root

=============================================================================
