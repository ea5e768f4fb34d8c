----------------------------- MODULE BlockImport ----------------------------
(***************************************************************************)
(* BlockImportPipeline::import_block of shell-consensus, one action per    *)
(* check, in the order of the code.  It shows that the pipeline refines    *)
(* ImportVerdict while calling on the costly services only for blocks that *)
(* passed every cheaper check.                                             *)
(***************************************************************************)
EXTENDS ImportChecks

CONSTANT Imports        \* the imports that may be requested

ASSUME ImportsAreImports == Imports \subseteq AllImports

VARIABLES
    max_witness_bytes,  \* BlockImportConfig.header_prefilter
    import,             \* the arguments of the current or last import, None before
    stage,              \* the check to run next
    revalidated,        \* turns of the revalidation loop taken
    result, outcome,    \* what import_block returned last
    consulted           \* history: the services this import called on

vars == <<max_witness_bytes, import, stage, revalidated, result, outcome, consulted>>

Stages == {"prefilter", "body", "signature", "revalidation", "sidecar", "execution"}
Outcomes == [block_root : Hashes \cup {None}, post_state_root : Hashes \cup {None},
             receipts_root : Hashes \cup {None}]

TypeOK ==
    /\ max_witness_bytes \in Limits
    /\ import \in Imports \cup {None}
    /\ stage \in Stages \cup {"idle", "done"}
    /\ stage # "idle" => import \in Imports
    /\ revalidated \in Nat
    /\ result \in Results
    /\ outcome \in Outcomes
    /\ consulted \subseteq {"resolver", "dispatcher", "revalidator", "preparer", "engine"}

Init ==
    /\ max_witness_bytes \in Limits
    /\ import = None
    /\ stage = "idle"
    /\ revalidated = 0
    /\ result = Ok
    /\ outcome = NoOutcome
    /\ consulted = {}

BeginImport(i) ==
    /\ stage \in {"idle", "done"}
    /\ import' = i
    /\ stage' = "prefilter"
    /\ revalidated' = 0
    /\ result' = Ok
    /\ outcome' = NoOutcome
    /\ consulted' = {}
    /\ UNCHANGED max_witness_bytes

\* The ? operator: on to the next check, or return the error.
Try(check, next) ==
    /\ stage' = IF check = Ok THEN next ELSE "done"
    /\ result' = check
    /\ UNCHANGED <<max_witness_bytes, import, outcome>>

\* Fault: the body binding is skipped.
PrefilterThenSignature ==
    /\ stage = "prefilter"
    /\ Try(prefilter_header(import, max_witness_bytes), "signature")
    /\ UNCHANGED <<revalidated, consulted>>

PrefilterHeader ==
    /\ stage = "prefilter"
    /\ Try(prefilter_header(import, max_witness_bytes), "body")
    /\ UNCHANGED <<revalidated, consulted>>

\* Fault: the transactions are revalidated without the proposer's signature.
BodyThenRevalidation ==
    /\ stage = "body"
    /\ Try(verify_body_binding(import), "revalidation")
    /\ UNCHANGED <<revalidated, consulted>>

VerifyBodyBinding ==
    /\ stage = "body"
    /\ Try(verify_body_binding(import), "signature")
    /\ UNCHANGED <<revalidated, consulted>>

VerifyHeaderSignature ==
    /\ stage = "signature"
    /\ Try(verify_header_signature(import), "revalidation")
    /\ consulted' = consulted \cup {"resolver"}
          \cup {s \in {"dispatcher"} : import.services.resolver = "Ok"}
    /\ UNCHANGED revalidated

RevalidateTransaction ==
    /\ stage = "revalidation"
    /\ revalidated < Len(import.body.transactions)
    /\ Try(revalidate(import, revalidated + 1), "revalidation")
    /\ revalidated' = revalidated + 1
    /\ consulted' = consulted \cup {"revalidator"}

\* Fault: the loop may end one transaction early.
BodyAlmostRevalidated ==
    /\ stage = "revalidation"
    /\ revalidated + 1 >= Len(import.body.transactions)
    /\ Try(Ok, "sidecar")
    /\ UNCHANGED <<revalidated, consulted>>

BodyRevalidated ==
    /\ stage = "revalidation"
    /\ revalidated >= Len(import.body.transactions)
    /\ Try(Ok, "sidecar")
    /\ UNCHANGED <<revalidated, consulted>>

VerifySidecarBinding ==
    /\ stage = "sidecar"
    /\ Try(verify_sidecar_binding(import), "execution")
    /\ consulted' = consulted
          \cup {s \in {"preparer"} :
                  /\ import.sidecar.block_root = import.header.block_root
                  /\ import.sidecar.committed_root = import.header.execution_witnesses_root}
    /\ UNCHANGED revalidated

\* execute_and_compare, and the outcome import_block builds from it.
ExecuteAndCompare ==
    /\ stage = "execution"
    /\ stage' = "done"
    /\ result' = execute_and_compare(import)
    /\ outcome' =
          IF execute_and_compare(import) # Ok THEN NoOutcome
          ELSE [block_root |-> import.header.block_root,
                post_state_root |-> import.services.post_state_root,
                receipts_root |-> import.services.receipts_root]
    /\ consulted' = consulted \cup {"engine"}
    /\ UNCHANGED <<max_witness_bytes, import, revalidated>>

Check ==
    \/ PrefilterHeader
    \/ VerifyBodyBinding
    \/ VerifyHeaderSignature
    \/ RevalidateTransaction
    \/ BodyRevalidated
    \/ VerifySidecarBinding
    \/ ExecuteAndCompare

Next == (\E i \in Imports : BeginImport(i)) \/ Check

Spec == Init /\ [][Next]_vars

-----------------------------------------------------------------------------
(* Correctness.                                                            *)

\* The refinement mapping: the request not yet answered, and the last answer.
Pending == IF stage \in Stages THEN import ELSE None
Returned == IF stage = "done" THEN [result |-> result, outcome |-> outcome] ELSE None

Verdict == INSTANCE ImportVerdict WITH
    request <- Pending, limit <- max_witness_bytes, verdict <- Returned

\* import_block decides as the abstract verdict does: it accepts only a block of
\* which every check holds and then returns the very roots the header commits,
\* and refuses only for a reason that applies to the block.
ImplementsVerdict == Verdict!Spec

\* Cheap checks first: a service is called on only once everything cheaper has
\* passed.  The key lookup and the signature wait for the header and body, the
\* revalidator for the signature, the witnesses for all transactions and both
\* sidecar bindings, the engine for the witnesses.
ServicesInCostOrder ==
    /\ "resolver" \in consulted =>
          /\ prefilter_header(import, max_witness_bytes) = Ok
          /\ verify_body_binding(import) = Ok
    /\ "dispatcher" \in consulted => "resolver" \in consulted /\ import.services.resolver = "Ok"
    /\ "revalidator" \in consulted => "dispatcher" \in consulted /\ verify_header_signature(import) = Ok
    /\ "preparer" \in consulted =>
          /\ verify_header_signature(import) = Ok
          /\ \A i \in 1 .. Len(import.body.transactions) : revalidate(import, i) = Ok
          /\ import.sidecar.block_root = import.header.block_root
          /\ import.sidecar.committed_root = import.header.execution_witnesses_root
    /\ "engine" \in consulted => "preparer" \in consulted /\ verify_sidecar_binding(import) = Ok

\* The checks of an import in the order the block rules prescribe.
PrescribedOrder(i) ==
    <<prefilter_header(i, max_witness_bytes), verify_body_binding(i), verify_header_signature(i)>>
      \o [k \in 1 .. Len(i.body.transactions) |-> revalidate(i, k)]
      \o <<verify_sidecar_binding(i), execute_and_compare(i)>>

\* The reported error is the first in the prescribed order, so that two nodes
\* with the same limits blame a block for the same thing.
FirstFailureIsReported ==
    stage = "done" /\ result # Ok =>
        LET checks == PrescribedOrder(import)
        IN  \E k \in DOMAIN checks :
               /\ checks[k] = result
               /\ \A j \in 1 .. k - 1 : checks[j] = Ok

=============================================================================
