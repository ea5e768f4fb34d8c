--------------------------- MODULE ImportVerdict ----------------------------
(***************************************************************************)
(* What block import promises: a block is accepted when every check of it  *)
(* holds, and the caller then gets the roots its header commits; otherwise *)
(* it is refused for one of the reasons that apply.  In which order the    *)
(* checks run, and how many, is not said here.                             *)
(***************************************************************************)
EXTENDS ImportChecks

VARIABLES
    request,            \* the import under way, None when there is none
    limit,              \* BlockImportConfig: max_witness_bytes
    verdict             \* [result, outcome] of the last import, None before

vars == <<request, limit, verdict>>

Accepted(import) == [result |-> Ok, outcome |-> Committed(import)]
Refused(reason) == [result |-> reason, outcome |-> NoOutcome]

\* Everything that is wrong with an import, whatever else is wrong.
Failures(import, max_witness_bytes) ==
    ({prefilter_header(import, max_witness_bytes), verify_body_binding(import),
      verify_header_signature(import), verify_sidecar_binding(import),
      execute_and_compare(import)}
       \cup {revalidate(import, i) : i \in 1 .. Len(import.body.transactions)}) \ {Ok}

Init ==
    /\ request = None
    /\ limit \in Limits
    /\ verdict = None

Request ==
    /\ request = None
    /\ request' \in AllImports
    /\ verdict' = None
    /\ UNCHANGED limit

Decide ==
    /\ request # None
    /\ request' = None
    /\ \/ Failures(request, limit) = {} /\ verdict' = Accepted(request)
       \/ \E reason \in Failures(request, limit) : verdict' = Refused(reason)
    /\ UNCHANGED limit

Next == Request \/ Decide

Spec == Init /\ [][Next]_vars

=============================================================================
