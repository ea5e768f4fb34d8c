-------------------------- MODULE GossipNodeProofs --------------------------
(***************************************************************************)
(* Proofs about block import and about the node built on it, for every     *)
(* limit, every block of any number of transactions, every answer of the   *)
(* services and any number of peers.  Import refines ImportVerdict and     *)
(* calls on its services in the order of their cost; the node punishes     *)
(* peers consistently and only for what they sent.                         *)
(***************************************************************************)
EXTENDS GossipNode, SequenceTheorems, TLAPS

-----------------------------------------------------------------------------
(* Block import.                                                           *)

\* Every check of import_block returns Ok or a well-formed error.
LEMMA CheckTypes ==
    ASSUME NEW i \in AllImports, NEW m
    PROVE  /\ prefilter_header(i, m) \in Results
           /\ verify_body_binding(i) \in Results
           /\ verify_header_signature(i) \in Results
           /\ verify_sidecar_binding(i) \in Results
           /\ execute_and_compare(i) \in Results
           /\ \A k \in 1 .. Len(i.body.transactions) :
                 revalidate(i, k) \in Results
<1>1. \A kind \in Kinds, cause \in Causes : Result(kind, cause) \in Results
  BY Zenon DEF Result, Results
<1>2. Ok \in Results
  BY <1>1, Zenon DEF Ok, Kinds, Causes
<1>3. i.header.root_result \in Causes /\ i.body.root_result \in Causes
  BY Zenon DEF AllImports, Headers, Bodies, RootResults, Causes, Resolutions
<1>4. /\ i.services.resolver \in Causes
      /\ i.services.dispatcher \in Causes
      /\ i.services.preparer \in Causes
      /\ i.services.engine \in Causes
  BY Zenon DEF AllImports, Services, Causes
<1>5. \A k \in 1 .. Len(i.body.transactions) : i.body.transactions[k] \in Causes
  <2>1. i.body.transactions \in Seq(Revalidations)
    BY Zenon DEF AllImports, Bodies
  <2>2. Revalidations \subseteq Causes
    BY Zenon DEF Causes
  <2> QED
    BY <2>1, <2>2
<1>6. /\ "-" \in Causes
      /\ "PostStateRootMismatch" \in Causes
      /\ "ReceiptsRootMismatch" \in Causes
  BY Zenon DEF Causes, Executions
<1>7. prefilter_header(i, m) \in Results
  BY <1>1, <1>2, <1>3, <1>6, Zenon DEF prefilter_header, Kinds
<1>8. verify_body_binding(i) \in Results
  BY <1>1, <1>2, <1>3, <1>6, Zenon DEF verify_body_binding, Kinds
<1>9. verify_header_signature(i) \in Results
  BY <1>1, <1>2, <1>4, Zenon DEF verify_header_signature, Kinds
<1>10. verify_sidecar_binding(i) \in Results
  BY <1>1, <1>2, <1>4, <1>6, Zenon DEF verify_sidecar_binding, Kinds
<1>11. execute_and_compare(i) \in Results
  BY <1>1, <1>2, <1>4, <1>6, Zenon DEF execute_and_compare, Kinds
<1>12. \A k \in 1 .. Len(i.body.transactions) : revalidate(i, k) \in Results
  BY <1>1, <1>2, <1>5, Zenon DEF revalidate, Kinds
<1> QED
  BY <1>7, <1>8, <1>9, <1>10, <1>11, <1>12, Zenon

\* What the checks taken so far have established, and what they called on.
Passed ==
    /\ stage \in {"body", "signature", "revalidation", "sidecar", "execution"} =>
          prefilter_header(import, max_witness_bytes) = Ok
    /\ stage \in {"signature", "revalidation", "sidecar", "execution"} =>
          verify_body_binding(import) = Ok
    /\ stage \in {"revalidation", "sidecar", "execution"} =>
          verify_header_signature(import) = Ok /\ {"resolver", "dispatcher"} \subseteq consulted
    /\ stage = "revalidation" =>
          /\ revalidated <= Len(import.body.transactions)
          /\ \A i \in 1 .. revalidated : revalidate(import, i) = Ok
    /\ stage \in {"sidecar", "execution"} =>
          \A i \in 1 .. Len(import.body.transactions) : revalidate(import, i) = Ok
    /\ stage = "execution" => verify_sidecar_binding(import) = Ok /\ "preparer" \in consulted

NothingEarly ==
    /\ stage \in {"idle", "prefilter", "body", "signature"} =>
          consulted = {} /\ revalidated = 0
    /\ stage # "done" => outcome = NoOutcome /\ result = Ok

\* The inductive invariant.
IInv == TypeOK /\ Passed /\ NothingEarly /\ ServicesInCostOrder

\* The pipeline starts in the invariant.
LEMMA InitIInv == Init => IInv
BY LimitsAreOptionalSizes, NoneIsNeither
   DEF Init, IInv, TypeOK, Passed, NothingEarly, ServicesInCostOrder, Outcomes, NoOutcome,
       Ok, Result, Results, Kinds, Causes

\* A new import starts with nothing established.
LEMMA BeginKeepsIInv == \A i \in Imports : IInv /\ BeginImport(i) => IInv'
<1> SUFFICES ASSUME NEW i \in Imports, IInv, BeginImport(i) PROVE IInv'
  BY Zenon
<1>1. TypeOK'
  BY Zenon DEF BeginImport, IInv, TypeOK, Stages, Outcomes, NoOutcome, Ok, Result, Results, Kinds,
         Causes
<1>2. Passed' /\ NothingEarly' /\ ServicesInCostOrder'
  BY Zenon DEF BeginImport, Passed, NothingEarly, ServicesInCostOrder
<1> QED
  BY <1>1, <1>2, Zenon DEF IInv

\* The header prefilter and the body binding call on no service.
LEMMA HeaderAndBodyKeepIInv == IInv /\ (PrefilterHeader \/ VerifyBodyBinding) => IInv'
<1> SUFFICES ASSUME IInv, PrefilterHeader \/ VerifyBodyBinding PROVE IInv'
  BY Zenon
<1>1. import \in AllImports
  BY ImportsAreImports, Zenon DEF IInv, TypeOK, PrefilterHeader, VerifyBodyBinding
<1>2. TypeOK'
  BY <1>1, CheckTypes, Zenon DEF PrefilterHeader, VerifyBodyBinding, Try, IInv, TypeOK, Stages
<1>3. Passed'
  BY Zenon DEF PrefilterHeader, VerifyBodyBinding, Try, IInv, Passed
<1>4. NothingEarly' /\ ServicesInCostOrder'
  BY Zenon DEF PrefilterHeader, VerifyBodyBinding, Try, IInv, NothingEarly, ServicesInCostOrder
<1> QED
  BY <1>2, <1>3, <1>4, Zenon DEF IInv

\* The signature check calls on the resolver and, with a key, the dispatcher.
LEMMA SignatureKeepsIInv == IInv /\ VerifyHeaderSignature => IInv'
<1> SUFFICES ASSUME IInv, VerifyHeaderSignature PROVE IInv'
  BY Zenon
<1>1. import \in AllImports
  BY ImportsAreImports, Zenon DEF IInv, TypeOK, VerifyHeaderSignature
<1>2. TypeOK'
  BY <1>1, CheckTypes, Zenon DEF VerifyHeaderSignature, Try, IInv, TypeOK, Stages
<1>3. verify_header_signature(import) = Ok => import.services.resolver = "Ok"
  BY Zenon DEF verify_header_signature, Ok, Result
<1>4. Passed'
  <2>1. revalidated = 0 /\ Len(import.body.transactions) \in Nat
    BY <1>1 DEF VerifyHeaderSignature, IInv, NothingEarly, AllImports, Bodies
  <2> QED
    BY <1>3, <2>1 DEF VerifyHeaderSignature, Try, IInv, Passed
<1>5. NothingEarly' /\ ServicesInCostOrder'
  BY Zenon DEF VerifyHeaderSignature, Try, IInv, Passed, NothingEarly, ServicesInCostOrder
<1> QED
  BY <1>2, <1>4, <1>5, Zenon DEF IInv

\* A turn of the loop extends the revalidated prefix by one or returns.
LEMMA RevalidationKeepsIInv == IInv /\ RevalidateTransaction => IInv'
<1> SUFFICES ASSUME IInv, RevalidateTransaction PROVE IInv'
  BY Zenon
<1>1. import \in AllImports
  BY ImportsAreImports, Zenon DEF IInv, TypeOK, RevalidateTransaction
<1>2. Len(import.body.transactions) \in Nat
  BY <1>1 DEF AllImports, Bodies
<1>3. revalidated + 1 \in 1 .. Len(import.body.transactions)
  BY <1>2 DEF RevalidateTransaction, IInv, TypeOK
<1>4. TypeOK'
  BY <1>1, <1>3, CheckTypes DEF RevalidateTransaction, Try, IInv, TypeOK, Stages
<1>5. Passed'
  <2>1. \A i \in 1 .. revalidated + 1 : i \in 1 .. revalidated \/ i = revalidated + 1
    BY DEF IInv, TypeOK
  <2> QED
    BY <1>2, <1>3, <2>1 DEF RevalidateTransaction, Try, IInv, Passed
<1>6. NothingEarly' /\ ServicesInCostOrder'
  BY Zenon DEF RevalidateTransaction, Try, IInv, Passed, NothingEarly, ServicesInCostOrder
<1> QED
  BY <1>4, <1>5, <1>6, Zenon DEF IInv

\* The loop ends with every transaction revalidated.
LEMMA EndOfBodyKeepsIInv == IInv /\ BodyRevalidated => IInv'
<1> SUFFICES ASSUME IInv, BodyRevalidated PROVE IInv'
  BY Zenon
<1>1. import \in AllImports
  BY ImportsAreImports, Zenon DEF IInv, TypeOK, BodyRevalidated
<1>2. revalidated = Len(import.body.transactions)
  <2>1. Len(import.body.transactions) \in Nat
    BY <1>1 DEF AllImports, Bodies
  <2> QED
    BY <2>1 DEF BodyRevalidated, IInv, TypeOK, Passed
<1>3. TypeOK'
  BY Zenon DEF BodyRevalidated, Try, IInv, TypeOK, Stages, Ok, Result, Results, Kinds, Causes
<1>4. Passed'
  BY <1>2, Zenon DEF BodyRevalidated, Try, IInv, Passed
<1>5. NothingEarly' /\ ServicesInCostOrder'
  BY Zenon DEF BodyRevalidated, Try, IInv, NothingEarly, ServicesInCostOrder
<1> QED
  BY <1>3, <1>4, <1>5, Zenon DEF IInv

\* The preparer is asked once both sidecar bindings hold.
LEMMA SidecarKeepsIInv == IInv /\ VerifySidecarBinding => IInv'
<1> SUFFICES ASSUME IInv, VerifySidecarBinding PROVE IInv'
  BY Zenon
<1>1. import \in AllImports
  BY ImportsAreImports, Zenon DEF IInv, TypeOK, VerifySidecarBinding
<1>2. TypeOK'
  BY <1>1, CheckTypes, Zenon DEF VerifySidecarBinding, Try, IInv, TypeOK, Stages
<1>3. verify_sidecar_binding(import) = Ok =>
          /\ import.sidecar.block_root = import.header.block_root
          /\ import.sidecar.committed_root = import.header.execution_witnesses_root
  BY Zenon DEF verify_sidecar_binding, Ok, Result
<1>4. Passed'
  BY <1>2, <1>3, Zenon DEF VerifySidecarBinding, Try, IInv, Passed, TypeOK
<1>5. NothingEarly' /\ ServicesInCostOrder'
  BY Zenon DEF VerifySidecarBinding, Try, IInv, Passed, NothingEarly, ServicesInCostOrder
<1> QED
  BY <1>2, <1>4, <1>5, Zenon DEF IInv

\* Executing is the last step, and finds every cheaper check passed.
LEMMA ExecutionKeepsIInv == IInv /\ ExecuteAndCompare => IInv'
<1> SUFFICES ASSUME IInv, ExecuteAndCompare PROVE IInv'
  BY Zenon
<1>1. import \in AllImports
  BY ImportsAreImports, Zenon DEF IInv, TypeOK, ExecuteAndCompare
<1>2. import.header.block_root \in Hashes
  BY <1>1, Zenon DEF AllImports, Headers
<1>3. outcome' \in Outcomes
  BY <1>1, <1>2, Zenon DEF ExecuteAndCompare, AllImports, Services, Outcomes, NoOutcome
<1>4. TypeOK'
  BY <1>1, <1>3, CheckTypes, Zenon DEF ExecuteAndCompare, IInv, TypeOK, Stages
<1>5. Passed' /\ NothingEarly' /\ ServicesInCostOrder'
  BY Zenon DEF ExecuteAndCompare, IInv, Passed, NothingEarly, ServicesInCostOrder
<1> QED
  BY <1>4, <1>5, Zenon DEF IInv

\* Every step keeps the invariant.
LEMMA NextIInv == IInv /\ [Next]_vars => IInv'
<1> SUFFICES ASSUME IInv, [Next]_vars PROVE IInv'
  BY Zenon
<1>1. CASE UNCHANGED vars
  BY <1>1, Zenon DEF vars, IInv, TypeOK, Passed, NothingEarly, ServicesInCostOrder
<1>2. CASE Next
  BY <1>2, BeginKeepsIInv, HeaderAndBodyKeepIInv, SignatureKeepsIInv, RevalidationKeepsIInv,
     EndOfBodyKeepsIInv, SidecarKeepsIInv, ExecutionKeepsIInv, Zenon DEF Next, Check
<1> QED
  BY <1>1, <1>2, Zenon

\* The invariant holds throughout.
THEOREM Invariance == Spec => []IInv
BY InitIInv, NextIInv, PTL DEF Spec

\* The pipeline's state is well typed, its results and outcomes included.
THEOREM TypeCorrect == Spec => []TypeOK
BY Invariance, PTL DEF IInv

\* Cheap checks first, for bodies of any length and every combination of
\* failures: no service is called on before everything cheaper has passed.
THEOREM ServicesAlwaysInCostOrder == Spec => []ServicesInCostOrder
BY Invariance, PTL DEF IInv

-----------------------------------------------------------------------------

\* The positions of the checks in the prescribed order.
LEMMA PrescribedPositions ==
    ASSUME NEW i \in AllImports
    PROVE  LET n == Len(i.body.transactions)
               checks == PrescribedOrder(i)
           IN  /\ n \in Nat
               /\ DOMAIN checks = 1 .. n + 5
               /\ checks[1] = prefilter_header(i, max_witness_bytes)
               /\ checks[2] = verify_body_binding(i)
               /\ checks[3] = verify_header_signature(i)
               /\ \A k \in 1 .. n : checks[k + 3] = revalidate(i, k)
               /\ checks[n + 4] = verify_sidecar_binding(i)
               /\ checks[n + 5] = execute_and_compare(i)
<1> DEFINE n == Len(i.body.transactions)
           front == <<prefilter_header(i, max_witness_bytes), verify_body_binding(i),
                      verify_header_signature(i)>>
           turns == [k \in 1 .. n |-> revalidate(i, k)]
           back == <<verify_sidecar_binding(i), execute_and_compare(i)>>
<1>1. n \in Nat
  BY DEF AllImports, Bodies
<1>2. /\ front \in Seq(Results) /\ Len(front) = 3
      /\ turns \in Seq(Results) /\ Len(turns) = n
      /\ back \in Seq(Results) /\ Len(back) = 2
  BY <1>1, CheckTypes
<1>3. PrescribedOrder(i) = front \o turns \o back
  BY Zenon DEF PrescribedOrder
<1> HIDE DEF front, turns, back, n
<1>4. /\ front \o turns \in Seq(Results) /\ Len(front \o turns) = n + 3
      /\ \A k \in 1 .. n + 3 :
            (front \o turns)[k] = IF k <= 3 THEN front[k] ELSE turns[k - 3]
  <2>1. /\ front \o turns \in Seq(Results)
        /\ Len(front \o turns) = Len(front) + Len(turns)
        /\ \A k \in 1 .. Len(front) + Len(turns) :
              (front \o turns)[k] =
                 IF k <= Len(front) THEN front[k] ELSE turns[k - Len(front)]
    BY <1>2, ConcatProperties, Zenon
  <2>2. Len(front) + Len(turns) = n + 3
    BY <1>1, <1>2
  <2> QED
    BY <1>2, <2>1, <2>2, Zenon
<1>5. /\ DOMAIN PrescribedOrder(i) = 1 .. n + 5
      /\ \A k \in 1 .. n + 5 :
            PrescribedOrder(i)[k] = IF k <= n + 3 THEN (front \o turns)[k] ELSE back[k - (n + 3)]
  <2> DEFINE most == front \o turns
  <2>1. most \in Seq(Results) /\ back \in Seq(Results) /\ Len(most) = n + 3
    BY <1>2, <1>4, Zenon
  <2> HIDE DEF most
  <2>2. /\ most \o back \in Seq(Results)
        /\ Len(most \o back) = Len(most) + Len(back)
        /\ \A k \in 1 .. Len(most) + Len(back) :
              (most \o back)[k] = IF k <= Len(most) THEN most[k] ELSE back[k - Len(most)]
    BY ONLY <2>1, ConcatProperties, ZenonT(60), Zenon
  <2>3. Len(most) + Len(back) = n + 5
    BY <1>1, <1>2, <2>1
  <2>4. /\ most \o back \in Seq(Results)
        /\ Len(most \o back) = n + 5
        /\ \A k \in 1 .. n + 5 :
              (most \o back)[k] = IF k <= n + 3 THEN most[k] ELSE back[k - (n + 3)]
    BY <2>1, <2>2, <2>3, Zenon
  <2>5. DOMAIN (most \o back) = 1 .. n + 5
    BY <2>4
  <2> QED
    BY <1>3, <2>4, <2>5, Zenon DEF most
<1>6. /\ \A k \in 1 .. 3 : PrescribedOrder(i)[k] = front[k]
      /\ \A k \in 1 .. n : PrescribedOrder(i)[k + 3] = turns[k]
      /\ PrescribedOrder(i)[n + 4] = back[1] /\ PrescribedOrder(i)[n + 5] = back[2]
  <2>1. \A k \in 1 .. 3 : PrescribedOrder(i)[k] = front[k]
    BY <1>1, <1>4, <1>5, SMTT(30)
  <2>2. ASSUME NEW k \in 1 .. n PROVE PrescribedOrder(i)[k + 3] = turns[k]
    <3>1. k + 3 \in 1 .. n + 3 /\ k + 3 \in 1 .. n + 5 /\ ~(k + 3 <= 3) /\ (k + 3) - 3 = k
      BY <1>1
    <3>2. PrescribedOrder(i)[k + 3] = (front \o turns)[k + 3]
      <4>1. k + 3 <= n + 3
        BY <1>1
      <4> QED
        BY <3>1, <4>1, <1>5, Zenon
    <3>3. (front \o turns)[k + 3] = turns[k]
      BY <3>1, <1>4, Zenon
    <3> QED
      BY <3>2, <3>3, Zenon
  <2>3. PrescribedOrder(i)[n + 4] = back[1] /\ PrescribedOrder(i)[n + 5] = back[2]
    <3>1. /\ n + 4 \in 1 .. n + 5 /\ ~(n + 4 <= n + 3) /\ (n + 4) - (n + 3) = 1
          /\ n + 5 \in 1 .. n + 5 /\ ~(n + 5 <= n + 3) /\ (n + 5) - (n + 3) = 2
      BY <1>1
    <3> QED
      BY <3>1, <1>5, Zenon
  <2> QED
    BY <2>1, <2>2, <2>3, Zenon
<1>7. front = <<prefilter_header(i, max_witness_bytes), verify_body_binding(i),
                verify_header_signature(i)>>
  BY Zenon DEF front
<1>8. back = <<verify_sidecar_binding(i), execute_and_compare(i)>>
  BY Zenon DEF back
<1>9. \A k \in 1 .. n : turns[k] = revalidate(i, k)
  BY Zenon DEF turns
<1>10. /\ PrescribedOrder(i)[1] = prefilter_header(i, max_witness_bytes)
       /\ PrescribedOrder(i)[2] = verify_body_binding(i)
       /\ PrescribedOrder(i)[3] = verify_header_signature(i)
       /\ PrescribedOrder(i)[n + 4] = verify_sidecar_binding(i)
       /\ PrescribedOrder(i)[n + 5] = execute_and_compare(i)
  BY <1>6, <1>7, <1>8
<1> QED
  BY <1>1, <1>5, <1>6, <1>9, <1>10, Zenon DEF n

\* A check that fails after all before it passed is the reported one.
LEMMA FailureIsFirst ==
    ASSUME NEW i \in AllImports, import' = i, max_witness_bytes' = max_witness_bytes,
           NEW k \in 1 .. Len(i.body.transactions) + 5, result' = PrescribedOrder(i)[k],
           \A j \in 1 .. k - 1 : PrescribedOrder(i)[j] = Ok
    PROVE  FirstFailureIsReported'
<1>1. PrescribedOrder(i)' = PrescribedOrder(i)
  BY Zenon DEF PrescribedOrder
<1>2. k \in DOMAIN PrescribedOrder(i)
  BY PrescribedPositions, Zenon
<1> QED
  BY <1>1, <1>2, Zenon DEF FirstFailureIsReported

\* What each stage has established puts Ok in every position before its own.
LEMMA PassedPrefix ==
    ASSUME IInv, stage \in Stages
    PROVE  LET n == Len(import.body.transactions)
               checks == PrescribedOrder(import)
           IN  /\ stage \in {"body", "signature", "revalidation", "sidecar", "execution"} =>
                     checks[1] = Ok
               /\ stage \in {"signature", "revalidation", "sidecar", "execution"} =>
                     checks[2] = Ok
               /\ stage \in {"revalidation", "sidecar", "execution"} => checks[3] = Ok
               /\ stage = "revalidation" => \A k \in 1 .. revalidated : checks[k + 3] = Ok
               /\ stage \in {"sidecar", "execution"} => \A k \in 1 .. n : checks[k + 3] = Ok
               /\ stage = "execution" => checks[n + 4] = Ok
<1>1. import \in AllImports
  BY ImportsAreImports, Zenon DEF IInv, TypeOK, Stages
<1>2. stage = "revalidation" =>
          \A k \in 1 .. revalidated : k \in 1 .. Len(import.body.transactions)
  BY <1>1 DEF IInv, TypeOK, Passed, AllImports, Bodies
<1> QED
  BY <1>1, <1>2, PrescribedPositions, Zenon DEF IInv, Passed

\* Every step reports only a first failure.
LEMMA NextFirstFailure ==
    IInv /\ FirstFailureIsReported /\ [Next]_vars => FirstFailureIsReported'
<1> SUFFICES ASSUME IInv, FirstFailureIsReported, [Next]_vars PROVE FirstFailureIsReported'
  BY Zenon
<1>1. CASE UNCHANGED vars
  BY <1>1, ZenonT(40) DEF vars, FirstFailureIsReported, PrescribedOrder
<1>2. ASSUME NEW i \in Imports, BeginImport(i) PROVE FirstFailureIsReported'
  BY <1>2, Zenon DEF BeginImport, FirstFailureIsReported
<1>3. ASSUME Check PROVE FirstFailureIsReported'
  <2> DEFINE n == Len(import.body.transactions)
             checks == PrescribedOrder(import)
  <2>1. stage \in Stages /\ import' = import /\ max_witness_bytes' = max_witness_bytes
    BY <1>3, Zenon DEF Check, PrefilterHeader, VerifyBodyBinding, VerifyHeaderSignature,
                RevalidateTransaction, BodyRevalidated, VerifySidecarBinding,
                ExecuteAndCompare, Try, Stages
  <2>2. import \in AllImports
    BY <2>1, ImportsAreImports, Zenon DEF IInv, TypeOK, Stages
  <2>3. n \in Nat /\ revalidated \in Nat
    BY <2>2 DEF AllImports, Bodies, IInv, TypeOK
  <2>4. CASE stage' # "done" \/ result' = Ok
    BY <2>4, Zenon DEF FirstFailureIsReported
  <2>5. ASSUME NEW k \in 1 .. n + 5, result' = checks[k],
               \A j \in 1 .. k - 1 : checks[j] = Ok
        PROVE  FirstFailureIsReported'
    BY <2>1, <2>2, <2>5, FailureIsFirst, Zenon
  <2>6. CASE PrefilterHeader
    <3>1. result' = checks[1]
      BY <2>2, <2>6, PrescribedPositions, Zenon DEF PrefilterHeader, Try
    <3>2. 1 \in 1 .. n + 5 /\ \A j \in 1 .. 1 - 1 : checks[j] = Ok
      BY <2>3
    <3> QED
      BY <2>5, <3>1, <3>2, Zenon
  <2>7. CASE VerifyBodyBinding
    <3>1. result' = checks[2]
      BY <2>2, <2>7, PrescribedPositions, Zenon DEF VerifyBodyBinding, Try
    <3>2. checks[1] = Ok
      BY <2>1, <2>7, PassedPrefix, Zenon DEF VerifyBodyBinding
    <3>3. 2 \in 1 .. n + 5 /\ \A j \in 1 .. 2 - 1 : checks[j] = Ok
      BY <2>3, <3>2
    <3> QED
      BY <2>5, <3>1, <3>3, Zenon
  <2>8. CASE VerifyHeaderSignature
    <3>1. result' = checks[3]
      BY <2>2, <2>8, PrescribedPositions, Zenon DEF VerifyHeaderSignature, Try
    <3>2. checks[1] = Ok /\ checks[2] = Ok
      BY <2>1, <2>8, PassedPrefix, Zenon DEF VerifyHeaderSignature
    <3>3. 3 \in 1 .. n + 5 /\ \A j \in 1 .. 3 - 1 : checks[j] = Ok
      BY <2>3, <3>2
    <3> QED
      BY <2>5, <3>1, <3>3, Zenon
  <2>9. CASE RevalidateTransaction
    <3> DEFINE r == revalidated
    <3>1. r + 1 \in 1 .. n
      BY <2>3, <2>9 DEF RevalidateTransaction
    <3>2. result' = checks[(r + 1) + 3]
      BY <2>2, <2>9, <3>1, PrescribedPositions, Zenon DEF RevalidateTransaction, Try
    <3>3. checks[1] = Ok /\ checks[2] = Ok /\ checks[3] = Ok
      BY <2>1, <2>9, PassedPrefix, Zenon DEF RevalidateTransaction
    <3>4. \A k \in 1 .. r : checks[k + 3] = Ok
      BY <2>1, <2>9, PassedPrefix, Zenon DEF RevalidateTransaction
    <3>5. ASSUME NEW j \in 1 .. ((r + 1) + 3) - 1 PROVE checks[j] = Ok
      <4>1. j \in {1, 2, 3} \/ (j - 3 \in 1 .. r /\ (j - 3) + 3 = j)
        BY <2>3
      <4> QED
        BY <3>3, <3>4, <4>1, Zenon
    <3>6. (r + 1) + 3 \in 1 .. n + 5
      BY <2>3, <3>1
    <3> QED
      BY <2>5, <3>2, <3>5, <3>6, Zenon
  <2>10. CASE BodyRevalidated
    BY <2>4, <2>10, Zenon DEF BodyRevalidated, Try, Ok
  <2>11. ASSUME stage \in {"sidecar", "execution"} PROVE \A j \in 1 .. n + 3 : checks[j] = Ok
    <3>1. checks[1] = Ok /\ checks[2] = Ok /\ checks[3] = Ok
      BY <2>1, <2>11, PassedPrefix, Zenon
    <3>2. \A k \in 1 .. n : checks[k + 3] = Ok
      BY <2>1, <2>11, PassedPrefix, Zenon
    <3>3. ASSUME NEW j \in 1 .. n + 3 PROVE checks[j] = Ok
      <4>1. j \in {1, 2, 3} \/ (j - 3 \in 1 .. n /\ (j - 3) + 3 = j)
        BY <2>3
      <4> QED
        BY <3>1, <3>2, <4>1, Zenon
    <3> QED
      BY <3>3, Zenon
  <2>12. CASE VerifySidecarBinding
    <3>1. result' = checks[n + 4]
      BY <2>2, <2>12, PrescribedPositions, Zenon DEF VerifySidecarBinding, Try
    <3>2. \A j \in 1 .. n + 3 : checks[j] = Ok
      BY <2>11, <2>12, Zenon DEF VerifySidecarBinding
    <3>3. n + 4 \in 1 .. n + 5 /\ (n + 4) - 1 = n + 3
      BY <2>3
    <3> QED
      BY <2>5, <3>1, <3>2, <3>3, SMTT(30)
  <2>13. CASE ExecuteAndCompare
    <3>1. result' = checks[n + 5]
      BY <2>2, <2>13, PrescribedPositions, Zenon DEF ExecuteAndCompare
    <3>2. \A j \in 1 .. n + 3 : checks[j] = Ok
      BY <2>11, <2>13, Zenon DEF ExecuteAndCompare
    <3>3. checks[n + 4] = Ok
      BY <2>1, <2>13, PassedPrefix, Zenon DEF ExecuteAndCompare
    <3>4. n + 5 \in 1 .. n + 5 /\ \A j \in 1 .. (n + 5) - 1 : j \in 1 .. n + 3 \/ j = n + 4
      BY <2>3
    <3>5. \A j \in 1 .. (n + 5) - 1 : checks[j] = Ok
      BY <3>2, <3>3, <3>4, Zenon
    <3> QED
      BY <2>5, <3>1, <3>4, <3>5, Zenon
  <2> QED
    BY <1>3, <2>6, <2>7, <2>8, <2>9, <2>10, <2>12, <2>13, Zenon DEF Check
<1> QED
  BY <1>1, <1>2, <1>3, Zenon DEF Next

\* Of all the checks a block fails, import_block always reports the one that
\* comes first in the prescribed order.
THEOREM FirstFailureAlwaysReported == Spec => []FirstFailureIsReported
<1>1. Init => FirstFailureIsReported
  BY Zenon DEF Init, FirstFailureIsReported
<1>2. IInv /\ FirstFailureIsReported /\ [Next]_vars => FirstFailureIsReported'
  BY NextFirstFailure, Zenon
<1> QED
  BY <1>1, <1>2, Invariance, PTL DEF Spec

\* The first state of the pipeline is one of the abstract verdict.
LEMMA InitRefines == Init => Verdict!Init
BY Zenon DEF Init, Stages, Pending, Returned, Verdict!Init

\* Both modules speak of the same checks.
LEMMA SameFailures ==
    ASSUME NEW i, NEW m
    PROVE  Verdict!Failures(i, m) =
             ({prefilter_header(i, m), verify_body_binding(i), verify_header_signature(i),
               verify_sidecar_binding(i), execute_and_compare(i)}
                \cup {revalidate(i, k) : k \in 1 .. Len(i.body.transactions)}) \ {Ok}
<1>1. \A kind, cause : Verdict!Result(kind, cause) = Result(kind, cause)
  BY Zenon DEF Result, Verdict!Result
<1>2. Verdict!Ok = Ok
  BY <1>1, Zenon DEF Ok, Verdict!Ok
<1>3. Verdict!prefilter_header(i, m) = prefilter_header(i, m)
  BY <1>1, <1>2, Zenon DEF prefilter_header, Verdict!prefilter_header
<1>4. Verdict!verify_body_binding(i) = verify_body_binding(i)
  BY <1>1, <1>2, Zenon DEF verify_body_binding, Verdict!verify_body_binding
<1>5. Verdict!verify_header_signature(i) = verify_header_signature(i)
  BY <1>1, <1>2, Zenon DEF verify_header_signature, Verdict!verify_header_signature
<1>6. \A k : Verdict!revalidate(i, k) = revalidate(i, k)
  BY <1>1, <1>2, Zenon DEF revalidate, Verdict!revalidate
<1>7. Verdict!verify_sidecar_binding(i) = verify_sidecar_binding(i)
  BY <1>1, <1>2, Zenon DEF verify_sidecar_binding, Verdict!verify_sidecar_binding
<1>8. Verdict!execute_and_compare(i) = execute_and_compare(i)
  BY <1>1, <1>2, Zenon DEF execute_and_compare, Verdict!execute_and_compare
<1> QED
  BY <1>2, <1>3, <1>4, <1>5, <1>6, <1>7, <1>8, Zenon DEF Verdict!Failures

\* A failing check refuses the import for one of its failures.
LEMMA FailureDecides ==
    ASSUME IInv, import' = import, max_witness_bytes' = max_witness_bytes,
           stage \in Stages, stage' = "done", outcome' = NoOutcome,
           result' \in Verdict!Failures(import, max_witness_bytes)
    PROVE  Verdict!Next
<1>1. import # None
  BY NoneIsNoImport, ImportsAreImports, Zenon DEF IInv, TypeOK, Stages
<1>2. Pending = import /\ Pending' = None
  BY Zenon DEF Pending, Stages
<1>3. Returned' = Verdict!Refused(result')
  BY Zenon DEF Returned, Verdict!Refused, NoOutcome, Verdict!NoOutcome
<1> QED
  BY <1>1, <1>2, <1>3, Zenon DEF Verdict!Next, Verdict!Decide

\* A check that passes leaves the abstract state as it is.
LEMMA ProgressStutters ==
    ASSUME IInv, import' = import, max_witness_bytes' = max_witness_bytes,
           stage \in Stages, stage' \in Stages
    PROVE  UNCHANGED Verdict!vars
<1>1. stage # "done" /\ stage' # "done"
  BY Zenon DEF Stages
<1> QED
  BY <1>1, Zenon DEF Pending, Returned, Verdict!vars

\* One check followed by the question mark is a refusal or a stutter.
LEMMA TryRefines ==
    ASSUME IInv, stage \in Stages, NEW check, NEW next \in Stages, Try(check, next),
           check # Ok => check \in Verdict!Failures(import, max_witness_bytes)
    PROVE  [Verdict!Next]_Verdict!vars
<1>1. outcome' = NoOutcome /\ UNCHANGED <<import, max_witness_bytes>>
  BY Zenon DEF Try, IInv, NothingEarly, Stages
<1>2. CASE check = Ok
  BY <1>1, <1>2, ProgressStutters, Zenon DEF Try
<1>3. CASE check # Ok
  BY <1>1, <1>3, FailureDecides, Zenon DEF Try
<1> QED
  BY <1>2, <1>3, Zenon

\* The end of execution accepts the roots the header commits, and nothing is
\* wrong with the block then; or it is a refusal.
LEMMA ExecutionRefines ==
    ASSUME IInv, ExecuteAndCompare
    PROVE  [Verdict!Next]_Verdict!vars
<1>1. /\ stage \in Stages
      /\ stage' = "done"
      /\ UNCHANGED <<import, max_witness_bytes>>
      /\ result' = execute_and_compare(import)
  BY Zenon DEF ExecuteAndCompare, Stages
<1>2. CASE execute_and_compare(import) # Ok
  <2>1. result' \in Verdict!Failures(import, max_witness_bytes)
    BY <1>1, <1>2, SameFailures, Zenon
  <2> QED
    BY <1>1, <1>2, <2>1, FailureDecides, Zenon DEF ExecuteAndCompare
<1>3. CASE execute_and_compare(import) = Ok
  <2>1. Verdict!Failures(import, max_witness_bytes) = {}
    <3>1. /\ prefilter_header(import, max_witness_bytes) = Ok
          /\ verify_body_binding(import) = Ok
          /\ verify_header_signature(import) = Ok
          /\ verify_sidecar_binding(import) = Ok
          /\ \A k \in 1 .. Len(import.body.transactions) : revalidate(import, k) = Ok
      BY Zenon DEF IInv, Passed, ExecuteAndCompare
    <3> QED
      BY <1>3, <3>1, SameFailures, Zenon
  <2>2. import # None
    BY NoneIsNoImport, ImportsAreImports, Zenon DEF IInv, TypeOK, ExecuteAndCompare
  <2>3. Pending = import /\ Pending' = None
    BY <1>1, Zenon DEF Pending, Stages
  <2>4. /\ import.services.post_state_root = import.header.state_root
        /\ import.services.receipts_root = import.header.receipts_root
    BY <1>3, Zenon DEF execute_and_compare, Ok, Result
  <2>5. Returned' = Verdict!Accepted(import)
    BY <1>1, <1>3, <2>4, Zenon
       DEF ExecuteAndCompare, Returned, Verdict!Accepted, Verdict!Committed, Ok, Verdict!Ok,
           Result, Verdict!Result
  <2> QED
    BY <1>1, <2>1, <2>2, <2>3, <2>5, Zenon DEF Verdict!Next, Verdict!Decide
<1> QED
  BY <1>2, <1>3, Zenon

\* Every step of the pipeline is a step of the abstract verdict or a stutter.
LEMMA NextRefines == IInv /\ [Next]_vars => [Verdict!Next]_Verdict!vars
<1> SUFFICES ASSUME IInv, [Next]_vars PROVE [Verdict!Next]_Verdict!vars
  BY Zenon
<1>1. CASE UNCHANGED vars
  BY <1>1, Zenon DEF vars, Verdict!vars, Pending, Returned
<1>2. ASSUME NEW i \in Imports, BeginImport(i) PROVE Verdict!Next
  <2>1. Pending = None /\ Pending' = i /\ Returned' = None
    BY <1>2, Zenon DEF BeginImport, Pending, Returned, Stages
  <2>2. i \in Verdict!AllImports
    <3>1. Verdict!AllImports = AllImports
      BY Zenon DEF AllImports, Verdict!AllImports, Headers, Verdict!Headers, Bodies, Verdict!Bodies,
             Sidecars, Verdict!Sidecars, Services, Verdict!Services,
             RootResults, Verdict!RootResults,
             Resolutions, Verdict!Resolutions, Dispatches, Verdict!Dispatches,
             Revalidations, Verdict!Revalidations, Preparations, Verdict!Preparations,
             Executions, Verdict!Executions, PrimitiveErrors, Verdict!PrimitiveErrors,
             DecodingErrors, Verdict!DecodingErrors, PrimitiveInternals,
             Verdict!PrimitiveInternals, SignatureErrors, Verdict!SignatureErrors,
             PolicyErrors, Verdict!PolicyErrors, CallerErrors, Verdict!CallerErrors
    <3> QED
      BY <1>2, <3>1, ImportsAreImports, Zenon
  <2> QED
    BY <1>2, <2>1, <2>2, Zenon DEF BeginImport, Verdict!Next, Verdict!Request
<1>3. CASE PrefilterHeader
  BY <1>3, TryRefines, SameFailures, Zenon DEF PrefilterHeader, Stages
<1>4. CASE VerifyBodyBinding
  BY <1>4, TryRefines, SameFailures, Zenon DEF VerifyBodyBinding, Stages
<1>5. CASE VerifyHeaderSignature
  BY <1>5, TryRefines, SameFailures, Zenon DEF VerifyHeaderSignature, Stages
<1>6. CASE RevalidateTransaction
  <2>1. revalidated + 1 \in 1 .. Len(import.body.transactions)
    <3>1. Len(import.body.transactions) \in Nat
      BY <1>6, ImportsAreImports
         DEF IInv, TypeOK, RevalidateTransaction, AllImports, Bodies
    <3> QED
      BY <1>6, <3>1 DEF RevalidateTransaction, IInv, TypeOK
  <2> QED
    BY <1>6, <2>1, TryRefines, SameFailures, Zenon DEF RevalidateTransaction, Stages
<1>7. CASE BodyRevalidated
  BY <1>7, TryRefines, Zenon DEF BodyRevalidated, Stages
<1>8. CASE VerifySidecarBinding
  BY <1>8, TryRefines, SameFailures, Zenon DEF VerifySidecarBinding, Stages
<1>9. CASE ExecuteAndCompare
  BY <1>9, ExecutionRefines, Zenon
<1> QED
  BY <1>1, <1>2, <1>3, <1>4, <1>5, <1>6, <1>7, <1>8, <1>9, Zenon DEF Next, Check

\* Block import refines its abstract verdict: whatever the services answer, it
\* accepts just the blocks nothing is wrong with, returning the roots their
\* headers commit, and refuses for a reason that applies.
THEOREM ImportRefinesVerdict == Spec => ImplementsVerdict
<1>1. Init => Verdict!Init
  BY InitRefines, Zenon
<1>2. IInv /\ [Next]_vars => [Verdict!Next]_Verdict!vars
  BY NextRefines, Zenon
<1> QED
  BY <1>1, <1>2, Invariance, PTL DEF Spec, ImplementsVerdict, Verdict!Spec

-----------------------------------------------------------------------------
(* The node.                                                               *)

\* The errors import_block can return, each kind with the causes it can have.
Reported ==
    [kind : {"Primitive"}, cause : PrimitiveErrors]
      \cup [kind : {"ProposerCredentialResolution"}, cause : Resolutions \ {"Ok"}]
      \cup [kind : {"Crypto"}, cause : Dispatches \ {"Ok"}]
      \cup [kind : {"TransactionValidation"}, cause : Revalidations \ {"Ok"}]
      \cup [kind : {"Execution", "State"}, cause : Preparations \cup Executions]
      \cup [kind : {"WitnessByteLimitExceeded", "HeaderBodyRootMismatch",
                    "SidecarBlockRootMismatch", "SidecarCommitmentMismatch"}, cause : {"-"}]

\* Whatever is wrong with a block is one of those errors.
LEMMA FailuresAreReported ==
    ASSUME NEW i \in AllImports, NEW m, NEW f \in Verdict!Failures(i, m)
    PROVE  f \in Reported
<1>1. /\ i.header.root_result \in RootResults
      /\ i.body.root_result \in RootResults
      /\ i.body.transactions \in Seq(Revalidations)
      /\ i.services.resolver \in Resolutions
      /\ i.services.dispatcher \in Dispatches
      /\ i.services.preparer \in Preparations
      /\ i.services.engine \in Executions
  BY Zenon DEF AllImports, Headers, Bodies, Services
<1>2. prefilter_header(i, m) = Ok \/ prefilter_header(i, m) \in Reported
  BY <1>1, Zenon DEF prefilter_header, Reported, RootResults, Result
<1>3. verify_body_binding(i) = Ok \/ verify_body_binding(i) \in Reported
  BY <1>1, Zenon DEF verify_body_binding, Reported, RootResults, Result
<1>4. verify_header_signature(i) = Ok \/ verify_header_signature(i) \in Reported
  BY <1>1, Zenon DEF verify_header_signature, Reported, Result
<1>5. verify_sidecar_binding(i) = Ok \/ verify_sidecar_binding(i) \in Reported
  BY <1>1, Zenon DEF verify_sidecar_binding, Reported, Result
<1>6. execute_and_compare(i) = Ok \/ execute_and_compare(i) \in Reported
  <2>1. "PostStateRootMismatch" \in Executions /\ "ReceiptsRootMismatch" \in Executions
    BY Zenon DEF Executions
  <2> QED
    BY <1>1, <2>1, Zenon DEF execute_and_compare, Reported, Result
<1>7. ASSUME NEW k \in 1 .. Len(i.body.transactions)
      PROVE  revalidate(i, k) = Ok \/ revalidate(i, k) \in Reported
  <2>1. i.body.transactions[k] \in Revalidations
    BY <1>1
  <2> QED
    BY <2>1, Zenon DEF revalidate, Reported, Result
<1> QED
  BY <1>2, <1>3, <1>4, <1>5, <1>6, <1>7, SameFailures, Zenon

\* The two routes lead to the same kind of action; only a peer is punished, and
\* it is not disconnected for a soft failure.
LEMMA RoutesAgree ==
    ASSUME NEW origin \in AllOrigins, NEW f \in Reported \cup {Ok}
    PROVE  LET adapter == AdapterAction(origin, f)
               pipeline == PipelineAction(origin, f)
           IN  /\ adapter \in PeerActions /\ pipeline \in PeerActions
               /\ adapter.act = pipeline.act
               /\ ~penalizes_peer(origin) => adapter.act \in {"Accept", "Ignore"}
               /\ adapter.act = "Disconnect" => f # Ok /\ ~SoftFailure(f)
<1> USE DEF AdapterAction, PipelineAction, peer_action_for_validation_outcome,
            disconnect_action, policy_action, Ignore, Action, PeerActions, Hints,
            POLICY_REPUTATION_DELTA, OVERSIZED_REPUTATION_DELTA, SoftFailure, SoftErrors
<1>1. CASE f = Ok
  BY <1>1, Zenon DEF network_validation_outcome
<1>2. f # Ok => f \in Reported /\ f = Result(f.kind, f.cause)
  BY Zenon DEF Reported, Result
<1>3. CASE f # Ok /\ f.kind = "Primitive"
  BY <1>2, <1>3 DEF network_validation_outcome, peer_action_for_consensus_error, Result
<1>4. CASE f # Ok /\ f.kind = "ProposerCredentialResolution"
  BY <1>2, <1>4 DEF network_validation_outcome, peer_action_for_consensus_error,
                    peer_action_for_proposer_credential_error, Result
<1>5. CASE f # Ok /\ f.kind = "Crypto"
  BY <1>2, <1>5, SMTT(30) DEF network_validation_outcome, peer_action_for_consensus_error,
                    peer_action_for_consensus_crypto_error, Result
<1>6. CASE f # Ok /\ f.kind = "TransactionValidation"
  <2>1. f.cause \in DecodingErrors \cup PrimitiveInternals \cup SignatureErrors
                      \cup PolicyErrors \cup CallerErrors
    BY <1>2, <1>6, Zenon DEF Reported, Revalidations, PrimitiveErrors
  <2>2. CASE f.cause \in PrimitiveInternals \cup CallerErrors
    BY <1>2, <1>6, <2>2, Zenon DEF network_validation_outcome, peer_action_for_consensus_error,
         peer_action_for_mempool_error, Result, DecodingErrors, SignatureErrors, PolicyErrors,
         PrimitiveInternals, CallerErrors
  <2>3. CASE f.cause \in PolicyErrors
    BY <1>2, <1>6, <2>3 DEF network_validation_outcome, peer_action_for_consensus_error,
         peer_action_for_mempool_error, Result, DecodingErrors, SignatureErrors, PolicyErrors,
         PrimitiveInternals, CallerErrors
  <2>4. CASE f.cause \in DecodingErrors \cup SignatureErrors
    BY <1>2, <1>6, <2>4 DEF network_validation_outcome, peer_action_for_consensus_error,
         peer_action_for_mempool_error, Result, DecodingErrors, SignatureErrors, PolicyErrors,
         PrimitiveInternals, CallerErrors
  <2> QED
    BY <2>1, <2>2, <2>3, <2>4, Zenon
<1>7. CASE f # Ok /\ f.kind = "WitnessByteLimitExceeded"
  BY <1>2, <1>7, Zenon DEF network_validation_outcome, peer_action_for_consensus_error, Result
<1>8. CASE f # Ok /\ f.kind \in {"Execution", "State", "HeaderBodyRootMismatch",
                                 "SidecarBlockRootMismatch", "SidecarCommitmentMismatch"}
  BY <1>2, <1>8, SMTT(30) DEF network_validation_outcome, peer_action_for_consensus_error, Result
<1>9. f # Ok => f.kind \in {"Primitive", "ProposerCredentialResolution", "Crypto",
                            "TransactionValidation", "WitnessByteLimitExceeded", "Execution",
                            "State", "HeaderBodyRootMismatch", "SidecarBlockRootMismatch",
                            "SidecarCommitmentMismatch"}
  BY <1>2, Zenon DEF Reported
<1> QED
  BY <1>1, <1>3, <1>4, <1>5, <1>6, <1>7, <1>8, <1>9, Zenon

\* A transaction costs its sender the connection only for an error that is not soft.
LEMMA TransactionActions ==
    ASSUME NEW origin \in AllOrigins, NEW s, NEW error \in Revalidations \ {"Ok"}
    PROVE  LET action == peer_action_for_mempool_error(origin, s, error)
           IN  /\ action \in PeerActions
               /\ action.act \in {"AdjustReputation", "Disconnect"} => penalizes_peer(origin)
               /\ action.act = "Disconnect" => error \notin SoftErrors
<1> USE DEF peer_action_for_mempool_error, disconnect_action, policy_action, Ignore, Action,
            PeerActions, Hints, POLICY_REPUTATION_DELTA, DecodingErrors, SignatureErrors,
            PolicyErrors, PrimitiveInternals, CallerErrors, SoftErrors
<1>1. CASE error \in DecodingErrors
  BY <1>1, Zenon
<1>2. CASE error \in SignatureErrors
  BY <1>2, Zenon
<1>3. CASE error \in PolicyErrors
  BY <1>3, Zenon
<1>4. CASE error \in PrimitiveInternals \cup CallerErrors
  BY <1>4, Zenon
<1> QED
  BY <1>1, <1>2, <1>3, <1>4, Zenon DEF Revalidations, PrimitiveErrors

-----------------------------------------------------------------------------

\* An import that has ended failed a check or none.
Judged ==
    stage = "done" => result \in Verdict!Failures(import, max_witness_bytes) \cup {Ok}

\* The import under way is that of the announcement being handled, and what was
\* fetched is within the limit for fetching.
FetchedInHand ==
    /\ announced # None /\ announced.fetched => stage # "idle" /\ import = announced.import
    /\ import # None /\ fetch_policy.max_witness_bytes # None =>
          ~(import.header.witness_bytes > fetch_policy.max_witness_bytes)

\* The inductive invariant.
NodeInv ==
    /\ IInv
    /\ NodeTypeOK
    /\ Judged
    /\ FirstFailureIsReported
    /\ FetchedInHand
    /\ FetchedIsNeverOversized
    /\ SoftFailuresNeverDisconnect

\* The node starts in the invariant.
LEMMA InitNodeInv == NodeInit => NodeInv
<1> SUFFICES ASSUME NodeInit PROVE NodeInv
  BY Zenon
<1>1. IInv
  BY InitIInv, Zenon DEF NodeInit
<1>2. NodeTypeOK
  <2>1. NoBlame \in Blames
    BY Zenon DEF NoBlame, Blames
  <2> QED
    BY <1>1, <2>1 DEF NodeInit, NodeTypeOK, IInv
<1>3. /\ Judged /\ FirstFailureIsReported /\ FetchedInHand /\ FetchedIsNeverOversized
      /\ SoftFailuresNeverDisconnect
  BY Zenon DEF NodeInit, Init, Judged, FirstFailureIsReported, FetchedInHand,
         FetchedIsNeverOversized, SoftFailuresNeverDisconnect, Ok, Result
<1> QED
  BY <1>1, <1>2, <1>3, Zenon DEF NodeInv

\* What was blamed, and on whom, stays disconnect-grade: the limit does not change.
LEMMA BlameStands ==
    ASSUME SoftFailuresNeverDisconnect, UNCHANGED <<connected, blamed, max_witness_bytes>>
    PROVE  SoftFailuresNeverDisconnect'
<1>1. \A i : PrescribedOrder(i)' = PrescribedOrder(i)
  BY Zenon DEF PrescribedOrder
<1> QED
  BY <1>1, Zenon DEF SoftFailuresNeverDisconnect, DisconnectGrade

\* Steps of the import, and those that leave it alone, keep the report of a first failure.
LEMMA ReportStands == NodeInv /\ [Next]_vars => FirstFailureIsReported'
BY NextFirstFailure, Zenon DEF NodeInv

\* Handling an announcement before its block is fetched leaves import alone.
LEMMA AnnouncementKeepsNodeInv ==
    ASSUME NodeInv, UNCHANGED <<vars, fetch_policy, connected, reputation, blamed>>,
           announced' \in Announcements \cup {None}, announced' # None => ~announced'.fetched
    PROVE  NodeInv'
<1>1. IInv' /\ TypeOK'
  BY NextIInv, Zenon DEF NodeInv, IInv
<1>2. NodeTypeOK'
  BY <1>1, Zenon DEF NodeInv, NodeTypeOK
<1>3. Judged' /\ FetchedInHand' /\ FetchedIsNeverOversized'
  BY Zenon DEF vars, NodeInv, Judged, FetchedInHand, FetchedIsNeverOversized, Verdict!Failures
<1>4. SoftFailuresNeverDisconnect' /\ FirstFailureIsReported'
  BY BlameStands, ReportStands, Zenon DEF NodeInv, vars
<1> QED
  BY <1>1, <1>2, <1>3, <1>4, Zenon DEF NodeInv

\* A fetched block is within the limit for fetching, and its import starts anew.
LEMMA FetchKeepsNodeInv == NodeInv /\ FetchBlock => NodeInv'
<1> SUFFICES ASSUME NodeInv, FetchBlock PROVE NodeInv'
  BY Zenon
<1>1. announced \in Announcements /\ announced.import \in Imports
  BY Zenon DEF FetchBlock, NodeInv, NodeTypeOK, Announcements
<1>2. IInv' /\ TypeOK'
  BY <1>1, BeginKeepsIInv, Zenon DEF NodeInv, FetchBlock, IInv
<1>3. announced' \in Announcements /\ announced'.import = announced.import
  BY <1>1, ZenonT(40) DEF FetchBlock, Announcements
<1>4. NodeTypeOK'
  BY <1>2, <1>3, Zenon DEF FetchBlock, NodeInv, NodeTypeOK
<1>5. Judged' /\ FetchedIsNeverOversized'
  BY Zenon DEF FetchBlock, BeginImport, Judged, FetchedIsNeverOversized, Ok, Result
<1>6. FetchedInHand'
  BY <1>3, Zenon DEF FetchBlock, BeginImport, FetchedInHand, Decision, decide_for_header
<1>7. SoftFailuresNeverDisconnect' /\ FirstFailureIsReported'
  <2>1. SoftFailuresNeverDisconnect'
    BY BlameStands, Zenon DEF FetchBlock, BeginImport, NodeInv
  <2>2. FirstFailureIsReported'
    BY Zenon DEF FetchBlock, BeginImport, FirstFailureIsReported
  <2> QED
    BY <2>1, <2>2, Zenon
<1> QED
  BY <1>2, <1>4, <1>5, <1>6, <1>7, Zenon DEF NodeInv

\* A check ends the import with a failure of the block or goes on; only the
\* header prefilter finds a block too large.
LEMMA ImportKeepsNodeInv == NodeInv /\ ImportStep => NodeInv'
<1> SUFFICES ASSUME NodeInv, Check, UNCHANGED nodeVars PROVE NodeInv'
  BY Zenon DEF ImportStep
<1>1. IInv' /\ TypeOK'
  BY NextIInv, Zenon DEF NodeInv, IInv, Next
<1>2. NodeTypeOK'
  BY <1>1, Zenon DEF nodeVars, NodeInv, NodeTypeOK
<1>3. stage \in Stages /\ UNCHANGED <<import, max_witness_bytes>> /\ stage' # "idle"
  BY Zenon DEF Check, PrefilterHeader, VerifyBodyBinding, VerifyHeaderSignature,
         RevalidateTransaction, BodyRevalidated, VerifySidecarBinding, ExecuteAndCompare, Try,
         Stages
<1>4. /\ import \in AllImports /\ import # None
      /\ Len(import.body.transactions) \in Nat /\ revalidated \in Nat
  BY <1>3, ImportsAreImports, NoneIsNoImport, SMTT(30)
     DEF NodeInv, IInv, TypeOK, Stages, AllImports, Bodies
<1>5. \/ result' = prefilter_header(import, max_witness_bytes)
      \/ result' \in {Ok, verify_body_binding(import), verify_header_signature(import),
                      verify_sidecar_binding(import), execute_and_compare(import)}
      \/ \E k \in 1 .. Len(import.body.transactions) : result' = revalidate(import, k)
  BY <1>4 DEF Check, PrefilterHeader, VerifyBodyBinding, VerifyHeaderSignature,
              RevalidateTransaction, BodyRevalidated, VerifySidecarBinding, ExecuteAndCompare,
              Try
<1>6. Judged'
  <2>1. result' \in Verdict!Failures(import, max_witness_bytes) \cup {Ok}
    BY <1>5, SameFailures, Zenon
  <2>2. Verdict!Failures(import, max_witness_bytes)' = Verdict!Failures(import, max_witness_bytes)
    BY <1>3, Zenon DEF Verdict!Failures
  <2> QED
    BY <2>1, <2>2, Zenon DEF Judged
<1>7. FetchedInHand'
  BY <1>3, Zenon DEF nodeVars, NodeInv, FetchedInHand
<1>8. FetchedIsNeverOversized'
  <2> SUFFICES ASSUME fetch_policy.max_witness_bytes = max_witness_bytes
               PROVE  result'.kind # "WitnessByteLimitExceeded"
    BY <1>3, Zenon DEF FetchedIsNeverOversized, nodeVars
  <2>1. prefilter_header(import, max_witness_bytes).kind # "WitnessByteLimitExceeded"
    BY <1>4, Zenon DEF NodeInv, FetchedInHand, prefilter_header, Ok, Result
  <2>2. \A r \in {Ok, verify_body_binding(import), verify_header_signature(import),
                  verify_sidecar_binding(import), execute_and_compare(import)} :
           r.kind # "WitnessByteLimitExceeded"
    BY DEF verify_body_binding, verify_header_signature, verify_sidecar_binding,
           execute_and_compare, Ok, Result
  <2>3. \A k : revalidate(import, k).kind # "WitnessByteLimitExceeded"
    BY Zenon DEF revalidate, Ok, Result
  <2> QED
    BY <1>5, <2>1, <2>2, <2>3, Zenon
<1>9. SoftFailuresNeverDisconnect' /\ FirstFailureIsReported'
  <2>1. SoftFailuresNeverDisconnect'
    BY <1>3, BlameStands, Zenon DEF nodeVars, NodeInv
  <2>2. FirstFailureIsReported'
    BY ReportStands, Zenon DEF Next
  <2> QED
    BY <2>1, <2>2, Zenon
<1> QED
  BY <1>1, <1>2, <1>6, <1>7, <1>8, <1>9, Zenon DEF NodeInv

\* A peer action keeps the stores well typed, and the blame with who deserves it.
LEMMA ApplyKeepsStores ==
    ASSUME NodeInv, NEW origin \in AllOrigins, NEW object \in Blames,
           NEW action \in PeerActions, Apply(action, origin, object),
           action.act \in {"AdjustReputation", "Disconnect"} => penalizes_peer(origin),
           action.act = "Disconnect" => DisconnectGrade(object),
           UNCHANGED max_witness_bytes
    PROVE  /\ connected' \subseteq Peers
           /\ reputation' \in [Peers -> Int]
           /\ blamed' \in [Peers -> Blames]
           /\ SoftFailuresNeverDisconnect'
<1>1. penalizes_peer(origin) => origin.peer \in Peers
  BY Zenon DEF penalizes_peer, AllOrigins, RemoteKinds, LocalKinds
<1>2. action.value \in Int
  BY DEF PeerActions
<1>3. /\ connected \subseteq Peers
      /\ reputation \in [Peers -> Int]
      /\ blamed \in [Peers -> Blames]
  BY Zenon DEF NodeInv, NodeTypeOK
<1>4. connected' \subseteq Peers /\ reputation' \in [Peers -> Int] /\ blamed' \in [Peers -> Blames]
  BY <1>1, <1>2, <1>3 DEF Apply
<1>5. CASE action.act # "Disconnect"
  BY <1>4, <1>5, BlameStands, Zenon DEF Apply, NodeInv
<1>6. CASE action.act = "Disconnect"
  <2>1. ASSUME NEW p \in Peers, p \notin connected' PROVE DisconnectGrade(blamed'[p])
    <3>1. CASE p = origin.peer
      BY <1>3, <1>6, <3>1, Zenon DEF Apply
    <3>2. CASE p # origin.peer
      <4>1. p \notin connected /\ blamed'[p] = blamed[p]
        BY <1>3, <1>6, <2>1, <3>2, Zenon DEF Apply
      <4> QED
        BY <4>1, Zenon DEF NodeInv, SoftFailuresNeverDisconnect
    <3> QED
      BY <3>1, <3>2, Zenon
  <2>2. \A o : PrescribedOrder(o)' = PrescribedOrder(o)
    BY Zenon DEF PrescribedOrder
  <2> QED
    BY <1>4, <2>1, <2>2, Zenon DEF SoftFailuresNeverDisconnect, DisconnectGrade
<1> QED
  BY <1>4, <1>5, <1>6, Zenon

\* Handling a verdict disconnects, by either route, only for what the block is.
LEMMA VerdictKeepsNodeInv == NodeInv /\ HandleVerdict => NodeInv'
<1> SUFFICES ASSUME NodeInv, HandleVerdict PROVE NodeInv'
  BY Zenon
<1>1. /\ announced \in Announcements /\ announced.import \in Imports
      /\ announced.origin \in AllOrigins
  BY OriginsAreOrigins, Zenon DEF HandleVerdict, NodeInv, NodeTypeOK, Announcements
<1>2. import = announced.import /\ import \in AllImports
  BY <1>1, ImportsAreImports, Zenon DEF HandleVerdict, NodeInv, FetchedInHand
<1>3. result \in Verdict!Failures(import, max_witness_bytes) \cup {Ok}
  BY Zenon DEF HandleVerdict, NodeInv, Judged
<1>4. result \in Reported \cup {Ok}
  BY <1>2, <1>3, FailuresAreReported, Zenon
<1>5. Block(announced.import) \in Blames
  BY <1>1, Zenon DEF Block, Blames
<1>6. PICK action \in {AdapterAction(announced.origin, result),
                       PipelineAction(announced.origin, result)} :
         Apply(action, announced.origin, Block(announced.import))
  BY Zenon DEF HandleVerdict
<1>7. /\ action \in PeerActions
      /\ action.act \in {"AdjustReputation", "Disconnect"} => penalizes_peer(announced.origin)
      /\ action.act = "Disconnect" => result # Ok /\ ~SoftFailure(result)
  BY <1>1, <1>4, <1>6, RoutesAgree, Zenon
<1>8. ASSUME action.act = "Disconnect" PROVE DisconnectGrade(Block(announced.import))
  <2> DEFINE checks == PrescribedOrder(import)
  <2>1. PICK k \in DOMAIN checks : checks[k] = result /\ \A j \in 1 .. k - 1 : checks[j] = Ok
    BY <1>7, <1>8, Zenon DEF HandleVerdict, NodeInv, FirstFailureIsReported
  <2>2. import # None
    BY <1>2, NoneIsNoImport, Zenon
  <2> QED
    BY <1>2, <1>7, <1>8, <2>1, <2>2, Zenon DEF DisconnectGrade, Block
<1>9. /\ connected' \subseteq Peers /\ reputation' \in [Peers -> Int]
      /\ blamed' \in [Peers -> Blames] /\ SoftFailuresNeverDisconnect'
  BY <1>1, <1>5, <1>6, <1>7, <1>8, ApplyKeepsStores, Zenon DEF HandleVerdict, vars
<1>10. IInv' /\ TypeOK'
  BY NextIInv, Zenon DEF HandleVerdict, NodeInv, IInv
<1>11. NodeTypeOK'
  BY <1>9, <1>10, Zenon DEF HandleVerdict, NodeInv, NodeTypeOK
<1>12. Judged' /\ FetchedInHand' /\ FetchedIsNeverOversized'
  BY Zenon DEF HandleVerdict, vars, NodeInv, Judged, FetchedInHand, FetchedIsNeverOversized,
         Verdict!Failures
<1>13. FirstFailureIsReported'
  BY ReportStands, Zenon DEF HandleVerdict
<1> QED
  BY <1>9, <1>10, <1>11, <1>12, <1>13, Zenon DEF NodeInv

\* A gossiped transaction is charged to its sender alone.
LEMMA TransactionKeepsNodeInv ==
    \A o \in Origins, e \in TxResults : NodeInv /\ HandleTransaction(o, e) => NodeInv'
<1> SUFFICES ASSUME NEW o \in Origins, NEW e \in TxResults, NodeInv, HandleTransaction(o, e)
             PROVE  NodeInv'
  BY Zenon
<1>1. o \in AllOrigins /\ e \in Revalidations \ {"Ok"}
  BY OriginsAreOrigins, TxResultsAreResults, Zenon DEF HandleTransaction
<1>2. Transaction(e) \in Blames
  BY Zenon DEF Transaction, Blames
<1>3. PICK s \in {"T0", "T3"} :
         Apply(peer_action_for_mempool_error(o, s, e), o, Transaction(e))
  BY Zenon DEF HandleTransaction
<1>4. LET action == peer_action_for_mempool_error(o, s, e)
      IN  /\ action \in PeerActions
          /\ action.act \in {"AdjustReputation", "Disconnect"} => penalizes_peer(o)
          /\ action.act = "Disconnect" => DisconnectGrade(Transaction(e))
  BY <1>1, TransactionActions, Zenon DEF DisconnectGrade, Transaction
<1>5. /\ connected' \subseteq Peers /\ reputation' \in [Peers -> Int]
      /\ blamed' \in [Peers -> Blames] /\ SoftFailuresNeverDisconnect'
  BY <1>1, <1>2, <1>3, <1>4, ApplyKeepsStores, Zenon DEF HandleTransaction, vars
<1>6. IInv' /\ TypeOK'
  BY NextIInv, Zenon DEF HandleTransaction, NodeInv, IInv
<1>7. NodeTypeOK'
  BY <1>5, <1>6, Zenon DEF HandleTransaction, NodeInv, NodeTypeOK
<1>8. Judged' /\ FetchedInHand' /\ FetchedIsNeverOversized'
  BY Zenon DEF HandleTransaction, vars, NodeInv, Judged, FetchedInHand, FetchedIsNeverOversized,
         Verdict!Failures
<1>9. FirstFailureIsReported'
  BY ReportStands, Zenon DEF HandleTransaction
<1> QED
  BY <1>5, <1>6, <1>7, <1>8, <1>9, Zenon DEF NodeInv

\* Every step keeps the invariant.
LEMMA NextNodeInv == NodeInv /\ [NodeNext]_allVars => NodeInv'
<1> SUFFICES ASSUME NodeInv, [NodeNext]_allVars PROVE NodeInv'
  BY Zenon
<1>1. CASE UNCHANGED allVars
  <2>1. UNCHANGED <<vars, fetch_policy, announced, connected, reputation, blamed>>
    BY <1>1, Zenon DEF allVars, nodeVars
  <2>2. IInv' /\ TypeOK'
    BY <2>1, NextIInv, Zenon DEF NodeInv, IInv
  <2>3. NodeTypeOK'
    BY <2>1, <2>2, Zenon DEF NodeInv, NodeTypeOK
  <2>4. Judged' /\ FetchedInHand' /\ FetchedIsNeverOversized'
    BY <2>1, Zenon
       DEF vars, NodeInv, Judged, FetchedInHand, FetchedIsNeverOversized, Verdict!Failures
  <2>5. SoftFailuresNeverDisconnect' /\ FirstFailureIsReported'
    BY <2>1, BlameStands, ReportStands, Zenon DEF NodeInv, vars
  <2> QED
    BY <2>2, <2>3, <2>4, <2>5, Zenon DEF NodeInv
<1>2. ASSUME NEW i \in Imports, NEW o \in Origins, AnnounceBlock(i, o) PROVE NodeInv'
  <2>1. announced' \in Announcements /\ ~announced'.fetched
    BY <1>2, Zenon DEF AnnounceBlock, Announcements
  <2> QED
    BY <1>2, <2>1, AnnouncementKeepsNodeInv, Zenon DEF AnnounceBlock
<1>3. CASE SkipSidecar
  BY <1>3, AnnouncementKeepsNodeInv, Zenon DEF SkipSidecar
<1>4. CASE RequestSidecar
  <2>1. announced' \in Announcements /\ ~announced'.fetched
    BY <1>4, Zenon DEF RequestSidecar, NodeInv, NodeTypeOK, Announcements
  <2> QED
    BY <1>4, <2>1, AnnouncementKeepsNodeInv, Zenon DEF RequestSidecar
<1> QED
  BY <1>1, <1>2, <1>3, <1>4, FetchKeepsNodeInv, ImportKeepsNodeInv, VerdictKeepsNodeInv,
     TransactionKeepsNodeInv, Zenon DEF NodeNext

\* The invariant holds throughout.
THEOREM NodeInvariance == NodeSpec => []NodeInv
BY InitNodeInv, NextNodeInv, PTL DEF NodeSpec

\* The node's state and that of its import pipeline are well typed; a reputation
\* stays an integer of a known peer.
THEOREM NodeTypeCorrect == NodeSpec => []NodeTypeOK
BY NodeInvariance, PTL DEF NodeInv

\* Through the adapter or from the error itself, the sender of a block meets the
\* same kind of action, and the node's own blocks punish no one.
THEOREM RoutesAlwaysPunishAlike == NodeSpec => []RoutesPunishAlike
<1>1. NodeInv => RoutesPunishAlike
  <2> SUFFICES ASSUME NodeInv, announced # None, announced.fetched, stage = "done"
               PROVE  /\ AdapterAction(announced.origin, result).act
                           = PipelineAction(announced.origin, result).act
                      /\ announced.origin.peer = None =>
                           AdapterAction(announced.origin, result).act \in {"Accept", "Ignore"}
    BY Zenon DEF RoutesPunishAlike
  <2>1. announced.origin \in AllOrigins /\ announced.import \in AllImports
    BY OriginsAreOrigins, ImportsAreImports, Zenon DEF NodeInv, NodeTypeOK, Announcements
  <2>2. result \in Reported \cup {Ok}
    BY <2>1, FailuresAreReported, Zenon DEF NodeInv, Judged, FetchedInHand
  <2>3. announced.origin.peer = None => ~penalizes_peer(announced.origin)
    BY <2>1, NoneIsNoPeer, Zenon DEF AllOrigins, penalizes_peer, LocalKinds, RemoteKinds
  <2> QED
    BY <2>1, <2>2, <2>3, RoutesAgree, Zenon
<1> QED
  BY <1>1, NodeInvariance, PTL

\* No peer is ever disconnected where the first thing wrong with what it sent is a
\* soft failure: a witness limit, the transport guard, an absent resolver, fees, nonces
\* or the caller's bookkeeping.
THEOREM SoftFailuresDoNotDisconnect == NodeSpec => []SoftFailuresNeverDisconnect
BY NodeInvariance, PTL DEF NodeInv

\* Where fetching and importing share one limit, no block is fetched only to be
\* refused for its size.
THEOREM FetchedIsNeverEverOversized == NodeSpec => []FetchedIsNeverOversized
BY NodeInvariance, PTL DEF NodeInv

=============================================================================
