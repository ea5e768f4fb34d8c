----------------------------- MODULE Encodings ------------------------------
(***************************************************************************)
(* The byte level of a node: envelopes on the wire, and the orders of keys *)
(* and fees.  They use one codec and have no state in common, so the steps *)
(* of one are not mixed with those of the other.                           *)
(***************************************************************************)
EXTENDS WireRoots, KeysAndFees

encodingsVars == <<vars, ordersVars>>

EncodingsInit == Init /\ OrdersInit

EncodingsNext ==
    \/ leaves = <<>> /\ checked = {} /\ Next /\ UNCHANGED ordersVars
    \/ sent = None /\ OrdersNext /\ UNCHANGED vars

EncodingsSpec == EncodingsInit /\ [][EncodingsNext]_encodingsVars

=============================================================================
