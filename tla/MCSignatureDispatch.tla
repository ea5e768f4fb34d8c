------------------------ MODULE MCSignatureDispatch -------------------------
(* Two schemes; three verifiers for the first, so that one can displace       *)
(* another that was itself displaced and given back, and one for the second.  *)
(* Sizes 0 to 4 lie below, at and above every limit and ceiling, which are    *)
(* themselves below, at and above one another.                                *)
EXTENDS SignatureDispatch

CONSTANTS i1, i2, i3, i4, k1, k2, m1, m2

Ceiling(user, validator) ==
    [path \in Paths |-> IF path = "TransactionAuthorization" THEN user ELSE validator]

MCPool ==
    {[instance |-> i1, scheme_id |-> 0, permissive |-> FALSE, ceiling |-> Ceiling(2, 2)],
     [instance |-> i2, scheme_id |-> 0, permissive |-> FALSE, ceiling |-> Ceiling(None, None)],
     [instance |-> i3, scheme_id |-> 0, permissive |-> FALSE, ceiling |-> Ceiling(3, 1)],
     [instance |-> i4, scheme_id |-> 1, permissive |-> FALSE, ceiling |-> Ceiling(4, None)]}

MCSettings ==
    [user_path_max_signature_size : {3},
     validator_path_max_signature_size : {None, 1, 2, 3}]

MaxSize == 4

Honest(size) ==
    [public_key_material |-> k1, signing_root |-> m1,
     signature |-> [scheme_id |-> 0, key |-> k1, signs |-> m1, size |-> size]]

\* A good signature of each size, and one each with the wrong scheme, key and root.
MCSubmitted ==
    {Honest(size) : size \in 0 .. MaxSize}
      \cup {[Honest(1) EXCEPT !.signature.scheme_id = 1],
            [Honest(1) EXCEPT !.signature.key = k2],
            [Honest(1) EXCEPT !.signature.signs = m2]}
=============================================================================
