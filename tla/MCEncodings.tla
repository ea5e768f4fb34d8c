---------------------------- MODULE MCEncodings -----------------------------
(* Six-valued bytes, roots and words of two of them, addresses of one: every   *)
(* field can be told from its neighbours and offsets need both their bytes.    *)
(* Byte lists are limited to four bytes (two chunks), lists to two.  Numbers   *)
(* of two bytes are ordered differently from either end; three leaves are a    *)
(* sort that is more than a swap.                                              *)
EXTENDS Encodings

MCFees == [regular |-> <<1, 0>>, max_priority_fee_per_gas |-> <<0, 2>>,
           max_witness_priority_fee |-> <<3, 1>>]

Basic(input) ==
    [tag |-> TAG_BASIC, chain_id |-> <<1, 2>>, nonce |-> 8, gas_limit |-> 35, fees |-> MCFees,
     to |-> <<4>>, value |-> <<0, 5>>, input |-> input, access_commitment |-> <<2, 3>>]

Create(input) ==
    [tag |-> TAG_CREATE, chain_id |-> <<1, 2>>, nonce |-> 8, gas_limit |-> 35, fees |-> MCFees,
     value |-> <<0, 5>>, input |-> input, access_commitment |-> <<2, 3>>]

Auth(scheme_id, signature) ==
    [scheme_id |-> scheme_id, payload_root |-> <<5, 1>>, signature |-> signature]

Zeros(n) == [i \in 1 .. n |-> 0]

\* The last three do not fit: the input is over its limit, then past the reach of
\* an offset, and so is the fourth authorization.
MCSendable ==
    {[payload |-> p, authorizations |-> list] :
        p \in {Basic(<<>>), Create(<<3>>)}, list \in {<<>>, <<Auth(0, <<>>), Auth(1, <<0>>)>>}}
      \cup {[payload |-> Basic(<<0, 0, 1>>), authorizations |-> <<Auth(2, <<1>>)>>],
            [payload |-> Create(Zeros(5)), authorizations |-> <<>>],
            [payload |-> Create(Zeros(20)), authorizations |-> <<>>],
            [payload |-> Create(<<>>), authorizations |-> [i \in 1 .. 4 |-> Auth(0, Zeros(5))]]}

MCAccounts == {<<0>>, <<2>>}
MCSlots == {<<0, 1>>, <<1, 0>>, <<2, 2>>}
MCStems == {<<0>>, <<1>>}
MCIndices == {0, 1, 6, 7}
MCPrices == {<<0, 0>>, <<1, 0>>, <<2, 0>>, <<0, 1>>, <<1, 1>>, <<0, 2>>}
=============================================================================
