-------------------------------- MODULE Wire --------------------------------
(***************************************************************************)
(* A transaction on its way from one node to another: to_wire_bytes on one *)
(* side, from_wire_bytes on the other, and a channel that may damage the   *)
(* bytes in between.  The repository has no transport, so the channel is   *)
(* external; what matters is what the decoder makes of the bytes.          *)
(***************************************************************************)
EXTENDS WireCodec

CONSTANTS
    Sendable,       \* the envelopes that are sent
    MaxDamage,      \* bound: how often one message is damaged
    None

ASSUME SendableAreEnvelopes == Sendable \subseteq Envelopes
ASSUME DamageIsBounded == MaxDamage \in Nat

VARIABLES
    sent,           \* the envelope sent last, None before
    wire,           \* the bytes under way, as a set of at most one
    damage,         \* how often they were damaged
    received        \* what from_wire_bytes returned for them, None before

vars == <<sent, wire, damage, received>>

Init ==
    /\ sent = None
    /\ wire = {}
    /\ damage = 0
    /\ received = None

\* to_wire_bytes; an envelope whose offsets do not fit is not sent.
Send(envelope) ==
    /\ wire = {} \/ received # None
    /\ sent' = envelope
    /\ wire' = encode_envelope(envelope).value
    /\ damage' = 0
    /\ received' = None

\* A byte is changed, the end is lost or a byte is added.
Damaged(bytes) ==
    {[bytes EXCEPT ![i] = b] : i \in DOMAIN bytes, b \in Bytes}
      \cup {SubSeq(bytes, 1, n) : n \in 0 .. Len(bytes) - 1}
      \cup {Append(bytes, b) : b \in Bytes}

DamageBytes ==
    /\ received = None
    /\ damage < MaxDamage
    /\ \E bytes \in wire : \E other \in Damaged(bytes) \ {bytes} : wire' = {other}
    /\ damage' = damage + 1
    /\ UNCHANGED <<sent, received>>

\* from_wire_bytes.
Receive ==
    /\ received = None
    /\ \E bytes \in wire : received' = decode_envelope(bytes)
    /\ UNCHANGED <<sent, wire, damage>>

Next ==
    \/ \E envelope \in Sendable : Send(envelope)
    \/ DamageBytes
    \/ Receive

Spec == Init /\ [][Next]_vars

-----------------------------------------------------------------------------
(* Correctness.                                                            *)

Taken == IF received = None THEN {} ELSE received.value

\* Whatever encode_envelope agrees to encode comes back as it was: all fields
\* are read where they were written, and an offset that does not fit its width
\* is an error and never wraps.
RoundTrip == received # None /\ damage = 0 => received = Decoded(sent)

\* There is one encoding of an envelope: any bytes the decoder takes, damaged or
\* not, are the bytes encode_envelope writes for what was decoded, which has all
\* its fields.  No byte is skipped, read twice or ignored.
DecodingIsCanonical ==
    \A envelope \in Taken :
        envelope \in Envelopes /\ encode_envelope(envelope).value = wire

=============================================================================
