------------------------------- MODULE Varint -------------------------------
(***************************************************************************)
(* The varints of a postcard body: serializeVarUint64                      *)
(* (gosdk-develop/postcard/serializer.go) writes a number in groups of     *)
(* ByteBits - 1 bits, the lowest first and all but the last flagged;       *)
(* decodeViewVarUint (gosdk-develop/provider/provider.go) reads one back.  *)
(* Lengths, counts, variant numbers and every integer but u8 are written   *)
(* this way, so the whole body is read right only if these are.  What the  *)
(* reader makes of more bits than a uint64 has is left out: the writer     *)
(* never writes them.                                                      *)
(***************************************************************************)
EXTENDS Integers, Sequences

CONSTANT
    ByteBits     \* bits of a byte (8)

\* A byte carries ByteBits - 1 bits of the number, the highest one is the flag.
Group == 2^(ByteBits - 1)

ASSUME GroupAssumption == Group \in Nat /\ Group > 1

Positions == Nat \ {0}

VarUint[k \in Nat] ==
    IF k < Group THEN <<k>>
    ELSE <<Group + (k % Group)>> \o VarUint[k \div Group]

\* What a reader returns: a value and the position after it, or the error.
Read(v, at) == [v |-> v, at |-> at]
Short       == Read(0, 0)

\* At most left bytes of bs, from the position at on.
ReadVarUint[left \in Nat] ==
    [bs \in Seq(Nat) |-> [at \in Positions |->
        IF left = 0 \/ at > Len(bs) THEN Short
        ELSE IF bs[at] < Group THEN Read(bs[at], at + 1)
        ELSE LET rest == ReadVarUint[left - 1][bs][at + 1]
             IN  IF rest = Short THEN Short
                 ELSE Read(bs[at] - Group + Group * rest.v, rest.at)]]
=============================================================================
