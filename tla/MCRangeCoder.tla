----------------------------- MODULE MCRangeCoder -----------------------------
(* RangeCoder with bytes of two bits, and every foreign payload of up to   *)
(* seven bytes over the extreme values.                                    *)
EXTENDS RangeCoder

MCForeignPayloads == UNION {[1..n -> {0, 3}] : n \in 0..7}

=============================================================================
