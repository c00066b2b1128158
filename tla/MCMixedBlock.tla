----------------------------- MODULE MCMixedBlock -----------------------------
(* Bytes of three bits; counters of eight values that move half of the way *)
(* toward a bit, and estimates to which everything read contributes.       *)
EXTENDS MixedBlock

MCOrder2Rows(size) == IF size < 6 THEN 2 ELSE 3

MCInitial(table) == IF table \in {"by run", "by class", "by length", "by symbol"} THEN 1 ELSE 4

Folded(values) == FoldLeft(LAMBDA sum, v : (3 * sum + 2 * v[1] + v[2]) % 64, 0, values)

Summed(cells) == FoldLeft(LAMBDA sum, c : (3 * sum + c) % 64, 0, cells)

MCAdapt(cell, bit, values) ==
    IF values # <<>> THEN (cell + Folded(values) + bit) % 8
    ELSE IF bit = 1 THEN cell + (8 - cell) \div 2 ELSE cell \div 2

MCDomain(values, weights) == (Folded(values) + Summed(weights)) % 3

MCBlend(values, learned) == (Folded(values) + Summed(learned)) % (One + 1)

MCBlocks ==
    UNION {[1..n -> {0, 5, 7}] : n \in 1..3}
    \cup {<<6,1,0,3,6,2,7,6,6,4,0,0>>, <<6,1,7,6,7,7,0,6,3,0>>, <<1,7,3,2,7,3,4,7,3,5,0,5,5,0>>,
          <<2,2,2,2,2,2,2,2,2,2,5>>, <<0,4,1,0,5,1,0,6,1,0,7,1>>}

MCPlans == {[unit |-> 1, stride |-> 3, mask |-> <<5>>], [unit |-> 2, stride |-> 3, mask |-> <<3>>],
            [unit |-> 1, stride |-> 4, mask |-> <<2, 1>>]}

MCForeignPayloads == [1..5 -> {0, 3, 7}] \cup {<<>>, <<7, 7>>, <<1, 3, 0, 5, 0, 0, 0, 0>>}

=============================================================================
