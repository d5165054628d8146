------------------------------- MODULE MCDecoding -------------------------------
(***************************************************************************)
(* Decoding on the indices of a field and the readings of each kind that   *)
(* the code tells apart.                                                   *)
(***************************************************************************)
EXTENDS Decoding

MCIndices == {-5, -4, -2, -1, 0, 1}

MCValues == [percentage |-> {NaN, {-1}, {0}, {50}, {100}}, wh |-> {NaN, {-1}, {3}},
             temp |-> {{5}}, km |-> {NaN, {-1}, {0}, {8}}, mi |-> {NaN, {0}, {10}, {100}},
             trip |-> {NaN, {2}}, fl |-> {{2}}, fr |-> {{2}}]

MCCapacity == {200}

=============================================================================
