--------------------------- MODULE MC_KeccakAVX512 --------------------------
(***************************************************************************)
(* KeccakAVX512 on 64-bit lanes, called with the inputs of the spec's       *)
(* known-answer and offset tests.                                          *)
(***************************************************************************)
EXTENDS KeccakAVX512

MCW == 64

(* all-zero; lane 0 = 1; one 1-bit per lane, at distinct positions.        *)
MCInputs ==
  { [j \in Lanes |-> {}],
    [j \in Lanes |-> IF j = 0 THEN {0} ELSE {}],
    [j \in Lanes |-> {j}] }
=============================================================================
