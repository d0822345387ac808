----------------------------- MODULE KeccakRef -----------------------------
(***************************************************************************)
(* The reference step engine: one Keccak-p[1600] round as the five        *)
(* sub-steps theta, rho, pi, chi, iota, and the 24- and 12-round          *)
(* permutations, as pure operators.  KeccakP1600_Permute_24rounds_        *)
(* reference lives in KeccakP-1600-reference.c, which is not among the    *)
(* sources, so the sub-steps are written from the spec (4.1); the tables  *)
(* they read (rhotates, pi_lane_map, the round constants) are the ones    *)
(* of the sources.  Every engine is checked against this module, run      *)
(* round by round beside it.                                              *)
(***************************************************************************)
EXTENDS KeccakState

(* C[x]: the XOR of the five lanes of column x.                            *)
ColumnParity(A) ==
  [x \in Cols |-> Xor(Xor(Xor(Xor(A[x], A[x + 5]), A[x + 10]), A[x + 15]), A[x + 20])]

(* D[x] = C[x-1 mod 5] XOR rotl(C[x+1 mod 5], 1).                          *)
ThetaEffect(C) == [x \in Cols |-> Xor(C[(x + 4) % 5], Rotl(C[(x + 1) % 5], 1))]

Theta(A) == LET D == ThetaEffect(ColumnParity(A)) IN [i \in Lanes |-> Xor(A[i], D[i % 5])]

Rho(A) == [i \in Lanes |-> Rotl(A[i], Rhotates[i + 1])]

(* lane i of the input becomes lane pi_lane_map[i] of the output.          *)
Pi(A) == [j \in Lanes |-> A[CHOOSE i \in Lanes : PiLaneMap[i + 1] = j]]

(* lane (x,y) XOR ((NOT lane(x+1,y)) AND lane(x+2,y)), indices mod 5.      *)
Chi(A) ==
  [i \in Lanes |-> LET row == i - (i % 5)
                       x   == i % 5
                   IN  Xor(A[i], Not(A[row + ((x + 1) % 5)]) \cap A[row + ((x + 2) % 5)])]

Iota(A, r) == [A EXCEPT ![0] = Xor(@, RC(r))]

Round(A, r) == Iota(Chi(Pi(Rho(Theta(A)))), r)
=============================================================================
