---------------------------- MODULE KeccakState ----------------------------
(***************************************************************************)
(* The Keccak-p[1600] state model shared by every engine of               *)
(* src/crypto/randomx/panthera: 25 lanes of W bits, lane (x, y) at index  *)
(* 5*y + x, and the constant tables the engines read.                     *)
(*                                                                         *)
(* A lane is represented by the set of the positions of its 1-bits, so    *)
(* that XOR, AND, NOT and the shifts of rotl64 are modelled by what they  *)
(* do: symmetric difference, intersection, complement and a shift of the  *)
(* positions with the bits that leave the word dropped.  W is 64 in the   *)
(* code; the constant lets the same model describe Keccak-p[25*W].        *)
(*                                                                         *)
(* The second half of the module gives the semantics of the Intel vector  *)
(* intrinsics the engines call (lane k of a vector is v[k]).              *)
(***************************************************************************)
EXTENDS Naturals, Sequences

CONSTANT W          \* lane width in bits (uint64_t: 64)

ASSUME WAssumption == W \in Nat \ {0}

Bits  == 0 .. W - 1
Lane  == SUBSET Bits
Lanes == 0 .. 24                 \* linear lane index 5*y + x
Cols  == 0 .. 4                  \* x, and the offset of a lane within its row
State == [Lanes -> Lane]

Zero == {}                       \* the lane 0
Ones == Bits                     \* the lane ~0, _mm512_set1_epi64(-1)

Xor(a, b) == (a \ b) \cup (b \ a)
Not(a)    == Bits \ a

(* x << n and x >> n on a W-bit word: bits shifted past either end are lost. *)
Shl(a, n) == {i + n : i \in {j \in a : j + n < W}}
Shr(a, n) == {i - n : i \in {j \in a : j >= n}}

(* rotl64: every case of the switch, and the default after n & 63, is      *)
(* (x << n) | (x >> (64 - n)).                                              *)
Rotl(a, n) == LET k == n % W IN Shl(a, k) \cup Shr(a, W - k)

(* The case labels of rotl64's switch.  Any other n takes the default     *)
(* path, whose x >> (64 - (n & 63)) shifts by 64, which is undefined, when *)
(* n is a multiple of 64.                                                  *)
Rotl64Cases == {0, 1, 2, 3, 6, 8, 10, 14, 15, 18, 20, 21, 25, 27, 28, 36, 39,
                41, 43, 44, 45, 55, 56, 61, 62, 63}

(* The round constants with the bit 1 of round 1 (0x8082) dropped.        *)
KeccakF1600RoundConstantsTypo ==
  << {0}, {7, 15}, {1, 3, 7, 15, 63}, {15, 31, 63},
     {0, 1, 3, 7, 15}, {0, 31}, {0, 7, 15, 31, 63}, {0, 3, 15, 63},
     {1, 3, 7}, {3, 7}, {0, 3, 15, 31}, {1, 3, 31},
     {0, 1, 3, 7, 15, 31}, {0, 1, 3, 7, 63}, {0, 3, 7, 15, 63}, {0, 1, 15, 63},
     {1, 15, 63}, {7, 63}, {1, 3, 15}, {1, 3, 31, 63},
     {0, 7, 15, 31, 63}, {7, 15, 63}, {0, 31}, {3, 15, 31, 63} >>

(* KeccakF1600RoundConstants, each 64-bit value given by its set bits.     *)
KeccakF1600RoundConstants ==
  << {0}, {1, 7, 15}, {1, 3, 7, 15, 63}, {15, 31, 63},
     {0, 1, 3, 7, 15}, {0, 31}, {0, 7, 15, 31, 63}, {0, 3, 15, 63},
     {1, 3, 7}, {3, 7}, {0, 3, 15, 31}, {1, 3, 31},
     {0, 1, 3, 7, 15, 31}, {0, 1, 3, 7, 63}, {0, 3, 7, 15, 63}, {0, 1, 15, 63},
     {1, 15, 63}, {7, 63}, {1, 3, 15}, {1, 3, 31, 63},
     {0, 7, 15, 31, 63}, {7, 15, 63}, {0, 31}, {3, 15, 31, 63} >>

(* The constant of round r (0..23) as a W-bit lane.                        *)
RC(r) == KeccakF1600RoundConstants[r + 1] \cap Bits

(* rhotates[i]: the rho rotation of lane i.                                *)
Rhotates ==
  << 0, 1, 62, 28, 27, 36, 44, 6, 55, 20, 3, 10, 43, 25, 39, 41, 45, 15,
     21, 8, 18, 2, 61, 56, 14 >>

(* pi_lane_map[i]: the lane that lane i is moved to by pi.                 *)
PiLaneMap ==
  << 0, 10, 20, 5, 15, 16, 1, 11, 21, 6, 7, 17, 2, 12, 22, 23, 8, 18, 3, 13,
     14, 24, 9, 19, 4 >>

-----------------------------------------------------------------------------
(* Vector intrinsics.  A vector of n 64-bit lanes is a function 0..n-1.    *)

(* _mm256_set_epi64x / _mm512_set_epi64 take their lanes highest first.    *)
SetEpi64(args) == [k \in 0 .. Len(args) - 1 |-> args[Len(args) - k]]

Set1Epi64(a, n) == [k \in 0 .. n - 1 |-> a]

VXor(u, v) == [k \in DOMAIN u |-> Xor(u[k], v[k])]
VAnd(u, v) == [k \in DOMAIN u |-> u[k] \cap v[k]]

(* _mm256_permute4x64_epi64(v, imm): lane k takes lane imm[2k+1:2k] of v.  *)
Permute4x64(v, imm) == [k \in 0 .. 3 |-> v[(imm \div (4 ^ k)) % 4]]

(* _mm512_permutexvar_epi64(idx, v): lane k takes lane idx[k] mod 8 of v.  *)
PermuteXVar(idx, v) == [k \in 0 .. 7 |-> v[idx[k] % 8]]

(* _mm512_extracti64x4_epi64 / _mm256_extracti128_si256: half h (n lanes). *)
ExtractHalf(v, h, n) == [k \in 0 .. n - 1 |-> v[h * n + k]]

(* bit k of an immediate mask such as __mmask8 0x1F.                       *)
MaskBit(m, k) == (m \div (2 ^ k)) % 2 = 1

=============================================================================
