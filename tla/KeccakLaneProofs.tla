-------------------------- MODULE KeccakLaneProofs --------------------------
(***************************************************************************)
(* Facts about the lane operators of KeccakState that the engine proofs   *)
(* cite: the uint64_t operations ^, ~, & and rotl64 keep a value a W-bit  *)
(* lane, and ^ is the associative, commutative operation with 0 as unit   *)
(* that lets the engines reorder their XOR trees.                         *)
(***************************************************************************)
EXTENDS KeccakState, TLAPS

(* x ^ y, ~x and x & y of two lanes are lanes.                            *)
LEMMA XorType ==
  ASSUME NEW a \in Lane, NEW b \in Lane PROVE Xor(a, b) \in Lane
  BY DEF Xor, Lane

LEMMA NotType ==
  ASSUME NEW a PROVE Not(a) \in Lane
  BY DEF Not, Lane

LEMMA AndType ==
  ASSUME NEW a \in Lane, NEW b PROVE a \cap b \in Lane
  BY DEF Lane

(* rotl64(x, n): both shifted halves stay inside the word.                *)
LEMMA RotlType ==
  ASSUME NEW a \in Lane, NEW n \in Nat PROVE Rotl(a, n) \in Lane
  <1>1. n % W \in 0 .. W - 1
    BY WAssumption
  <1>2. Shl(a, n % W) \subseteq Bits
    BY <1>1, WAssumption DEF Shl, Lane, Bits
  <1>3. Shr(a, W - (n % W)) \subseteq Bits
    BY <1>1, WAssumption DEF Shr, Lane, Bits
  <1>4. QED
    BY <1>2, <1>3 DEF Rotl, Lane

(* The round constant, cut to W bits, is a lane.                          *)
LEMMA RCType ==
  ASSUME NEW r PROVE RC(r) \in Lane
  BY DEF RC, Lane

(* ^ is commutative and associative, and 0 is its unit.                   *)
LEMMA XorComm ==
  ASSUME NEW a, NEW b PROVE Xor(a, b) = Xor(b, a)
  BY DEF Xor

LEMMA XorAssoc ==
  ASSUME NEW a, NEW b, NEW e PROVE Xor(Xor(a, b), e) = Xor(a, Xor(b, e))
  BY DEF Xor

LEMMA XorZero ==
  ASSUME NEW a PROVE Xor(a, Zero) = a
  BY DEF Xor, Zero

(* rhotates holds a rotation amount for every lane.                       *)
LEMMA RhotatesNat == \A k \in 1 .. 25 : Rhotates[k] \in Nat
  BY DEF Rhotates

(* pi_lane_map is onto: every lane is the pi image of some lane.          *)
LEMMA PiLaneMapOnto == \A j \in Lanes : \E k \in Lanes : PiLaneMap[k + 1] = j
  <1> SUFFICES ASSUME NEW j \in Lanes PROVE \E k \in Lanes : PiLaneMap[k + 1] = j
    OBVIOUS
  <1> DEFINE Src == << 0, 6, 12, 18, 24, 3, 9, 10, 16, 22, 1, 7, 13, 19, 20, 4, 5,
                       11, 17, 23, 2, 8, 14, 15, 21 >>
  <1>1. Src[j + 1] \in Lanes /\ PiLaneMap[Src[j + 1] + 1] = j
    <2>1. j \in {0, 1, 2, 3, 4, 5, 6, 7, 8, 9, 10, 11, 12, 13, 14, 15, 16, 17, 18,
                 19, 20, 21, 22, 23, 24}
      BY DEF Lanes
    <2>2. QED
      BY <2>1 DEF PiLaneMap, Src, Lanes
  <1>2. QED
    BY <1>1

(* _mm256_xor_si256 / _mm512_xor_si512 of two vectors of lanes.           *)
LEMMA VXorType ==
  ASSUME NEW D, NEW u \in [D -> Lane], NEW v \in [D -> Lane]
  PROVE  VXor(u, v) \in [D -> Lane]
  BY XorType DEF VXor

(* _mm256_permute4x64_epi64 selects lanes of its argument.                *)
LEMMA Permute4x64Type ==
  ASSUME NEW v \in [0 .. 3 -> Lane], NEW imm \in Nat
  PROVE  Permute4x64(v, imm) \in [0 .. 3 -> Lane]
  <1> SUFFICES ASSUME NEW k \in 0 .. 3 PROVE (imm \div (4 ^ k)) % 4 \in 0 .. 3
    BY DEF Permute4x64
  <1>1. 4 ^ k \in Nat \ {0}
    <2>1. 4 ^ 0 = 1 /\ 4 ^ 1 = 4 /\ 4 ^ 2 = 16 /\ 4 ^ 3 = 64
      OBVIOUS
    <2>2. CASE k = 0
      BY <2>1, <2>2
    <2>3. CASE k = 1
      BY <2>1, <2>3
    <2>4. CASE k = 2
      BY <2>1, <2>4
    <2>5. CASE k = 3
      BY <2>1, <2>5
    <2>6. QED
      BY <2>2, <2>3, <2>4, <2>5
  <1>2. QED
    BY <1>1

(* _mm512_and_si512 of two vectors of lanes.                              *)
LEMMA VAndType ==
  ASSUME NEW D, NEW u \in [D -> Lane], NEW v \in [D -> Lane]
  PROVE  VAnd(u, v) \in [D -> Lane]
  BY AndType DEF VAnd

(* _mm512_permutexvar_epi64 selects lanes of its argument.                *)
LEMMA PermuteXVarType ==
  ASSUME NEW v \in [0 .. 7 -> Lane], NEW idx \in [0 .. 7 -> Nat]
  PROVE  PermuteXVar(idx, v) \in [0 .. 7 -> Lane]
  BY DEF PermuteXVar

(* _mm256_set_epi64x / _mm512_set_epi64 of values of S is a vector of S. *)
LEMMA SetEpi64Type ==
  ASSUME NEW S, NEW args \in Seq(S)
  PROVE  SetEpi64(args) \in [0 .. Len(args) - 1 -> S]
  BY DEF SetEpi64
=============================================================================
