------------------------- MODULE KeccakAVX512Proofs -------------------------
(***************************************************************************)
(* Proofs about KeccakP1600_Round_avx512 for every lane width W: the      *)
(* zero-padded column vectors and the 512-to-64-bit XOR tree of           *)
(* theta_step_avx512 compute the column parities of the reference theta.  *)
(***************************************************************************)
EXTENDS KeccakAVX512, KeccakLaneProofs, TLAPS

(* The reference module, instantiated with the same W, shares the lane    *)
(* operators of KeccakState.                                               *)
LEMMA RefShared ==
  /\ Ref!Lanes = Lanes /\ Ref!Cols = Cols
  /\ \A a, b : Ref!Xor(a, b) = Xor(a, b)
  /\ \A a : Ref!Not(a) = Not(a)
  /\ \A a, n : Ref!Rotl(a, n) = Rotl(a, n)
  /\ Ref!State = State /\ Ref!Lane = Lane
  /\ Ref!Rhotates = Rhotates /\ Ref!PiLaneMap = PiLaneMap
  /\ \A r : Ref!RC(r) = RC(r)
  BY DEF Ref!Lanes, Lanes, Ref!Cols, Cols, Ref!Xor, Xor, Ref!Not, Not, Ref!Bits, Bits,
         Ref!Rotl, Rotl, Ref!Shl, Shl, Ref!Shr, Shr, Ref!State, State, Ref!Lane, Lane,
         Ref!Rhotates, Rhotates, Ref!PiLaneMap, PiLaneMap, Ref!RC, RC,
         Ref!KeccakF1600RoundConstants, KeccakF1600RoundConstants

(* _mm512_set_epi64(0, 0, 0, s[x+20], s[x+15], s[x+10], s[x+5], s[x]) puts *)
(* s[x + 5k] in lane k and zero in lanes 5-7.                              *)
LEMMA ColumnVectorLanes ==
  ASSUME NEW s, NEW x
  PROVE  LET v == ColumnVector(s, x)
         IN  /\ v[0] = s[x] /\ v[1] = s[x + 5] /\ v[2] = s[x + 10]
             /\ v[3] = s[x + 15] /\ v[4] = s[x + 20]
             /\ v[5] = Zero /\ v[6] = Zero /\ v[7] = Zero
  BY DEF ColumnVector, SetEpi64

(* mm512_horizontal_xor_epi64 pairs lane k with lane k + 4, then with     *)
(* lane k + 2, then lane 0 with lane 1.                                    *)
LEMMA HorizontalXorTree ==
  ASSUME NEW v
  PROVE  HorizontalXor(v) =
           Xor(Xor(Xor(v[0], v[4]), Xor(v[2], v[6])), Xor(Xor(v[1], v[5]), Xor(v[3], v[7])))
  BY DEF HorizontalXor, VXor, ExtractHalf

(* The tree over the padded column is the five-lane parity C[x].          *)
LEMMA ColumnParityLane ==
  ASSUME NEW s, NEW x \in Cols
  PROVE  HorizontalXor(ColumnVector(s, x)) = Ref!ColumnParity(s)[x]
  <1> DEFINE v == ColumnVector(s, x)
  <1>1. Ref!ColumnParity(s)[x] =
          Xor(Xor(Xor(Xor(s[x], s[x + 5]), s[x + 10]), s[x + 15]), s[x + 20])
    BY RefShared DEF Ref!ColumnParity
  <1>2. HorizontalXor(v) =
          Xor(Xor(Xor(s[x], s[x + 20]), Xor(s[x + 10], Zero)),
              Xor(Xor(s[x + 5], Zero), Xor(s[x + 15], Zero)))
    BY HorizontalXorTree, ColumnVectorLanes
  <1>3. QED
    BY <1>1, <1>2 DEF Xor, Zero

(* THEOREM: for every lane width, whenever the D-application is about to  *)
(* run, c[x] is the parity of column x of the buffer: the column vectors   *)
(* and XOR tree of theta_step_avx512 lose no lane and add none.            *)
THEOREM ColumnParityCorrect == Spec => []ColumnParityMatchesReference
  <1>1. Init => ColumnParityMatchesReference
    BY DEF Init, ColumnParityMatchesReference
  <1>2. ColumnParityMatchesReference /\ [Next]_vars => ColumnParityMatchesReference'
    <2> SUFFICES ASSUME ColumnParityMatchesReference, [Next]_vars
                 PROVE  ColumnParityMatchesReference'
      OBVIOUS
    <2>1. CASE ThetaStep
      <3>1. c' = [x \in Cols |-> HorizontalXor(ColumnVector(st, x))] /\ st' = st
        BY <2>1 DEF ThetaStep
      <3>2. Ref!ColumnParity(st) = [x \in Cols |-> Ref!ColumnParity(st)[x]]
        BY RefShared DEF Ref!ColumnParity
      <3>3. QED
        BY <3>1, <3>2, ColumnParityLane DEF ColumnParityMatchesReference
    <2>2. CASE ThetaApply \/ RhoPi \/ Chi \/ Iota
      BY <2>2 DEF ThetaApply, RhoPi, Chi, Iota, ColumnParityMatchesReference
    <2>3. CASE UNCHANGED vars
      BY <2>3 DEF vars, ColumnParityMatchesReference
    <2>4. QED
      BY <2>1, <2>2, <2>3 DEF Next
  <1>3. QED
    BY <1>1, <1>2, PTL DEF Spec

=============================================================================
