-------------------------- MODULE KeccakAVX2Proofs --------------------------
(***************************************************************************)
(* Proofs about KeccakP1600_Round_avx2 for every lane width W: the         *)
(* D-application and chi_process_row compute the reference sub-steps,    *)
(* and rotl64 is only called with amounts that are case labels.          *)
(***************************************************************************)
EXTENDS KeccakAVX2, KeccakLaneProofs, TLAPS

(* D_CALC(x, x1, x4) takes x1 = x + 1 and x4 = x - 1, modulo 5.            *)
LEMMA DCalcColumns ==
  \A x \in Cols : DCalc[x + 1] = <<(x + 1) % 5, (x + 4) % 5>>
  BY DEF DCalc, Cols

(* _mm256_set_epi64x(e3, e2, e1, e0) puts e0 in lane 0.                    *)
LEMMA SetEpi64Four ==
  ASSUME NEW e3, NEW e2, NEW e1, NEW e0
  PROVE  LET v == SetEpi64(<<e3, e2, e1, e0>>)
         IN  v[0] = e0 /\ v[1] = e1 /\ v[2] = e2 /\ v[3] = e3
  BY DEF SetEpi64

(* The packed set_epi64x vectors and THETA_TAIL give lane j column j % 5.  *)
LEMMA DIndexColumn == \A j \in Lanes : DIndex(j) = j % 5
  <1> SUFFICES ASSUME NEW j \in Lanes PROVE DIndex(j) = j % 5
    OBVIOUS
  <1>1. CASE j < 4
    <2>0. j \div 4 = 0
      BY <1>1 DEF Lanes
    <2>1. DIndex(j) = SetEpi64(<<3, 2, 1, 0>>)[j % 4]
      BY <1>1, <2>0 DEF DIndex, ApplyVectors, Lanes
    <2>2. QED
      BY <1>1, <2>1, SetEpi64Four DEF Lanes
  <1>2. CASE 4 <= j /\ j < 8
    <2>0. j \div 4 = 1
      BY <1>2 DEF Lanes
    <2>1. DIndex(j) = SetEpi64(<<2, 1, 0, 4>>)[j % 4]
      BY <1>2, <2>0 DEF DIndex, ApplyVectors, Lanes
    <2>2. QED
      BY <1>2, <2>1, SetEpi64Four DEF Lanes
  <1>3. CASE 8 <= j /\ j < 12
    <2>0. j \div 4 = 2
      BY <1>3 DEF Lanes
    <2>1. DIndex(j) = SetEpi64(<<1, 0, 4, 3>>)[j % 4]
      BY <1>3, <2>0 DEF DIndex, ApplyVectors, Lanes
    <2>2. QED
      BY <1>3, <2>1, SetEpi64Four DEF Lanes
  <1>4. CASE 12 <= j /\ j < 16
    <2>0. j \div 4 = 3
      BY <1>4 DEF Lanes
    <2>1. DIndex(j) = SetEpi64(<<0, 4, 3, 2>>)[j % 4]
      BY <1>4, <2>0 DEF DIndex, ApplyVectors, Lanes
    <2>2. QED
      BY <1>4, <2>1, SetEpi64Four DEF Lanes
  <1>5. CASE 16 <= j
    BY <1>5 DEF DIndex, ThetaTail, Lanes
  <1>6. QED
    BY <1>1, <1>2, <1>3, <1>4, <1>5 DEF Lanes

(* chi_process_row gives lane x of a row the operands x + 1 and x + 2.     *)
LEMMA ChiOperandsColumns ==
  \A x \in Cols : ChiOperands[x + 1] = <<(x + 1) % 5, (x + 2) % 5>>
  BY DEF ChiOperands, Cols

(* Every lane lies in one of the five rows chi_process_row is called on.   *)
LEMMA RowBases == \A j \in Lanes : j - (j % 5) \in ChiRowBases /\ j % 5 \in Cols
  BY DEF ChiRowBases, Lanes, Cols

(* The reference module, instantiated with the same W, shares the lane    *)
(* operators of KeccakState.                                               *)
LEMMA RefShared ==
  /\ Ref!Lanes = Lanes /\ Ref!Cols = Cols
  /\ \A a, b : Ref!Xor(a, b) = Xor(a, b)
  /\ \A a : Ref!Not(a) = Not(a)
  /\ \A a, n : Ref!Rotl(a, n) = Rotl(a, n)
  /\ Ref!State = State /\ Ref!Lane = Lane
  /\ Ref!Rhotates = Rhotates /\ Ref!PiLaneMap = PiLaneMap
  /\ \A r : Ref!RC(r) = RC(r)
  BY DEF Ref!Lanes, Lanes, Ref!Cols, Cols, Ref!Xor, Xor, Ref!Not, Not, Ref!Bits, Bits,
         Ref!Rotl, Rotl, Ref!Shl, Shl, Ref!Shr, Shr, Ref!State, State, Ref!Lane, Lane,
         Ref!Rhotates, Rhotates, Ref!PiLaneMap, PiLaneMap, Ref!RC, RC,
         Ref!KeccakF1600RoundConstants, KeccakF1600RoundConstants

(* The reference chi maps states to states.                              *)
LEMMA RefChiType ==
  ASSUME NEW B \in State PROVE Ref!Chi(B) \in State
  BY XorType, NotType, AndType, RefShared DEF Ref!Chi, State, Lanes

(* The row-wise chi step is the reference chi of the buffer.               *)
LEMMA ChiStep == ASSUME Chi PROVE st' = Ref!Chi(st)
  <1> SUFFICES ASSUME NEW j \in Lanes
               PROVE  st'[j] = Ref!Chi(st)[j]
    BY RefShared DEF Chi, Ref!Chi
  <1> DEFINE rb == j - (j % 5)
             x  == j % 5
  <1>1. rb \in ChiRowBases /\ x \in Cols
    BY RowBases DEF rb, x
  <1>2. ChiOperands[x + 1] = <<(x + 1) % 5, (x + 2) % 5>>
    BY <1>1, ChiOperandsColumns DEF x
  <1>3. st'[j] = Xor(st[j], Not(st[rb + ((x + 1) % 5)]) \cap st[rb + ((x + 2) % 5)])
    <2>1. st'[j] = IF rb \in ChiRowBases
                   THEN Xor(st[j], Not(st[rb + ChiOperands[x + 1][1]]) \cap st[rb + ChiOperands[x + 1][2]])
                   ELSE st[j]
      BY DEF Chi, rb, x
    <2>2. QED
      BY <1>1, <1>2, <2>1
  <1>4. Ref!Chi(st)[j] = Xor(st[j], Not(st[rb + ((x + 1) % 5)]) \cap st[rb + ((x + 2) % 5)])
    BY RefShared DEF Ref!Chi, rb, x
  <1>5. QED
    BY <1>3, <1>4

(* THEOREM: for every lane width, every step that runs chi_process_row on  *)
(* the five rows computes the reference chi (spec 4.1 step 4).             *)
THEOREM ChiCorrect == Spec => ChiMatchesReference
  <1>1. [Next]_vars => [pc = "chi" => st' = Ref!Chi(st)]_vars
    BY ChiStep DEF Next, ThetaStep, ThetaApply, RhoPi, Iota
  <1>2. QED
    BY <1>1, PTL DEF Spec, ChiMatchesReference

(* While the D-application is pending, d holds the five D_CALC values of c. *)
DInv == pc = "apply" => d = [x \in Cols |-> Xor(c[DCalc[x + 1][2]], Rotl(c[DCalc[x + 1][1]], 1))]

LEMMA DInvInvariant == Spec => []DInv
  <1>1. Init => DInv
    BY DEF Init, DInv
  <1>2. DInv /\ [Next]_vars => DInv'
    BY DEF DInv, Next, ThetaStep, ThetaApply, RhoPi, Chi, Iota, vars
  <1>3. QED
    BY <1>1, <1>2, PTL DEF Spec

(* With d the D_CALC values, the D-application XORs the reference theta    *)
(* effect of c into every lane.                                            *)
LEMMA ThetaApplyStep ==
  ASSUME DInv, ThetaApply
  PROVE  temp' = [j \in Lanes |-> Xor(st[j], Ref!ThetaEffect(c)[j % 5])]
  <1> SUFFICES ASSUME NEW j \in Lanes
               PROVE  Xor(st[j], d[DIndex(j)]) = Xor(st[j], Ref!ThetaEffect(c)[j % 5])
    BY DEF ThetaApply
  <1>1. DIndex(j) = j % 5 /\ j % 5 \in Cols
    BY DIndexColumn DEF Lanes, Cols
  <1>2. DCalc[(j % 5) + 1] = <<((j % 5) + 1) % 5, ((j % 5) + 4) % 5>>
    BY <1>1, DCalcColumns
  <1>3. d[j % 5] = Xor(c[((j % 5) + 4) % 5], Rotl(c[((j % 5) + 1) % 5], 1))
    BY <1>1, <1>2 DEF DInv, ThetaApply
  <1>4. Ref!ThetaEffect(c)[j % 5] = Xor(c[((j % 5) + 4) % 5], Rotl(c[((j % 5) + 1) % 5], 1))
    BY <1>1, RefShared DEF Ref!ThetaEffect
  <1>5. QED
    BY <1>1, <1>3, <1>4

(* THEOREM: for every lane width, the step that fills temp XORs into every *)
(* lane the reference theta effect of its column (spec 4.1 step 1): the    *)
(* four packed D vectors and THETA_TAIL line up with the lanes.            *)
THEOREM ThetaApplyCorrect == Spec => ThetaApplyMatchesReference
  <1>1. DInv /\ [Next]_vars =>
          [pc = "apply" => temp' = [j \in Lanes |-> Xor(st[j], Ref!ThetaEffect(c)[j % 5])]]_vars
    BY ThetaApplyStep DEF Next, ThetaStep, RhoPi, Chi, Iota
  <1>2. QED
    BY <1>1, DInvInvariant, PTL DEF Spec, ThetaApplyMatchesReference

(* THEOREM: in every behaviour, rotl64 never reaches the default path of   *)
(* its switch, whose shift by 64 - (n & 63) is undefined for n & 63 = 0:   *)
(* D_CALC rotates by 1 and every RHO_PI_STEP amount is a case label.       *)
THEOREM RotationsNeverDefault == Spec => RotationsTakeSwitchCase
  <1>1. 1 \in Rotl64Cases /\ \A s \in 1 .. 24 : RhoPiRot[s] \in Rotl64Cases
    <2>1. \A s \in {1, 2, 3, 4, 5, 6, 7, 8, 9, 10, 11, 12, 13, 14, 15, 16, 17, 18,
                    19, 20, 21, 22, 23, 24} : RhoPiRot[s] \in Rotl64Cases
      BY DEF RhoPiRot, Rotl64Cases
    <2>2. QED
      BY <2>1 DEF Rotl64Cases
  <1> DEFINE Safe == /\ pc = "theta" => 1 \in Rotl64Cases
                     /\ pc = "rhopi" => \A s \in 1 .. 24 : RhoPiRot[s] \in Rotl64Cases
  <1>2. Safe
    BY <1>1
  <1>3. []Safe
    BY <1>2, PTL
  <1>4. QED
    BY <1>3, PTL DEF RotationsTakeSwitchCase
=============================================================================
