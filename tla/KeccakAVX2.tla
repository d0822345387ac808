---------------------------- MODULE KeccakAVX2 -----------------------------
(***************************************************************************)
(* One call of KeccakP1600_Permute_24rounds_avx2 or _12rounds_avx2        *)
(* (KeccakP-1600-avx2.c) on a caller's state buffer.  Each round of       *)
(* KeccakP1600_Round_avx2 is taken as the four blocks the code marks:     *)
(* theta_step_avx2 (column parities c and effects d), the D-application   *)
(* into temp, the fused rho+pi back into the buffer, chi row by row, and  *)
(* iota.  The variables are the buffer and the locals of the round.       *)
(***************************************************************************)
EXTENDS KeccakState

CONSTANT Inputs     \* the buffers callers pass in

ASSUME InputsAssumption == Inputs \subseteq State

VARIABLES
  st,     \* the caller's 25-lane buffer, mutated in place
  c,      \* c[5]: column parities
  d,      \* d[5]: theta effects
  temp,   \* temp[25]: the state after theta
  i,      \* the argument of KECCAK_ROUND(i)
  entry,  \* which entry point was called
  pc,     \* the block of the round that runs next
  arg,    \* the buffer as passed in (history, for the checks)
  ref     \* the reference engine run on arg, one round per KECCAK_ROUND

vars == <<st, c, d, temp, i, entry, pc, arg, ref>>

Ref == INSTANCE KeccakRef

(* The two entry points: KECCAK_ROUND(i) for i in 0..rounds-1 with the     *)
(* round constant KeccakF1600RoundConstants[i + offset].                   *)
Entries == {[rounds |-> 24, offset |-> 0], [rounds |-> 12, offset |-> 12]}

(* mm256_horizontal_xor_epi64: two permute-and-XOR steps, then lane 0.     *)
HorizontalXor(v) ==
  LET v1 == VXor(v, Permute4x64(v, 78))       \* 0x4E
      v2 == VXor(v1, Permute4x64(v1, 177))    \* 0xB1
  IN  v2[0]

(* col_x = set_epi64x(s[x+20], s[x+15], s[x+10], s[x+5]) ^ set1(s[x]).     *)
ColumnVector(s, x) ==
  VXor(SetEpi64(<<s[x + 20], s[x + 15], s[x + 10], s[x + 5]>>), Set1Epi64(s[x], 4))

(* D_CALC(0, 4, 1): the two operands of d[0] exchanged.                   *)
DCalcSwapped == << <<4, 1>>, <<2, 0>>, <<3, 1>>, <<4, 2>>, <<0, 3>> >>

(* D_CALC(x, x1, x4): d[x] = c[x4] ^ rotl64(c[x1], 1), as <<x1, x4>>.      *)
DCalc == << <<1, 4>>, <<2, 0>>, <<3, 1>>, <<4, 2>>, <<0, 3>> >>

(* The d indices given to _mm256_set_epi64x for lanes 0-3, 4-7, 8-11 and   *)
(* 12-15, in argument order, and the columns of THETA_TAIL(16..24).        *)
ApplyVectors == << <<3, 2, 1, 0>>, <<2, 1, 0, 4>>, <<1, 0, 4, 3>>, <<0, 4, 3, 2>> >>
ThetaTail    == << 1, 2, 3, 4, 0, 1, 2, 3, 4 >>

(* The d index XORed into lane j.                                          *)
DIndex(j) == IF j < 16 THEN SetEpi64(ApplyVectors[(j \div 4) + 1])[j % 4]
                       ELSE ThetaTail[j - 15]

(* RHO_PI_STEP(dest, src, rot) for src = 1..24, in the order of the code.  *)
RhoPiDest == << 5, 10, 15, 20, 1, 6, 11, 16, 21, 2, 7, 12, 17, 22, 3, 8, 13, 18,
                23, 4, 9, 14, 19, 24 >>
(* The RHO_PI_STEP amounts written as right rotations, 64 - rot.        *)
RhoPiRotRight == << 63, 2, 36, 37, 28, 20, 58, 9, 44, 61, 54, 21, 39, 25, 23, 19,
                    49, 43, 56, 46, 62, 3, 8, 50 >>
RhoPiRot  == << 1, 62, 28, 27, 36, 44, 6, 55, 20, 3, 10, 43, 25, 39, 41, 45, 15,
                21, 8, 18, 2, 61, 56, 14 >>

(* chi with the operands of lane 0 exchanged: a0 ^ (~a2 & a1).          *)
ChiOperandsSwapped == << <<2, 1>>, <<2, 3>>, <<3, 4>>, <<4, 0>>, <<0, 1>> >>

(* chi_process_row: lane x of the row gets a_x ^ (~a_p & a_q), <<p, q>>.    *)
ChiOperands == << <<1, 2>>, <<2, 3>>, <<3, 4>>, <<4, 0>>, <<0, 1>> >>
ChiRowBases == {0, 5, 10, 15, 20}

-----------------------------------------------------------------------------

Init ==
  /\ arg \in Inputs
  /\ entry \in Entries
  /\ st = arg
  /\ ref = arg
  /\ i = 0
  /\ pc = "theta"
  /\ c = [x \in Cols |-> Zero]
  /\ d = [x \in Cols |-> Zero]
  /\ temp = [j \in Lanes |-> Zero]

(* theta_step_avx2: c[x] from the column vectors, then the five D_CALCs.   *)
ThetaStep ==
  /\ pc = "theta"
  /\ LET cc == [x \in Cols |-> HorizontalXor(ColumnVector(st, x))]
     IN  /\ c' = cc
         /\ d' = [x \in Cols |-> Xor(cc[DCalc[x + 1][2]], Rotl(cc[DCalc[x + 1][1]], 1))]
  /\ pc' = "apply"
  /\ UNCHANGED <<st, temp, i, entry, arg, ref>>

(* lanes 0-15 XORed as four vectors into temp; THETA_TAIL XORs lanes       *)
(* 16-24 in place, which the memcpy then copies into temp.                  *)
ThetaApply ==
  /\ pc = "apply"
  /\ temp' = [j \in Lanes |-> Xor(st[j], d[DIndex(j)])]
  /\ st' = [j \in Lanes |-> IF j >= 16 THEN Xor(st[j], d[DIndex(j)]) ELSE st[j]]
  /\ pc' = "rhopi"
  /\ UNCHANGED <<c, d, i, entry, arg, ref>>

(* state[0] = temp[0], then each RHO_PI_STEP in order (a later write to    *)
(* the same lane wins; a lane nobody writes keeps its value).              *)
RhoPi ==
  /\ pc = "rhopi"
  /\ st' = [j \in Lanes |->
              LET srcs == {s \in 1 .. 24 : RhoPiDest[s] = j}
                  last == CHOOSE s \in srcs : \A u \in srcs : u <= s
              IN  IF j = 0 THEN temp[0]
                  ELSE IF srcs = {} THEN st[j]
                  ELSE Rotl(temp[last], RhoPiRot[last])]
  /\ pc' = "chi"
  /\ UNCHANGED <<c, d, temp, i, entry, arg, ref>>

(* chi_process_row for each row base; a row reads its five lanes first.    *)
Chi ==
  /\ pc = "chi"
  /\ st' = [j \in Lanes |->
              LET rb == j - (j % 5)
                  op == ChiOperands[(j % 5) + 1]
              IN  IF rb \in ChiRowBases
                  THEN Xor(st[j], Not(st[rb + op[1]]) \cap st[rb + op[2]])
                  ELSE st[j]]
  /\ pc' = "iota"
  /\ UNCHANGED <<c, d, temp, i, entry, arg, ref>>

(* state[0] ^= rc, and the next KECCAK_ROUND, if any.  The reference runs  *)
(* round 24 - rounds + i of the schedule beside it.                        *)
Iota ==
  /\ pc = "iota"
  /\ st' = [st EXCEPT ![0] = Xor(@, RC(i + entry.offset))]
  /\ ref' = Ref!Round(ref, 24 - entry.rounds + i)
  /\ i' = i + 1
  /\ pc' = IF i + 1 = entry.rounds THEN "done" ELSE "theta"
  /\ UNCHANGED <<c, d, temp, entry, arg>>

Next == ThetaStep \/ ThetaApply \/ RhoPi \/ Chi \/ Iota

Spec == Init /\ [][Next]_vars

-----------------------------------------------------------------------------

(* Theta's column reduction: when the D-application starts, c[x] is the    *)
(* XOR of the five lanes of column x of the buffer (theta_step_avx2).      *)
ColumnParityMatchesReference == pc = "apply" => c = Ref!ColumnParity(st)

(* Theta's D-application: the step that fills temp XORs into every lane    *)
(* the reference theta effect of the computed c for that lane's column     *)
(* (D_CALC and the lane packing of the four vectors and THETA_TAIL).       *)
ThetaApplyMatchesReference ==
  [][pc = "apply" =>
       temp' = [j \in Lanes |-> Xor(st[j], Ref!ThetaEffect(c)[j % 5])]]_vars

(* The fused rho+pi writes back exactly pi(rho(temp)).                     *)
RhoPiMatchesReference == [][pc = "rhopi" => st' = Ref!Pi(Ref!Rho(temp))]_vars

(* rotl64 never takes its default path: the rotation of every D_CALC in  *)
(* theta and of every RHO_PI_STEP is a case label of the switch, so the   *)
(* undefined shift by 64 of the default path cannot happen in a round.    *)
RotationsTakeSwitchCase ==
  [][/\ pc = "theta" => 1 \in Rotl64Cases
     /\ pc = "rhopi" => \A s \in 1 .. 24 : RhoPiRot[s] \in Rotl64Cases]_vars

(* The row-wise chi computes the reference chi of the buffer.              *)
ChiMatchesReference == [][pc = "chi" => st' = Ref!Chi(st)]_vars

(* Cross-engine equivalence: when a call returns, the buffer holds the     *)
(* reference permutation of the argument for the entry's round count.      *)
PermutationMatchesReference == pc = "done" => st = ref

(* The published answer of Keccak-f[1600] on the all-zero state, lanes 0   *)
(* and 1 (F1258F7940E1DDE7, 84D5CCF933C0478A), given by their set bits.   *)
KnownAnswerLane0 ==
  {0, 1, 2, 5, 6, 7, 8, 10, 11, 12, 14, 15, 16, 21, 22, 23, 30, 32, 35, 36, 37,
   38, 40, 41, 42, 43, 47, 48, 50, 53, 56, 60, 61, 62, 63}
KnownAnswerLane1 ==
  {1, 3, 7, 8, 9, 10, 14, 22, 23, 24, 25, 28, 29, 32, 35, 36, 37, 38, 39, 42, 43,
   46, 47, 48, 50, 52, 54, 55, 58, 63}

(* The tables of the sources (the round constants, rhotates, pi_lane_map)  *)
(* give the standard permutation: 24 rounds of the reference schedule on  *)
(* the zero buffer reach the published answer.                            *)
KnownAnswer ==
  (W = 64 /\ pc = "done" /\ entry.rounds = 24 /\ arg = [j \in Lanes |-> Zero])
    => ref[0] = KnownAnswerLane0 /\ ref[1] = KnownAnswerLane1
=============================================================================
