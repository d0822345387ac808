---------------------------- MODULE KeccakAVX512 ----------------------------
(***************************************************************************)
(* One call of KeccakP1600_Permute_24rounds_avx512 or _12rounds_avx512    *)
(* (KeccakP-1600-avx512.c) on a caller's state buffer.  Each round of     *)
(* KeccakP1600_Round_avx512 is taken as the blocks the code marks:        *)
(* theta_step_avx512 (column parities c and effects d), the D-application *)
(* into temp, the fused rho+pi back into the buffer, chi row by row, and  *)
(* iota.  The variables are the buffer and the locals of the round.       *)
(***************************************************************************)
EXTENDS KeccakState

CONSTANT Inputs     \* the buffers callers pass in

ASSUME InputsAssumption == Inputs \subseteq State

VARIABLES
  st,     \* the caller's 25-lane buffer, mutated in place
  c,      \* c[5]: column parities
  d,      \* d[5]: theta effects
  temp,   \* temp[25]: the state after theta
  i,      \* the argument of KECCAK_ROUND(i)
  entry,  \* which entry point was called
  pc,     \* the block of the round that runs next
  arg,    \* the buffer as passed in (history, for the checks)
  ref     \* the reference engine run on arg, one round per KECCAK_ROUND

vars == <<st, c, d, temp, i, entry, pc, arg, ref>>

Ref == INSTANCE KeccakRef

(* The two entry points: KECCAK_ROUND(i) for i in first..23, with the      *)
(* round constant KeccakF1600RoundConstants[i].                            *)
Entries == {[rounds |-> 24, first |-> 0], [rounds |-> 12, first |-> 12]}

(* the reduction with the upper 256-bit half never folded in.            *)
HorizontalXorLowHalf(v) ==
  LET r128 == VXor(ExtractHalf(ExtractHalf(v, 0, 4), 0, 2), ExtractHalf(ExtractHalf(v, 0, 4), 1, 2))
  IN  Xor(r128[0], r128[1])

(* mm512_horizontal_xor_epi64: XOR of the 256-bit halves, of the 128-bit  *)
(* halves of that, and of its two lanes.                                   *)
HorizontalXor(v) ==
  LET r256 == VXor(ExtractHalf(v, 0, 4), ExtractHalf(v, 1, 4))
      r128 == VXor(ExtractHalf(r256, 0, 2), ExtractHalf(r256, 1, 2))
  IN  Xor(r128[0], r128[1])

(* col_x = set_epi64(0, 0, 0, s[x+20], s[x+15], s[x+10], s[x+5], s[x]).    *)
ColumnVector(s, x) ==
  SetEpi64(<<Zero, Zero, Zero, s[x + 20], s[x + 15], s[x + 10], s[x + 5], s[x]>>)

(* D_CALC(x, x1, x4): d[x] = c[x4] ^ rotl64(c[x1], 1), as <<x1, x4>>.      *)
DCalc == << <<1, 4>>, <<2, 0>>, <<3, 1>>, <<4, 2>>, <<0, 3>> >>

(* The d indices given to _mm512_set_epi64 for lanes 0-7 and 8-15, in      *)
(* argument order, and the columns of APPLY_D(16..24).                     *)
ApplyVectors == << <<3, 2, 1, 0, 4, 3, 2, 1>>, <<2, 1, 0, 4, 3, 2, 1, 0>> >>
ThetaTail    == << 1, 2, 3, 4, 0, 1, 2, 3, 4 >>

(* The d index XORed into lane j.                                          *)
DIndex(j) == IF j < 16 THEN SetEpi64(ApplyVectors[(j \div 8) + 1])[j % 8]
                       ELSE ThetaTail[j - 15]

(* RHO_PI_STEP(dest, src, rot) for src = 1..24, in the order of the code.  *)
RhoPiDest == << 5, 10, 15, 20, 1, 6, 11, 16, 21, 2, 7, 12, 17, 22, 3, 8, 13, 18,
                23, 4, 9, 14, 19, 24 >>
RhoPiRot  == << 1, 62, 28, 27, 36, 44, 6, 55, 20, 3, 10, 43, 25, 39, 41, 45, 15,
                21, 8, 18, 2, 61, 56, 14 >>

(* chi_process_row_avx512: the permutexvar index vectors of the two       *)
(* shifted views of the row, in argument order, and the store mask.        *)
ChiShift1 == << 0, 0, 0, 0, 3, 2, 1, 5 >>
ChiShift2 == << 0, 0, 0, 0, 4, 3, 2, 1 >>
ChiMask   == 31                              \* 0x1F

(* The row at base rb after chi_process_row_avx512, as an 8-lane vector.   *)
ChiRow(s, rb) ==
  LET row == SetEpi64(<<Zero, Zero, Zero, s[rb + 4], s[rb + 3], s[rb + 2], s[rb + 1], s[rb]>>)
      sh1 == PermuteXVar(SetEpi64(ChiShift1), row)
      sh2 == PermuteXVar(SetEpi64(ChiShift2), row)
      chi == VAnd(VXor(sh1, Set1Epi64(Ones, 8)), sh2)
  IN  [k \in 0 .. 7 |-> IF MaskBit(ChiMask, k) THEN Xor(row[k], chi[k]) ELSE row[k]]

-----------------------------------------------------------------------------

Init ==
  /\ arg \in Inputs
  /\ entry \in Entries
  /\ st = arg
  /\ ref = arg
  /\ i = entry.first
  /\ pc = "theta"
  /\ c = [x \in Cols |-> Zero]
  /\ d = [x \in Cols |-> Zero]
  /\ temp = [j \in Lanes |-> Zero]

(* theta_step_avx512: c[x] from the column vectors, then the five D_CALCs.   *)
ThetaStep ==
  /\ pc = "theta"
  /\ LET cc == [x \in Cols |-> HorizontalXor(ColumnVector(st, x))]
     IN  /\ c' = cc
         /\ d' = [x \in Cols |-> Xor(cc[DCalc[x + 1][2]], Rotl(cc[DCalc[x + 1][1]], 1))]
  /\ pc' = "apply"
  /\ UNCHANGED <<st, temp, i, entry, arg, ref>>

(* lanes 0-15 XORed as two vectors into temp; APPLY_D XORs lanes 16-24    *)
(* in place, which the memcpy then copies into temp.                        *)
ThetaApply ==
  /\ pc = "apply"
  /\ temp' = [j \in Lanes |-> Xor(st[j], d[DIndex(j)])]
  /\ st' = [j \in Lanes |-> IF j >= 16 THEN Xor(st[j], d[DIndex(j)]) ELSE st[j]]
  /\ pc' = "rhopi"
  /\ UNCHANGED <<c, d, i, entry, arg, ref>>

(* state[0] = temp[0], then each RHO_PI in order (a later write to    *)
(* the same lane wins; a lane nobody writes keeps its value).              *)
RhoPi ==
  /\ pc = "rhopi"
  /\ st' = [j \in Lanes |->
              LET srcs == {s \in 1 .. 24 : RhoPiDest[s] = j}
                  last == CHOOSE s \in srcs : \A u \in srcs : u <= s
              IN  IF j = 0 THEN temp[0]
                  ELSE IF srcs = {} THEN st[j]
                  ELSE Rotl(temp[last], RhoPiRot[last])]
  /\ pc' = "chi"
  /\ UNCHANGED <<c, d, temp, i, entry, arg, ref>>

(* One chi_process_row_avx512: the masked store writes lane rb + k for    *)
(* every set bit k of the mask.                                             *)
ChiStore(s, rb) ==
  [j \in Lanes |-> IF j - rb \in 0 .. 7 /\ MaskBit(ChiMask, j - rb)
                   THEN ChiRow(s, rb)[j - rb]
                   ELSE s[j]]

(* The five calls, row 0 first; each reads the buffer the previous left.   *)
Chi ==
  /\ pc = "chi"
  /\ st' = ChiStore(ChiStore(ChiStore(ChiStore(ChiStore(st, 0), 5), 10), 15), 20)
  /\ pc' = "iota"
  /\ UNCHANGED <<c, d, temp, i, entry, arg, ref>>

(* state[0] ^= rc, and the next KECCAK_ROUND, if any.  The reference runs  *)
(* round i of the schedule beside it.                                      *)
Iota ==
  /\ pc = "iota"
  /\ st' = [st EXCEPT ![0] = Xor(@, RC(i))]
  /\ ref' = Ref!Round(ref, i)
  /\ i' = i + 1
  /\ pc' = IF i + 1 = 24 THEN "done" ELSE "theta"
  /\ UNCHANGED <<c, d, temp, entry, arg>>

Next == ThetaStep \/ ThetaApply \/ RhoPi \/ Chi \/ Iota

Spec == Init /\ [][Next]_vars

-----------------------------------------------------------------------------

(* Theta's column reduction: when the D-application starts, c[x] is the    *)
(* XOR of the five lanes of column x of the buffer (theta_step_avx512).    *)
ColumnParityMatchesReference == pc = "apply" => c = Ref!ColumnParity(st)

(* Theta's D-application: the step that fills temp XORs into every lane    *)
(* the reference theta effect of the computed c for that lane's column     *)
(* (D_CALC and the lane packing of the two vectors and APPLY_D)   .       *)
ThetaApplyMatchesReference ==
  [][pc = "apply" =>
       temp' = [j \in Lanes |-> Xor(st[j], Ref!ThetaEffect(c)[j % 5])]]_vars

(* The fused rho+pi writes back exactly pi(rho(temp)).                     *)
RhoPiMatchesReference == [][pc = "rhopi" => st' = Ref!Pi(Ref!Rho(temp))]_vars

(* The row-wise chi computes the reference chi of the buffer.              *)
ChiMatchesReference == [][pc = "chi" => st' = Ref!Chi(st)]_vars
=============================================================================
