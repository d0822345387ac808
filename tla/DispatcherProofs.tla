-------------------------- MODULE DispatcherProofs --------------------------
(***************************************************************************)
(* Proofs about the dispatcher of KeccakP-1600-optimized.c, for any set   *)
(* of threads: the pointer is never called while NULL, and once no thread *)
(* is inside init_permute_function past its NULL check it holds the       *)
(* engine the spec prefers.                                               *)
(***************************************************************************)
EXTENDS Dispatcher, TLAPS

(* The three stores leave the spec's preferred engine behind.              *)
LEMMA InitResultIsPreferred == InitResult = Preferred
  BY DEF InitResult, Preferred, StoreAVX512, StoreAVX2, StoreReference

(* Every store writes an engine.                                           *)
LEMMA StoresAreEngines ==
  ASSUME NEW f \in Engines
  PROVE  /\ StoreReference \in Engines
         /\ StoreAVX2(f) \in Engines
         /\ StoreAVX512(f) \in Engines
  BY DEF Engines, StoreReference, StoreAVX2, StoreAVX512

(* The engine the spec prefers is an engine.                               *)
LEMMA PreferredIsEngine == Preferred \in Engines
  BY DEF Engines, Preferred

LEMMA TypeStep == TypeOK /\ [Next]_vars => TypeOK'
  <1> SUFFICES ASSUME TypeOK, [Next]_vars PROVE TypeOK'
    OBVIOUS
  <1>1. CASE UNCHANGED vars
    BY <1>1 DEF TypeOK, vars
  <1>2. ASSUME NEW t \in Threads, Enter(t) \/ InitCheck(t) \/ Call(t) PROVE TypeOK'
    BY <1>2 DEF TypeOK, Enter, InitCheck, Call, Goto
  <1>3. ASSUME NEW t \in Threads, SetReference(t) PROVE TypeOK'
    BY <1>3, InitResultIsPreferred, PreferredIsEngine DEF TypeOK, SetReference, Goto, StoreReference, Engines
  <1>4. ASSUME NEW t \in Threads, SetAVX2(t) \/ SetAVX512(t) PROVE TypeOK'
    <2>1. permute_fn' \in Engines \cup {NULL}
      BY <1>4 DEF TypeOK, SetAVX2, SetAVX512, StoreAVX2, StoreAVX512, Engines
    <2>2. QED
      BY <1>4, <2>1 DEF TypeOK, SetAVX2, SetAVX512, Goto
  <1>5. QED
    BY <1>1, <1>2, <1>3, <1>4 DEF Next, Running

(* The stores of the dispatcher are well typed in every behaviour.         *)
THEOREM TypeCorrect == Spec => []TypeOK
  <1>1. Init => TypeOK
    BY DEF Init, TypeOK, Builds
  <1>2. QED
    BY <1>1, TypeStep, PTL DEF Spec

(* IInv is inductive: each step either leaves permute_fn and the staged   *)
(* threads alone, or stores the next stage value of the thread it moves.   *)
LEMMA IInvInductive == IInv /\ [Next]_vars => IInv'
  <1> SUFFICES ASSUME IInv, [Next]_vars PROVE IInv'
    OBVIOUS
  <1> USE NullAssumption DEF IInv, Preferred, StageValue, StoreAVX2, StoreAVX512,
                              StoreReference, InitResult, Avail, Probe, Engines
  <1>0. TypeOK'
    BY TypeStep
  <1>1. CASE UNCHANGED vars
    BY <1>1, <1>0 DEF vars, NoNullCall, Staged
  <1>2. ASSUME NEW t \in Threads, Enter(t) \/ InitCheck(t) \/ Call(t) PROVE IInv'
    <2>1. UNCHANGED <<permute_fn, build, ebx, usable>>
      BY <1>2 DEF Enter, InitCheck, Call
    <2>2. Staged' = Staged /\ \A u \in Staged : pc'[u] = pc[u]
      BY <1>2 DEF Enter, InitCheck, Call, Goto, Staged, TypeOK
    <2>3. NoNullCall'
      BY <1>2, <2>1 DEF Enter, InitCheck, Call, Goto, NoNullCall, TypeOK
    <2>4. QED
      BY <1>0, <2>1, <2>2, <2>3 DEF Staged
  <1>3. ASSUME NEW t \in Threads, SetReference(t) PROVE IInv'
    <2>0. UNCHANGED <<build, ebx, usable>>
      BY <1>3 DEF SetReference
    <2>1. permute_fn' \in Engines
      BY <1>3 DEF SetReference
    <2>2. NoNullCall' /\ \A u \in Staged' : permute_fn' # NULL
      BY <2>1 DEF NoNullCall
    <2>4. CASE build.stores = "once"
      <3>1. permute_fn' = Preferred'
        BY <1>3, <2>0, <2>4 DEF SetReference
      <3>2. QED
        BY <1>0, <2>2, <3>1
    <2>5. CASE build.stores # "once"
      <3>1. pc'[t] = "avx2" /\ t \in Staged'
        BY <1>3, <2>5 DEF SetReference, Goto, Staged, TypeOK
      <3>2. permute_fn' = (StageValue(pc[t]))'
        BY <1>3, <2>5, <3>1 DEF SetReference
      <3>3. QED
        BY <1>0, <2>2, <3>1, <3>2
    <2>6. QED
      BY <2>4, <2>5
  <1>4. ASSUME NEW t \in Threads, SetAVX2(t) PROVE IInv'
    <2>0. UNCHANGED <<build, ebx, usable>>
      BY <1>4 DEF SetAVX2
    <2>1. t \in Staged /\ permute_fn # NULL
      BY <1>4 DEF SetAVX2, Goto, Staged
    <2>2. permute_fn' \in Engines
      BY <2>1, <1>4 DEF SetAVX2, TypeOK
    <2>3. /\ t \in Staged' /\ pc'[t] = "avx512"
          /\ \A u \in Staged \ {t} : u \in Staged' /\ pc'[u] = pc[u]
      BY <1>4 DEF SetAVX2, Goto, Staged, TypeOK
    <2>4. NoNullCall' /\ \A u \in Staged' : permute_fn' # NULL
      BY <2>2 DEF NoNullCall
    <2>5. CASE Avail("avx2")
      <3>1. permute_fn' = (StageValue(pc[t]))'
        BY <1>4, <2>0, <2>3, <2>5 DEF SetAVX2
      <3>2. QED
        BY <1>0, <2>3, <2>4, <3>1
    <2>6. CASE ~Avail("avx2")
      <3>1. permute_fn' = permute_fn
        BY <1>4, <2>6 DEF SetAVX2
      <3>2. StageValue("avx2") = StageValue("avx512")
        BY <2>6
      <3>3. PICK v \in {StageValue(pc[u]) : u \in Staged} \cup {Preferred} : permute_fn = v
        BY <2>1
      <3>4. CASE v = Preferred
        BY <1>0, <2>0, <2>4, <3>1, <3>3, <3>4
      <3>5. CASE v # Preferred
        <4>1. PICK u \in Staged : permute_fn = StageValue(pc[u])
          BY <3>3, <3>5
        <4>2. u \in Staged' /\ StageValue(pc[u]) = (StageValue(pc[u]))'
          BY <2>0, <2>1, <2>3, <3>2 DEF Staged
        <4>3. QED
          BY <1>0, <2>4, <3>1, <4>1, <4>2
      <3>6. QED
        BY <3>4, <3>5
    <2>7. QED
      BY <2>5, <2>6
  <1>5. ASSUME NEW t \in Threads, SetAVX512(t) PROVE IInv'
    <2>0. UNCHANGED <<build, ebx, usable>>
      BY <1>5 DEF SetAVX512
    <2>1. t \in Staged /\ permute_fn # NULL
      BY <1>5 DEF SetAVX512, Goto, Staged
    <2>2. permute_fn' \in Engines
      BY <2>1, <1>5 DEF SetAVX512, TypeOK
    <2>3. /\ pc'[t] = "call"
          /\ \A u \in Staged \ {t} : u \in Staged' /\ pc'[u] = pc[u]
      BY <1>5 DEF SetAVX512, Goto, Staged, TypeOK
    <2>4. /\ \A u \in Threads : pc'[u] = "call" => permute_fn' # NULL
          /\ \A u \in Staged' : permute_fn' # NULL
      BY <2>2
    <2>5. CASE Avail("avx512")
      BY <1>0, <2>0, <2>4, <2>5, <1>5 DEF SetAVX512, NoNullCall
    <2>6. CASE ~Avail("avx512")
      <3>1. permute_fn' = permute_fn
        BY <1>5, <2>6 DEF SetAVX512
      <3>2. StageValue("avx512") = Preferred
        BY <2>6
      <3>3. PICK v \in {StageValue(pc[u]) : u \in Staged} \cup {Preferred} : permute_fn = v
        BY <2>1
      <3>4. CASE v = Preferred
        BY <1>0, <2>0, <2>4, <3>1, <3>3, <3>4 DEF NoNullCall
      <3>5. CASE v # Preferred
        <4>1. PICK u \in Staged : permute_fn = StageValue(pc[u])
          BY <3>3, <3>5
        <4>2. CASE u = t
          <5>1. pc[t] = "avx512"
            BY <1>5 DEF SetAVX512, Goto
          <5>2. QED
            BY <1>0, <2>0, <2>4, <3>1, <3>2, <4>1, <4>2, <5>1 DEF NoNullCall
        <4>3. CASE u # t
          <5>1. u \in Staged' /\ StageValue(pc[u]) = (StageValue(pc[u]))'
            BY <2>0, <2>3, <4>3 DEF Staged
          <5>2. QED
            BY <1>0, <2>4, <3>1, <4>1, <5>1 DEF NoNullCall
        <4>4. QED
          BY <4>2, <4>3
      <3>6. QED
        BY <3>4, <3>5
    <2>7. QED
      BY <2>5, <2>6
  <1>6. QED
    BY <1>1, <1>2, <1>3, <1>4, <1>5 DEF Next, Running

(* IInv is strong enough for Stabilisation.                               *)
LEMMA StabilisationOfIInv == IInv => Stabilisation
  BY DEF IInv, Stabilisation, Staged, InInit

(* Stabilisation holds in every behaviour, for every set of threads.       *)
THEOREM StabilisationHolds == Spec => []Stabilisation
  <1>1. Init => IInv
    BY NullAssumption DEF Init, IInv, TypeOK, Builds, NoNullCall, Staged
  <1>2. IInv => Stabilisation
    BY DEF IInv, Stabilisation, Staged, InInit
  <1>3. QED
    BY <1>1, <1>2, IInvInductive, PTL DEF Spec

(* No thread calls through a NULL permute_fn, in every behaviour.          *)
THEOREM NoNullCallHolds == Spec => []NoNullCall
  <1>1. Init => IInv
    BY NullAssumption DEF Init, IInv, TypeOK, Builds, NoNullCall, Staged
  <1>2. QED
    BY <1>1, IInvInductive, PTL DEF Spec, IInv

(* IInv, the invariant dispatcher_threads checks, holds in every          *)
(* behaviour of init_permute_function and its racing callers.              *)
THEOREM IInvInvariant == Spec => []IInv
  <1>1. Init => IInv
    BY NullAssumption DEF Init, IInv, TypeOK, Builds, NoNullCall, Staged
  <1>2. QED
    BY <1>1, IInvInductive, PTL DEF Spec

(* No step changes the build or the probed bits, so the engine the spec   *)
(* prefers is fixed for the process.                                       *)
LEMMA PreferredStable == [Next]_vars => Preferred' = Preferred
  <1>1. [Next]_vars => UNCHANGED <<build, ebx>>
    BY DEF Next, Running, Enter, InitCheck, SetReference, SetAVX2, SetAVX512, Call, vars
  <1>2. QED
    BY <1>1 DEF Preferred, Avail, Probe

(* Once resolved, the binding never changes: no store can happen while no *)
(* thread is inside init_permute_function, and none can enter it again.   *)
LEMMA ResolvedStable ==
  ASSUME IInv, [Next]_vars, ResolvedBinding # NULL
  PROVE  ResolvedBinding' = ResolvedBinding
  <1> DEFINE Quiet == permute_fn # NULL /\ \A u \in Threads : pc[u] \notin InInit
  <1>1. Quiet
    BY DEF ResolvedBinding
  <1>2. UNCHANGED permute_fn /\ \A u \in Threads : pc'[u] \notin InInit
    <2>1. CASE UNCHANGED vars
      BY <1>1, <2>1 DEF vars
    <2>2. ASSUME NEW t \in Threads, Enter(t) \/ InitCheck(t) \/ Call(t)
          PROVE  UNCHANGED permute_fn /\ \A u \in Threads : pc'[u] \notin InInit
      BY <1>1, <2>2 DEF Enter, InitCheck, Call, Goto, InInit, IInv, TypeOK
    <2>3. ASSUME NEW t \in Threads, SetReference(t) \/ SetAVX2(t) \/ SetAVX512(t) PROVE FALSE
      BY <1>1, <2>3 DEF SetReference, SetAVX2, SetAVX512, Goto, InInit
    <2>4. QED
      BY <2>1, <2>2, <2>3 DEF Next, Running
  <1>3. QED
    BY <1>1, <1>2 DEF ResolvedBinding

(* The dispatcher implements the spec 4.4 state machine, for any set of   *)
(* threads: ResolvedBinding starts unresolved, moves once to the           *)
(* preferred engine and stays there.                                        *)
THEOREM Refinement == Spec => ImplementsAbstract
  <1>1. Init => Abs!Init
    BY NullAssumption DEF Init, Abs!Init, ResolvedBinding, Preferred, Abs!Engines
  <1>2. IInv /\ [Next]_vars => [Abs!Resolve]_<<ResolvedBinding, Preferred>>
    <2> SUFFICES ASSUME IInv, [Next]_vars
                 PROVE  [Abs!Resolve]_<<ResolvedBinding, Preferred>>
      OBVIOUS
    <2>1. Preferred' = Preferred
      BY PreferredStable
    <2>2. CASE ResolvedBinding # NULL
      BY <2>1, <2>2, ResolvedStable
    <2>3. CASE ResolvedBinding = NULL /\ ResolvedBinding' = NULL
      BY <2>1, <2>3
    <2>4. CASE ResolvedBinding = NULL /\ ResolvedBinding' # NULL
      <3>1. Stabilisation'
        <4>1. IInv'
          BY IInvInductive
        <4>2. QED
          BY <4>1 DEF IInv, Stabilisation, Staged, InInit
      <3>2. ResolvedBinding' = Preferred'
        BY <3>1, <2>4 DEF Stabilisation, ResolvedBinding
      <3>3. QED
        BY <2>1, <2>4, <3>2 DEF Abs!Resolve
    <2>5. QED
      BY <2>2, <2>3, <2>4
  <1>3. QED
    BY <1>1, <1>2, IInvInvariant, PTL DEF Spec, ImplementsAbstract, Abs!Spec

=============================================================================
