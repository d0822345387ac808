----------------------------- MODULE Dispatcher -----------------------------
(***************************************************************************)
(* The backend dispatcher of KeccakP-1600-optimized.c: the static         *)
(* function pointer permute_fn, init_permute_function, and the wrapper    *)
(* KeccakP1600_Permute_24rounds, called by any number of threads.         *)
(*                                                                         *)
(* permute_fn is a plain global read and written without synchronisation, *)
(* so each read and each store is a step of its own.  A racy store is     *)
(* undefined behaviour; the two outcomes a build can produce are modelled *)
(* by build.stores: "each" keeps the three stores of                      *)
(* init_permute_function, "once" is a compiler that keeps the pointer in  *)
(* a register and stores only the last value.                             *)
(***************************************************************************)
EXTENDS FiniteSets

CONSTANTS
  Threads,    \* the threads that call the stable entry point
  NULL        \* the null function pointer

Engines == {"reference", "avx2", "avx512"}

ASSUME ThreadsAssumption == Threads # {} /\ IsFiniteSet(Threads)
ASSUME NullAssumption == NULL \notin Engines
ISAs    == {"avx2", "avx512"}

(* The bits of cpuid leaf 7 EBX the probes test: AVX2 (5) and AVX-512 F,   *)
(* DQ, BW, VL (16, 17, 30, 31).                                            *)
AVX2Bit    == 5
AVX512Mask == {16, 17, 30, 31}
ProbeBits  == {AVX2Bit} \cup AVX512Mask

(* The ISAs a machine can really execute: the CPU has them and the OS has  *)
(* enabled their register state.                                            *)
Machines == {{}, {"avx2"}, {"avx2", "avx512"}}

(* The builds: which engines are compiled in (-mavx512f implies -mavx2),   *)
(* and how the stores of init_permute_function reach memory.               *)
Builds == [isa : {{}, {"avx2"}, {"avx2", "avx512"}}, stores : {"each", "once"}]

VARIABLES
  permute_fn, \* the static function pointer
  pc,         \* pc[t]: the statement thread t runs next
  build,      \* the build of this process
  ebx,        \* the probed bits of EBX that cpuid(7, 0) returns on this machine
  usable,     \* the ISAs this machine can execute
  used        \* the engines the calls at line 59 have run (history)

vars == <<permute_fn, pc, build, ebx, usable, used>>

(* supportsAVX2: (ebx & (1 << 5)) != 0; supportsAVX512: all four bits of    *)
(* avx512_mask set.  Neither checks the OS-enabled state (XGETBV).          *)
Probe(isa) == IF isa = "avx2" THEN AVX2Bit \in ebx ELSE AVX512Mask \subseteq ebx

(* The engine ISA is compiled in and reported by the CPU probe.            *)
Avail(isa) == isa \in build.isa /\ Probe(isa)

(* The three stores of init_permute_function, lines 35, 39-41, 46-48.      *)
StoreReference == "reference"
StoreAVX2(f) == IF Avail("avx2") THEN "avx2" ELSE f
(* lines 44-49 compiled out, as when the AVX-512 macros are not defined.    *)
StoreAVX512Dropped(f) == f
StoreAVX512(f) == IF Avail("avx512") THEN "avx512" ELSE f

(* The value the three stores leave behind.                                *)
InitResult == StoreAVX512(StoreAVX2(StoreReference))

(* The spec's choice (4.4): the most capable engine whose capabilities     *)
(* are all present, the reference engine last.                             *)
Preferred == IF Avail("avx512") THEN "avx512"
             ELSE IF Avail("avx2") THEN "avx2"
             ELSE "reference"

(* Threads that have passed the NULL check of line 30 and not yet left.    *)
InInit == {"ref", "avx2", "avx512"}

Init ==
  /\ build \in Builds
  /\ usable \in Machines
  /\ ebx \in {b \in SUBSET ProbeBits : /\ "avx2" \in usable => AVX2Bit \in b
                                     /\ "avx512" \in usable => AVX512Mask \subseteq b}
  /\ permute_fn = NULL
  /\ pc = [t \in Threads |-> "idle"]
  /\ used = {}

Goto(t, from, to) == pc[t] = from /\ pc' = [pc EXCEPT ![t] = to]

(* KeccakP1600_Permute_24rounds, line 55: if (permute_fn == NULL).         *)
Enter(t) ==
  /\ Goto(t, "idle", IF permute_fn = NULL THEN "init" ELSE "call")
  /\ UNCHANGED <<permute_fn, build, ebx, usable, used>>

(* line 30 with the test inverted.                                         *)
InitCheckInverted(t) ==
  /\ Goto(t, "init", IF permute_fn = NULL THEN "call" ELSE "ref")
  /\ UNCHANGED <<permute_fn, build, ebx, usable, used>>

(* line 30 dropped: init_permute_function always stores again.            *)
InitCheckNoReturn(t) ==
  /\ Goto(t, "init", "ref")
  /\ UNCHANGED <<permute_fn, build, ebx, usable, used>>

(* init_permute_function, line 30: return if already set.                  *)
InitCheck(t) ==
  /\ Goto(t, "init", IF permute_fn # NULL THEN "call" ELSE "ref")
  /\ UNCHANGED <<permute_fn, build, ebx, usable, used>>

(* line 35, the reference default; a "once" build stores the final value  *)
(* here and returns.                                                       *)
SetReference(t) ==
  /\ Goto(t, "ref", IF build.stores = "once" THEN "call" ELSE "avx2")
  /\ permute_fn' = IF build.stores = "once" THEN InitResult ELSE StoreReference
  /\ UNCHANGED <<build, ebx, usable, used>>

(* lines 38-42: if (supportsAVX2()) permute_fn = ..._avx2.                 *)
SetAVX2(t) ==
  /\ Goto(t, "avx2", "avx512")
  /\ permute_fn' = StoreAVX2(permute_fn)
  /\ UNCHANGED <<build, ebx, usable, used>>

(* lines 44-49: if (supportsAVX512()) permute_fn = ..._avx512.             *)
SetAVX512(t) ==
  /\ Goto(t, "avx512", "call")
  /\ permute_fn' = StoreAVX512(permute_fn)
  /\ UNCHANGED <<build, ebx, usable, used>>

(* line 59: permute_fn(state), reading the pointer again.                  *)
Call(t) ==
  /\ Goto(t, "call", "idle")
  /\ used' = used \cup {permute_fn}
  /\ UNCHANGED <<permute_fn, build, ebx, usable>>

(* The steps of a call in progress; a caller may never call (Enter).       *)
Running(t) == InitCheck(t) \/ SetReference(t) \/ SetAVX2(t) \/ SetAVX512(t) \/ Call(t)

Next == \E t \in Threads : Enter(t) \/ Running(t)

(* No step of a call waits for anything, so the scheduler runs each.       *)
Spec == Init /\ [][Next]_vars /\ \A t \in Threads : WF_vars(Running(t))

-----------------------------------------------------------------------------

TypeOK ==
  /\ permute_fn \in Engines \cup {NULL}
  /\ pc \in [Threads -> {"idle", "init", "ref", "avx2", "avx512", "call"}]
  /\ build \in Builds
  /\ ebx \in SUBSET ProbeBits
  /\ usable \in Machines
  /\ used \subseteq Engines \cup {NULL}

(* No caller jumps through a null pointer: a thread that skipped the       *)
(* initialisation because another had started it finds permute_fn set.     *)
NoNullCall == \A t \in Threads : pc[t] = "call" => permute_fn # NULL

(* Once permute_fn is set and no thread is inside init_permute_function    *)
(* past its NULL check, it is the engine the spec prefers.                 *)
Stabilisation ==
  (permute_fn # NULL /\ \A t \in Threads : pc[t] \notin InInit) => permute_fn = Preferred

(* The value a thread inside init_permute_function has stored last: the    *)
(* reference default before line 39, the AVX2 choice before line 46.       *)
StageValue(p) == IF p = "avx2" THEN StoreReference ELSE StoreAVX2(StoreReference)

Staged == {t \in Threads : pc[t] \in {"avx2", "avx512"}}

(* The inductive invariant behind Stabilisation: permute_fn is the last    *)
(* value some thread still inside init_permute_function stored, or the     *)
(* preferred engine; a thread that has stored cannot see NULL.             *)
IInv ==
  /\ TypeOK
  /\ NoNullCall
  /\ \A t \in Staged : permute_fn # NULL
  /\ permute_fn # NULL =>
       permute_fn \in {StageValue(pc[t]) : t \in Staged} \cup {Preferred}

(* Every call, racing or not, runs the engine the dispatcher resolves to   *)
(* (spec 4.4: all attempts observe the same final engine).                 *)
ConsistentEngine == used \subseteq {Preferred}

(* Every engine a call runs can execute on this machine: the dispatcher    *)
(* selects an engine only when its required capabilities are all present   *)
(* (spec 4.4), so no call faults on an instruction the OS has not enabled. *)
EngineRuns == \A e \in used : e = "reference" \/ e \in usable

(* The binding spec 4.4 speaks of, read off the implementation: permute_fn *)
(* once it is set and no thread is between its first and last store;       *)
(* while some thread is, the dispatcher is still resolving.                 *)
ResolvedBinding ==
  IF permute_fn # NULL /\ \A t \in Threads : pc[t] \notin InInit THEN permute_fn ELSE NULL

Abs == INSTANCE DispatcherAbstract WITH binding <- ResolvedBinding, best <- Preferred

(* init_permute_function and its racing callers implement the spec 4.4     *)
(* state machine: the binding is resolved once, to the preferred engine,   *)
(* and never changes afterwards.                                           *)
ImplementsAbstract == Abs!Spec

(* Once a call starts, permute_fn eventually holds the preferred engine    *)
(* for good.                                                               *)
EventuallyResolved == \A t \in Threads : pc[t] # "idle" ~> [](permute_fn = Preferred)
=============================================================================
