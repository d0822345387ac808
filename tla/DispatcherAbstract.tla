------------------------- MODULE DispatcherAbstract -------------------------
(***************************************************************************)
(* The backend dispatcher as spec 4.4 states it: a binding that starts     *)
(* unresolved and moves once, atomically, to the best engine the machine  *)
(* supports, where it stays for the rest of the process.                   *)
(***************************************************************************)
CONSTANT NULL       \* the unresolved binding

Engines == {"reference", "avx2", "avx512"}

VARIABLES
  binding,   \* NULL (unresolved) or the resolved engine
  best       \* the most capable engine whose capabilities are all present

Init == binding = NULL /\ best \in Engines

(* The one transition: resolve to the best engine.                         *)
Resolve == binding = NULL /\ binding' = best /\ UNCHANGED best

Spec == Init /\ [][Resolve]_<<binding, best>>
=============================================================================
