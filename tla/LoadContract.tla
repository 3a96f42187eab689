------------------------------ MODULE LoadContract ------------------------------
(***************************************************************************)
(* What efi_main relies on when it calls KernelReader::readKernel: the call *)
(* takes pages and pool memory from the firmware while it runs, a bounded   *)
(* number of times; it gives every pool buffer back before it returns, and  *)
(* it does return, unless the processor faults in it.                       *)
(***************************************************************************)
EXTENDS Integers

CONSTANTS
  MaxPageAllocs   \* how many page allocations the largest kernel needs

VARIABLES
  status,         \* "running", "returned" or "faulted"
  pageAllocs,     \* page allocations, none of which is ever given back
  poolBuffers     \* pool buffers that are live

contractVars == <<status, pageAllocs, poolBuffers>>

Init == status = "running" /\ pageAllocs = 0 /\ poolBuffers = 0

(* A call into the firmware. *)
Ask ==
  /\ status = "running"
  /\ pageAllocs' \in {pageAllocs, pageAllocs + 1} /\ pageAllocs' <= MaxPageAllocs
  /\ poolBuffers' \in {0, 1}
  /\ UNCHANGED status

(* The step in which the call ends; a refused segment was allocated first.  *)
Leave ==
  /\ status = "running"
  /\ status' \in {"returned", "faulted"}
  /\ pageAllocs' \in {pageAllocs, pageAllocs + 1} /\ pageAllocs' <= MaxPageAllocs
  /\ poolBuffers' = 0

Next == Ask \/ Leave

Spec == Init /\ [][Next]_contractVars /\ <>(status # "running")
=============================================================================
