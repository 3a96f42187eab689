------------------------------ MODULE AddressSpace ------------------------------
(***************************************************************************)
(* What PageTableRootController promises (paginator/page_table.h): a map    *)
(* from virtual addresses to page entries, changed one call at a time.  A   *)
(* call either changes the entry of its own address and no other, or says   *)
(* why it did not; a mapping is replaced only by a forced call.             *)
(***************************************************************************)
CONSTANTS
  VirtAddrs,     \* the virtual addresses
  Calls,         \* the calls, records with at least va and force
  Entry(_),      \* the entry a call writes
  Canonical(_),  \* which virtual addresses are accepted
  Unmapped,      \* the entry of an address that is not mapped
  NoCall         \* the value of last before the first call returned

VARIABLES
  space,         \* the entry of every virtual address
  last           \* the last call that returned, with its result

Init ==
  /\ space = [va \in VirtAddrs |-> Unmapped]
  /\ last = NoCall

Return(call, result) == last' = [call |-> call, result |-> result]

Map(call) ==
  /\ call.force \/ space[call.va] = Unmapped
  /\ space' = [space EXCEPT ![call.va] = Entry(call)]
  /\ Return(call, "NoError")

RefuseExisting(call) ==
  /\ ~call.force /\ space[call.va] # Unmapped
  /\ Return(call, "EntryExists")
  /\ UNCHANGED space

RefuseAddress(call) ==
  /\ ~Canonical(call.va)
  /\ Return(call, "InvalidVirtAddress")
  /\ UNCHANGED space

(* A frame for a page table could not be allocated. *)
RunOutOfFrames(call) ==
  /\ Return(call, "AllocFailed")
  /\ UNCHANGED space

Next == \E call \in Calls :
          Map(call) \/ RefuseExisting(call) \/ RefuseAddress(call) \/ RunOutOfFrames(call)

Spec == Init /\ [][Next]_<<space, last>>
=============================================================================
