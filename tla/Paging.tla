-------------------------------- MODULE Paging ---------------------------------
(***************************************************************************)
(* PageTableRootController (static_libs/paginator/src/page_table.cpp) and   *)
(* the x86_64 controller behind it (.../x86_64_paging_controller.cpp):      *)
(* mapPage as the walk it makes, one action per level, with the frame       *)
(* allocator's answers in between; translateVirtToPhys as an operator.      *)
(*                                                                          *)
(* A 64-bit entry is the record of the physical address it was built from   *)
(* and its x86 flag bits.  The address the code reads back from an entry    *)
(* (GET_ADDR_FROM_ENTRY) keeps two bits of it, so the only tables the code  *)
(* ever reaches below the root are in the first bytes of physical memory:   *)
(* `low` is that memory, in 8-byte words.                                   *)
(***************************************************************************)
EXTENDS Integers, Sequences

CONSTANTS
  NumEntries,   \* entries of a page table (512)
  VirtAddrs,    \* page-aligned virtual addresses callers pass
  PhysAddrs,    \* page-aligned physical addresses callers pass
  FlagSets,     \* the PageFlags values callers pass
  Frames,       \* the frames the allocator hands out, in order
  LowMemory     \* what the words of physical page 0 may hold at the start

PageSize == 4096
Index == 0 .. NumEntries - 1
RECURSIVE_INDEX == 1
PageFlags == {"Present", "UserModeAccessible", "ExecuteBit", "WriteBit", "ReadBit", "IsHugePage"}
X86_64PageFlags == {"Present", "WriteEnable", "UserModeAccessible", "HugePage", "ExecuteDisable"}

(* A virtual address by its parts: the upper 16 bits and the four indices. *)
VirtAddr == [top : {"zeros", "ones", "mixed"}, l4 : Index, l3 : Index, l2 : Index, l1 : Index]

Entries == [addr : Nat, flags : SUBSET X86_64PageFlags]
Zero == [addr |-> 0, flags |-> {}]

(* The words of page 0 that a table at one of the addresses 0, 8, 32, 40    *)
(* covers.                                                                  *)
LowWords == 0 .. NumEntries + 4

ASSUME SizeAssumption == NumEntries \in Nat /\ NumEntries > 1

ASSUME CallerAssumption ==
  /\ VirtAddrs \subseteq VirtAddr
  /\ PhysAddrs \subseteq Nat /\ \A pa \in PhysAddrs : pa % PageSize = 0
  /\ FlagSets \subseteq SUBSET PageFlags /\ \A flags \in FlagSets : "Present" \in flags

(* "Must return usable physical addresses for the page tables themselves"  *)
(* (page_table.h:73): page-aligned, not 0, and never the same twice.        *)
ASSUME AllocatorAssumption ==
  /\ Frames \in Seq(Nat)
  /\ \A k \in DOMAIN Frames : Frames[k] > 0 /\ Frames[k] % PageSize = 0
  /\ \A j, k \in DOMAIN Frames : Frames[j] = Frames[k] => j = k

ASSUME LowMemoryAssumption ==
  /\ LowMemory \subseteq [LowWords -> Entries]
  /\ \A m \in LowMemory : \A w \in LowWords : m[w].addr % PageSize = 0

VARIABLES
  pagingDisabledNow,
  root,        \* the entries of the root page table
  low,         \* the words of physical page 0
  allocated,   \* how many frames the allocator has handed out
  pc,          \* "idle", the level being walked, or "faulted"
  call,        \* the call in progress: [va, pa, flags, force]
  entry,       \* the entry the walk follows: entryForL3, entryForL2, entryForL1
  last,        \* the last call that returned, with its result
  cr3,         \* the page table the processor uses: the firmware's, or the root
  activated,   \* what activateRootPageTable last answered
  mapped,      \* history: addresses a call has mapped to a non-zero entry
  before       \* history: `low` when the call in progress began

memVars == <<root, low, allocated>>
vars == <<pagingDisabledNow, memVars, pc, call, entry, last, cr3, activated, mapped, before>>
-----------------------------------------------------------------------------
(* Mutant of constructTableEntry: the flags are not translated. *)
constructTableEntryRaw(physicalAddress, flags) == [addr |-> physicalAddress, flags |-> flags]

constructTableEntry(physicalAddress, flags) ==
  [addr |-> physicalAddress,
   flags |-> (flags \cap {"Present", "UserModeAccessible"})
               \cup (IF "WriteBit" \in flags THEN {"WriteEnable"} ELSE {})
               \cup (IF "IsHugePage" \in flags THEN {"HugePage"} ELSE {})
               \cup (IF "ExecuteBit" \in flags THEN {} ELSE {"ExecuteDisable"})]

TableEntry(frame) == constructTableEntry(frame, {"Present", "WriteBit"})

(* GET_ADDR_FROM_ENTRY masks with 40, not with 40 ones: bits 3 and 5. *)
GetAddr(e) == 8 * ((e.addr \div 8) % 2) + 32 * ((e.addr \div 32) % 2)

(* The word of `low` that is entry i of the table at a byte address. *)
Word(table, i) == table \div 8 + i

translateVirtToPhys(va) ==
  LET l3Table == GetAddr(root[va.l4])
      l2Table == GetAddr(low[Word(l3Table, va.l3)])
      l1Table == GetAddr(low[Word(l2Table, va.l2)])
  IN  IF l3Table = 0 \/ l2Table = 0 \/ l1Table = 0 THEN 0
      ELSE GetAddr(low[Word(l1Table, va.l1)])

(* The bits 63 to 48 must agree; bit 47 is not looked at. *)
SignExtended(va) == va.top # "mixed"

(* The page address as a number: what identityMapPage passes twice. *)
Address(va) ==
  (((va.l4 * NumEntries + va.l3) * NumEntries + va.l2) * NumEntries + va.l1) * PageSize

NoCall == [none |-> "none"]

Init ==
  /\ pagingDisabledNow \in BOOLEAN
  /\ root = [i \in Index |-> Zero]
  /\ low \in LowMemory /\ before = low
  /\ allocated = 0
  /\ pc = "idle" /\ call = NoCall /\ entry = Zero /\ last = NoCall
  /\ cr3 = "firmware" /\ activated = "never" /\ mapped = {}

Return(c, result) ==
  /\ pc' = "idle"
  /\ last' = [call |-> c, result |-> result]

(* The checks at the head of mapPage. *)
EarlyResult(c) == IF ~SignExtended(c.va) THEN "InvalidVirtAddress"
                  ELSE IF ~c.force /\ translateVirtToPhys(c.va) # 0 THEN "EntryExists"
                  ELSE "NoError"

Begin(c) ==
  /\ pc = "idle"
  /\ call' = c /\ before' = low
  /\ \/ EarlyResult(c) # "NoError" /\ Return(c, EarlyResult(c))
     \/ EarlyResult(c) = "NoError" /\ pc' = "l4" /\ UNCHANGED last
  /\ UNCHANGED <<pagingDisabledNow, memVars, entry, cr3, activated, mapped>>

MapPage == \E va \in VirtAddrs, pa \in PhysAddrs, flags \in FlagSets, force \in BOOLEAN :
             Begin([va |-> va, pa |-> pa, flags |-> flags, force |-> force])

(* Only of addresses below the sign-extended half: the others are not       *)
(* physical addresses.                                                      *)
IdentityMapPage == \E va \in VirtAddrs, flags \in FlagSets, force \in BOOLEAN :
  /\ va.top # "ones"
  /\ Begin([va |-> va, pa |-> Address(va), flags |-> flags, force |-> force])

(* Mutant of Level: the frame is not taken out of the allocator. *)
LevelSameFrame(e, slot, next) ==
  \/ /\ e # Zero
     /\ entry' = e /\ pc' = IF pagingDisabledNow THEN next ELSE "faulted"
     /\ UNCHANGED <<memVars, last>>
  \/ /\ e = Zero
     /\ Return(call, "AllocFailed")
     /\ UNCHANGED <<memVars, entry>>
  \/ /\ e = Zero /\ allocated < Len(Frames)
     /\ entry' = TableEntry(Frames[allocated + 1])
     /\ root' = [root EXCEPT ![slot] = entry']
     /\ low' = IF pagingDisabledNow
                 THEN [low EXCEPT ![Word(GetAddr(entry'), RECURSIVE_INDEX)] = entry']
                 ELSE low
     /\ pc' = IF pagingDisabledNow THEN next ELSE "faulted"
     /\ UNCHANGED <<allocated, last>>

(* One level of the walk: the entry found is followed, or a frame is       *)
(* allocated and cleared, its entry is stored in the root table, whatever   *)
(* the level, and in slot 1 of the table the code takes it for.  With       *)
(* paging on, the next access is through an address whose bits 63 to 48     *)
(* are set and whose bit 47 is not, and faults.                             *)
Level(e, slot, next) ==
  \/ /\ e # Zero
     /\ entry' = e /\ pc' = IF pagingDisabledNow THEN next ELSE "faulted"
     /\ UNCHANGED <<memVars, last>>
  \/ /\ e = Zero
     /\ Return(call, "AllocFailed")
     /\ UNCHANGED <<memVars, entry>>
  \/ /\ e = Zero /\ allocated < Len(Frames)
     /\ entry' = TableEntry(Frames[allocated + 1])
     /\ root' = [root EXCEPT ![slot] = entry']
     /\ low' = IF pagingDisabledNow
                 THEN [low EXCEPT ![Word(GetAddr(entry'), RECURSIVE_INDEX)] = entry']
                 ELSE low
     /\ allocated' = allocated + 1
     /\ pc' = IF pagingDisabledNow THEN next ELSE "faulted"
     /\ UNCHANGED last

Walk == /\ \/ pc = "l4" /\ Level(root[call.va.l4], call.va.l4, "l3")
           \/ pc = "l3" /\ Level(low[Word(GetAddr(entry), call.va.l3)], call.va.l3, "l2")
           \/ pc = "l2" /\ Level(low[Word(GetAddr(entry), call.va.l2)], call.va.l2, "l1")
        /\ UNCHANGED <<pagingDisabledNow, call, cr3, activated, mapped, before>>

(* Mutant of WriteLeaf: an existing entry is not looked at. *)
WriteLeafUnchecked(w) ==
  /\ low' = [low EXCEPT ![w] = constructTableEntry(call.pa, call.flags)]
  /\ mapped' = mapped \cup {call.va}
  /\ Return(call, "NoError")

(* Mutant of WriteLeaf: forceWrite is ignored. *)
WriteLeafNeverForced(w) ==
  \/ /\ low[w] # Zero
     /\ Return(call, "EntryExists")
     /\ UNCHANGED <<low, mapped>>
  \/ /\ low[w] = Zero
     /\ low' = [low EXCEPT ![w] = constructTableEntry(call.pa, call.flags)]
     /\ mapped' = mapped \cup {call.va}
     /\ Return(call, "NoError")

(* Mutant of WriteLeaf: the entry is written before it is looked at. *)
WriteLeafFirst(w) ==
  /\ low' = [low EXCEPT ![w] = constructTableEntry(call.pa, call.flags)]
  /\ IF low[w] = Zero \/ call.force
       THEN mapped' = mapped \cup {call.va} /\ Return(call, "NoError")
       ELSE UNCHANGED mapped /\ Return(call, "EntryExists")

(* The entry of the page itself. *)
WriteLeaf(w) ==
  \/ /\ low[w] # Zero /\ ~call.force
     /\ Return(call, "EntryExists")
     /\ UNCHANGED <<low, mapped>>
  \/ /\ low[w] = Zero \/ call.force
     /\ low' = [low EXCEPT ![w] = constructTableEntry(call.pa, call.flags)]
     /\ mapped' = mapped \cup {call.va}
     /\ Return(call, "NoError")

MapLeaf ==
  /\ pc = "l1"
  /\ WriteLeaf(Word(GetAddr(entry), call.va.l1))
  /\ UNCHANGED <<pagingDisabledNow, root, allocated, call, entry, cr3, activated, before>>

(* Page 0 may be unmapped: the first access to it then faults. *)
LowFault ==
  /\ pc \in {"l3", "l2", "l1"}
  /\ pc' = "faulted"
  /\ UNCHANGED <<pagingDisabledNow, memVars, call, entry, last, cr3, activated, mapped, before>>

(* activateRootPageTable: with paging on it looks for the root's own entry  *)
(* through the same kind of address as the walk.                            *)
Activate ==
  /\ pc = "idle"
  /\ IF pagingDisabledNow
       THEN cr3' = "root" /\ activated' = "false" /\ UNCHANGED pc
       ELSE pc' = "faulted" /\ UNCHANGED <<cr3, activated>>
  /\ UNCHANGED <<pagingDisabledNow, memVars, call, entry, last, mapped, before>>

Stopped == pc = "faulted" /\ UNCHANGED vars

Next == MapPage \/ IdentityMapPage \/ Walk \/ MapLeaf \/ LowFault \/ Activate \/ Stopped

Spec == Init /\ [][Next]_vars
-----------------------------------------------------------------------------
Calls == [va : VirtAddrs, pa : PhysAddrs \cup {Address(va) : va \in VirtAddrs},
          flags : FlagSets, force : BOOLEAN]
Results == {"NoError", "EntryExists", "InvalidVirtAddress", "AllocFailed"}

TypeOK ==
  /\ pagingDisabledNow \in BOOLEAN
  /\ root \in [Index -> Entries] /\ low \in [LowWords -> Entries] /\ before \in [LowWords -> Entries]
  /\ allocated \in 0 .. Len(Frames)
  /\ pc \in {"idle", "l4", "l3", "l2", "l1", "faulted"}
  /\ call \in Calls \cup {NoCall}
  /\ entry \in Entries
  /\ last \in [call : Calls, result : Results] \cup {NoCall}
  /\ cr3 \in {"firmware", "root"} /\ activated \in {"never", "false", "true"}
  /\ mapped \subseteq VirtAddrs

(* A call without forceWrite never succeeds for an address some earlier    *)
(* call mapped, whatever was mapped in between and however far the tables   *)
(* of different addresses share memory.                                     *)
NoDoubleMap ==
  [][pc = "l1" /\ pc' = "idle" /\ call.va \in mapped /\ ~call.force
       => last'.result # "NoError"]_vars

(* A call that does not succeed has changed no page entry on the way; only *)
(* slot 1 of a table may have been written.                                 *)
FailureKeepsEntries ==
  pc \in {"l3", "l2", "l1"} \/ (pc = "idle" /\ last # NoCall /\ last.result # "NoError") =>
    \A w \in LowWords \ {RECURSIVE_INDEX} : low[w] = before[w]

(* Every frame the allocator handed out is named by at most one entry of    *)
(* the root table, and the root names no other memory.                      *)
RootNamesFrames ==
  /\ \A i \in Index : root[i] # Zero => \E k \in 1 .. allocated : root[i] = TableEntry(Frames[k])
  /\ \A i, j \in Index : root[i] # Zero /\ root[i] = root[j] => i = j

-----------------------------------------------------------------------------
(* The promises of page_table.h, as AddressSpace states them. *)
CallEntry(c) == constructTableEntry(c.pa, c.flags)
Promise == INSTANCE AddressSpace WITH
             space <- [va \in VirtAddrs |-> low[va.l1]], last <- last, Calls <- Calls,
             Entry <- CallEntry, Canonical <- SignExtended, Unmapped <- Zero, NoCall <- NoCall

(* As long as no two addresses share an L1 index, no index is the recursive *)
(* one and page 0 was clear, mapPage keeps every promise of its header: each*)
(* call changes only its own entry, replaces one only when forced, and      *)
(* refuses only for the reason it gives.                                    *)
KeepsPromises == Promise!Spec

-----------------------------------------------------------------------------
(* What the repository says of the same code, and the code does not do.     *)

(* page_table.h:119 "The physical address corresponding to the given       *)
(* virtual address or 0 if a mapping does not exist."                       *)
TranslateFindsMapping ==
  last # NoCall /\ last.result = "NoError" /\ pc = "idle" =>
    translateVirtToPhys(last.call.va) = last.call.pa
=============================================================================
