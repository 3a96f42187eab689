------------------------------- MODULE MemoryMap -------------------------------
(***************************************************************************)
(* getMemoryMap (bootloader/src/main.cpp): ask the firmware for the memory  *)
(* map into one page and, if the map is larger, into as many pages as the   *)
(* firmware says.  The map itself belongs to the firmware: its size and its *)
(* key change with every allocation, those of getMemoryMap included.        *)
(***************************************************************************)
EXTENDS Integers

CONSTANTS
  MapSizes,       \* the sizes in bytes the firmware's map may have
  KeyMod          \* keys are machine words: one comes back after so many changes

PAGE_SIZE == 4096

VARIABLES
  fwSize, fwKey,  \* the firmware's map: its size, and the number of its changes
  mapPc,          \* "first", "free", "again", "retry", "returned"
  memMapPtr,      \* 0, or the number of the allocation it points at
  mapSize,        \* the size told to GetMemoryMap, and its answer
  mapKey,
  owned,          \* pages that getMemoryMap has not given back, as [addr, pages]
  isSuccessful    \* *isSuccessful, the caller's flag

firmwareVars == <<fwSize, fwKey>>
mapVars == <<mapPc, memMapPtr, mapSize, mapKey, owned, isSuccessful>>
-----------------------------------------------------------------------------
(* Any allocation may split or join entries of the map. *)
MapChanges == fwSize' \in MapSizes /\ fwKey' = (fwKey + 1) % KeyMod

Init ==
  /\ fwSize \in MapSizes /\ fwKey = 0
  /\ mapPc = "first" /\ memMapPtr = 0 /\ mapSize = PAGE_SIZE /\ mapKey = 0
  /\ owned = {} /\ isSuccessful = FALSE

(* A grant may be at address 0, which AllocateAnyPages does not exclude. *)
AllocatePages(id, pages) ==
  \E addr \in {0, id} :
    /\ owned' = owned \cup {[addr |-> addr, pages |-> pages]}
    /\ memMapPtr' = addr
    /\ MapChanges

AllocateFirst ==
  /\ mapPc = "first"
  /\ \/ AllocatePages(1, 1) /\ mapPc' = IF memMapPtr' = 0 THEN "returned" ELSE "get"
     \/ mapPc' = "returned" /\ UNCHANGED <<firmwareVars, memMapPtr, owned>>
  /\ UNCHANGED <<mapSize, mapKey, isSuccessful>>

(* GetMemoryMap fills the buffer if the size it is told suffices, and       *)
(* reports the size of the map otherwise.                                   *)
Filled ==
  /\ memMapPtr # 0 /\ mapSize >= fwSize
  /\ mapSize' = fwSize /\ mapKey' = fwKey
TooSmall == mapSize < fwSize /\ mapSize' = fwSize /\ UNCHANGED mapKey
OtherError == UNCHANGED <<mapSize, mapKey>>

(* Mutant of GetFirst: after an unexpected error it starts over. *)
GetFirstRepeats ==
  /\ mapPc = "get"
  /\ \/ Filled /\ mapPc' = "returned" /\ isSuccessful' = TRUE
     \/ TooSmall /\ mapPc' = "free" /\ UNCHANGED isSuccessful
     \/ OtherError /\ mapPc' = "first" /\ UNCHANGED isSuccessful
  /\ UNCHANGED <<firmwareVars, memMapPtr, owned>>

GetFirst ==
  /\ mapPc = "get"
  /\ \/ Filled /\ mapPc' = "returned" /\ isSuccessful' = TRUE
     \/ TooSmall /\ mapPc' = "free" /\ UNCHANGED isSuccessful
     \/ OtherError /\ mapPc' = "returned" /\ UNCHANGED isSuccessful
  /\ UNCHANGED <<firmwareVars, memMapPtr, owned>>

(* Mutant of FreeFirst: the page is kept. *)
FreeFirstForgotten ==
  /\ mapPc = "free"
  /\ mapPc' = "again"
  /\ UNCHANGED <<firmwareVars, memMapPtr, mapSize, mapKey, owned, isSuccessful>>

FreeFirst ==
  /\ mapPc = "free"
  /\ \/ /\ owned' = {b \in owned : b.addr # memMapPtr}
        /\ MapChanges /\ mapPc' = "again"
     \/ mapPc' = "returned" /\ UNCHANGED <<firmwareVars, owned>>
  /\ UNCHANGED <<memMapPtr, mapSize, mapKey, isSuccessful>>

(* Mutant of PagesOf: the last page is cut off. *)
PagesOfDown(size) == size \div PAGE_SIZE

PagesOf(size) == (size + PAGE_SIZE - 1) \div PAGE_SIZE

(* The second address is not compared with 0. *)
AllocateAgain ==
  /\ mapPc = "again"
  /\ \/ AllocatePages(2, PagesOf(mapSize)) /\ mapPc' = "retry"
     \/ mapPc' = "returned" /\ UNCHANGED <<firmwareVars, memMapPtr, owned>>
  /\ UNCHANGED <<mapSize, mapKey, isSuccessful>>

GetAgain ==
  /\ mapPc = "retry"
  /\ mapPc' = "returned"
  /\ \/ Filled /\ isSuccessful' = TRUE
     \/ (TooSmall \/ OtherError) /\ UNCHANGED isSuccessful
  /\ UNCHANGED <<firmwareVars, memMapPtr, owned>>

Next == AllocateFirst \/ GetFirst \/ FreeFirst \/ AllocateAgain \/ GetAgain
-----------------------------------------------------------------------------
MapTypeOK ==
  /\ fwSize \in MapSizes /\ fwKey \in 0 .. KeyMod - 1
  /\ mapPc \in {"first", "get", "free", "again", "retry", "returned"}
  /\ memMapPtr \in 0 .. 2 /\ mapSize \in MapSizes \cup {PAGE_SIZE} /\ mapKey \in 0 .. KeyMod - 1
  /\ owned \subseteq [addr : 0 .. 2, pages : Nat]
  /\ isSuccessful \in BOOLEAN

(* GetMemoryMap is never told of more bytes than the live pages at the      *)
(* address it is given hold, also after the first page was exchanged for    *)
(* more.                                                                    *)
TargetHoldsMap ==
  mapPc \in {"get", "retry"} =>
    \E b \in owned : b.addr = memMapPtr /\ mapSize <= PAGE_SIZE * b.pages

(* The first page is given back before the larger buffer is taken: whatever *)
(* fails, at most one allocation is left, and a map reported as valid has   *)
(* one, with room for all of it.                                            *)
OneBuffer ==
  /\ \A a, b \in owned : a = b
  /\ mapPc = "returned" /\ isSuccessful =>
       \E b \in owned : b.addr = memMapPtr /\ mapSize <= PAGE_SIZE * b.pages

-----------------------------------------------------------------------------
(* main.cpp:136 "we free the one page that we allocated, so we can allocate *)
(* the correct size": the size told to the second GetMemoryMap suffices.    *)
SecondSizeSuffices == mapPc = "retry" => mapSize >= fwSize
=============================================================================
