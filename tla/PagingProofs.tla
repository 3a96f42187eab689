----------------------------- MODULE PagingProofs ------------------------------
(***************************************************************************)
(* Proofs about Paging, for tables of every size, every set of addresses    *)
(* and flags, every allocator and every plain contents of low memory.       *)
(***************************************************************************)
EXTENDS Paging, TLAPS

(* An address that is a multiple of the page size. *)
Aligned(n) == n % PageSize = 0

(* The mask keeps nothing of a page-aligned address. *)
LEMMA AlignedMask ==
  ASSUME NEW n \in Nat, Aligned(n)
  PROVE  (n \div 8) % 2 = 0 /\ (n \div 32) % 2 = 0
  BY DEF Aligned, PageSize

LEMMA GetAddrZero ==
  ASSUME NEW e \in Entries, Aligned(e.addr)
  PROVE  GetAddr(e) = 0
<1>1. e.addr \in Nat
  BY DEF Entries
<1>2. (e.addr \div 8) % 2 = 0 /\ (e.addr \div 32) % 2 = 0
  BY <1>1, AlignedMask
<1> QED
  BY <1>2 DEF GetAddr

LEMMA EntryType ==
  ASSUME NEW pa \in Nat, NEW flags
  PROVE  /\ constructTableEntry(pa, flags) \in Entries
         /\ constructTableEntry(pa, flags).addr = pa
         /\ "Present" \in flags => constructTableEntry(pa, flags) # Zero
<1>1. constructTableEntry(pa, flags).flags \subseteq X86_64PageFlags
  BY DEF constructTableEntry, X86_64PageFlags
<1>2. "Present" \in flags => "Present" \in constructTableEntry(pa, flags).flags
  BY DEF constructTableEntry
<1> QED
  BY <1>1, <1>2 DEF constructTableEntry, Entries, Zero

LEMMA ZeroType == Zero \in Entries /\ Aligned(Zero.addr)
  BY DEF Zero, Entries, Aligned, PageSize

(* The entry of the k-th frame. *)
LEMMA FrameEntry ==
  ASSUME NEW k \in DOMAIN Frames
  PROVE  /\ TableEntry(Frames[k]) \in Entries /\ TableEntry(Frames[k]).addr = Frames[k]
         /\ TableEntry(Frames[k]) # Zero /\ Aligned(TableEntry(Frames[k]).addr)
<1>1. Frames[k] \in Nat /\ Frames[k] % PageSize = 0
  BY AllocatorAssumption
<1> QED
  BY <1>1, EntryType DEF TableEntry, Aligned

(* An address is a number, and a multiple of the page size. *)
LEMMA AddressType ==
  ASSUME NEW va \in VirtAddrs
  PROVE  Address(va) \in Nat /\ Aligned(Address(va))
<1>1. va.l4 \in Nat /\ va.l3 \in Nat /\ va.l2 \in Nat /\ va.l1 \in Nat /\ NumEntries \in Nat
  BY CallerAssumption, SizeAssumption DEF VirtAddr, Index
<1>2. va.l4 * NumEntries \in Nat
  BY <1>1
<1>3. (va.l4 * NumEntries + va.l3) * NumEntries \in Nat
  BY <1>1, <1>2
<1>4. ((va.l4 * NumEntries + va.l3) * NumEntries + va.l2) * NumEntries \in Nat
  BY <1>1, <1>3
<1> DEFINE page == ((va.l4 * NumEntries + va.l3) * NumEntries + va.l2) * NumEntries + va.l1
<1>5. page \in Nat
  BY <1>1, <1>4
<1>6. Address(va) = page * PageSize
  BY DEF Address
<1> HIDE DEF page
<1> QED
  BY <1>5, <1>6 DEF Aligned, PageSize

LEMMA CallType ==
  ASSUME NEW c \in Calls
  PROVE  /\ c.va \in VirtAddr /\ c.va \in VirtAddrs /\ c.pa \in Nat /\ Aligned(c.pa)
         /\ "Present" \in c.flags /\ c.force \in BOOLEAN
  BY CallerAssumption, AddressType DEF Calls, Aligned

-----------------------------------------------------------------------------
(* The inductive invariant. *)

(* Every entry in memory was built from a page-aligned address. *)
PlainInv ==
  /\ \A i \in Index : Aligned(root[i].addr)
  /\ \A w \in LowWords : Aligned(low[w].addr)
  /\ Aligned(entry.addr)

(* A walk has a call, and until it writes the page's entry only slot 1 of   *)
(* low memory differs from what the call found.                             *)
CallInv ==
  /\ pc \in {"l4", "l3", "l2", "l1"} => call \in Calls
  /\ pc = "l4" => low = before

(* The entry of every mapped address is in use. *)
MappedInv == \A va \in mapped : low[va.l1] # Zero

IInv == /\ TypeOK /\ PlainInv /\ CallInv /\ MappedInv
        /\ FailureKeepsEntries /\ RootNamesFrames

(* Where the words of a table are. *)
LEMMA WordType ==
  ASSUME NEW i \in Index, SizeAssumption
  PROVE  /\ Word(0, i) = i /\ i \in LowWords
         /\ Word(0, RECURSIVE_INDEX) = RECURSIVE_INDEX /\ RECURSIVE_INDEX \in LowWords
  BY DEF Word, Index, LowWords, RECURSIVE_INDEX, SizeAssumption

LEMMA InitIInv == Init => IInv
<1> SUFFICES ASSUME Init PROVE IInv
  OBVIOUS
<1> USE DEF Init
<1>1. low \in [LowWords -> Entries] /\ \A w \in LowWords : Aligned(low[w].addr)
  BY LowMemoryAssumption DEF Aligned
<1>2. Len(Frames) \in Nat
  BY AllocatorAssumption
<1>3. TypeOK
  BY <1>1, <1>2, ZeroType DEF TypeOK
<1>4. PlainInv /\ CallInv /\ MappedInv
  BY <1>1, ZeroType DEF PlainInv, CallInv, MappedInv
<1>5. FailureKeepsEntries /\ RootNamesFrames
  BY DEF FailureKeepsEntries, RootNamesFrames
<1> QED
  BY <1>3, <1>4, <1>5 DEF IInv

(* translateVirtToPhys gives up at the first level. *)
LEMMA TranslateZero ==
  ASSUME TypeOK, PlainInv, NEW va \in VirtAddrs
  PROVE  translateVirtToPhys(va) = 0
<1>1. va.l4 \in Index
  BY CallerAssumption DEF VirtAddr
<1>2. root[va.l4] \in Entries /\ Aligned(root[va.l4].addr)
  BY <1>1 DEF TypeOK, PlainInv
<1> QED
  BY <1>2, GetAddrZero DEF translateVirtToPhys

(* The three things one level of the walk can do. *)
LevelFollow(e, next) ==
  /\ e # Zero /\ entry' = e /\ pc' \in {next, "faulted"}
  /\ UNCHANGED <<root, low, allocated, last>>

LevelFail ==
  /\ pc' = "idle" /\ last' = [call |-> call, result |-> "AllocFailed"]
  /\ UNCHANGED <<root, low, allocated, entry>>

LevelAlloc(slot, next) ==
  /\ allocated + 1 \in DOMAIN Frames /\ allocated' = allocated + 1
  /\ entry' = TableEntry(Frames[allocated + 1])
  /\ root' = [root EXCEPT ![slot] = TableEntry(Frames[allocated + 1])]
  /\ low' \in {low, [low EXCEPT ![RECURSIVE_INDEX] = TableEntry(Frames[allocated + 1])]}
  /\ pc' \in {next, "faulted"} /\ UNCHANGED last

LEMMA LevelCases ==
  ASSUME TypeOK, NEW e, NEW slot, NEW next, Level(e, slot, next)
  PROVE  LevelFollow(e, next) \/ LevelFail \/ LevelAlloc(slot, next)
<1>1. CASE e # Zero /\ Level(e, slot, next)
  BY <1>1 DEF Level, LevelFollow, memVars
<1>2. CASE Return(call, "AllocFailed") /\ UNCHANGED <<memVars, entry>>
  BY <1>2 DEF LevelFail, Return, memVars
<1>3. CASE e = Zero /\ allocated < Len(Frames) /\ allocated' = allocated + 1 /\ Level(e, slot, next)
  <2>1. allocated + 1 \in DOMAIN Frames
    BY <1>3, AllocatorAssumption DEF TypeOK
  <2>2. GetAddr(TableEntry(Frames[allocated + 1])) = 0
    BY <2>1, FrameEntry, GetAddrZero
  <2>3. Word(0, RECURSIVE_INDEX) = RECURSIVE_INDEX
    BY DEF Word, RECURSIVE_INDEX
  <2>4. allocated' # allocated
    BY <1>3 DEF TypeOK
  <2>5. /\ entry' = TableEntry(Frames[allocated + 1])
        /\ root' = [root EXCEPT ![slot] = entry']
        /\ low' = IF pagingDisabledNow
                    THEN [low EXCEPT ![Word(GetAddr(entry'), RECURSIVE_INDEX)] = entry']
                    ELSE low
        /\ pc' = IF pagingDisabledNow THEN next ELSE "faulted"
        /\ UNCHANGED last
    BY <1>3, <2>4 DEF Level, memVars
  <2> QED
    BY <1>3, <2>1, <2>2, <2>3, <2>5 DEF LevelAlloc
<1> QED
  BY <1>1, <1>2, <1>3 DEF Level

(* One step of the walk, with the level it is at. *)
LEMMA WalkCases ==
  ASSUME TypeOK, PlainInv, CallInv, Walk
  PROVE  /\ call \in Calls /\ pc \in {"l4", "l3", "l2"}
         /\ UNCHANGED <<pagingDisabledNow, call, cr3, activated, mapped, before>>
         /\ \E slot \in Index, next \in {"l3", "l2", "l1"} :
              \/ LevelFail
              \/ LevelAlloc(slot, next)
              \/ \E e \in Entries : Aligned(e.addr) /\ LevelFollow(e, next)
<1>1. call \in Calls
  BY DEF Walk, CallInv
<1>2. call.va.l4 \in Index /\ call.va.l3 \in Index /\ call.va.l2 \in Index
  BY <1>1, CallType DEF VirtAddr
<1>3. GetAddr(entry) = 0
  BY GetAddrZero DEF TypeOK, PlainInv
<1>4. CASE pc = "l4"
  <2> DEFINE e == root[call.va.l4]
  <2>1. e \in Entries /\ Aligned(e.addr) /\ Level(e, call.va.l4, "l3")
    BY <1>2, <1>4 DEF Walk, TypeOK, PlainInv
  <2> HIDE DEF e
  <2>2. LevelFollow(e, "l3") \/ LevelFail \/ LevelAlloc(call.va.l4, "l3")
    BY <2>1, LevelCases
  <2> QED
    BY <1>1, <1>2, <1>4, <2>1, <2>2 DEF Walk
<1>5. CASE pc = "l3"
  <2> DEFINE e == low[call.va.l3]
  <2>1. e \in Entries /\ Aligned(e.addr) /\ Level(e, call.va.l3, "l2")
    BY <1>2, <1>3, <1>5, WordType, SizeAssumption DEF Walk, TypeOK, PlainInv
  <2> HIDE DEF e
  <2>2. LevelFollow(e, "l2") \/ LevelFail \/ LevelAlloc(call.va.l3, "l2")
    BY <2>1, LevelCases
  <2> QED
    BY <1>1, <1>2, <1>5, <2>1, <2>2 DEF Walk
<1>6. CASE pc = "l2"
  <2> DEFINE e == low[call.va.l2]
  <2>1. e \in Entries /\ Aligned(e.addr) /\ Level(e, call.va.l2, "l1")
    BY <1>2, <1>3, <1>6, WordType, SizeAssumption DEF Walk, TypeOK, PlainInv
  <2> HIDE DEF e
  <2>2. LevelFollow(e, "l1") \/ LevelFail \/ LevelAlloc(call.va.l2, "l1")
    BY <2>1, LevelCases
  <2> QED
    BY <1>1, <1>2, <1>6, <2>1, <2>2 DEF Walk
<1> QED
  BY <1>4, <1>5, <1>6 DEF Walk

-----------------------------------------------------------------------------
(* The steps, each reduced to what it does to the parts of the invariant.   *)

(* A call begins with one of the calls callers make. *)
LEMMA BeginCases ==
  ASSUME MapPage \/ IdentityMapPage
  PROVE  \E c \in Calls : Begin(c)
<1>1. CASE MapPage
  <2>1. PICK va \in VirtAddrs, pa \in PhysAddrs, flags \in FlagSets, force \in BOOLEAN :
          Begin([va |-> va, pa |-> pa, flags |-> flags, force |-> force])
    BY <1>1 DEF MapPage
  <2>2. [va |-> va, pa |-> pa, flags |-> flags, force |-> force] \in Calls
    BY DEF Calls
  <2> QED
    BY <2>1, <2>2
<1>2. CASE IdentityMapPage
  <2>1. PICK va \in VirtAddrs, flags \in FlagSets, force \in BOOLEAN :
          Begin([va |-> va, pa |-> Address(va), flags |-> flags, force |-> force])
    BY <1>2 DEF IdentityMapPage
  <2>2. [va |-> va, pa |-> Address(va), flags |-> flags, force |-> force] \in Calls
    BY DEF Calls
  <2> QED
    BY <2>1, <2>2
<1> QED
  BY <1>1, <1>2

(* What Begin leaves alone and what it sets. *)
LEMMA BeginStep ==
  ASSUME NEW c \in Calls, Begin(c)
  PROVE  /\ UNCHANGED <<pagingDisabledNow, root, low, allocated, entry, cr3, activated, mapped>>
         /\ pc = "idle" /\ call' = c /\ before' = low
         /\ \/ /\ pc' = "l4" /\ UNCHANGED last
            \/ /\ pc' = "idle"
               /\ \E r \in {"InvalidVirtAddress", "EntryExists"} : last' = [call |-> c, result |-> r]
<1>1. EarlyResult(c) \in {"InvalidVirtAddress", "EntryExists", "NoError"}
  BY DEF EarlyResult
<1> QED
  BY <1>1 DEF Begin, Return, memVars

(* The leaf is the word of low memory with the index of the address itself. *)
LEMMA LeafStep ==
  ASSUME TypeOK, PlainInv, CallInv, MapLeaf
  PROVE  /\ call \in Calls /\ call.va.l1 \in Index /\ call.va.l1 \in LowWords
         /\ pc = "l1" /\ pc' = "idle"
         /\ UNCHANGED <<pagingDisabledNow, root, allocated, call, entry, cr3, activated, before>>
         /\ \/ /\ low[call.va.l1] # Zero /\ ~call.force
               /\ last' = [call |-> call, result |-> "EntryExists"]
               /\ UNCHANGED <<low, mapped>>
            \/ /\ low[call.va.l1] = Zero \/ call.force
               /\ low' = [low EXCEPT ![call.va.l1] = CallEntry(call)]
               /\ mapped' = mapped \cup {call.va}
               /\ last' = [call |-> call, result |-> "NoError"]
<1>1. call \in Calls
  BY DEF MapLeaf, CallInv
<1>2. call.va.l1 \in Index
  BY <1>1, CallType DEF VirtAddr
<1>3. GetAddr(entry) = 0
  BY GetAddrZero DEF TypeOK, PlainInv
<1>4. Word(GetAddr(entry), call.va.l1) = call.va.l1 /\ call.va.l1 \in LowWords
  BY <1>2, <1>3, WordType, SizeAssumption
<1> QED
  BY <1>1, <1>2, <1>4 DEF MapLeaf, WriteLeaf, Return, CallEntry

LEMMA CallEntryType ==
  ASSUME NEW c \in Calls
  PROVE  CallEntry(c) \in Entries /\ Aligned(CallEntry(c).addr) /\ CallEntry(c) # Zero
  BY CallType, EntryType DEF CallEntry

(* A call that begins. *)
LEMMA BeginKeeps ==
  ASSUME IInv, MapPage \/ IdentityMapPage
  PROVE  IInv'
<1> USE DEF IInv
<1>1. PICK c \in Calls : Begin(c)
  BY BeginCases
<1>2. /\ UNCHANGED <<pagingDisabledNow, root, low, allocated, entry, cr3, activated, mapped>>
      /\ call' = c /\ before' = low /\ pc' \in {"l4", "idle"}
      /\ last' = last \/ last' \in [call : Calls, result : Results]
  <2>1. UNCHANGED last \/ \E r \in {"InvalidVirtAddress", "EntryExists"} : last' = [call |-> c, result |-> r]
    BY <1>1, BeginStep
  <2> QED
    BY <1>1, <2>1, BeginStep DEF Results
<1>3. TypeOK'
  BY <1>2 DEF TypeOK
<1>4. PlainInv' /\ CallInv' /\ MappedInv' /\ FailureKeepsEntries' /\ RootNamesFrames'
  BY <1>2 DEF PlainInv, CallInv, MappedInv, FailureKeepsEntries, RootNamesFrames
<1> QED
  BY <1>3, <1>4

(* A level of the walk that follows an entry or fails. *)
LEMMA WalkKeeps ==
  ASSUME IInv, call \in Calls, pc \in {"l4", "l3", "l2"},
         UNCHANGED <<pagingDisabledNow, call, cr3, activated, mapped, before>>,
         UNCHANGED <<root, low, allocated>>,
         NEW next \in {"l3", "l2", "l1"},
         LevelFail \/ \E e \in Entries : Aligned(e.addr) /\ LevelFollow(e, next)
  PROVE  IInv'
<1> USE DEF IInv
<1>1. /\ entry' \in Entries /\ Aligned(entry'.addr)
      /\ pc' \in {"l3", "l2", "l1", "idle", "faulted"}
      /\ last' = last \/ last' \in [call : Calls, result : Results]
  BY DEF LevelFail, LevelFollow, TypeOK, PlainInv, Results
<1>2. TypeOK'
  BY <1>1 DEF TypeOK
<1>3. PlainInv' /\ CallInv' /\ MappedInv' /\ RootNamesFrames'
  BY <1>1 DEF PlainInv, CallInv, MappedInv, RootNamesFrames
<1>4. \A w \in LowWords \ {RECURSIVE_INDEX} : low[w] = before[w]
  BY DEF CallInv, FailureKeepsEntries
<1>5. FailureKeepsEntries'
  BY <1>4 DEF FailureKeepsEntries
<1> QED
  BY <1>2, <1>3, <1>5

(* A level of the walk that puts a frame into the root table. *)
LEMMA AllocKeeps ==
  ASSUME IInv, call \in Calls, pc \in {"l4", "l3", "l2"},
         UNCHANGED <<pagingDisabledNow, call, cr3, activated, mapped, before>>,
         NEW slot \in Index, NEW next \in {"l3", "l2", "l1"}, LevelAlloc(slot, next)
  PROVE  IInv'
<1> USE DEF IInv
<1> DEFINE new == TableEntry(Frames[allocated + 1])
<1>1. /\ allocated + 1 \in DOMAIN Frames /\ allocated' = allocated + 1
      /\ entry' = new /\ root' = [root EXCEPT ![slot] = new]
      /\ low' \in {low, [low EXCEPT ![RECURSIVE_INDEX] = new]}
      /\ pc' \in {"l3", "l2", "l1", "faulted"} /\ UNCHANGED last
  BY DEF LevelAlloc
<1>2. new \in Entries /\ new.addr = Frames[allocated + 1] /\ new # Zero /\ Aligned(new.addr)
  BY <1>1, FrameEntry
<1>3. \A k \in 1 .. allocated : k \in DOMAIN Frames /\ TableEntry(Frames[k]) # new
  <2> SUFFICES ASSUME NEW k \in 1 .. allocated
               PROVE  k \in DOMAIN Frames /\ TableEntry(Frames[k]) # new
    OBVIOUS
  <2>1. k \in DOMAIN Frames /\ k # allocated + 1
    BY <1>1, AllocatorAssumption DEF TypeOK
  <2>2. Frames[k] # Frames[allocated + 1]
    BY <1>1, <2>1, AllocatorAssumption
  <2> QED
    BY <1>2, <2>1, <2>2, FrameEntry
<1>4. root \in [Index -> Entries] /\ low \in [LowWords -> Entries] /\ RECURSIVE_INDEX \in LowWords
      /\ allocated \in 0 .. Len(Frames) /\ Len(Frames) \in Nat
  BY SizeAssumption, AllocatorAssumption DEF TypeOK, LowWords, RECURSIVE_INDEX
<1>5. allocated' \in 0 .. Len(Frames)
  <2>1. allocated + 1 \in 1 .. Len(Frames)
    BY <1>1, AllocatorAssumption
  <2> QED
    BY <1>1, <2>1
<1> HIDE DEF new
<1>6. /\ low' \in [LowWords -> Entries]
      /\ \A w \in LowWords : low'[w] = low[w] \/ low'[w] = new
      /\ \A w \in LowWords \ {RECURSIVE_INDEX} : low'[w] = low[w]
  BY <1>1, <1>2, <1>4
<1>7. /\ root' \in [Index -> Entries] /\ root'[slot] = new
      /\ \A i \in Index \ {slot} : root'[i] = root[i]
  BY <1>1, <1>2, <1>4
<1>8. TypeOK'
  BY <1>1, <1>2, <1>5, <1>6, <1>7 DEF TypeOK
<1>9. PlainInv'
  BY <1>1, <1>2, <1>6, <1>7 DEF PlainInv
<1>10. CallInv'
  BY <1>1 DEF CallInv
<1>11. MappedInv'
  <2>1. \A va \in mapped : va.l1 \in LowWords
    BY CallerAssumption, WordType, SizeAssumption DEF TypeOK, VirtAddr
  <2> QED
    BY <1>2, <1>6, <2>1 DEF MappedInv
<1>12. FailureKeepsEntries'
  <2>1. \A w \in LowWords \ {RECURSIVE_INDEX} : low[w] = before[w]
    BY DEF CallInv, FailureKeepsEntries
  <2> QED
    BY <1>6, <2>1 DEF FailureKeepsEntries
<1>13. RootNamesFrames'
  <2>1. ASSUME NEW i \in Index, root'[i] # Zero
        PROVE  \E k \in 1 .. allocated' : root'[i] = TableEntry(Frames[k])
    <3>1. CASE i = slot
      BY <1>1, <1>4, <1>7, <3>1 DEF new
    <3>2. CASE i # slot
      <4>1. PICK k \in 1 .. allocated : root[i] = TableEntry(Frames[k])
        BY <1>7, <2>1, <3>2 DEF RootNamesFrames
      <4>2. k \in 1 .. allocated'
        BY <1>1, <1>4
      <4> QED
        BY <1>7, <3>2, <4>1, <4>2
    <3> QED
      BY <3>1, <3>2
  <2>2. ASSUME NEW i \in Index, NEW j \in Index, root'[i] # Zero, root'[i] = root'[j]
        PROVE  i = j
    <3>1. \A n \in Index \ {slot} : root[n] # new
      BY <1>2, <1>3 DEF RootNamesFrames
    <3> QED
      BY <1>7, <2>2, <3>1 DEF RootNamesFrames
  <2> QED
    BY <2>1, <2>2 DEF RootNamesFrames
<1> QED
  BY <1>8, <1>9, <1>10, <1>11, <1>12, <1>13

(* The page's own entry. *)
LEMMA LeafKeeps ==
  ASSUME IInv, MapLeaf
  PROVE  IInv'
<1> USE DEF IInv
<1> DEFINE l1 == call.va.l1
<1>1. /\ call \in Calls /\ l1 \in LowWords /\ call.va \in VirtAddrs
      /\ pc = "l1" /\ pc' = "idle"
      /\ UNCHANGED <<pagingDisabledNow, root, allocated, call, entry, cr3, activated, before>>
  BY LeafStep, CallType
<1>2. \A w \in LowWords \ {RECURSIVE_INDEX} : low[w] = before[w]
  BY <1>1 DEF FailureKeepsEntries
<1>3. CASE last' = [call |-> call, result |-> "EntryExists"] /\ UNCHANGED <<low, mapped>>
  <2>1. TypeOK'
    BY <1>1, <1>3 DEF TypeOK, Results
  <2> QED
    BY <1>1, <1>2, <1>3, <2>1 DEF PlainInv, CallInv, MappedInv, FailureKeepsEntries, RootNamesFrames
<1>4. CASE /\ low' = [low EXCEPT ![l1] = CallEntry(call)] /\ mapped' = mapped \cup {call.va}
           /\ last' = [call |-> call, result |-> "NoError"]
  <2>1. /\ low' \in [LowWords -> Entries] /\ low'[l1] = CallEntry(call)
        /\ \A w \in LowWords \ {l1} : low'[w] = low[w]
    BY <1>1, <1>4, CallEntryType DEF TypeOK
  <2>2. CallEntry(call) # Zero /\ Aligned(CallEntry(call).addr)
    BY <1>1, CallEntryType
  <2>3. TypeOK'
    BY <1>1, <1>4, <2>1 DEF TypeOK, Results
  <2>4. PlainInv'
    BY <1>1, <2>1, <2>2 DEF PlainInv
  <2>5. MappedInv'
    <3>1. \A va \in mapped : va.l1 \in LowWords
      BY CallerAssumption, WordType, SizeAssumption DEF TypeOK, VirtAddr
    <3> QED
      BY <1>4, <2>1, <2>2, <3>1 DEF MappedInv
  <2>6. FailureKeepsEntries'
    BY <1>1, <1>4 DEF FailureKeepsEntries
  <2> QED
    BY <1>1, <2>3, <2>4, <2>5, <2>6 DEF CallInv, RootNamesFrames
<1> QED
  BY <1>1, <1>3, <1>4, LeafStep

(* The steps that leave the tables alone. *)
LEMMA OthersKeep ==
  ASSUME IInv, LowFault \/ Activate \/ Stopped \/ UNCHANGED vars
  PROVE  IInv'
<1> USE DEF IInv
<1>1. /\ UNCHANGED <<pagingDisabledNow, root, low, allocated, call, entry, last, mapped, before>>
      /\ pc' \in {pc, "faulted"}
      /\ cr3' \in {cr3, "root"} /\ activated' \in {activated, "false"}
  BY DEF LowFault, Activate, Stopped, vars, memVars
<1>2. TypeOK'
  BY <1>1 DEF TypeOK
<1> QED
  BY <1>1, <1>2 DEF PlainInv, CallInv, MappedInv, FailureKeepsEntries, RootNamesFrames

LEMMA NextIInv == IInv /\ [Next]_vars => IInv'
<1> SUFFICES ASSUME IInv, [Next]_vars PROVE IInv'
  OBVIOUS
<1>1. CASE MapPage \/ IdentityMapPage
  BY <1>1, BeginKeeps
<1>2. CASE Walk
  <2>1. PICK slot \in Index, next \in {"l3", "l2", "l1"} :
          \/ LevelFail
          \/ LevelAlloc(slot, next)
          \/ \E e \in Entries : Aligned(e.addr) /\ LevelFollow(e, next)
    BY <1>2, WalkCases DEF IInv
  <2>2. /\ call \in Calls /\ pc \in {"l4", "l3", "l2"}
        /\ UNCHANGED <<pagingDisabledNow, call, cr3, activated, mapped, before>>
    BY <1>2, WalkCases DEF IInv
  <2>3. CASE LevelAlloc(slot, next)
    BY <2>2, <2>3, AllocKeeps
  <2>4. CASE LevelFail \/ \E e \in Entries : Aligned(e.addr) /\ LevelFollow(e, next)
    <3>1. UNCHANGED <<root, low, allocated>>
      BY <2>4 DEF LevelFail, LevelFollow
    <3> QED
      BY <2>2, <2>4, <3>1, WalkKeeps
  <2> QED
    BY <2>1, <2>3, <2>4
<1>3. CASE MapLeaf
  BY <1>3, LeafKeeps
<1>4. CASE LowFault \/ Activate \/ Stopped \/ UNCHANGED vars
  BY <1>4, OthersKeep
<1> QED
  BY <1>1, <1>2, <1>3, <1>4 DEF Next

(* The inductive invariant holds in every state of every run. *)
THEOREM Invariance == Spec => []IInv
<1> QED
  BY InitIInv, NextIInv, PTL DEF Spec

(* Every variable keeps its type: in particular every entry mapPage ever    *)
(* stores in a table has only bits the processor defines.                   *)
THEOREM TypeCorrect == Spec => []TypeOK
<1>1. IInv => TypeOK
  BY DEF IInv
<1> QED
  BY <1>1, Invariance, PTL

(* A call of mapPage that fails, at whichever level the allocator gave up   *)
(* or the existing entry was found, has changed no word of low memory but   *)
(* the one of the recursive slot.                                           *)
THEOREM FailuresKeep == Spec => []FailureKeepsEntries
<1>1. IInv => FailureKeepsEntries
  BY DEF IInv
<1> QED
  BY <1>1, Invariance, PTL

(* The root table names only frames the allocator gave mapPage, each once.  *)
THEOREM FramesNamed == Spec => []RootNamesFrames
<1>1. IInv => RootNamesFrames
  BY DEF IInv
<1> QED
  BY <1>1, Invariance, PTL

(* mapPage never succeeds twice for one address unless forced, however the  *)
(* tables of the addresses mapped in between share memory with its own.     *)
THEOREM NoDoubleMapping == Spec => NoDoubleMap
<1>1. IInv /\ [Next]_vars
        => [pc = "l1" /\ pc' = "idle" /\ call.va \in mapped /\ ~call.force
              => last'.result # "NoError"]_vars
  <2> SUFFICES ASSUME IInv, Next, pc = "l1", pc' = "idle", call.va \in mapped, ~call.force
               PROVE  last'.result # "NoError"
    BY DEF vars
  <2>1. MapLeaf
    <3>1. ~MapPage /\ ~IdentityMapPage
      BY DEF MapPage, IdentityMapPage, Begin
    <3>2. ~Walk /\ ~LowFault /\ ~Activate /\ ~Stopped
      BY DEF Walk, LowFault, Activate, Stopped
    <3> QED
      BY <3>1, <3>2 DEF Next
  <2>2. low[call.va.l1] # Zero
    BY DEF IInv, MappedInv
  <2>3. last' = [call |-> call, result |-> "EntryExists"]
    BY <2>1, <2>2, LeafStep DEF IInv
  <2> QED
    BY <2>3
<1> QED
  BY <1>1, Invariance, PTL DEF Spec, NoDoubleMap

(* translateVirtToPhys answers 0 in every state: the check for an existing  *)
(* mapping at the head of mapPage never refuses a call.                     *)
THEOREM TranslateFindsNothing == Spec => [](\A va \in VirtAddrs : translateVirtToPhys(va) = 0)
<1>1. IInv => \A va \in VirtAddrs : translateVirtToPhys(va) = 0
  BY TranslateZero DEF IInv
<1> QED
  BY <1>1, Invariance, PTL

-----------------------------------------------------------------------------
(* The refinement: under which conditions mapPage keeps the promises of its *)
(* header.                                                                  *)

(* No two addresses share an L1 index, and none uses the recursive slot. *)
Apart ==
  /\ \A va, other \in VirtAddrs : va.l1 = other.l1 => va = other
  /\ \A va \in VirtAddrs : va.l1 # RECURSIVE_INDEX

(* The words the page entries will be in are 0 at the start. *)
ClearStart == \A m \in LowMemory : \A va \in VirtAddrs : m[va.l1] = Zero

(* The entries the abstract address space sees. *)
Space == [va \in VirtAddrs |-> low[va.l1]]

LEMMA PromiseInit ==
  ASSUME ClearStart, Init
  PROVE  Promise!Init
<1>1. \A va \in VirtAddrs : low[va.l1] = Zero
  BY DEF ClearStart, Init
<1> QED
  BY <1>1 DEF Init, Promise!Init

(* Nothing but the page's own entry reaches the abstract space. *)
LEMMA SpaceKept ==
  ASSUME Apart, TypeOK, Next, ~MapLeaf, PlainInv, CallInv
  PROVE  Space' = Space
<1>1. \A va \in VirtAddrs : va.l1 # RECURSIVE_INDEX /\ va.l1 \in LowWords
  BY CallerAssumption, WordType, SizeAssumption DEF Apart, VirtAddr
<1>2. \A w \in LowWords \ {RECURSIVE_INDEX} : low'[w] = low[w]
  <2>1. CASE MapPage \/ IdentityMapPage
    BY <2>1, BeginCases, BeginStep
  <2>2. CASE Walk
    <3>1. \/ UNCHANGED low
          \/ \E e \in Entries : low' = [low EXCEPT ![RECURSIVE_INDEX] = e]
      <4>1. PICK slot \in Index, next \in {"l3", "l2", "l1"} :
              \/ LevelFail
              \/ LevelAlloc(slot, next)
              \/ \E e \in Entries : Aligned(e.addr) /\ LevelFollow(e, next)
        BY <2>2, WalkCases
      <4> QED
        BY <4>1, FrameEntry DEF LevelFail, LevelAlloc, LevelFollow
    <3> QED
      BY <3>1 DEF TypeOK
  <2>3. CASE LowFault \/ Activate \/ Stopped
    BY <2>3 DEF LowFault, Activate, Stopped, vars, memVars
  <2> QED
    BY <2>1, <2>2, <2>3 DEF Next
<1> QED
  BY <1>1, <1>2 DEF Space

LEMMA PromiseStep ==
  ASSUME Apart, IInv, [Next]_vars
  PROVE  [Promise!Next]_<<Space, last>>
<1> USE DEF IInv
<1>1. CASE UNCHANGED vars
  BY <1>1 DEF vars, memVars, Space
<1>2. CASE Next /\ ~MapLeaf
  <2>1. Space' = Space
    BY <1>2, SpaceKept
  <2>2. CASE MapPage \/ IdentityMapPage
    <3>1. PICK c \in Calls : Begin(c)
      BY <2>2, BeginCases
    <3>2. c.va \in VirtAddrs
      BY CallType
    <3>3. translateVirtToPhys(c.va) = 0
      BY <3>2, TranslateZero
    <3>4. CASE SignExtended(c.va)
      <4>1. EarlyResult(c) = "NoError"
        BY <3>3, <3>4 DEF EarlyResult
      <4> QED
        BY <2>1, <3>1, <4>1 DEF Begin
    <3>5. CASE ~SignExtended(c.va)
      <4>1. EarlyResult(c) = "InvalidVirtAddress"
        BY <3>5 DEF EarlyResult
      <4>2. last' = [call |-> c, result |-> "InvalidVirtAddress"]
        BY <3>1, <4>1 DEF Begin, Return
      <4>3. Promise!RefuseAddress(c)
        BY <2>1, <3>5, <4>2 DEF Promise!RefuseAddress, Promise!Return, Space
      <4> QED
        BY <4>3 DEF Promise!Next
    <3> QED
      BY <3>4, <3>5
  <2>3. CASE Walk
    <3>1. call \in Calls
      BY <2>3, WalkCases
    <3>2. UNCHANGED last \/ last' = [call |-> call, result |-> "AllocFailed"]
      BY <2>3, WalkCases DEF LevelFail, LevelAlloc, LevelFollow
    <3>3. CASE last' = [call |-> call, result |-> "AllocFailed"]
      <4>1. Promise!RunOutOfFrames(call)
        BY <2>1, <3>3 DEF Promise!RunOutOfFrames, Promise!Return, Space
      <4> QED
        BY <3>1, <4>1 DEF Promise!Next
    <3> QED
      BY <2>1, <3>2, <3>3
  <2>4. CASE LowFault \/ Activate \/ Stopped
    BY <2>1, <2>4 DEF LowFault, Activate, Stopped, vars
  <2> QED
    BY <1>2, <2>2, <2>3, <2>4 DEF Next
<1>3. CASE MapLeaf
  <2>1. call \in Calls /\ call.va \in VirtAddrs /\ call.va.l1 \in LowWords
    BY <1>3, LeafStep, CallType
  <2>2. Space[call.va] = low[call.va.l1]
    BY <2>1 DEF Space
  <2>3. CASE /\ low[call.va.l1] # Zero /\ ~call.force
             /\ last' = [call |-> call, result |-> "EntryExists"]
             /\ UNCHANGED <<low, mapped>>
    <3>1. Space' = Space
      BY <2>3 DEF Space
    <3>2. Promise!RefuseExisting(call)
      BY <2>2, <2>3, <3>1 DEF Promise!RefuseExisting, Promise!Return, Space
    <3> QED
      BY <2>1, <3>2 DEF Promise!Next
  <2>4. CASE /\ low[call.va.l1] = Zero \/ call.force
             /\ low' = [low EXCEPT ![call.va.l1] = CallEntry(call)]
             /\ last' = [call |-> call, result |-> "NoError"]
    <3>1. \A va \in VirtAddrs : low'[va.l1] = IF va = call.va THEN CallEntry(call) ELSE low[va.l1]
      <4>1. \A va \in VirtAddrs : va.l1 \in LowWords /\ (va.l1 = call.va.l1 <=> va = call.va)
        BY <2>1, CallerAssumption, WordType, SizeAssumption DEF Apart, VirtAddr
      <4> QED
        BY <2>1, <2>4, <4>1 DEF TypeOK
    <3>2. Space' = [Space EXCEPT ![call.va] = CallEntry(call)]
      BY <2>1, <3>1 DEF Space
    <3>3. Promise!Map(call)
      BY <2>2, <2>4, <3>2 DEF Promise!Map, Promise!Return, Space
    <3>4. \E c \in Calls : Promise!Map(c)
      BY <2>1, <3>3 DEF Promise!Map
    <3> QED
      BY <3>4 DEF Promise!Next
  <2> QED
    BY <1>3, <2>3, <2>4, LeafStep
<1> QED
  BY <1>1, <1>2, <1>3

(* Where no two addresses share an L1 index, none uses the recursive slot   *)
(* and low memory is clear, mapPage implements the address space that       *)
(* page_table.h describes, whatever the allocator answers.                  *)
THEOREM KeepsThePromises ==
  ASSUME Apart, ClearStart
  PROVE  Spec => KeepsPromises
<1>1. Init => Promise!Init
  BY PromiseInit
<1>2. IInv /\ [Next]_vars => [Promise!Next]_<<Space, last>>
  BY PromiseStep
<1> QED
  BY <1>1, <1>2, Invariance, PTL DEF Spec, KeepsPromises, Promise!Spec, Space
=============================================================================
