------------------------------- MODULE BootProofs -------------------------------
(***************************************************************************)
(* Proofs about Boot, for every display, every size of the firmware's       *)
(* memory map and every answer of the firmware.                             *)
(*                                                                          *)
(* The graphics part of the invariant is that of GopProofs.  The part about *)
(* the memory map says for each firmware call of getMemoryMap what it has   *)
(* allocated by then, and that nothing happens to the firmware's map after  *)
(* it has returned.                                                         *)
(***************************************************************************)
EXTENDS Boot, TLAPS

GP == INSTANCE GopProofs

-----------------------------------------------------------------------------
(* The page or pages getMemoryMap holds. *)
Held(pages) == {[addr |-> memMapPtr, pages |-> pages]}

(* Before each call of getMemoryMap: what it owns, and what it was told.    *)
BufferInv ==
  /\ mapPc = "first" => owned = {} /\ mapSize = Map!PAGE_SIZE
  /\ mapPc = "get" => owned = Held(1) /\ memMapPtr # 0 /\ mapSize = Map!PAGE_SIZE
  /\ mapPc = "free" => owned = Held(1)
  /\ mapPc = "again" => owned = {}
  /\ mapPc = "retry" => owned = Held(Map!PagesOf(mapSize))
  /\ mapPc = "returned" =>
       /\ \A a, b \in owned : a = b
       /\ isSuccessful => \E b \in owned : b.addr = memMapPtr /\ mapSize <= Map!PAGE_SIZE * b.pages

(* Which part of the boot the map belongs to, and what is over before each  *)
(* of them.                                                                 *)
StageInv ==
  /\ stage \in {"locate", "gop", "kernel", "panic", "faulted"} => mapPc = "first"
  /\ stage = "map" => mapPc # "returned"
  /\ mapPc # "returned" => ~isSuccessful
  /\ stage \in {"kernel", "map", "prompt", "exited"} => gopPc = "returned"
  /\ stage \in {"map", "prompt", "exited"} => status = "returned" /\ poolBuffers = 0
  /\ stage \in {"prompt", "exited"} => mapPc = "returned"
  /\ stage \in {"prompt", "exited"} /\ isSuccessful => mapKey = fwKey /\ mapSize = fwSize

IInv == TypeOK /\ GP!IInv /\ BufferInv /\ StageInv

-----------------------------------------------------------------------------
(* The graphics component keeps its own invariant in the boot. *)
LEMMA GraphicsInit == Graphics!Init => GP!IInv
<1>1. Graphics!Init => GP!Init
  BY DEF Graphics!Init, GP!Init, Graphics!INVALID_FRAMEBUFFER_INFO, GP!INVALID_FRAMEBUFFER_INFO
<1>2. /\ PreferredWidth \in Nat /\ PreferredHeight \in Nat
      /\ ModeLists \subseteq Seq(GP!Mode) \ {<<>>}
  BY ModesAssumption DEF Graphics!Mode, GP!Mode, Graphics!Formats, GP!Formats
<1> QED
  BY <1>1, <1>2, GP!InitHolds

LEMMA GraphicsStep ==
  ASSUME GP!IInv, Graphics!Next \/ UNCHANGED gopVars
  PROVE  GP!IInv'
<1>1. Graphics!Next => GP!Next
  BY DEF Graphics!Next, GP!Next, Graphics!Query, GP!Query, Graphics!QueryFails, GP!QueryFails,
         Graphics!QuerySucceeds, GP!QuerySucceeds, Graphics!Decide, GP!Decide,
         Graphics!SetMode, GP!SetMode, Graphics!Better, GP!Better, Graphics!Info, GP!Info,
         Graphics!Describe, GP!Describe, Graphics!Deviation, GP!Deviation,
         Graphics!Abs, GP!Abs, Graphics!Supported, GP!Supported
<1>2. /\ PreferredWidth \in Nat /\ PreferredHeight \in Nat
      /\ ModeLists \subseteq Seq(GP!Mode) \ {<<>>}
  BY ModesAssumption DEF Graphics!Mode, GP!Mode, Graphics!Formats, GP!Formats
<1>3. UNCHANGED gopVars => UNCHANGED GP!gopVars
  BY DEF gopVars, GP!gopVars
<1> QED
  BY <1>1, <1>2, <1>3, GP!StepKeeps

(* What the search promises when it has returned, in the boot. *)
LEMMA GraphicsPromises ==
  ASSUME GP!IInv
  PROVE  Graphics!DescribesDisplay /\ Graphics!ChoosesBest
<1>1. /\ PreferredWidth \in Nat /\ PreferredHeight \in Nat
      /\ ModeLists \subseteq Seq(GP!Mode) \ {<<>>}
  BY ModesAssumption DEF Graphics!Mode, GP!Mode, Graphics!Formats, GP!Formats
<1>2. GP!DescribesDisplay /\ GP!ChoosesBest
  BY <1>1, GP!DescriptionFollows, GP!BestFollows
<1>3. Graphics!DescribesDisplay
  BY <1>2 DEF Graphics!DescribesDisplay, GP!DescribesDisplay, Graphics!Describe, GP!Describe,
              Graphics!Info, GP!Info
<1>4. Graphics!ChoosesBest
  BY <1>2 DEF Graphics!ChoosesBest, GP!ChoosesBest, Graphics!Info, GP!Info,
              Graphics!Deviation, GP!Deviation, Graphics!Abs, GP!Abs,
              Graphics!Supported, GP!Supported
<1> QED
  BY <1>3, <1>4

LEMMA GraphicsType == GP!IInv => Graphics!GopTypeOK
  BY DEF GP!IInv, GP!GopTypeOK, Graphics!GopTypeOK, Graphics!FramebufferInfo, GP!FramebufferInfo

-----------------------------------------------------------------------------
(* The pages asked for hold the size they were asked for. *)
LEMMA PagesSuffice ==
  ASSUME NEW size \in Nat
  PROVE  Map!PagesOf(size) \in Nat /\ size <= Map!PAGE_SIZE * Map!PagesOf(size)
  BY DEF Map!PagesOf, Map!PAGE_SIZE

LEMMA KeyType ==
  ASSUME fwKey \in 0 .. KeyMod - 1
  PROVE  (fwKey + 1) % KeyMod \in 0 .. KeyMod - 1
  BY FirmwareAssumption

LEMMA InitHolds == Init => IInv
<1> SUFFICES ASSUME Init PROVE IInv
  OBVIOUS
<1>1. GP!IInv /\ Graphics!GopTypeOK
  BY GraphicsInit, GraphicsType DEF Init
<1>2. Map!MapTypeOK
  <2>1. 0 \in 0 .. KeyMod - 1
    BY FirmwareAssumption, BoundAssumption
  <2>2. fwSize \in MapSizes /\ fwKey = 0 /\ mapPc = "first" /\ memMapPtr = 0
        /\ mapSize = Map!PAGE_SIZE /\ mapKey = 0 /\ owned = {} /\ isSuccessful = FALSE
    BY DEF Init, Map!Init
  <2>3. memMapPtr \in 0 .. 2
    BY <2>2
  <2> QED
    BY <2>1, <2>2, <2>3 DEF Map!MapTypeOK
<1>3. status = "running" /\ pageAllocs = 0 /\ poolBuffers = 0 /\ stage = "locate"
  BY DEF Init, Load!Init
<1>4. TypeOK
  BY <1>1, <1>2, <1>3, BoundAssumption DEF TypeOK, Stages
<1>5. BufferInv /\ StageInv
  BY DEF Init, Map!Init, BufferInv, StageInv
<1> QED
  BY <1>1, <1>4, <1>5 DEF IInv

(* A call of getMemoryMap leaves the firmware with a map and a key. *)
LEMMA ChangesType ==
  ASSUME Map!MapTypeOK, Map!MapChanges
  PROVE  fwSize' \in MapSizes /\ fwKey' \in 0 .. KeyMod - 1
  BY KeyType DEF Map!MapTypeOK, Map!MapChanges

(* What an allocation leaves: one buffer more, wherever it lies. *)
LEMMA AllocateFacts ==
  ASSUME Map!MapTypeOK, NEW id \in {1, 2}, NEW pages \in Nat, Map!AllocatePages(id, pages),
         owned = {}
  PROVE  /\ owned' = Held(pages)' /\ memMapPtr' \in 0 .. 2
         /\ owned' \subseteq [addr : 0 .. 2, pages : Nat]
         /\ fwSize' \in MapSizes /\ fwKey' \in 0 .. KeyMod - 1
<1>1. PICK addr \in {0, id} : /\ owned' = owned \cup {[addr |-> addr, pages |-> pages]}
                              /\ memMapPtr' = addr /\ Map!MapChanges
  BY DEF Map!AllocatePages
<1>2. addr \in 0 .. 2
  OBVIOUS
<1> QED
  BY <1>1, <1>2, ChangesType DEF Held

(* One call of getMemoryMap. *)
LEMMA MapStepKeeps ==
  ASSUME Map!MapTypeOK, BufferInv, mapPc # "returned", ~isSuccessful, Map!Next
  PROVE  /\ Map!MapTypeOK' /\ BufferInv'
         /\ mapPc' # "returned" => ~isSuccessful'
         /\ isSuccessful' => mapKey' = fwKey' /\ mapSize' = fwSize'
<1>0. /\ mapSize \in Nat /\ MapSizes \subseteq Nat /\ Map!PAGE_SIZE \in Nat
      /\ fwSize \in MapSizes /\ fwSize \in Nat
  BY FirmwareAssumption DEF Map!MapTypeOK, Map!PAGE_SIZE
<1>1. CASE Map!AllocateFirst
  <2>1. mapPc = "first" /\ UNCHANGED <<mapSize, mapKey, isSuccessful>> /\ owned = {}
        /\ mapSize = Map!PAGE_SIZE
    BY <1>1 DEF Map!AllocateFirst, BufferInv
  <2>2. CASE Map!AllocatePages(1, 1) /\ mapPc' = IF memMapPtr' = 0 THEN "returned" ELSE "get"
    <3>1. /\ owned' = Held(1)' /\ memMapPtr' \in 0 .. 2
          /\ owned' \subseteq [addr : 0 .. 2, pages : Nat]
          /\ fwSize' \in MapSizes /\ fwKey' \in 0 .. KeyMod - 1
      BY <2>1, <2>2, AllocateFacts
    <3>2. Map!MapTypeOK'
      BY <2>1, <2>2, <3>1 DEF Map!MapTypeOK
    <3>3. BufferInv'
      BY <2>1, <2>2, <3>1 DEF BufferInv, Held
    <3> QED
      BY <2>1, <3>2, <3>3
  <2>3. CASE mapPc' = "returned" /\ UNCHANGED <<fwSize, fwKey, memMapPtr, owned>>
    <3>1. Map!MapTypeOK' /\ BufferInv'
      BY <2>1, <2>3 DEF Map!MapTypeOK, BufferInv
    <3> QED
      BY <2>1, <3>1
  <2> QED
    BY <1>1, <2>2, <2>3 DEF Map!AllocateFirst, Map!firmwareVars
<1>2. CASE Map!GetFirst
  <2>1. mapPc = "get" /\ UNCHANGED <<fwSize, fwKey, memMapPtr, owned>> /\ owned = Held(1)
        /\ memMapPtr # 0 /\ mapSize = Map!PAGE_SIZE
    BY <1>2 DEF Map!GetFirst, BufferInv, Map!firmwareVars
  <2>2. CASE Map!Filled /\ mapPc' = "returned" /\ isSuccessful' = TRUE
    <3>1. mapSize' = fwSize /\ mapKey' = fwKey /\ fwSize <= Map!PAGE_SIZE
      BY <1>0, <2>1, <2>2 DEF Map!Filled
    <3>2. Map!MapTypeOK'
      BY <2>1, <2>2, <3>1 DEF Map!MapTypeOK
    <3>3. mapSize' <= Map!PAGE_SIZE * 1
      BY <1>0, <3>1
    <3>4. BufferInv'
      BY <2>1, <2>2, <3>3 DEF BufferInv, Held
    <3> QED
      BY <2>1, <2>2, <3>1, <3>2, <3>4
  <2>3. CASE Map!TooSmall /\ mapPc' = "free" /\ UNCHANGED isSuccessful
    <3>1. Map!MapTypeOK'
      BY <2>1, <2>3 DEF Map!MapTypeOK, Map!TooSmall
    <3>2. BufferInv'
      BY <2>1, <2>3 DEF BufferInv, Held
    <3> QED
      BY <2>3, <3>1, <3>2
  <2>4. CASE Map!OtherError /\ mapPc' = "returned" /\ UNCHANGED isSuccessful
    <3>1. Map!MapTypeOK'
      BY <2>1, <2>4 DEF Map!MapTypeOK, Map!OtherError
    <3>2. BufferInv'
      BY <2>1, <2>4 DEF BufferInv, Held
    <3> QED
      BY <2>4, <3>1, <3>2
  <2> QED
    BY <1>2, <2>2, <2>3, <2>4 DEF Map!GetFirst
<1>3. CASE Map!FreeFirst
  <2>1. mapPc = "free" /\ UNCHANGED <<memMapPtr, mapSize, mapKey, isSuccessful>> /\ owned = Held(1)
    BY <1>3 DEF Map!FreeFirst, BufferInv
  <2>2. CASE owned' = {b \in owned : b.addr # memMapPtr} /\ Map!MapChanges /\ mapPc' = "again"
    <3>1. owned' = {}
      BY <2>1, <2>2 DEF Held
    <3>2. Map!MapTypeOK'
      BY <2>1, <2>2, <3>1, ChangesType DEF Map!MapTypeOK
    <3>3. BufferInv'
      BY <2>1, <2>2, <3>1 DEF BufferInv
    <3> QED
      BY <2>1, <3>2, <3>3
  <2>3. CASE mapPc' = "returned" /\ UNCHANGED <<fwSize, fwKey, owned>>
    <3>1. Map!MapTypeOK'
      BY <2>1, <2>3 DEF Map!MapTypeOK
    <3>2. BufferInv'
      BY <2>1, <2>3 DEF BufferInv, Held
    <3> QED
      BY <2>1, <3>1, <3>2
  <2> QED
    BY <1>3, <2>2, <2>3 DEF Map!FreeFirst, Map!firmwareVars
<1>4. CASE Map!AllocateAgain
  <2>1. mapPc = "again" /\ UNCHANGED <<mapSize, mapKey, isSuccessful>> /\ owned = {}
    BY <1>4 DEF Map!AllocateAgain, BufferInv
  <2>2. CASE Map!AllocatePages(2, Map!PagesOf(mapSize)) /\ mapPc' = "retry"
    <3>1. /\ owned' = Held(Map!PagesOf(mapSize))' /\ memMapPtr' \in 0 .. 2
          /\ owned' \subseteq [addr : 0 .. 2, pages : Nat]
          /\ fwSize' \in MapSizes /\ fwKey' \in 0 .. KeyMod - 1
      <4>1. Map!PagesOf(mapSize) \in Nat /\ Map!PagesOf(mapSize)' = Map!PagesOf(mapSize)
        BY <1>0, <2>1, PagesSuffice DEF Map!PagesOf
      <4> QED
        BY <2>1, <2>2, <4>1, AllocateFacts DEF Held
    <3>2. Map!MapTypeOK'
      BY <2>1, <2>2, <3>1 DEF Map!MapTypeOK
    <3>3. BufferInv'
      BY <2>1, <2>2, <3>1 DEF BufferInv
    <3> QED
      BY <2>1, <3>2, <3>3
  <2>3. CASE mapPc' = "returned" /\ UNCHANGED <<fwSize, fwKey, memMapPtr, owned>>
    <3>1. Map!MapTypeOK' /\ BufferInv'
      BY <2>1, <2>3 DEF Map!MapTypeOK, BufferInv
    <3> QED
      BY <2>1, <3>1
  <2> QED
    BY <1>4, <2>2, <2>3 DEF Map!AllocateAgain, Map!firmwareVars
<1>5. CASE Map!GetAgain
  <2>1. mapPc = "retry" /\ mapPc' = "returned" /\ UNCHANGED <<fwSize, fwKey, memMapPtr, owned>>
        /\ owned = Held(Map!PagesOf(mapSize))
    BY <1>5 DEF Map!GetAgain, BufferInv, Map!firmwareVars
  <2>2. CASE Map!Filled /\ isSuccessful' = TRUE
    <3>1. mapSize' = fwSize /\ mapKey' = fwKey /\ fwSize <= mapSize
      BY <1>0, <2>2 DEF Map!Filled
    <3>2. Map!MapTypeOK'
      BY <2>1, <2>2, <3>1 DEF Map!MapTypeOK
    <3>3. mapSize' <= Map!PAGE_SIZE * Map!PagesOf(mapSize)
      <4>1. mapSize <= Map!PAGE_SIZE * Map!PagesOf(mapSize) /\ Map!PagesOf(mapSize) \in Nat
        BY <1>0, PagesSuffice
      <4>2. Map!PAGE_SIZE * Map!PagesOf(mapSize) \in Nat
        BY <4>1 DEF Map!PAGE_SIZE
      <4> QED
        BY <1>0, <3>1, <4>1, <4>2
    <3>4. BufferInv'
      BY <2>1, <2>2, <3>3 DEF BufferInv, Held
    <3> QED
      BY <2>1, <2>2, <3>1, <3>2, <3>4
  <2>3. CASE (Map!TooSmall \/ Map!OtherError) /\ UNCHANGED isSuccessful
    <3>1. Map!MapTypeOK'
      BY <2>1, <2>3 DEF Map!MapTypeOK, Map!TooSmall, Map!OtherError
    <3>2. BufferInv'
      BY <2>1, <2>3 DEF BufferInv, Held
    <3> QED
      BY <2>1, <2>3, <3>1, <3>2
  <2> QED
    BY <1>5, <2>2, <2>3 DEF Map!GetAgain
<1> QED
  BY <1>1, <1>2, <1>3, <1>4, <1>5 DEF Map!Next

-----------------------------------------------------------------------------
(* What the boot leaves alone of its components. *)
LEMMA GraphicsKept ==
  ASSUME IInv, UNCHANGED gopVars
  PROVE  GP!IInv' /\ Graphics!GopTypeOK'
<1>1. GP!IInv'
  BY GraphicsStep DEF IInv
<1>2. Graphics!GopTypeOK'
  BY DEF IInv, TypeOK, Graphics!GopTypeOK, gopVars
<1> QED
  BY <1>1, <1>2

(* Until getMemoryMap is called its variables rest: only the map changes.   *)
LEMMA MapKept ==
  ASSUME IInv, UNCHANGED mapVars,
         UNCHANGED firmwareVars \/ Map!MapChanges
  PROVE  Map!MapTypeOK' /\ BufferInv'
<1>1. fwSize' \in MapSizes /\ fwKey' \in 0 .. KeyMod - 1
  BY ChangesType DEF IInv, TypeOK, Map!MapTypeOK, firmwareVars
<1>2. Map!MapTypeOK'
  BY <1>1 DEF IInv, TypeOK, Map!MapTypeOK, mapVars
<1>3. BufferInv'
  BY DEF IInv, BufferInv, Held, mapVars
<1> QED
  BY <1>2, <1>3

LEMMA LocateGopKeeps ==
  ASSUME IInv, LocateGop
  PROVE  IInv'
<1>1. /\ stage = "locate" /\ stage' \in {"gop", "panic"}
      /\ UNCHANGED <<gopVars, loadVars, firmwareVars, mapVars>>
  BY DEF LocateGop, After
<1>2. GP!IInv' /\ Graphics!GopTypeOK' /\ Map!MapTypeOK' /\ BufferInv'
  BY <1>1, GraphicsKept, MapKept
<1>3. TypeOK'
  BY <1>1, <1>2 DEF IInv, TypeOK, Stages, loadVars
<1>4. StageInv'
  BY <1>1 DEF IInv, StageInv, mapVars, loadVars, gopVars
<1> QED
  BY <1>2, <1>3, <1>4 DEF IInv

LEMMA SetFramebufferKeeps ==
  ASSUME IInv, SetFramebuffer
  PROVE  IInv'
<1>1. /\ stage = "gop" /\ stage' \in {"gop", "kernel"} /\ Graphics!Next
      /\ stage' = "kernel" => gopPc' = "returned"
      /\ UNCHANGED <<loadVars, mapVars>>
  BY DEF SetFramebuffer, After
<1>2. UNCHANGED firmwareVars \/ Map!MapChanges
  BY DEF SetFramebuffer, Allocates
<1>3. Map!MapTypeOK' /\ BufferInv'
  BY <1>1, <1>2, MapKept
<1>4. GP!IInv'
  BY <1>1, GraphicsStep DEF IInv
<1>5. Graphics!GopTypeOK'
  BY <1>4, GraphicsType, PTL
<1>6. TypeOK'
  BY <1>1, <1>3, <1>5 DEF IInv, TypeOK, Stages, loadVars
<1>7. StageInv'
  BY <1>1 DEF IInv, StageInv, mapVars
<1> QED
  BY <1>3, <1>4, <1>6, <1>7 DEF IInv

LEMMA ReadKernelKeeps ==
  ASSUME IInv, ReadKernel
  PROVE  IInv'
<1>1. /\ stage = "kernel" /\ stage' \in {"kernel", "faulted", "map"}
      /\ stage' = "map" => Load!Leave /\ status' # "faulted"
      /\ Load!Ask \/ Load!Leave
      /\ UNCHANGED <<gopVars, mapVars>>
  BY DEF ReadKernel, After
<1>2. UNCHANGED firmwareVars \/ Map!MapChanges
  BY DEF ReadKernel, Allocates
<1>3. GP!IInv' /\ Graphics!GopTypeOK' /\ Map!MapTypeOK' /\ BufferInv'
  BY <1>1, <1>2, GraphicsKept, MapKept
<1>4. /\ status' \in {"running", "returned", "faulted"}
      /\ pageAllocs' \in 0 .. MaxPageAllocs /\ poolBuffers' \in {0, 1}
  <2>1. pageAllocs' \in {pageAllocs, pageAllocs + 1} /\ pageAllocs' <= MaxPageAllocs
    BY <1>1 DEF Load!Ask, Load!Leave
  <2>2. pageAllocs' \in 0 .. MaxPageAllocs
    BY <2>1, BoundAssumption DEF IInv, TypeOK
  <2> QED
    BY <1>1, <2>2 DEF IInv, TypeOK, Load!Ask, Load!Leave
<1>5. TypeOK'
  BY <1>1, <1>3, <1>4 DEF TypeOK, Stages
<1>6. StageInv'
  <2>1. stage' = "map" => status' = "returned" /\ poolBuffers' = 0
    BY <1>1 DEF Load!Leave
  <2> QED
    BY <1>1, <2>1 DEF IInv, StageInv, mapVars, gopVars
<1> QED
  BY <1>3, <1>5, <1>6 DEF IInv

(* The last firmware call of getMemoryMap is followed by no allocation.     *)
LEMMA GetMemoryMapKeeps ==
  ASSUME IInv, GetMemoryMap
  PROVE  IInv'
<1>1. /\ stage = "map" /\ Map!Next
      /\ stage' = IF mapPc' = "returned" THEN "prompt" ELSE "map"
      /\ UNCHANGED <<gopVars, loadVars>>
  BY DEF GetMemoryMap, After
<1>2. mapPc # "returned" /\ ~isSuccessful
  BY <1>1 DEF IInv, StageInv
<1>3. /\ Map!MapTypeOK' /\ BufferInv'
      /\ mapPc' # "returned" => ~isSuccessful'
      /\ isSuccessful' => mapKey' = fwKey' /\ mapSize' = fwSize'
  BY <1>1, <1>2, MapStepKeeps DEF IInv, TypeOK
<1>4. GP!IInv' /\ Graphics!GopTypeOK'
  BY <1>1, GraphicsKept
<1>5. TypeOK'
  BY <1>1, <1>3, <1>4 DEF IInv, TypeOK, Stages, loadVars
<1>6. StageInv'
  BY <1>1, <1>3 DEF IInv, StageInv, gopVars, loadVars
<1> QED
  BY <1>3, <1>4, <1>5, <1>6 DEF IInv

LEMMA WaitForKeyKeeps ==
  ASSUME IInv, WaitForKey
  PROVE  IInv'
<1>1. /\ stage = "prompt" /\ stage' = "exited"
      /\ UNCHANGED <<gopVars, loadVars, firmwareVars, mapVars>>
  BY DEF WaitForKey, After
<1>2. GP!IInv' /\ Graphics!GopTypeOK' /\ Map!MapTypeOK' /\ BufferInv'
  BY <1>1, GraphicsKept, MapKept
<1>3. TypeOK'
  BY <1>1, <1>2 DEF IInv, TypeOK, Stages, loadVars
<1>4. StageInv'
  BY <1>1 DEF IInv, StageInv, mapVars, firmwareVars, gopVars, loadVars
<1> QED
  BY <1>2, <1>3, <1>4 DEF IInv

LEMMA StutterKeeps ==
  ASSUME IInv, UNCHANGED vars
  PROVE  IInv'
<1>1. stage' = stage /\ UNCHANGED <<gopVars, loadVars, firmwareVars, mapVars>>
  BY DEF vars
<1>2. GP!IInv' /\ Graphics!GopTypeOK' /\ Map!MapTypeOK' /\ BufferInv'
  BY <1>1, GraphicsKept, MapKept
<1>3. TypeOK'
  BY <1>1, <1>2 DEF IInv, TypeOK, loadVars
<1>4. StageInv'
  BY <1>1 DEF IInv, StageInv, mapVars, firmwareVars, gopVars, loadVars
<1> QED
  BY <1>2, <1>3, <1>4 DEF IInv

LEMMA StepKeeps ==
  ASSUME IInv, [Next]_vars
  PROVE  IInv'
<1>1. CASE UNCHANGED vars
  BY <1>1, StutterKeeps
<1>2. CASE Next
  BY <1>2, StutterKeeps, LocateGopKeeps, SetFramebufferKeeps, ReadKernelKeeps,
     GetMemoryMapKeeps, WaitForKeyKeeps DEF Next, Call, Ended
<1> QED
  BY <1>1, <1>2

THEOREM Invariance == Spec => []IInv
  BY InitHolds, StepKeeps, PTL DEF Spec

-----------------------------------------------------------------------------
(* The types of the whole boot: the graphics search, the contract of        *)
(* readKernel and getMemoryMap keep theirs while they share the firmware.   *)
THEOREM TypeCorrect == Spec => []TypeOK
<1>1. IInv => TypeOK
  BY DEF IInv
<1> QED
  BY <1>1, Invariance, PTL

(* main.cpp, getMemoryMap: both calls of GetMemoryMap are told a size that  *)
(* the live pages behind the pointer hold, for every size of the map.       *)
THEOREM TargetAlwaysHoldsMap == Spec => []TargetHoldsMap
<1>1. IInv => TargetHoldsMap
  <2> SUFFICES ASSUME IInv, mapPc \in {"get", "retry"}
               PROVE  \E b \in owned : b.addr = memMapPtr /\ mapSize <= Map!PAGE_SIZE * b.pages
    BY DEF TargetHoldsMap, Map!TargetHoldsMap
  <2>1. CASE mapPc = "get"
    <3>1. owned = Held(1) /\ mapSize = Map!PAGE_SIZE
      BY <2>1 DEF IInv, BufferInv
    <3>2. mapSize <= Map!PAGE_SIZE * 1
      BY <3>1 DEF Map!PAGE_SIZE
    <3> QED
      BY <3>1, <3>2 DEF Held
  <2>2. CASE mapPc = "retry"
    <3>1. owned = Held(Map!PagesOf(mapSize))
      BY <2>2 DEF IInv, BufferInv
    <3>2. mapSize \in Nat
      BY FirmwareAssumption DEF IInv, TypeOK, Map!MapTypeOK, Map!PAGE_SIZE
    <3>3. mapSize <= Map!PAGE_SIZE * Map!PagesOf(mapSize)
      BY <3>2, PagesSuffice
    <3> QED
      BY <3>1, <3>3 DEF Held
  <2> QED
    BY <2>1, <2>2
<1> QED
  BY <1>1, Invariance, PTL

(* main.cpp, getMemoryMap: whichever of the five firmware calls fails, at   *)
(* most one allocation is left, and a map reported as valid fits in it.     *)
THEOREM OneBufferAtMost == Spec => []OneBuffer
<1>1. IInv => OneBuffer
  <2> SUFFICES ASSUME IInv
               PROVE  /\ \A a, b \in owned : a = b
                      /\ mapPc = "returned" /\ isSuccessful =>
                           \E b \in owned : b.addr = memMapPtr /\ mapSize <= Map!PAGE_SIZE * b.pages
    BY DEF OneBuffer, Map!OneBuffer
  <2>1. mapPc \in {"first", "get", "free", "again", "retry", "returned"}
    BY DEF IInv, TypeOK, Map!MapTypeOK
  <2> QED
    BY <2>1 DEF IInv, BufferInv, Held
<1> QED
  BY <1>1, Invariance, PTL

(* boot_params.h: the key decides whether the map is valid.  The one        *)
(* efi_main holds at its prompt is the firmware's, whatever was allocated   *)
(* on the way there and whichever calls failed.                             *)
THEOREM MapStaysCurrent == Spec => []MapIsCurrent
<1>1. IInv => MapIsCurrent
  BY DEF IInv, StageInv, MapIsCurrent
<1> QED
  BY <1>1, Invariance, PTL

(* efi_main stops at no failure of its three calls, and yet at its prompt   *)
(* each of them is over: the display shows the mode described before the    *)
(* kernel was read, no supported mode was closer, and readKernel has left   *)
(* no pool buffer.                                                          *)
THEOREM PromptIsComplete == Spec => []CompleteAtPrompt
<1>1. IInv => CompleteAtPrompt
  BY GraphicsPromises DEF IInv, StageInv, CompleteAtPrompt
<1> QED
  BY <1>1, Invariance, PTL
=============================================================================
