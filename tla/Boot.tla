---------------------------------- MODULE Boot ---------------------------------
(***************************************************************************)
(* efi_main (bootloader/src/main.cpp): the boot as a whole.  The graphics   *)
(* mode, the kernel and the memory map are dealt with one after the other,  *)
(* each by its own component, over one firmware whose memory map changes    *)
(* with what they allocate.                                                 *)
(*                                                                          *)
(* Gop and MemoryMap take part with their own actions, readKernel by        *)
(* LoadContract, which KernelReader implements.                             *)
(***************************************************************************)
EXTENDS Integers, Sequences

CONSTANTS
  PreferredWidth, PreferredHeight, ModeLists,
  MapSizes, KeyMod,
  MaxPageAllocs,
  MaxKey          \* bound: how often the map changes until readKernel's last call

VARIABLES
  stage,          \* the call efi_main is in
  gopPc, modes, inEffect, i, best, infos, refused, fbInfo, started, switched,
  status, pageAllocs, poolBuffers,
  fwSize, fwKey, mapPc, memMapPtr, mapSize, mapKey, owned, isSuccessful

Graphics == INSTANCE Gop
Load == INSTANCE LoadContract
Map == INSTANCE MemoryMap

gopVars == <<gopPc, modes, inEffect, i, best, infos, refused, fbInfo, started, switched>>
loadVars == <<status, pageAllocs, poolBuffers>>
firmwareVars == <<fwSize, fwKey>>
mapVars == <<mapPc, memMapPtr, mapSize, mapKey, owned, isSuccessful>>
vars == <<stage, gopVars, loadVars, firmwareVars, mapVars>>

ASSUME ModesAssumption ==
  /\ PreferredWidth \in Nat /\ PreferredHeight \in Nat
  /\ ModeLists \subseteq Seq(Graphics!Mode) \ {<<>>}

ASSUME FirmwareAssumption ==
  /\ MapSizes # {} /\ MapSizes \subseteq Nat \ {0}
  /\ KeyMod \in Nat /\ MaxKey + 5 < KeyMod

ASSUME BoundAssumption == MaxPageAllocs \in Nat /\ MaxKey \in Nat
-----------------------------------------------------------------------------
(* Mutant of After: the memory map is asked for before the kernel is read. *)
AfterSwapped(call) == CASE call = "locate" -> "gop"
                        [] call = "gop" -> "map"
                        [] call = "map" -> "kernel"
                        [] call = "kernel" -> "prompt"
                        [] call = "prompt" -> "exited"

(* What efi_main does next, whatever the call before it answered. *)
After(call) == CASE call = "locate" -> "gop"
                 [] call = "gop" -> "kernel"
                 [] call = "kernel" -> "map"
                 [] call = "map" -> "prompt"
                 [] call = "prompt" -> "exited"

Init == stage = "locate" /\ Graphics!Init /\ Load!Init /\ Map!Init

(* Without a graphics output protocol the boot panics. *)
LocateGop ==
  /\ stage = "locate"
  /\ stage' \in {After(stage), "panic"}
  /\ UNCHANGED <<gopVars, loadVars, firmwareVars, mapVars>>

(* The firmware allocates what a call asks for, and its map changes. *)
Allocates(changed) == IF changed THEN Map!MapChanges ELSE UNCHANGED firmwareVars

(* Mutant of SetFramebuffer: it is over once the caller's structure is      *)
(* filled, and the mode is never set.                                       *)
SetFramebufferDescribed ==
  /\ stage = "gop"
  /\ Graphics!Next
  /\ Allocates(infos' # infos)
  /\ stage' = IF gopPc' = "query" THEN stage ELSE After(stage)
  /\ UNCHANGED <<loadVars, mapVars>>

SetFramebuffer ==
  /\ stage = "gop"
  /\ Graphics!Next
  /\ Allocates(infos' # infos)
  /\ stage' = IF gopPc' = "returned" THEN After(stage) ELSE stage
  /\ UNCHANGED <<loadVars, mapVars>>

(* The result of readKernel is not looked at. *)
ReadKernel ==
  /\ stage = "kernel"
  /\ \/ Load!Ask /\ fwKey < MaxKey /\ UNCHANGED stage
     \/ Load!Leave /\ stage' = IF status' = "faulted" THEN "faulted" ELSE After(stage)
  /\ Allocates(<<pageAllocs, poolBuffers>>' # <<pageAllocs, poolBuffers>>)
  /\ UNCHANGED <<gopVars, mapVars>>

GetMemoryMap ==
  /\ stage = "map"
  /\ Map!Next
  /\ stage' = IF mapPc' = "returned" THEN After(stage) ELSE stage
  /\ UNCHANGED <<gopVars, loadVars>>

(* A key is pressed, or the wait for it fails. *)
WaitForKey ==
  /\ stage = "prompt"
  /\ stage' = After(stage)
  /\ UNCHANGED <<gopVars, loadVars, firmwareVars, mapVars>>

(* panic waits for ever; after efi_main the firmware goes on. *)
Ended == stage \in {"panic", "faulted", "exited"} /\ UNCHANGED vars

Call == LocateGop \/ SetFramebuffer \/ ReadKernel \/ GetMemoryMap
Next == Call \/ WaitForKey \/ Ended

(* One thread executes its next instruction; that readKernel comes back is  *)
(* what its contract says.  Nobody has to press a key.                      *)
LoadReturns == ReadKernel /\ status' # "running"
Spec == Init /\ [][Next]_vars /\ WF_vars(Call) /\ WF_vars(LoadReturns)
-----------------------------------------------------------------------------
Stages == {"locate", "gop", "kernel", "map", "prompt", "exited", "panic", "faulted"}

TypeOK ==
  /\ stage \in Stages
  /\ Graphics!GopTypeOK /\ Map!MapTypeOK
  /\ status \in {"running", "returned", "faulted"}
  /\ pageAllocs \in 0 .. MaxPageAllocs /\ poolBuffers \in {0, 1}

TargetHoldsMap == Map!TargetHoldsMap
OneBuffer == Map!OneBuffer

(* "The UEFI key for this memory map (determines if the map is valid or     *)
(* not)" (boot_params.h): the map efi_main holds when it is done is still   *)
(* the firmware's: nothing was allocated after it, by the load of the       *)
(* kernel, by the search for a graphics mode or by getMemoryMap itself, and *)
(* it therefore lists every page the kernel was loaded into.                *)
MapIsCurrent ==
  stage \in {"prompt", "exited"} /\ isSuccessful => mapKey = fwKey /\ mapSize = fwSize

(* What the boot holds at its prompt, although it stops at no failure on    *)
(* the way: all three calls are over, the display still shows the mode that *)
(* was described before the kernel was read, no other mode was closer, and  *)
(* no pool buffer of readKernel is live.                                    *)
CompleteAtPrompt ==
  stage \in {"prompt", "exited"} =>
    /\ gopPc = "returned" /\ Graphics!DescribesDisplay /\ Graphics!ChoosesBest
    /\ status = "returned" /\ poolBuffers = 0
    /\ mapPc = "returned"

(* The boot comes to its prompt, or panics, or faults in readKernel,        *)
(* whatever the firmware answers.                                           *)
Boots == <>(stage \in {"prompt", "exited", "panic", "faulted"})

-----------------------------------------------------------------------------
(* main.cpp:136 "we free the one page that we allocated, so we can allocate *)
(* the correct size": the size told to the second GetMemoryMap suffices.    *)
SecondSizeSuffices == Map!SecondSizeSuffices
=============================================================================
