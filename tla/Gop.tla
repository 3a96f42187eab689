---------------------------------- MODULE Gop ----------------------------------
(***************************************************************************)
(* Gop::setAppropriateFramebuffer (bootloader/src/gop.cpp): look through    *)
(* the graphics modes of the firmware for the one closest to a preferred    *)
(* resolution, describe it to the caller and switch to it.                  *)
(*                                                                          *)
(* A mode is a record; the list of them and the mode in effect belong to    *)
(* the firmware.  One action per firmware call.  A pointer to a mode's      *)
(* information is the index of the mode it describes, and whether it is     *)
(* gop->Mode->Info, the firmware's own record of the mode in effect.        *)
(***************************************************************************)
EXTENDS Integers, Sequences

CONSTANTS
  PreferredWidth, PreferredHeight,
  ModeLists       \* the lists of modes a display may offer

Formats == {"RGB", "BGR", "BitMask", "BltOnly"}
Supported == {"RGB", "BGR"}
Mode == [width : Nat, height : Nat, stride : Nat, format : Formats]

(* Resolutions that an int holds, as the code's subtraction needs. *)
ASSUME DisplayAssumption ==
  /\ PreferredWidth \in Nat /\ PreferredHeight \in Nat
  /\ ModeLists \subseteq Seq(Mode) \ {<<>>}

VARIABLES
  gopPc,      \* "query", "set", "returned"
  modes,      \* the firmware's modes; mode number i is modes[i + 1]
  inEffect,   \* gop->Mode->Mode
  i,          \* the loop counter
  best,       \* bestModeInfo and bestModeIndex
  infos,      \* buffers QueryMode has allocated; nothing frees them
  refused,    \* history: the modes QueryMode failed for
  fbInfo,     \* *fbInfo
  started,    \* history: the mode in effect when the call was made
  switched    \* what the call returned

gopVars == <<gopPc, modes, inEffect, i, best, infos, refused, fbInfo, started, switched>>
-----------------------------------------------------------------------------
INVALID_FRAMEBUFFER_INFO == [width |-> 0, height |-> 0, bytesPerRow |-> 0, isRgb |-> FALSE]

Abs(n) == IF n < 0 THEN -n ELSE n

(* The differences are added before the absolute value is taken. *)
Deviation(mode) == Abs((PreferredWidth - mode.width) + (PreferredHeight - mode.height))

Info(index) == modes[index + 1]

(* BytesPerRow receives the number of pixels of a row. *)
Describe(mode) == [width |-> mode.width, height |-> mode.height,
                   bytesPerRow |-> mode.stride, isRgb |-> mode.format = "RGB"]

Init ==
  /\ gopPc = "query"
  /\ modes \in ModeLists /\ inEffect \in 0 .. Len(modes) - 1 /\ started = inEffect
  /\ i = 0 /\ best = [index |-> inEffect, own |-> TRUE]
  /\ infos = 0 /\ refused = {}
  /\ fbInfo = INVALID_FRAMEBUFFER_INFO /\ switched = FALSE

QueryFails ==
  /\ gopPc = "query" /\ i < Len(modes)
  /\ refused' = refused \cup {i}
  /\ i' = i + 1
  /\ UNCHANGED <<gopPc, modes, inEffect, best, infos, fbInfo, started, switched>>

(* Mutant of Better: an equally close mode replaces the one found before. *)
BetterOrEqual(mode) ==
  mode.format \in Supported /\ Deviation(mode) <= Deviation(Info(best.index))

Better(mode) == mode.format \in Supported /\ Deviation(mode) < Deviation(Info(best.index))

(* Mutant of QuerySucceeds: the index is taken after the counter moved on. *)
QuerySucceedsLate ==
  /\ gopPc = "query" /\ i < Len(modes)
  /\ infos' = infos + 1
  /\ i' = i + 1
  /\ best' = IF Better(Info(i)) THEN [index |-> i', own |-> FALSE] ELSE best
  /\ UNCHANGED <<gopPc, modes, inEffect, refused, fbInfo, started, switched>>

QuerySucceeds ==
  /\ gopPc = "query" /\ i < Len(modes)
  /\ infos' = infos + 1
  /\ best' = IF Better(Info(i)) THEN [index |-> i, own |-> FALSE] ELSE best
  /\ i' = i + 1
  /\ UNCHANGED <<gopPc, modes, inEffect, refused, fbInfo, started, switched>>

(* After the loop the caller's structure is filled, whether or not the mode *)
(* can then be set; the mode in effect needs no switch.                     *)
Decide ==
  /\ gopPc = "query" /\ i >= Len(modes)
  /\ fbInfo' = Describe(Info(best.index))
  /\ gopPc' = IF best.own THEN "returned" ELSE "set"
  /\ switched' = best.own
  /\ UNCHANGED <<modes, inEffect, i, best, infos, refused, started>>

(* Mutant of SetMode: the status is not looked at. *)
SetModeUnchecked ==
  /\ gopPc = "set"
  /\ gopPc' = "returned"
  /\ \E ok \in BOOLEAN : inEffect' = IF ok THEN best.index ELSE inEffect
  /\ switched' = TRUE
  /\ UNCHANGED <<modes, i, best, infos, refused, fbInfo, started>>

(* Mutant of SetMode: when the mode cannot be set, the search starts over. *)
SetModeRetries ==
  /\ gopPc = "set"
  /\ \/ gopPc' = "returned" /\ switched' = TRUE /\ inEffect' = best.index
        /\ UNCHANGED <<i, infos>>
     \/ gopPc' = "query" /\ i' = 0 /\ infos' = 0 /\ UNCHANGED <<switched, inEffect>>
  /\ UNCHANGED <<modes, best, refused, fbInfo, started>>

SetMode ==
  /\ gopPc = "set"
  /\ gopPc' = "returned"
  /\ \E ok \in BOOLEAN :
       /\ inEffect' = IF ok THEN best.index ELSE inEffect
       /\ switched' = ok
  /\ UNCHANGED <<modes, i, best, infos, refused, fbInfo, started>>

Query == QueryFails \/ QuerySucceeds
Next == Query \/ Decide \/ SetMode

Returned == gopPc = "returned" /\ UNCHANGED gopVars

(* One thread: the loop goes on. *)
Spec == Init /\ [][Next \/ Returned]_gopVars /\ WF_gopVars(Next)
-----------------------------------------------------------------------------
FramebufferInfo == [width : Nat, height : Nat, bytesPerRow : Nat, isRgb : BOOLEAN]

GopTypeOK ==
  /\ gopPc \in {"query", "set", "returned"}
  /\ modes \in ModeLists
  /\ {inEffect, started, best.index} \subseteq 0 .. Len(modes) - 1
  /\ i \in 0 .. Len(modes) /\ best.own \in BOOLEAN
  /\ infos \in 0 .. i /\ refused \subseteq 0 .. Len(modes) - 1
  /\ fbInfo \in FramebufferInfo /\ switched \in BOOLEAN

(* The caller is told of success exactly when the framebuffer description  *)
(* it was given is that of the mode the display is in, however many modes   *)
(* QueryMode skipped on the way; after a failure the mode is the old one.   *)
DescribesDisplay ==
  gopPc = "returned" =>
    /\ switched => fbInfo = Describe(Info(inEffect))
    /\ ~switched => inEffect = started /\ best.index # started

(* The mode described has the smallest deviation of all those the firmware  *)
(* could describe and the code supports, and no mode that deviates as much  *)
(* as the one in effect replaces it.                                        *)
ChoosesBest ==
  gopPc # "query" =>
    /\ \A m \in 0 .. Len(modes) - 1 :
         m \notin refused /\ Info(m).format \in Supported =>
           Deviation(fbInfo) <= Deviation(Info(m))
    /\ best.index # started =>
         /\ Info(best.index).format \in Supported
         /\ Deviation(Info(best.index)) < Deviation(Info(started))

(* The firmware calls still to come, the decision after the loop included. *)
CallsLeft == CASE gopPc = "query" -> (Len(modes) - i) + 2
               [] gopPc = "set" -> 1
               [] gopPc = "returned" -> 0

(* Each call uses up one of the calls left, whether the firmware describes  *)
(* a mode, fails to, or refuses to set the one that was chosen: nothing is  *)
(* asked twice and the search never starts over.                            *)
AsksOnce == [][CallsLeft' \in 0 .. CallsLeft - 1]_gopVars

(* The search ends for every list and every failure of the firmware. *)
GopReturns == <>(gopPc = "returned")

-----------------------------------------------------------------------------
(* gop.cpp:31 "we don't support anything other than RGB32 and BGR32": the   *)
(* framebuffer handed to the caller has one of the two formats.             *)
OnlySupportedFormats == gopPc = "returned" /\ switched => Info(inEffect).format \in Supported
=============================================================================
