-------------------------------- MODULE GopProofs -------------------------------
(***************************************************************************)
(* Proofs about Gop, for every display, every list of modes and every       *)
(* failure of the firmware.                                                 *)
(*                                                                          *)
(* The invariant says of the modes looked at so far what ChoosesBest says   *)
(* of all of them: the best one deviates no more than any that could be     *)
(* described, and less than the mode in effect unless it is that mode.      *)
(***************************************************************************)
EXTENDS Gop, TLAPS

(* What is known of the best mode, however far the search has come. *)
BestInv ==
  /\ best.own => best.index = started
  /\ ~best.own => /\ Info(best.index).format \in Supported
                  /\ Deviation(Info(best.index)) < Deviation(Info(started))
  /\ \A m \in 0 .. i - 1 :
       m \notin refused /\ Info(m).format \in Supported =>
         Deviation(Info(best.index)) <= Deviation(Info(m))

(* Who is told what, and when the display changes. *)
SwitchInv ==
  /\ gopPc = "query" => inEffect = started
  /\ gopPc # "query" => i = Len(modes) /\ fbInfo = Describe(Info(best.index))
  /\ gopPc = "set" => inEffect = started /\ ~best.own
  /\ gopPc = "returned" =>
       /\ switched => inEffect = best.index
       /\ ~switched => inEffect = started /\ ~best.own

IInv == GopTypeOK /\ BestInv /\ SwitchInv

(* A mode of the list, by its number. *)
LEMMA InfoIsMode ==
  ASSUME modes \in ModeLists, NEW m \in 0 .. Len(modes) - 1
  PROVE  Info(m) \in Mode
<1>1. modes \in Seq(Mode)
  BY DisplayAssumption
<1>2. m + 1 \in 1 .. Len(modes)
  BY <1>1
<1> QED
  BY <1>1, <1>2 DEF Info

(* Deviations are naturals, and the description of a mode has the mode's.   *)
LEMMA DeviationFacts ==
  ASSUME NEW mode \in Mode
  PROVE  /\ Deviation(mode) \in Nat
         /\ Describe(mode) \in FramebufferInfo
         /\ Deviation(Describe(mode)) = Deviation(mode)
<1>1. /\ mode.width \in Nat /\ mode.height \in Nat /\ mode.stride \in Nat
      /\ PreferredWidth \in Nat /\ PreferredHeight \in Nat
  BY DisplayAssumption DEF Mode
<1>2. Deviation(mode) \in Nat
  BY <1>1 DEF Deviation, Abs
<1>3. Describe(mode).width = mode.width /\ Describe(mode).height = mode.height
  BY DEF Describe
<1>4. Describe(mode) \in FramebufferInfo
  BY <1>1 DEF Describe, FramebufferInfo
<1> QED
  BY <1>2, <1>3, <1>4 DEF Deviation

LEMMA InitHolds == Init => IInv
<1> SUFFICES ASSUME Init PROVE IInv
  OBVIOUS
<1>1. modes \in Seq(Mode) /\ Len(modes) \in Nat /\ inEffect \in 0 .. Len(modes) - 1
  BY DisplayAssumption DEF Init
<1>2. GopTypeOK
  <2>1. fbInfo \in FramebufferInfo
    BY DEF Init, FramebufferInfo, INVALID_FRAMEBUFFER_INFO
  <2>2. best.index = inEffect /\ best.own \in BOOLEAN /\ switched \in BOOLEAN
    BY DEF Init
  <2>3. i \in 0 .. Len(modes) /\ infos \in 0 .. i
    BY <1>1 DEF Init
  <2> QED
    BY <1>1, <2>1, <2>2, <2>3 DEF Init, GopTypeOK
<1>3. BestInv
  BY DEF Init, BestInv
<1> QED
  BY <1>2, <1>3 DEF Init, IInv, SwitchInv

(* Facts that every step needs. *)
LEMMA StateFacts ==
  ASSUME IInv
  PROVE  /\ modes \in Seq(Mode) /\ Len(modes) \in Nat /\ i \in Nat /\ i <= Len(modes)
         /\ best.index \in 0 .. Len(modes) - 1 /\ started \in 0 .. Len(modes) - 1
         /\ Deviation(Info(best.index)) \in Nat
         /\ \A m \in 0 .. Len(modes) - 1 : Deviation(Info(m)) \in Nat
<1>1. modes \in Seq(Mode) /\ Len(modes) \in Nat
  BY DisplayAssumption DEF IInv, GopTypeOK
<1>2. i \in Nat /\ i <= Len(modes)
  BY <1>1 DEF IInv, GopTypeOK
<1>3. best.index \in 0 .. Len(modes) - 1 /\ started \in 0 .. Len(modes) - 1
  BY DEF IInv, GopTypeOK
<1>4. \A m \in 0 .. Len(modes) - 1 : Deviation(Info(m)) \in Nat
  BY InfoIsMode, DeviationFacts DEF IInv, GopTypeOK
<1> QED
  BY <1>1, <1>2, <1>3, <1>4

(* A mode that the firmware does not describe is out of the comparison. *)
LEMMA QueryFailsKeeps ==
  ASSUME IInv, QueryFails
  PROVE  IInv'
<1>1. /\ gopPc = "query" /\ i < Len(modes) /\ i' = i + 1 /\ refused' = refused \cup {i}
      /\ UNCHANGED <<gopPc, modes, inEffect, best, infos, fbInfo, started, switched>>
  BY DEF QueryFails
<1>2. i \in Nat /\ Len(modes) \in Nat
  BY StateFacts
<1>3. GopTypeOK'
  BY <1>1, <1>2 DEF IInv, GopTypeOK
<1>4. BestInv'
  <2>1. \A m \in 0 .. i' - 1 : m \notin refused' => m \in 0 .. i - 1 /\ m \notin refused
    BY <1>1, <1>2
  <2>2. \A m : Info(m)' = Info(m)
    BY <1>1 DEF Info
  <2> QED
    BY <1>1, <2>1, <2>2 DEF IInv, BestInv
<1>5. SwitchInv'
  BY <1>1 DEF IInv, SwitchInv
<1> QED
  BY <1>3, <1>4, <1>5 DEF IInv

(* A described mode replaces the best one exactly when it is closer. *)
LEMMA QuerySucceedsKeeps ==
  ASSUME IInv, QuerySucceeds
  PROVE  IInv'
<1>1. /\ gopPc = "query" /\ i < Len(modes) /\ i' = i + 1 /\ infos' = infos + 1
      /\ best' = IF Better(Info(i)) THEN [index |-> i, own |-> FALSE] ELSE best
      /\ UNCHANGED <<gopPc, modes, inEffect, refused, fbInfo, started, switched>>
  BY DEF QuerySucceeds
<1>2. /\ i \in Nat /\ Len(modes) \in Nat /\ i \in 0 .. Len(modes) - 1
      /\ \A m \in 0 .. Len(modes) - 1 : Deviation(Info(m)) \in Nat
      /\ best.index \in 0 .. Len(modes) - 1 /\ started \in 0 .. Len(modes) - 1
  BY <1>1, StateFacts
<1>3. \A m : Info(m)' = Info(m)
  BY <1>1 DEF Info
<1>4. GopTypeOK'
  <2>1. best'.index \in 0 .. Len(modes) - 1 /\ best'.own \in BOOLEAN
    BY <1>1, <1>2 DEF IInv, GopTypeOK
  <2>2. i' \in 0 .. Len(modes) /\ infos' \in 0 .. i'
    <3>1. infos \in 0 .. i /\ i' = i + 1 /\ infos' = infos + 1 /\ i < Len(modes)
      BY <1>1 DEF IInv, GopTypeOK
    <3> QED
      BY <1>2, <3>1
  <2> QED
    BY <1>1, <2>1, <2>2 DEF IInv, GopTypeOK
<1>5. SwitchInv'
  BY <1>1 DEF IInv, SwitchInv
<1>6. BestInv'
  <2>1. \A m \in 0 .. i' - 1 : m = i \/ m \in 0 .. i - 1
    BY <1>1, <1>2
  <2>2. 0 .. i - 1 \subseteq 0 .. Len(modes) - 1
    BY <1>2
  <2>3. CASE Better(Info(i))
    <3>1. best'.index = i /\ ~best'.own
      BY <1>1, <2>3
    <3>2. Info(i).format \in Supported /\ Deviation(Info(i)) < Deviation(Info(best.index))
      BY <2>3 DEF Better
    <3>3. Deviation(Info(i)) < Deviation(Info(started))
      BY <1>2, <3>2 DEF IInv, BestInv
    <3>4. \A m \in 0 .. i - 1 :
            m \notin refused /\ Info(m).format \in Supported =>
              Deviation(Info(i)) <= Deviation(Info(m))
      <4> SUFFICES ASSUME NEW m \in 0 .. i - 1, m \notin refused, Info(m).format \in Supported
                   PROVE  Deviation(Info(i)) <= Deviation(Info(m))
        OBVIOUS
      <4>1. Deviation(Info(best.index)) <= Deviation(Info(m))
        BY DEF IInv, BestInv
      <4>2. /\ Deviation(Info(i)) \in Nat /\ Deviation(Info(m)) \in Nat
            /\ Deviation(Info(best.index)) \in Nat
        BY <1>2, <2>2
      <4> QED
        BY <3>2, <4>1, <4>2
    <3>5. \A m \in 0 .. i' - 1 :
            m \notin refused' /\ Info(m)'.format \in Supported =>
              Deviation(Info(i)) <= Deviation(Info(m)')
      <4>1. Deviation(Info(i)) <= Deviation(Info(i))
        BY <1>2
      <4> QED
        BY <1>1, <1>3, <2>1, <3>4, <4>1
    <3>6. Info(best.index)' = Info(i) /\ Info(started)' = Info(started)
      BY <1>1, <3>1 DEF Info
    <3> QED
      BY <3>1, <3>2, <3>3, <3>5, <3>6 DEF BestInv
  <2>4. CASE ~Better(Info(i))
    <3>1. best' = best
      BY <1>1, <2>4
    <3>2. Info(i).format \in Supported => Deviation(Info(best.index)) <= Deviation(Info(i))
      BY <1>2, <2>4 DEF Better
    <3> QED
      BY <1>1, <1>3, <2>1, <3>1, <3>2 DEF IInv, BestInv
  <2> QED
    BY <2>3, <2>4
<1> QED
  BY <1>4, <1>5, <1>6 DEF IInv

(* The end of the loop. *)
LEMMA DecideKeeps ==
  ASSUME IInv, Decide
  PROVE  IInv'
<1>1. /\ gopPc = "query" /\ i >= Len(modes) /\ fbInfo' = Describe(Info(best.index))
      /\ gopPc' = (IF best.own THEN "returned" ELSE "set") /\ switched' = best.own
      /\ UNCHANGED <<modes, inEffect, i, best, infos, refused, started>>
  BY DEF Decide
<1>2. i = Len(modes) /\ best.own \in BOOLEAN /\ inEffect = started
  BY <1>1, StateFacts DEF IInv, GopTypeOK, SwitchInv
<1>3. Info(best.index)' = Info(best.index) /\ Describe(Info(best.index))' = Describe(Info(best.index))
  BY <1>1 DEF Info, Describe
<1>4. GopTypeOK'
  <2>1. fbInfo' \in FramebufferInfo
    BY <1>1, InfoIsMode, DeviationFacts DEF IInv, GopTypeOK
  <2> QED
    BY <1>1, <1>2, <2>1 DEF IInv, GopTypeOK
<1>5. BestInv'
  <2>1. \A m : Info(m)' = Info(m)
    BY <1>1 DEF Info
  <2> QED
    BY <1>1, <2>1 DEF IInv, BestInv
<1>6. SwitchInv'
  <2>1. CASE best.own
    BY <1>1, <1>2, <1>3, <2>1 DEF IInv, BestInv, SwitchInv
  <2>2. CASE ~best.own
    BY <1>1, <1>2, <1>3, <2>2 DEF SwitchInv
  <2> QED
    BY <2>1, <2>2
<1> QED
  BY <1>4, <1>5, <1>6 DEF IInv

(* The mode is set, or the firmware refuses and the old one stays. *)
LEMMA SetModeKeeps ==
  ASSUME IInv, SetMode
  PROVE  IInv'
<1>1. PICK ok \in BOOLEAN :
        /\ gopPc = "set" /\ gopPc' = "returned"
        /\ inEffect' = (IF ok THEN best.index ELSE inEffect) /\ switched' = ok
        /\ UNCHANGED <<modes, i, best, infos, refused, fbInfo, started>>
  BY DEF SetMode
<1>2. GopTypeOK'
  BY <1>1 DEF IInv, GopTypeOK
<1>3. \A m : Info(m)' = Info(m) /\ Describe(Info(m))' = Describe(Info(m))
  BY <1>1 DEF Info, Describe
<1>4. BestInv'
  BY <1>1, <1>3 DEF IInv, BestInv
<1>5. SwitchInv'
  <2>1. inEffect = started /\ ~best.own /\ i = Len(modes) /\ fbInfo = Describe(Info(best.index))
    BY <1>1 DEF IInv, SwitchInv
  <2> QED
    BY <1>1, <1>3, <2>1 DEF SwitchInv
<1> QED
  BY <1>2, <1>4, <1>5 DEF IInv

LEMMA StepKeeps ==
  ASSUME IInv, [Next \/ Returned]_gopVars
  PROVE  IInv'
<1>1. CASE UNCHANGED gopVars
  <2>1. \A m : Info(m)' = Info(m) /\ Describe(Info(m))' = Describe(Info(m))
    BY <1>1 DEF gopVars, Info, Describe
  <2>2. GopTypeOK' /\ BestInv'
    BY <1>1, <2>1 DEF gopVars, IInv, GopTypeOK, BestInv
  <2>3. SwitchInv'
    BY <1>1, <2>1 DEF gopVars, IInv, SwitchInv
  <2> QED
    BY <2>2, <2>3 DEF IInv
<1>2. CASE Next
  BY <1>2, QueryFailsKeeps, QuerySucceedsKeeps, DecideKeeps, SetModeKeeps DEF Next, Query
<1> QED
  BY <1>1, <1>2 DEF Returned

THEOREM Invariance == Spec => []IInv
  BY InitHolds, StepKeeps, PTL DEF Spec

(* Every variable of the search has its type: in particular the loop asks   *)
(* for each mode once, and the buffers QueryMode allocates are no more than *)
(* the modes.                                                               *)
THEOREM TypeCorrect == Spec => []GopTypeOK
<1>1. IInv => GopTypeOK
  BY DEF IInv
<1> QED
  BY <1>1, Invariance, PTL

(* The flag of a call that has returned is true of the display. *)
LEMMA DescriptionFollows == IInv => DescribesDisplay
<1> SUFFICES ASSUME IInv, gopPc = "returned"
             PROVE  /\ switched => fbInfo = Describe(Info(inEffect))
                    /\ ~switched => inEffect = started /\ best.index # started
  BY DEF DescribesDisplay
<1>1. switched => fbInfo = Describe(Info(inEffect))
  BY DEF IInv, SwitchInv
<1>2. ASSUME ~switched PROVE inEffect = started /\ best.index # started
  <2>1. inEffect = started /\ ~best.own
    BY <1>2 DEF IInv, SwitchInv
  <2>2. Deviation(Info(best.index)) < Deviation(Info(started))
    BY <2>1 DEF IInv, BestInv
  <2>3. Deviation(Info(started)) \in Nat
    BY StateFacts
  <2> QED
    BY <2>1, <2>2, <2>3
<1> QED
  BY <1>1, <1>2

(* The caller's flag tells whether the framebuffer described is the one the *)
(* display shows.                                                           *)
THEOREM DescriptionTrue == Spec => []DescribesDisplay
  BY DescriptionFollows, Invariance, PTL

(* After the loop the best mode of those looked at is the best of all. *)
LEMMA BestFollows == IInv => ChoosesBest
<1> SUFFICES ASSUME IInv, gopPc # "query"
             PROVE  /\ \A m \in 0 .. Len(modes) - 1 :
                         m \notin refused /\ Info(m).format \in Supported =>
                           Deviation(fbInfo) <= Deviation(Info(m))
                    /\ best.index # started =>
                         /\ Info(best.index).format \in Supported
                         /\ Deviation(Info(best.index)) < Deviation(Info(started))
  BY DEF ChoosesBest
<1>1. i = Len(modes) /\ fbInfo = Describe(Info(best.index))
  BY DEF IInv, SwitchInv
<1>2. Deviation(fbInfo) = Deviation(Info(best.index))
  BY <1>1, InfoIsMode, DeviationFacts DEF IInv, GopTypeOK
<1>3. best.own \in BOOLEAN
  BY DEF IInv, GopTypeOK
<1> QED
  BY <1>1, <1>2, <1>3 DEF IInv, BestInv

(* The search finds a mode no other supported one is closer than, whichever *)
(* of them the firmware did not describe.                                   *)
THEOREM BestChosen == Spec => []ChoosesBest
  BY BestFollows, Invariance, PTL

(* The calls left are a number, and no step of the search leaves as many as *)
(* there were.                                                              *)
LEMMA CallsNatural == IInv => CallsLeft \in Nat
<1> SUFFICES ASSUME IInv PROVE CallsLeft \in Nat
  OBVIOUS
<1>1. i \in Nat /\ Len(modes) \in Nat /\ i <= Len(modes)
  BY StateFacts
<1>2. gopPc \in {"query", "set", "returned"} /\ (Len(modes) - i) + 2 \in Nat
  BY <1>1 DEF IInv, GopTypeOK
<1> QED
  BY <1>2 DEF CallsLeft

LEMMA CallUsesOne ==
  ASSUME IInv, Next
  PROVE  CallsLeft' < CallsLeft
<1>1. i \in Nat /\ Len(modes) \in Nat /\ i <= Len(modes)
  BY StateFacts
<1>2. CASE Query
  <2>1. gopPc = "query" /\ gopPc' = "query" /\ i' = i + 1 /\ modes' = modes
    BY <1>2 DEF Query, QueryFails, QuerySucceeds
  <2>2. CallsLeft = (Len(modes) - i) + 2 /\ CallsLeft' = (Len(modes) - (i + 1)) + 2
    BY <2>1 DEF CallsLeft
  <2> QED
    BY <1>1, <2>2
<1>3. CASE Decide
  <2>1. gopPc = "query" /\ gopPc' \in {"returned", "set"}
    BY <1>3 DEF Decide
  <2>2. CallsLeft = (Len(modes) - i) + 2 /\ CallsLeft' \in {0, 1}
    BY <2>1 DEF CallsLeft
  <2> QED
    BY <1>1, <2>2
<1>4. CASE SetMode
  BY <1>4 DEF SetMode, CallsLeft
<1> QED
  BY <1>2, <1>3, <1>4 DEF Next

(* The search makes at most one call for each mode, and two more.           *)
THEOREM CallsBounded == Spec => CallsLeft = Len(modes) + 2 /\ AsksOnce
<1>1. Init => CallsLeft = Len(modes) + 2
  <2> SUFFICES ASSUME Init PROVE CallsLeft = Len(modes) + 2
    OBVIOUS
  <2>1. gopPc = "query" /\ i = 0 /\ Len(modes) \in Nat
    BY DisplayAssumption DEF Init
  <2> QED
    BY <2>1 DEF CallsLeft
<1>2. IInv /\ (CallsLeft \in Nat)' /\ CallsLeft \in Nat /\ [Next \/ Returned]_gopVars
        => [CallsLeft' \in 0 .. CallsLeft - 1]_gopVars
  <2> SUFFICES ASSUME IInv, CallsLeft \in Nat, CallsLeft' \in Nat, Next \/ Returned
               PROVE  [CallsLeft' \in 0 .. CallsLeft - 1]_gopVars
    OBVIOUS
  <2>1. CASE Next
    <3>1. CallsLeft' < CallsLeft
      BY <2>1, CallUsesOne
    <3> QED
      BY <3>1
  <2>2. CASE Returned
    BY <2>2 DEF Returned
  <2> QED
    BY <2>1, <2>2
<1> QED
  BY <1>1, <1>2, CallsNatural, Invariance, PTL DEF Spec, AsksOnce
=============================================================================
