------------------------------- MODULE MCPaging --------------------------------
(***************************************************************************)
(* Instances of Paging for TLC: tables of four entries, so that a virtual   *)
(* address has two bits per level and the recursive slot, the top half and  *)
(* shared indices all occur among a handful of addresses.                   *)
(***************************************************************************)
EXTENDS Paging

VA(top, l4, l3, l2, l1) == [top |-> top, l4 |-> l4, l3 |-> l3, l2 |-> l2, l1 |-> l1]

Plain == VA("zeros", 0, 2, 3, 2)
Twin == VA("zeros", 0, 3, 2, 2)      \* shares the L1 index of Plain
Recursive == VA("zeros", 0, 2, 1, 1) \* uses slot 1 of the last two levels
Upper == VA("ones", 3, 0, 2, 3)
Mixed == VA("mixed", 0, 2, 3, 0)

MCShared == {Plain, Twin, Recursive, Upper}
MCApart == {Plain, Upper, Mixed}
MCPlain == {Plain}

MCFlags == {{"Present", "WriteBit"}, {"Present", "ReadBit", "ExecuteBit"}}
MCOneFlag == {{"Present", "ExecuteBit"}}
MCFrames == <<8192, 4096, 16384, 12288>>

Clear == [w \in LowWords |-> Zero]
Used == [w \in LowWords |-> IF w = 3 THEN [addr |-> 45056, flags |-> {}] ELSE Zero]
MCClear == {Clear}
MCLowMemory == {Clear, Used}
=============================================================================
