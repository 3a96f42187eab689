--------------------------------- MODULE MCGop ---------------------------------
(***************************************************************************)
(* Instances of Gop for TLC: displays of one to three modes, around the     *)
(* preferred 1920 x 1080, some of whose differences cancel.                 *)
(***************************************************************************)
EXTENDS Gop, FiniteSets

M(width, height, stride, format) ==
  [width |-> width, height |-> height, stride |-> stride, format |-> format]

MCModes == {
  M(640, 480, 640, "RGB"),
  M(1366, 768, 1376, "BltOnly"),
  M(1920, 1080, 1920, "BGR"),
  M(2000, 1000, 2048, "RGB"),       \* 80 wider and 80 lower: deviation 0
  M(2560, 1440, 2560, "BitMask"),
  M(3360, 1080, 3360, "BGR"),       \* as far above as 640 x 240 is below
  M(640, 920, 640, "BGR") }

MCModeLists == UNION {[1 .. n -> MCModes] : n \in 1 .. 3}
=============================================================================
