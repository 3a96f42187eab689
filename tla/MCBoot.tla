--------------------------------- MODULE MCBoot --------------------------------
(***************************************************************************)
(* An instance of Boot for TLC: two displays, and memory maps of just below *)
(* a page, exactly a page and a little more than one and two pages.         *)
(***************************************************************************)
EXTENDS Boot

M(width, height, format) ==
  [width |-> width, height |-> height, stride |-> width, format |-> format]

MCModeLists == {
  <<M(800, 600, "BGR")>>,
  <<M(640, 480, "RGB"), M(1920, 1080, "BGR")>> }

MCMapSizes == {4080, 4096, 4128, 8240}
=============================================================================
