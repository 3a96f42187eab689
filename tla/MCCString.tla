------------------------------ MODULE MCCString -------------------------------
(***************************************************************************)
(* Instances of CString and MemOps for TLC: every call of the memory        *)
(* functions on a memory long enough for memset's head, two words and tail  *)
(* at every alignment, and of the string functions on strings of every      *)
(* length from none to the whole memory.                                    *)
(***************************************************************************)
EXTENDS CString

\* all bytes differ, or they repeat with period 3
MCMemories == {[a \in Addr |-> 100 + a], [a \in Addr |-> a % 3]}
MCFills == {0, -1, 300}

\* where strings end
MCEnds == {{}, {1}, {4, 5}, {8}, {2, 9, 13}, {10, 14}}
MCStringMemories == {[a \in Addr |-> IF a \in ends \cup {MemSize} THEN 0 ELSE 100 + a] : ends \in MCEnds}
=============================================================================
