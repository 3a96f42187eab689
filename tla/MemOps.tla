--------------------------------- MODULE MemOps --------------------------------
(***************************************************************************)
(* The four memory functions of static_libs/chihuahua_essentials            *)
(* (mem_essentials.cpp), which c_husky repeats one per file: one call on a  *)
(* memory of bytes, one action per iteration of its loop.                   *)
(***************************************************************************)
EXTENDS Integers

CONSTANTS
  MemSize,    \* callers own the bytes 0 .. MemSize - 1, and one more follows
  WordMod,    \* 2^64: uintptr_t and size_t wrap here
  Memories,   \* what the memory may hold when a function is called
  Fills       \* the ints memset is called with

Addr == 0 .. MemSize
Byte == 0 .. 255
Ops == {"memcpy", "memmove", "memset", "memcmp"}

(* Callers pass regions that they own; memset has no src of its own. *)
Calls == {c \in [op : Ops, dest : Addr, src : Addr, n : 0 .. MemSize, fill : Fills] :
            /\ c.dest + c.n <= MemSize /\ c.src + c.n <= MemSize
            /\ c.op = "memset" => c.src = c.dest}

ASSUME MemoryAssumption ==
  /\ MemSize \in Nat /\ WordMod \in Nat /\ WordMod > 4 * MemSize
  /\ Memories \subseteq [Addr -> Byte] /\ Fills \subseteq Int

VARIABLES
  pc,         \* "called", the loop being run, "returned"
  call,       \* the function and its arguments
  mem,        \* the memory
  before,     \* history: the memory when the function was called
  d, s, n,    \* the pointers into dest and src, and the counter
  result      \* what memcmp returned

vars == <<pc, call, mem, before, d, s, n, result>>
-----------------------------------------------------------------------------
Init ==
  /\ pc = "called" /\ call \in Calls
  /\ mem \in Memories /\ before = mem
  /\ d = call.dest /\ s = call.src /\ n = call.n /\ result = 0

Memcpy ==
  /\ pc = "called" /\ call.op = "memcpy"
  /\ pc' = "forward"
  /\ UNCHANGED <<call, mem, before, d, s, n, result>>

(* s - d - n <= -2 * n in unsigned arithmetic: the regions do not overlap. *)
Disjoint == (s - d - n) % WordMod <= (-2 * n) % WordMod

(* Mutant of Memmove: always from the front. *)
MemmoveForward ==
  /\ pc = "called" /\ call.op = "memmove"
  /\ pc' = IF d = s THEN "returned" ELSE "forward"
  /\ UNCHANGED <<call, mem, before, d, s, n, result>>

(* Mutant of Memmove: the comparison of the pointers is turned round. *)
MemmoveSwapped ==
  /\ pc = "called" /\ call.op = "memmove"
  /\ pc' = IF d = s THEN "returned" ELSE IF Disjoint \/ s < d THEN "forward" ELSE "backward"
  /\ UNCHANGED <<call, mem, before, d, s, n, result>>

Memmove ==
  /\ pc = "called" /\ call.op = "memmove"
  /\ pc' = IF d = s THEN "returned" ELSE IF Disjoint \/ d < s THEN "forward" ELSE "backward"
  /\ UNCHANGED <<call, mem, before, d, s, n, result>>

(* The loop of memcpy, and of memmove from the front. *)
Forward ==
  /\ pc = "forward"
  /\ \/ /\ n # 0
        /\ mem' = [mem EXCEPT ![d] = mem[s]]
        /\ d' = d + 1 /\ s' = s + 1 /\ n' = n - 1
        /\ UNCHANGED pc
     \/ n = 0 /\ pc' = "returned" /\ UNCHANGED <<mem, d, s, n>>
  /\ UNCHANGED <<call, before, result>>

(* The loop of memmove from the back: offsets n down to 1. *)
Backward ==
  /\ pc = "backward"
  /\ \/ /\ n # 0
        /\ mem' = [mem EXCEPT ![d + n] = mem[s + n]]
        /\ n' = n - 1
        /\ UNCHANGED pc
     \/ n = 0 /\ pc' = "returned" /\ UNCHANGED <<mem, n>>
  /\ UNCHANGED <<call, before, d, s, result>>

(* Mutant of HeadTail: the fourth byte from the end is forgotten. *)
HeadTailShort(size) ==
  {0, size - 1} \cup (IF size > 2 THEN {1, 2, size - 2, size - 3} ELSE {})
                \cup (IF size > 6 THEN {3} ELSE {})

(* The offsets memset writes one by one, with its tests between them. *)
HeadTail(size) ==
  {0, size - 1} \cup (IF size > 2 THEN {1, 2, size - 2, size - 3} ELSE {})
                \cup (IF size > 6 THEN {3, size - 4} ELSE {})

(* Mutant of Fill: the int is stored as it is. *)
FillUnmasked(addresses) == [a \in Addr |-> IF a \in addresses THEN call.fill ELSE mem[a]]

(* Writes the byte of memset's int at the given addresses. *)
Fill(addresses) == [a \in Addr |-> IF a \in addresses THEN call.fill % 256 ELSE mem[a]]

(* Mutant of MemsetHead: the alignment is not taken off the count. *)
MemsetHeadLong ==
  /\ pc = "called" /\ call.op = "memset"
  /\ mem' = IF n = 0 THEN mem ELSE Fill({d + o : o \in HeadTail(n)})
  /\ IF n <= 8 THEN pc' = "returned" /\ UNCHANGED <<d, n>>
               ELSE pc' = "words" /\ d' = d + ((-d) % 4) /\ n' = n \div 4
  /\ UNCHANGED <<call, before, s, result>>

(* memset up to its loop: what is left are whole words at a multiple of 4.  *)
MemsetHead ==
  /\ pc = "called" /\ call.op = "memset"
  /\ mem' = IF n = 0 THEN mem ELSE Fill({d + o : o \in HeadTail(n)})
  /\ IF n <= 8 THEN pc' = "returned" /\ UNCHANGED <<d, n>>
               ELSE pc' = "words" /\ d' = d + ((-d) % 4) /\ n' = (n - ((-d) % 4)) \div 4
  /\ UNCHANGED <<call, before, s, result>>

(* Mutant of Words: neither the pointer nor the counter moves. *)
WordsStuck ==
  /\ pc = "words"
  /\ \/ n # 0 /\ mem' = Fill(d .. d + 3) /\ UNCHANGED <<pc, d, n>>
     \/ n = 0 /\ pc' = "returned" /\ UNCHANGED <<mem, d, n>>
  /\ UNCHANGED <<call, before, s, result>>

Words ==
  /\ pc = "words"
  /\ \/ n # 0 /\ mem' = Fill(d .. d + 3) /\ d' = d + 4 /\ n' = n - 1 /\ UNCHANGED pc
     \/ n = 0 /\ pc' = "returned" /\ UNCHANGED <<mem, d, n>>
  /\ UNCHANGED <<call, before, s, result>>

(* Mutant of Memcmp: the last byte is not compared. *)
MemcmpShort ==
  /\ pc = "called" /\ call.op = "memcmp"
  /\ \/ /\ n > 1 /\ mem[d] = mem[s]
        /\ d' = d + 1 /\ s' = s + 1 /\ n' = n - 1 /\ UNCHANGED <<pc, result>>
     \/ /\ n <= 1 \/ mem[d] # mem[s]
        /\ result' = (IF n > 1 THEN mem[d] - mem[s] ELSE 0) /\ pc' = "returned"
        /\ UNCHANGED <<d, s, n>>
  /\ UNCHANGED <<call, mem, before>>

Memcmp ==
  /\ pc = "called" /\ call.op = "memcmp"
  /\ \/ /\ n # 0 /\ mem[d] = mem[s]
        /\ d' = d + 1 /\ s' = s + 1 /\ n' = n - 1 /\ UNCHANGED <<pc, result>>
     \/ /\ n = 0 \/ mem[d] # mem[s]
        /\ result' = (IF n = 0 THEN 0 ELSE mem[d] - mem[s]) /\ pc' = "returned"
        /\ UNCHANGED <<d, s, n>>
  /\ UNCHANGED <<call, mem, before>>

Returned == pc = "returned" /\ UNCHANGED vars

Next == Memcpy \/ Memmove \/ Forward \/ Backward \/ MemsetHead \/ Words \/ Memcmp \/ Returned

(* The loops run. *)
Spec == Init /\ [][Next]_vars /\ WF_vars(Next)
-----------------------------------------------------------------------------
TypeOK ==
  /\ pc \in {"called", "forward", "backward", "words", "returned"}
  /\ call \in Calls /\ mem \in [Addr -> Byte] /\ before \in [Addr -> Byte]
  /\ d \in 0 .. MemSize + 3 /\ s \in Addr /\ n \in 0 .. MemSize
  /\ result \in -255 .. 255

Dest == call.dest .. call.dest + call.n - 1

(* The memory after the bytes of dest were replaced by those of src. *)
Copied == [a \in Addr |-> IF a \in Dest THEN before[call.src + (a - call.dest)] ELSE before[a]]

(* The front of dest may not run over bytes of src that are still to come. *)
Overruns == call.src < call.dest /\ call.dest < call.src + call.n

(* memcpy and memmove leave in dest what src held when they were called,    *)
(* and the rest alone, wherever the regions lie, except when dest starts    *)
(* inside src; memmove's test for that survives the wrap-around.            *)
CopyResult ==
  pc = "returned" /\ call.op \in {"memcpy", "memmove"} /\ ~Overruns => mem = Copied

(* When dest starts inside src, memmove moves the bytes 1 .. n instead of   *)
(* 0 .. n - 1: none is lost on the way, the first byte of dest keeps its    *)
(* value and the byte after dest gets the one after src.                    *)
MoveResult ==
  pc = "returned" /\ call.op = "memmove" /\ Overruns =>
    mem = [a \in Addr |-> IF a - 1 \in Dest THEN before[call.src + (a - call.dest)] ELSE before[a]]

(* memset fills the whole region, for every size and alignment, although    *)
(* its head, its tail and its words are written separately and overlap.     *)
SetResult ==
  pc = "returned" /\ call.op = "memset" =>
    mem = [a \in Addr |-> IF a \in Dest THEN call.fill % 256 ELSE before[a]]

(* "Each conditional ensures that all the subsequently used offsets are     *)
(* well-defined and in the dest region" (mem_essentials.cpp:61): no step    *)
(* ever changes a byte outside of it, but for memmove from the back.        *)
WritesInside ==
  call.op \in Ops /\ ~(call.op = "memmove" /\ Overruns) => \A a \in Addr \ Dest : mem[a] = before[a]

(* memcmp finds 0 exactly for equal regions, and otherwise the difference   *)
(* of the first bytes that differ.                                          *)
CompareResult ==
  pc = "returned" /\ call.op = "memcmp" =>
    LET differ == {o \in 0 .. call.n - 1 : before[call.dest + o] # before[call.src + o]}
    IN  \/ differ = {} /\ result = 0
        \/ \E o \in differ : /\ \A p \in differ : o <= p
                             /\ result = before[call.dest + o] - before[call.src + o]

(* Every call returns. *)
Returns == <>(pc = "returned")
=============================================================================
