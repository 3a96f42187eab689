------------------------------ MODULE MemOpsProofs -----------------------------
(***************************************************************************)
(* Proofs about MemOps, for memories of every size and contents and every   *)
(* call on them.                                                            *)
(***************************************************************************)
EXTENDS MemOps, TLAPS

-----------------------------------------------------------------------------
(* Arithmetic. *)

LEMMA CallType ==
  ASSUME NEW c \in Calls
  PROVE  /\ c.op \in Ops /\ c.dest \in Addr /\ c.src \in Addr /\ c.n \in 0 .. MemSize
         /\ c.fill \in Int /\ c.dest \in Nat /\ c.src \in Nat /\ c.n \in Nat
         /\ c.dest + c.n <= MemSize /\ c.src + c.n <= MemSize
<1>1. /\ c \in [op : Ops, dest : Addr, src : Addr, n : 0 .. MemSize, fill : Fills]
      /\ c.dest + c.n <= MemSize /\ c.src + c.n <= MemSize
  BY DEF Calls
<1>2. /\ c.op \in Ops /\ c.dest \in Addr /\ c.src \in Addr /\ c.n \in 0 .. MemSize
      /\ c.fill \in Fills
  BY <1>1
<1>3. MemSize \in Nat /\ Fills \subseteq Int
  BY MemoryAssumption
<1>4. Addr \subseteq Nat /\ 0 .. MemSize \subseteq Nat
  BY <1>3 DEF Addr
<1> QED
  BY <1>1, <1>2, <1>3, <1>4

(* The remainder of a number within one word of the origin. *)
LEMMA WordRemainder ==
  ASSUME NEW w \in Nat, NEW x \in Int, 0 - w <= x, x < w
  PROVE  x % w = IF x < 0 THEN x + w ELSE x
  OBVIOUS

(* memmove's test in spite of the wrap-around: for n > 0 it holds exactly   *)
(* when the regions have no byte in common.                                 *)
LEMMA DisjointMeans ==
  ASSUME NEW from \in Addr, NEW to \in Addr, NEW size \in 1 .. MemSize
  PROVE  (from - to - size) % WordMod <= (-2 * size) % WordMod
           <=> from >= to + size \/ to >= from + size
<1>1. /\ MemSize \in Nat /\ WordMod \in Nat /\ WordMod > 4 * MemSize
      /\ from \in 0 .. MemSize /\ to \in 0 .. MemSize
  BY MemoryAssumption DEF Addr
<1>2. (-2 * size) % WordMod = WordMod - 2 * size
  <2> DEFINE x == -2 * size
  <2>1. x \in Int /\ x < 0 /\ 0 - WordMod <= x /\ x < WordMod /\ x + WordMod = WordMod - 2 * size
    BY <1>1
  <2> HIDE DEF x
  <2>2. x % WordMod = IF x < 0 THEN x + WordMod ELSE x
    BY <1>1, <2>1, WordRemainder
  <2>3. x % WordMod = WordMod - 2 * size
    BY <2>1, <2>2
  <2> QED
    BY <2>3 DEF x
<1>3. LET x == from - to - size IN x % WordMod = IF x < 0 THEN x + WordMod ELSE x
  <2>1. from - to - size \in Int /\ 0 - WordMod <= from - to - size /\ from - to - size < WordMod
    BY <1>1
  <2> QED
    BY <1>1, <2>1, WordRemainder
<1> QED
  BY <1>1, <1>2, <1>3

(* What memset writes before its words and in them is the whole region,     *)
(* for every size and alignment.                                            *)
Head(dest) == (-dest) % 4
WordBytes(dest, size) == 4 * ((size - Head(dest)) \div 4)

LEMMA FillByte ==
  ASSUME NEW fill \in Int
  PROVE  fill % 256 \in Byte
  BY DEF Byte

LEMMA HeadTailSmall ==
  ASSUME NEW size \in 1 .. 8
  PROVE  HeadTail(size) = 0 .. size - 1
<1>1. CASE size <= 2
  BY <1>1 DEF HeadTail
<1>2. CASE size > 2 /\ size <= 6
  BY <1>2 DEF HeadTail
<1>3. CASE size > 6
  BY <1>3 DEF HeadTail
<1> QED
  BY <1>1, <1>2, <1>3

LEMMA HeadTailInside ==
  ASSUME NEW size \in Nat, size > 0
  PROVE  HeadTail(size) \subseteq 0 .. size - 1
  BY DEF HeadTail

LEMMA WordsFill ==
  ASSUME NEW dest \in Nat, NEW size \in Nat, size > 8
  PROVE  /\ Head(dest) \in 0 .. 3
         /\ (size - Head(dest)) \div 4 \in Nat
         /\ WordBytes(dest, size) \in Nat /\ Head(dest) + WordBytes(dest, size) <= size
         /\ HeadTail(size) \cup (Head(dest) .. Head(dest) + WordBytes(dest, size) - 1) = 0 .. size - 1
<1>1. Head(dest) \in 0 .. 3
  BY DEF Head
<1> DEFINE k == Head(dest)
           m == (size - k) \div 4
<1>2. m \in Nat /\ 4 * m <= size - k /\ size - k < 4 * m + 4
  BY <1>1
<1>3. WordBytes(dest, size) = 4 * m
  BY DEF WordBytes
<1> HIDE DEF k, m
<1>4. {0, 1, 2, size - 1, size - 2, size - 3} \subseteq HeadTail(size)
  BY DEF HeadTail
<1>5. HeadTail(size) \subseteq 0 .. size - 1
  BY HeadTailInside
<1>6. \A o \in 0 .. size - 1 : o \in HeadTail(size) \/ o \in k .. k + 4 * m - 1
  <2> SUFFICES ASSUME NEW o \in 0 .. size - 1, o \notin k .. k + 4 * m - 1
               PROVE  o \in {0, 1, 2, size - 1, size - 2, size - 3}
    BY <1>4
  <2>1. k \in 0 .. 3
    BY <1>1 DEF k
  <2> QED
    BY <1>2, <2>1
<1>7. k .. k + 4 * m - 1 \subseteq 0 .. size - 1
  <2>1. k \in 0 .. 3
    BY <1>1 DEF k
  <2> QED
    BY <1>2, <2>1
<1> QED
  BY <1>1, <1>2, <1>3, <1>5, <1>6, <1>7 DEF k, m

-----------------------------------------------------------------------------
(* The inductive invariant: what each loop has done so far. *)

(* Nothing was written before the first loop; memcmp has passed only equal  *)
(* bytes.                                                                   *)
CalledInv ==
  pc = "called" =>
    /\ mem = before
    /\ call.op # "memcmp" => d = call.dest /\ s = call.src /\ n = call.n
    /\ call.op = "memcmp" =>
         LET k == call.n - n
         IN  /\ d = call.dest + k /\ s = call.src + k /\ k >= 0
             /\ \A o \in 0 .. k - 1 : before[call.dest + o] = before[call.src + o]

(* The first call.n - n bytes are in place. *)
ForwardInv ==
  pc = "forward" =>
    LET k == call.n - n
    IN  /\ call.op \in {"memcpy", "memmove"} /\ (call.op = "memmove" => ~Overruns)
        /\ d = call.dest + k /\ s = call.src + k /\ k >= 0
        /\ ~Overruns =>
             \A a \in Addr :
               mem[a] = IF a \in call.dest .. d - 1 THEN before[call.src + (a - call.dest)]
                        ELSE before[a]
        /\ \A a \in Addr \ Dest : mem[a] = before[a]

(* The bytes above offset n are in place. *)
BackwardInv ==
  pc = "backward" =>
    /\ call.op = "memmove" /\ (Overruns \/ call.n = 0)
    /\ d = call.dest /\ s = call.src /\ n <= call.n
    /\ \A a \in Addr :
         mem[a] = IF a \in call.dest + n + 1 .. call.dest + call.n
                    THEN before[call.src + (a - call.dest)] ELSE before[a]

(* The offsets memset has written. *)
Written == HeadTail(call.n) \cup (Head(call.dest) .. d - call.dest - 1)

WordsInv ==
  pc = "words" =>
    /\ call.op = "memset" /\ call.n > 8
    /\ d >= call.dest + Head(call.dest)
    /\ d + 4 * n = call.dest + Head(call.dest) + WordBytes(call.dest, call.n)
    /\ \A a \in Addr : mem[a] = IF a - call.dest \in Written THEN call.fill % 256 ELSE before[a]

ReturnedInv == CopyResult /\ MoveResult /\ SetResult /\ CompareResult

IInv == /\ TypeOK /\ CalledInv /\ ForwardInv /\ BackwardInv /\ WordsInv
        /\ ReturnedInv /\ WritesInside

(* A call of any of the four functions begins. *)
Begun ==
  /\ pc = "called" /\ call \in Calls
  /\ mem \in [Addr -> Byte] /\ before = mem
  /\ d = call.dest /\ s = call.src /\ n = call.n /\ result = 0

LEMMA BegunIInv == Begun => IInv
<1> SUFFICES ASSUME Begun PROVE IInv
  OBVIOUS
<1> USE DEF Begun
<1>1. call \in Calls /\ mem \in [Addr -> Byte] /\ before \in [Addr -> Byte]
  OBVIOUS
<1>2. TypeOK
  BY <1>1, CallType, MemoryAssumption DEF TypeOK, Addr
<1>3. CalledInv
  BY <1>1, CallType DEF CalledInv
<1>4. pc = "called" /\ mem = before
  OBVIOUS
<1>5. ForwardInv /\ BackwardInv /\ WordsInv
  BY <1>4 DEF ForwardInv, BackwardInv, WordsInv
<1>6. ReturnedInv
  BY <1>4 DEF ReturnedInv, CopyResult, MoveResult, SetResult, CompareResult
<1>7. WritesInside
  BY <1>4 DEF WritesInside
<1> QED
  BY <1>2, <1>3, <1>5, <1>6, <1>7 DEF IInv

LEMMA InitIInv == Init => IInv
<1>1. Init => Begun
  BY MemoryAssumption DEF Init, Begun
<1> QED
  BY <1>1, BegunIInv

(* The facts about the call that every step uses. *)
LEMMA CallFacts ==
  ASSUME TypeOK
  PROVE  /\ MemSize \in Nat /\ Addr = 0 .. MemSize
         /\ call \in Calls /\ call.dest \in Nat /\ call.src \in Nat /\ call.n \in Nat
         /\ call.dest + call.n <= MemSize /\ call.src + call.n <= MemSize
         /\ call.fill \in Int
         /\ d \in Nat /\ s \in Nat /\ n \in Nat
  BY CallType, MemoryAssumption DEF TypeOK, Addr

(* The step into a loop of memcpy or memmove. *)
LEMMA CopyBegins ==
  ASSUME IInv, Memcpy \/ Memmove
  PROVE  IInv'
<1> USE DEF IInv
<1>1. /\ pc = "called" /\ pc' \in {"forward", "backward", "returned"}
      /\ UNCHANGED <<call, mem, before, d, s, n, result>>
      /\ call.op \in {"memcpy", "memmove"}
  BY DEF Memcpy, Memmove
<1>2. mem = before /\ d = call.dest /\ s = call.src /\ n = call.n
  BY <1>1 DEF CalledInv
<1>3. TypeOK'
  BY <1>1 DEF TypeOK
<1>4. /\ n # 0 => (Disjoint <=> s >= d + n \/ d >= s + n)
      /\ pc' = "forward" /\ call.op = "memmove" => Disjoint \/ d < s
      /\ pc' = "backward" => call.op = "memmove" /\ ~Disjoint /\ ~(d < s) /\ d # s
      /\ pc' = "returned" => d = s
  <2>1. n # 0 => (Disjoint <=> s >= d + n \/ d >= s + n)
    <3>1. n # 0 => n \in 1 .. MemSize /\ s \in Addr /\ d \in Addr
      BY <1>2, CallFacts
    <3> QED
      BY <3>1, DisjointMeans DEF Disjoint
  <2> QED
    BY <2>1 DEF Memcpy, Memmove
<1>5. CalledInv' /\ WordsInv'
  BY <1>1 DEF CalledInv, WordsInv
<1>6. ForwardInv'
  <2> SUFFICES ASSUME pc' = "forward" PROVE ForwardInv'
    BY DEF ForwardInv
  <2>1. call.op = "memmove" => ~Overruns
    BY <1>2, <1>4, CallFacts DEF Overruns
  <2>2. call.n - n = 0 /\ call.dest .. d - 1 = {}
    BY <1>2, CallFacts
  <2> QED
    BY <1>1, <1>2, <2>1, <2>2, CallFacts DEF ForwardInv, Overruns, Dest
<1>7. BackwardInv'
  <2> SUFFICES ASSUME pc' = "backward" PROVE BackwardInv'
    BY DEF BackwardInv
  <2>1. call.op = "memmove" /\ (Overruns \/ call.n = 0)
    BY <1>2, <1>4, CallFacts DEF Overruns
  <2>2. call.dest + n + 1 .. call.dest + call.n = {} /\ n <= call.n
    BY <1>2, CallFacts
  <2> QED
    BY <1>1, <1>2, <2>1, <2>2, CallFacts DEF BackwardInv, Overruns
<1>8. ReturnedInv'
  <2> SUFFICES ASSUME pc' = "returned" PROVE ReturnedInv'
    BY DEF ReturnedInv, CopyResult, MoveResult, SetResult, CompareResult
  <2>1. call.dest = call.src /\ ~Overruns
    BY <1>2, <1>4, CallFacts DEF Overruns
  <2>2. Copied = before
    <3>1. \A a \in Addr : call.src + (a - call.dest) = a
      BY <2>1, CallFacts
    <3> QED
      BY <3>1 DEF Copied, TypeOK
  <2> QED
    BY <1>1, <1>2, <2>1, <2>2
      DEF ReturnedInv, CopyResult, MoveResult, SetResult, CompareResult, Copied, Overruns, Dest
<1>9. WritesInside'
  BY <1>1 DEF WritesInside, Overruns, Dest
<1> QED
  BY <1>3, <1>5, <1>6, <1>7, <1>8, <1>9

(* An iteration of the loop from the front, and its end. *)
LEMMA ForwardKeeps ==
  ASSUME IInv, Forward
  PROVE  IInv'
<1> USE DEF IInv
<1> DEFINE k == call.n - n
<1>1. /\ pc = "forward" /\ UNCHANGED <<call, before, result>>
      /\ call.op \in {"memcpy", "memmove"} /\ (call.op = "memmove" => ~Overruns)
      /\ d = call.dest + (call.n - n) /\ s = call.src + (call.n - n) /\ n <= call.n
  <2>1. k >= 0 => n <= call.n
    BY CallFacts
  <2> QED
    BY <2>1 DEF Forward, ForwardInv
<1> HIDE DEF k
<1>9. \A a \in Addr \ Dest : mem[a] = before[a]
  BY <1>1 DEF ForwardInv
<1>2. ~Overruns => \A a \in Addr :
        mem[a] = IF a \in call.dest .. d - 1 THEN before[call.src + (a - call.dest)] ELSE before[a]
  BY <1>1 DEF ForwardInv
<1>3. Overruns' = Overruns /\ Dest' = Dest /\ Copied' = Copied
  BY <1>1 DEF Overruns, Dest, Copied
<1>4. mem \in [Addr -> Byte] /\ before \in [Addr -> Byte]
  BY DEF TypeOK
<1>10. /\ MemSize \in Nat /\ call.dest \in Nat /\ call.src \in Nat /\ call.n \in Nat
       /\ call.dest + call.n <= MemSize /\ call.src + call.n <= MemSize
       /\ d \in Nat /\ s \in Nat /\ n \in Nat
  BY CallFacts
<1>5. CASE n # 0 /\ pc' = pc
  <2>1. d' = d + 1 /\ s' = s + 1 /\ n' = n - 1
    BY <1>1, <1>5 DEF Forward
  <2>9. d = call.dest + (call.n - n) /\ s = call.src + (call.n - n) /\ n \in 1 .. call.n
    <3>1. n # 0 /\ n <= call.n /\ d = call.dest + (call.n - n) /\ s = call.src + (call.n - n)
      BY <1>1, <1>5
    <3> QED
      BY <1>10, <3>1
  <2>2. n \in 1 .. call.n /\ d \in Dest /\ d \in Addr /\ s \in Addr
    BY <1>10, <2>9 DEF Dest, Addr
  <2>3. mem' \in [Addr -> Byte] /\ mem'[d] = mem[s] /\ \A a \in Addr \ {d} : mem'[a] = mem[a]
    <3>1. mem' = [mem EXCEPT ![d] = mem[s]]
      BY <1>1, <1>5 DEF Forward
    <3> QED
      BY <1>4, <2>2, <3>1
  <2>4. TypeOK'
    <3>1. d' \in 0 .. MemSize + 3 /\ s' \in Addr /\ n' \in 0 .. MemSize
      BY <1>10, <2>1, <2>9 DEF Addr
    <3> QED
      BY <1>1, <1>5, <2>3, <3>1 DEF TypeOK
  <2>5. ASSUME ~Overruns
        PROVE  \A a \in Addr :
                 mem'[a] = IF a \in call.dest .. d' - 1
                             THEN before[call.src + (a - call.dest)] ELSE before[a]
    <3>1. mem[s] = before[s]
      <4>1. ~(s \in call.dest .. d - 1)
        BY <1>10, <2>5, <2>9 DEF Overruns
      <4> QED
        BY <1>2, <2>2, <2>5, <4>1
    <3>2. s = call.src + (d - call.dest)
      BY <1>10, <2>9
    <3>3. \A a \in Addr : a \in call.dest .. d' - 1 <=> a = d \/ a \in call.dest .. d - 1
      BY <1>10, <2>1, <2>9 DEF Addr
    <3>4. ~(d \in call.dest .. d - 1)
      BY <1>10
    <3> QED
      BY <1>2, <2>2, <2>3, <2>5, <3>1, <3>2, <3>3, <3>4
  <2>6. ForwardInv'
    <3>1. d' = call.dest + (call.n - n') /\ s' = call.src + (call.n - n') /\ call.n - n' >= 0
      BY <1>10, <2>1, <2>9
    <3>2. \A a \in Addr \ Dest : mem'[a] = before[a]
      BY <1>9, <2>2, <2>3
    <3> QED
      BY <1>1, <1>3, <2>5, <3>1, <3>2 DEF ForwardInv
  <2>7. CalledInv' /\ BackwardInv' /\ WordsInv' /\ ReturnedInv'
    BY <1>1, <1>5
      DEF CalledInv, BackwardInv, WordsInv, ReturnedInv, CopyResult, MoveResult, SetResult, CompareResult
  <2>8. WritesInside'
    BY <1>1, <1>3, <1>9, <2>2, <2>3 DEF WritesInside
  <2> QED
    BY <2>4, <2>6, <2>7, <2>8
<1>6. CASE n = 0 /\ pc' = "returned" /\ UNCHANGED <<mem, d, s, n>>
  <2>1. d - 1 = call.dest + call.n - 1
    <3>1. n = 0 /\ d = call.dest + (call.n - n)
      BY <1>1, <1>6
    <3> QED
      BY <1>10, <3>1
  <2>2. ~Overruns => mem = Copied
    BY <1>2, <1>4, <2>1 DEF Copied, Dest
  <2>3. ReturnedInv'
    BY <1>1, <1>3, <1>6, <2>2 DEF ReturnedInv, CopyResult, MoveResult, SetResult, CompareResult
  <2>4. TypeOK'
    BY <1>1, <1>6 DEF TypeOK
  <2>5. CalledInv' /\ ForwardInv' /\ BackwardInv' /\ WordsInv'
    BY <1>6 DEF CalledInv, ForwardInv, BackwardInv, WordsInv
  <2>6. WritesInside'
    BY <1>1, <1>3, <1>6 DEF WritesInside
  <2> QED
    BY <2>3, <2>4, <2>5, <2>6
<1> QED
  BY <1>5, <1>6 DEF Forward

(* An iteration of the loop from the back, and its end. *)
LEMMA BackwardKeeps ==
  ASSUME IInv, Backward
  PROVE  IInv'
<1> USE DEF IInv
<1>1. /\ pc = "backward" /\ UNCHANGED <<call, before, d, s, result>>
      /\ call.op = "memmove" /\ (Overruns \/ call.n = 0)
      /\ d = call.dest /\ s = call.src /\ n <= call.n
  BY DEF Backward, BackwardInv
<1>2. \A a \in Addr :
        mem[a] = IF a \in call.dest + n + 1 .. call.dest + call.n
                   THEN before[call.src + (a - call.dest)] ELSE before[a]
  BY <1>1 DEF BackwardInv
<1>3. Overruns' = Overruns /\ Dest' = Dest /\ Copied' = Copied
  BY <1>1 DEF Overruns, Dest, Copied
<1>4. mem \in [Addr -> Byte] /\ before \in [Addr -> Byte]
  BY DEF TypeOK
<1>10. /\ MemSize \in Nat /\ call.dest \in Nat /\ call.src \in Nat /\ call.n \in Nat
       /\ call.dest + call.n <= MemSize /\ call.src + call.n <= MemSize
       /\ d \in Nat /\ s \in Nat /\ n \in Nat
  BY CallFacts
<1>5. CASE n # 0 /\ pc' = pc
  <2>1. mem' = [mem EXCEPT ![d + n] = mem[s + n]] /\ n' = n - 1
    BY <1>1, <1>5 DEF Backward
  <2>2. n \in 1 .. call.n /\ d + n \in Addr /\ s + n \in Addr /\ Overruns
    <3>1. n # 0 /\ n <= call.n /\ d = call.dest /\ s = call.src /\ (Overruns \/ call.n = 0)
      BY <1>1, <1>5
    <3>2. n \in 1 .. call.n /\ call.n # 0
      BY <1>10, <3>1
    <3> QED
      BY <1>10, <3>1, <3>2 DEF Addr
  <2>9. d = call.dest /\ s = call.src /\ n \in 1 .. call.n /\ n' = n - 1
    BY <1>1, <2>1, <2>2
  <2>3. mem' \in [Addr -> Byte] /\ mem'[d + n] = mem[s + n] /\ \A a \in Addr \ {d + n} : mem'[a] = mem[a]
    BY <1>4, <2>1, <2>2
  <2>4. TypeOK'
    <3>1. n' \in 0 .. MemSize
      BY <1>10, <2>9
    <3> QED
      BY <1>1, <1>5, <2>3, <3>1 DEF TypeOK
  <2>5. \A a \in Addr :
          mem'[a] = IF a \in call.dest + n' + 1 .. call.dest + call.n
                      THEN before[call.src + (a - call.dest)] ELSE before[a]
    <3>1. mem[s + n] = before[s + n]
      <4>1. ~(s + n \in call.dest + n + 1 .. call.dest + call.n)
        <5>1. call.src < call.dest
          BY <2>2 DEF Overruns
        <5> QED
          BY <1>10, <2>9, <5>1
      <4> QED
        BY <1>2, <2>2, <4>1
    <3>2. s + n = call.src + ((d + n) - call.dest)
      BY <1>10, <2>9
    <3>3. \A a \in Addr : a \in call.dest + n' + 1 .. call.dest + call.n
                            <=> a = d + n \/ a \in call.dest + n + 1 .. call.dest + call.n
      BY <1>10, <2>9 DEF Addr
    <3> QED
      BY <1>2, <2>2, <2>3, <3>1, <3>2, <3>3
  <2>6. BackwardInv'
    <3>1. n' <= call.n
      BY <1>10, <2>9
    <3> QED
      BY <1>1, <1>3, <2>5, <3>1 DEF BackwardInv
  <2>7. CalledInv' /\ ForwardInv' /\ WordsInv' /\ ReturnedInv'
    BY <1>1, <1>5
      DEF CalledInv, ForwardInv, WordsInv, ReturnedInv, CopyResult, MoveResult, SetResult, CompareResult
  <2>8. WritesInside'
    BY <1>1, <1>3, <2>2 DEF WritesInside
  <2> QED
    BY <2>4, <2>6, <2>7, <2>8
<1>6. CASE n = 0 /\ pc' = "returned" /\ UNCHANGED <<mem, n>>
  <2>1. \A a \in Addr : a \in call.dest + n + 1 .. call.dest + call.n <=> a - 1 \in Dest
    BY <1>6, <1>10 DEF Addr, Dest
  <2>2. mem = [a \in Addr |-> IF a - 1 \in Dest THEN before[call.src + (a - call.dest)] ELSE before[a]]
    BY <1>2, <1>4, <2>1
  <2>3. ASSUME ~Overruns PROVE mem = Copied
    <3>1. call.n = 0
      BY <1>1, <2>3
    <3>2. \A a \in Addr : mem[a] = before[a]
      BY <1>2, <1>6, <1>10, <3>1
    <3>3. Dest = {}
      BY <1>10, <3>1 DEF Dest
    <3> QED
      BY <1>4, <3>2, <3>3 DEF Copied
  <2>4. ReturnedInv'
    <3>1. CopyResult' /\ MoveResult'
      BY <1>1, <1>3, <1>6, <2>2, <2>3 DEF CopyResult, MoveResult
    <3> QED
      BY <1>1, <3>1 DEF ReturnedInv, SetResult, CompareResult
  <2>5. TypeOK'
    BY <1>1, <1>6 DEF TypeOK
  <2>6. CalledInv' /\ ForwardInv' /\ BackwardInv' /\ WordsInv'
    BY <1>6 DEF CalledInv, ForwardInv, BackwardInv, WordsInv
  <2>7. WritesInside'
    BY <1>1, <1>3, <1>6 DEF WritesInside
  <2> QED
    BY <2>4, <2>5, <2>6, <2>7
<1> QED
  BY <1>5, <1>6 DEF Backward

(* memset up to its words. *)
LEMMA MemsetBegins ==
  ASSUME IInv, MemsetHead
  PROVE  IInv'
<1> USE DEF IInv
<1> DEFINE head == {d + o : o \in HeadTail(n)}
<1>1. /\ pc = "called" /\ call.op = "memset" /\ UNCHANGED <<call, before, s, result>>
      /\ mem' = IF n = 0 THEN mem ELSE Fill(head)
      /\ IF n <= 8 THEN pc' = "returned" /\ UNCHANGED <<d, n>>
                   ELSE pc' = "words" /\ d' = d + Head(d) /\ n' = (n - Head(d)) \div 4
  BY DEF MemsetHead, Head
<1>2. mem = before /\ d = call.dest /\ n = call.n
  BY <1>1 DEF CalledInv
<1>3. /\ MemSize \in Nat /\ Addr = 0 .. MemSize /\ d \in Nat /\ n \in Nat /\ d + n <= MemSize
      /\ call.fill \in Int
  BY <1>2, CallFacts
<1>4. mem \in [Addr -> Byte] /\ call.fill % 256 \in Byte
  BY <1>3, FillByte DEF TypeOK
<1>5. Dest' = Dest /\ Dest = d .. d + n - 1 /\ Overruns' = Overruns
  BY <1>1, <1>2 DEF Dest, Overruns
<1>6. /\ mem' \in [Addr -> Byte]
      /\ n # 0 => \A a \in Addr :
           mem'[a] = IF a - d \in HeadTail(n) THEN call.fill % 256 ELSE before[a]
  <2>1. CASE n = 0
    BY <1>1, <1>4, <2>1
  <2>2. CASE n # 0
    <3>1. HeadTail(n) \subseteq Int
      BY <1>3, <2>2, HeadTailInside
    <3>2. \A a \in Addr : a \in head <=> a - d \in HeadTail(n)
      BY <1>3, <3>1
    <3> HIDE DEF head
    <3>3. mem' = Fill(head)
      BY <1>1, <2>2
    <3> QED
      BY <1>2, <1>4, <2>2, <3>2, <3>3 DEF Fill
  <2> QED
    BY <2>1, <2>2
<1> HIDE DEF head
<1>7. WritesInside'
  <2>1. CASE n = 0
    BY <1>1, <1>2, <2>1 DEF WritesInside
  <2>2. CASE n # 0
    <3>1. \A a \in Addr : a \notin Dest => a - d \notin HeadTail(n)
      BY <1>3, <1>5, <2>2, HeadTailInside
    <3> QED
      BY <1>1, <1>5, <1>6, <2>2, <3>1 DEF WritesInside
  <2> QED
    BY <2>1, <2>2
<1>8. CASE n <= 8
  <2>1. pc' = "returned" /\ UNCHANGED <<d, n>>
    BY <1>1, <1>8
  <2>2. TypeOK'
    BY <1>1, <1>6, <2>1 DEF TypeOK
  <2>3. SetResult'
    <3>1. CASE n = 0
      <4>1. Dest = {}
        BY <1>3, <1>5, <3>1
      <4>2. before = [a \in Addr |-> IF a \in Dest THEN call.fill % 256 ELSE before[a]]
        BY <1>2, <1>4, <4>1
      <4> QED
        BY <1>1, <1>2, <1>5, <3>1, <4>2 DEF SetResult
    <3>2. CASE n # 0
      <4>0. n \in 1 .. 8
        BY <1>3, <1>8, <3>2
      <4>1. HeadTail(n) = 0 .. n - 1
        BY <4>0, HeadTailSmall
      <4>2. \A a \in Addr : a - d \in HeadTail(n) <=> a \in Dest
        BY <1>3, <1>5, <4>1
      <4>3. \A a \in Addr : mem'[a] = IF a \in Dest THEN call.fill % 256 ELSE before[a]
        BY <1>6, <3>2, <4>2
      <4>4. mem' = [a \in Addr |-> IF a \in Dest THEN call.fill % 256 ELSE before[a]]
        BY <1>6, <4>3
      <4> QED
        BY <1>1, <1>5, <4>4 DEF SetResult
    <3> QED
      BY <3>1, <3>2
  <2>4. ReturnedInv'
    BY <1>1, <2>3 DEF ReturnedInv, CopyResult, MoveResult, CompareResult
  <2>5. CalledInv' /\ ForwardInv' /\ BackwardInv' /\ WordsInv'
    BY <2>1 DEF CalledInv, ForwardInv, BackwardInv, WordsInv
  <2> QED
    BY <1>7, <2>2, <2>4, <2>5
<1>9. CASE n > 8
  <2>1. pc' = "words" /\ d' = d + Head(d) /\ n' = (n - Head(d)) \div 4
    BY <1>1, <1>3, <1>9
  <2>2. /\ Head(d) \in 0 .. 3 /\ n' \in Nat /\ WordBytes(d, n) = 4 * n'
        /\ Head(d) + WordBytes(d, n) <= n
    BY <1>3, <1>9, <2>1, WordsFill DEF WordBytes
  <2>3. d' \in 0 .. MemSize + 3 /\ n' \in 0 .. MemSize
    <3>1. /\ MemSize \in Nat /\ d \in Nat /\ n \in Nat /\ d + n <= MemSize
          /\ d' = d + Head(d) /\ Head(d) \in 0 .. 3
      BY <1>3, <2>1, <2>2
    <3>2. n' \in Nat /\ Head(d) + 4 * n' <= n
      BY <2>2
    <3> QED
      BY <3>1, <3>2
  <2>4. TypeOK'
    BY <1>1, <1>6, <2>1, <2>3 DEF TypeOK
  <2>5. WordsInv'
    <3>1. Written' = HeadTail(n)
      <4>1. Head(d) .. d' - d - 1 = {}
        BY <1>3, <2>1, <2>2
      <4> QED
        BY <1>1, <1>2, <4>1 DEF Written
    <3>2. d' >= d + Head(d) /\ d' + 4 * n' = d + Head(d) + WordBytes(d, n)
      BY <1>3, <2>1, <2>2
    <3> QED
      BY <1>1, <1>2, <1>6, <1>9, <3>1, <3>2 DEF WordsInv
  <2>6. CalledInv' /\ ForwardInv' /\ BackwardInv' /\ ReturnedInv'
    BY <2>1 DEF CalledInv, ForwardInv, BackwardInv,
                ReturnedInv, CopyResult, MoveResult, SetResult, CompareResult
  <2> QED
    BY <1>7, <2>4, <2>5, <2>6
<1> QED
  BY <1>3, <1>8, <1>9

(* One word of memset, and the end of its loop. *)
LEMMA WordsKeep ==
  ASSUME IInv, Words
  PROVE  IInv'
<1> USE DEF IInv
<1> DEFINE dest == call.dest
           size == call.n
           h == Head(call.dest)
<1>1. /\ pc = "words" /\ call.op = "memset" /\ UNCHANGED <<call, before, s, result>>
      /\ size > 8 /\ d >= dest + h /\ d + 4 * n = dest + h + WordBytes(dest, size)
  BY DEF Words, WordsInv
<1>2. \A a \in Addr : mem[a] = IF a - dest \in Written THEN call.fill % 256 ELSE before[a]
  BY <1>1 DEF WordsInv
<1>3. /\ MemSize \in Nat /\ Addr = 0 .. MemSize /\ d \in Nat /\ n \in Nat
      /\ dest \in Nat /\ size \in Nat /\ dest + size <= MemSize /\ call.fill \in Int
  BY CallFacts
<1>4. /\ h \in 0 .. 3 /\ WordBytes(dest, size) \in Nat /\ h + WordBytes(dest, size) <= size
      /\ HeadTail(size) \cup (h .. h + WordBytes(dest, size) - 1) = 0 .. size - 1
  <2>1. dest \in Nat /\ size \in Nat /\ size > 8
    BY <1>1, <1>3
  <2> HIDE DEF dest, size
  <2> QED
    BY <2>1, WordsFill DEF h, dest
<1>5. mem \in [Addr -> Byte] /\ call.fill % 256 \in Byte
  BY <1>3, FillByte DEF TypeOK
<1>6. Dest' = Dest /\ Dest = dest .. dest + size - 1 /\ Overruns' = Overruns
  BY <1>1 DEF Dest, Overruns
<1>7. d \in Nat /\ n \in Nat /\ dest \in Nat /\ size \in Nat /\ h \in 0 .. 3
      /\ d >= dest + h /\ d + 4 * n <= dest + size
  <2>1. d \in Nat /\ n \in Nat /\ dest \in Nat /\ size \in Nat
    BY <1>3
  <2>2. d >= dest + h /\ d + 4 * n = dest + h + WordBytes(dest, size)
    BY <1>1
  <2>3. h \in 0 .. 3 /\ WordBytes(dest, size) \in Nat /\ h + WordBytes(dest, size) <= size
    BY <1>4
  <2> HIDE DEF dest, size, h
  <2> QED
    BY <2>1, <2>2, <2>3
<1> HIDE DEF h
<1>8. CASE n # 0 /\ mem' = Fill(d .. d + 3) /\ d' = d + 4 /\ n' = n - 1 /\ UNCHANGED pc
  <2>1. /\ mem' \in [Addr -> Byte]
        /\ \A a \in Addr : mem'[a] = IF a \in d .. d + 3 THEN call.fill % 256 ELSE mem[a]
    BY <1>5, <1>8 DEF Fill
  <2>2. n' \in Nat /\ d + 4 <= dest + size /\ d' + 4 * n' = dest + h + WordBytes(dest, size)
    BY <1>1, <1>3, <1>4, <1>7, <1>8
  <2>3. d' \in 0 .. MemSize + 3 /\ n' \in 0 .. MemSize
    <3>1. n \in 0 .. MemSize
      BY DEF TypeOK
    <3> QED
      BY <1>3, <1>8, <2>2, <3>1
  <2>4. TypeOK'
    BY <1>1, <1>8, <2>1, <2>3 DEF TypeOK
  <2>5. \A a \in Addr : a - dest \in Written' <=> a \in d .. d + 3 \/ a - dest \in Written
    <3>1. Written' = HeadTail(size) \cup (h .. d' - dest - 1)
      BY <1>1 DEF Written, h
    <3>2. Written = HeadTail(size) \cup (h .. d - dest - 1)
      BY DEF Written, h
    <3>3. \A a \in Addr : a - dest \in h .. d' - dest - 1
                            <=> a \in d .. d + 3 \/ a - dest \in h .. d - dest - 1
      <4>1. d' = d + 4 /\ Addr \subseteq Int
        BY <1>3, <1>8
      <4> QED
        BY <1>7, <4>1
    <3> QED
      BY <3>1, <3>2, <3>3
  <2>6. \A a \in Addr : mem'[a] = IF a - dest \in Written' THEN call.fill % 256 ELSE before[a]
    BY <1>2, <2>1, <2>5
  <2>7. WordsInv'
    <3>1. d' >= dest + h
      BY <1>7, <1>8
    <3> QED
      BY <1>1, <1>8, <2>2, <2>6, <3>1 DEF WordsInv, h
  <2>8. WritesInside'
    <3>1. d >= dest /\ d + 3 <= dest + size - 1
      BY <1>7, <1>8
    <3>2. \A a \in Addr \ Dest : a \notin d .. d + 3
      BY <1>3, <1>6, <3>1
    <3> QED
      BY <1>1, <1>6, <2>1, <3>2 DEF WritesInside
  <2>9. CalledInv' /\ ForwardInv' /\ BackwardInv' /\ ReturnedInv'
    BY <1>1, <1>8 DEF CalledInv, ForwardInv, BackwardInv,
                ReturnedInv, CopyResult, MoveResult, SetResult, CompareResult
  <2> QED
    BY <2>4, <2>7, <2>8, <2>9
<1>9. CASE n = 0 /\ pc' = "returned" /\ UNCHANGED <<mem, d, n>>
  <2>1. Written = 0 .. size - 1
    <3>1. d - dest - 1 = h + WordBytes(dest, size) - 1
      BY <1>1, <1>3, <1>4, <1>7, <1>9
    <3> QED
      BY <1>4, <3>1 DEF Written, h
  <2>2. \A a \in Addr : a - dest \in Written <=> a \in Dest
    BY <1>3, <1>6, <2>1
  <2>3. mem = [a \in Addr |-> IF a \in Dest THEN call.fill % 256 ELSE before[a]]
    BY <1>2, <1>5, <2>2
  <2>4. ReturnedInv'
    BY <1>1, <1>6, <1>9, <2>3 DEF ReturnedInv, CopyResult, MoveResult, SetResult, CompareResult
  <2>5. TypeOK'
    BY <1>1, <1>9 DEF TypeOK
  <2>6. CalledInv' /\ ForwardInv' /\ BackwardInv' /\ WordsInv'
    BY <1>9 DEF CalledInv, ForwardInv, BackwardInv, WordsInv
  <2>7. WritesInside'
    BY <1>1, <1>6, <1>9 DEF WritesInside
  <2> QED
    BY <2>4, <2>5, <2>6, <2>7
<1> QED
  BY <1>8, <1>9 DEF Words

(* The difference of two bytes is in the range memcmp's result has. *)
LEMMA ByteDifference == \A x, y \in Byte : x - y \in -255 .. 255
  BY DEF Byte

(* One comparison of memcmp, or its end. *)
LEMMA CompareKeeps ==
  ASSUME IInv, Memcmp
  PROVE  IInv'
<1> USE DEF IInv
<1>1. pc = "called" /\ call.op = "memcmp" /\ UNCHANGED <<call, mem, before>> /\ mem = before
  BY DEF Memcmp, CalledInv
<1>2. /\ d = call.dest + (call.n - n) /\ s = call.src + (call.n - n) /\ call.n - n >= 0
      /\ \A o \in 0 .. call.n - n - 1 : before[call.dest + o] = before[call.src + o]
  BY <1>1 DEF CalledInv
<1>3. /\ MemSize \in Nat /\ Addr = 0 .. MemSize /\ n \in Nat
      /\ call.dest \in Nat /\ call.src \in Nat /\ call.n \in Nat
      /\ call.dest + call.n <= MemSize /\ call.src + call.n <= MemSize
  BY CallFacts
<1>4. before \in [Addr -> Byte] /\ d \in Addr /\ s \in Addr
  BY <1>2, <1>3 DEF TypeOK
<1>5. WritesInside'
  BY <1>1 DEF WritesInside, Overruns, Dest
<1>6. CASE /\ n # 0 /\ mem[d] = mem[s] /\ UNCHANGED <<pc, result>>
           /\ d' = d + 1 /\ s' = s + 1 /\ n' = n - 1
  <2>1. /\ d' = call.dest + (call.n - n') /\ s' = call.src + (call.n - n') /\ call.n - n' >= 0
        /\ n' \in 0 .. MemSize /\ d' \in 0 .. MemSize + 3 /\ s' \in Addr
    <3>1. n # 0 /\ d' = d + 1 /\ s' = s + 1 /\ n' = n - 1
      BY <1>6
    <3>2. d = call.dest + (call.n - n) /\ s = call.src + (call.n - n) /\ call.n - n >= 0
      BY <1>2
    <3>3. call.dest \in Nat /\ call.src \in Nat /\ call.n \in Nat /\ n \in Nat
      BY <1>3
    <3>4. MemSize \in Nat /\ call.dest + call.n <= MemSize /\ call.src + call.n <= MemSize
      BY <1>3
    <3>5. d' = call.dest + (call.n - n') /\ s' = call.src + (call.n - n') /\ call.n - n' >= 0
      BY <3>1, <3>2, <3>3
    <3>6. n' \in 0 .. MemSize /\ d' \in 0 .. MemSize + 3 /\ s' \in 0 .. MemSize
      BY <3>1, <3>2, <3>3, <3>4
    <3> QED
      BY <3>5, <3>6 DEF Addr
  <2>2. \A o \in 0 .. call.n - n' - 1 : before[call.dest + o] = before[call.src + o]
    <3>1. \A o \in 0 .. call.n - n' - 1 : o = call.n - n \/ o \in 0 .. call.n - n - 1
      <4>1. n' = n - 1 /\ call.n - n >= 0
        BY <1>2, <1>6
      <4> QED
        BY <1>3, <4>1
    <3> QED
      BY <1>1, <1>2, <1>6, <3>1
  <2>3. TypeOK'
    BY <1>1, <1>6, <2>1 DEF TypeOK
  <2>4. CalledInv'
    BY <1>1, <1>6, <2>1, <2>2 DEF CalledInv
  <2>5. ForwardInv' /\ BackwardInv' /\ WordsInv' /\ ReturnedInv'
    BY <1>1, <1>6 DEF ForwardInv, BackwardInv, WordsInv,
                      ReturnedInv, CopyResult, MoveResult, SetResult, CompareResult
  <2> QED
    BY <1>5, <2>3, <2>4, <2>5
<1>7. CASE /\ n = 0 \/ mem[d] # mem[s]
           /\ result' = (IF n = 0 THEN 0 ELSE mem[d] - mem[s])
           /\ pc' = "returned" /\ UNCHANGED <<d, s, n>>
  <2>1. result' \in -255 .. 255
    <3>1. before[d] \in Byte /\ before[s] \in Byte
      BY <1>4
    <3>2. before[d] - before[s] \in -255 .. 255
      BY <3>1, ByteDifference
    <3> QED
      BY <1>1, <1>7, <3>2
  <2>2. TypeOK'
    BY <1>1, <1>7, <2>1 DEF TypeOK
  <2>3. CompareResult'
    <3> DEFINE differ == {o \in 0 .. call.n - 1 : before[call.dest + o] # before[call.src + o]}
    <3>1. CASE n = 0
      <4>1. differ = {} /\ result' = 0
        BY <1>2, <1>3, <1>7, <3>1
      <4> QED
        BY <1>1, <4>1 DEF CompareResult
    <3>2. CASE n # 0
      <4> DEFINE o == call.n - n
      <4>1. o \in 0 .. call.n - 1 /\ before[call.dest + o] # before[call.src + o]
        BY <1>1, <1>2, <1>3, <1>7, <3>2
      <4>2. o \in differ /\ result' = before[call.dest + o] - before[call.src + o]
        BY <1>1, <1>2, <1>7, <3>2, <4>1
      <4>3. \A p \in differ : o <= p
        BY <1>2, <1>3
      <4> HIDE DEF o
      <4> QED
        BY <1>1, <4>2, <4>3 DEF CompareResult
    <3> QED
      BY <3>1, <3>2
  <2>4. ReturnedInv'
    BY <1>1, <2>3 DEF ReturnedInv, CopyResult, MoveResult, SetResult
  <2>5. CalledInv' /\ ForwardInv' /\ BackwardInv' /\ WordsInv'
    BY <1>7 DEF CalledInv, ForwardInv, BackwardInv, WordsInv
  <2> QED
    BY <1>5, <2>2, <2>4, <2>5
<1> QED
  BY <1>6, <1>7 DEF Memcmp

LEMMA NextIInv == IInv /\ [Next]_vars => IInv'
<1> SUFFICES ASSUME IInv, [Next]_vars PROVE IInv'
  OBVIOUS
<1>1. CASE UNCHANGED vars
  <2>1. UNCHANGED <<pc, call, mem, before, d, s, n, result>>
    BY <1>1 DEF vars
  <2>2. TypeOK'
    BY <2>1 DEF IInv, TypeOK
  <2>3. CalledInv' /\ ForwardInv' /\ BackwardInv' /\ WordsInv'
    BY <2>1 DEF IInv, CalledInv, ForwardInv, BackwardInv, WordsInv, Written, Overruns, Dest
  <2>4. ReturnedInv'
    BY <2>1 DEF IInv, ReturnedInv, CopyResult, MoveResult, SetResult, CompareResult, Overruns, Dest, Copied
  <2>5. WritesInside'
    BY <2>1 DEF IInv, WritesInside, Overruns, Dest
  <2> QED
    BY <2>2, <2>3, <2>4, <2>5 DEF IInv
<1>2. CASE Memcpy \/ Memmove
  BY <1>2, CopyBegins
<1>3. CASE Forward
  BY <1>3, ForwardKeeps
<1>4. CASE Backward
  BY <1>4, BackwardKeeps
<1>5. CASE MemsetHead
  BY <1>5, MemsetBegins
<1>6. CASE Words
  BY <1>6, WordsKeep
<1>7. CASE Memcmp
  BY <1>7, CompareKeeps
<1> QED
  BY <1>1, <1>2, <1>3, <1>4, <1>5, <1>6, <1>7 DEF Next, Returned

(* The inductive invariant holds in every state of every call. *)
THEOREM Invariance == Spec => []IInv
<1> QED
  BY InitIInv, NextIInv, PTL DEF Spec

(* No pointer or counter leaves the memory by more than the word it is in. *)
THEOREM TypeCorrect == Spec => []TypeOK
<1>1. IInv => TypeOK
  BY DEF IInv
<1> QED
  BY <1>1, Invariance, PTL

(* memset fills exactly the region it is given, for every size, every       *)
(* alignment and every int.                                                 *)
THEOREM SetFills == Spec => []SetResult
<1>1. IInv => SetResult
  BY DEF IInv, ReturnedInv
<1> QED
  BY <1>1, Invariance, PTL

(* memcpy and memmove copy, unless dest starts inside src. *)
THEOREM CopyCopies == Spec => []CopyResult
<1>1. IInv => CopyResult
  BY DEF IInv, ReturnedInv
<1> QED
  BY <1>1, Invariance, PTL

(* memmove from the back copies one byte further on. *)
THEOREM MoveShifts == Spec => []MoveResult
<1>1. IInv => MoveResult
  BY DEF IInv, ReturnedInv
<1> QED
  BY <1>1, Invariance, PTL

(* memcmp finds the first difference. *)
THEOREM CompareFinds == Spec => []CompareResult
<1>1. IInv => CompareResult
  BY DEF IInv, ReturnedInv
<1> QED
  BY <1>1, Invariance, PTL

(* No step of memcpy, memset or memcmp, nor of memmove from the front,      *)
(* changes a byte outside of dest.                                          *)
THEOREM InsideOnly == Spec => []WritesInside
<1>1. IInv => WritesInside
  BY DEF IInv
<1> QED
  BY <1>1, Invariance, PTL
=============================================================================
