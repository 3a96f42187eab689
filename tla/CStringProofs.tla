----------------------------- MODULE CStringProofs -----------------------------
(***************************************************************************)
(* Proofs about CString, for memories of every size and contents and every  *)
(* call of the string and the memory functions.                             *)
(*                                                                          *)
(* Where a string ends is the least offset of a 0; that there is one rests  *)
(* on the natural numbers being well-ordered.  The memset in strncpy keeps  *)
(* the invariant of MemOpsProofs.                                           *)
(***************************************************************************)
EXTENDS CString, MemOpsProofs, WellFoundedInduction

-----------------------------------------------------------------------------
(* The least element of a set of numbers. *)

LEMMA LessIsWellFounded ==
  \E R : IsWellFoundedOn(R, Nat) /\ \A x, y \in Nat : x < y => <<x, y>> \in R
<1> DEFINE R == OpToRel(<, Nat)
<1>1. \A x, y \in Nat : x < y => <<x, y>> \in R
  BY DEF OpToRel
<1>2. IsWellFoundedOn(R, Nat)
  BY NatLessThanWellFounded
<1> HIDE DEF R
<1> QED
  BY <1>1, <1>2

LEMMA Least ==
  ASSUME NEW S \in SUBSET Nat, S # {}
  PROVE  \E x \in S : \A y \in S : x <= y
<1>1. PICK R : IsWellFoundedOn(R, Nat) /\ \A x, y \in Nat : x < y => <<x, y>> \in R
  BY LessIsWellFounded
<1>2. IsWellFoundedOn(R, Nat)
  BY <1>1
<1>3. \A x, y \in Nat : x < y => <<x, y>> \in R
  BY <1>1
<1>4. S \subseteq Nat
  OBVIOUS
<1>5. \E x \in S : \A y \in S : ~ (<<y, x>> \in R)
  BY <1>2, <1>4, WFMin
<1>6. PICK x \in S : \A y \in S : <<y, x>> \notin R
  BY <1>5
<1>7. ASSUME NEW y \in S PROVE x <= y
  <2>1. x \in Nat /\ y \in Nat
    BY <1>4
  <2>2. ~ (y < x)
    BY <1>3, <1>6, <2>1
  <2> QED
    BY <2>1, <2>2
<1> QED
  BY <1>7

-----------------------------------------------------------------------------
(* Strings.  Every string ends in the memory, whose last byte is 0. *)

Ended(m) == m \in [Addr -> Byte] /\ m[MemSize] = 0

(* An offset that ends the string at an address of a memory. *)
Ends(m, a, k) == k \in 0 .. MemSize - a /\ m[a + k] = 0 /\ \A j \in 0 .. k - 1 : m[a + j] # 0

LEMMA SizeType == MemSize \in Nat /\ WordMod \in Nat /\ WordMod > 4 * MemSize /\ Addr = 0 .. MemSize
  BY MemoryAssumption DEF Addr

LEMMA EndsOnce ==
  ASSUME NEW m, NEW a \in Addr, NEW k, NEW l, Ends(m, a, k), Ends(m, a, l)
  PROVE  k = l
<1>1. k \in Nat /\ l \in Nat
  BY SizeType DEF Ends
<1>2. ~ (k < l) /\ ~ (l < k)
  BY <1>1 DEF Ends
<1> QED
  BY <1>1, <1>2

LEMMA LengthEnds ==
  ASSUME NEW m, Ended(m), NEW a \in Addr
  PROVE  Ends(m, a, Length(m, a))
<1> DEFINE S == {k \in 0 .. MemSize - a : m[a + k] = 0}
<1>1. a \in Nat /\ MemSize \in Nat /\ a <= MemSize
  BY SizeType
<1>2. MemSize - a \in S
  BY <1>1 DEF Ended
<1>3. S \in SUBSET Nat /\ S # {}
  BY <1>1, <1>2
<1>4. PICK k \in S : \A y \in S : k <= y
  BY <1>3, Least
<1>5. k \in 0 .. MemSize - a /\ m[a + k] = 0 /\ k \in Nat
  BY <1>1, <1>4
<1>6. ASSUME NEW j \in 0 .. k - 1 PROVE m[a + j] # 0
  <2>1. j \in 0 .. MemSize - a /\ j \in Nat /\ ~ (k <= j)
    BY <1>1, <1>5
  <2> QED
    BY <1>4, <2>1
<1>7. \E o \in 0 .. MemSize - a : m[a + o] = 0 /\ \A j \in 0 .. o - 1 : m[a + j] # 0
  BY <1>5, <1>6
<1> QED
  BY <1>7 DEF Length, Ends

LEMMA LengthIs ==
  ASSUME NEW m, Ended(m), NEW a \in Addr, NEW k, Ends(m, a, k)
  PROVE  Length(m, a) = k
  BY LengthEnds, EndsOnce

(* The bytes of a string, as facts about numbers. *)
LEMMA LengthFacts ==
  ASSUME NEW m, Ended(m), NEW a \in Addr
  PROVE  /\ Length(m, a) \in Nat /\ a + Length(m, a) <= MemSize
         /\ m[a + Length(m, a)] = 0
         /\ \A j \in 0 .. Length(m, a) - 1 : m[a + j] # 0
<1>1. Ends(m, a, Length(m, a))
  BY LengthEnds
<1> HIDE DEF Length
<1> QED
  BY <1>1, SizeType DEF Ends

(* A string without 0 in its first k bytes goes on with the one behind.     *)
LEMMA LengthFrom ==
  ASSUME NEW m, Ended(m), NEW a \in Addr, NEW k \in Nat, a + k \in Addr,
         \A j \in 0 .. k - 1 : m[a + j] # 0
  PROVE  Length(m, a) = k + Length(m, a + k)
<1> DEFINE l == Length(m, a + k)
<1>1. l \in Nat /\ a + k + l <= MemSize /\ m[a + k + l] = 0
      /\ \A j \in 0 .. l - 1 : m[a + k + j] # 0
  BY LengthFacts
<1> HIDE DEF l
<1>2. ASSUME NEW j \in 0 .. (k + l) - 1 PROVE m[a + j] # 0
  <2>1. CASE j < k
    BY <1>1, <2>1
  <2>2. CASE j >= k
    <3>1. j - k \in 0 .. l - 1 /\ a + k + (j - k) = a + j
      BY <1>1, <2>2, SizeType
    <3> QED
      BY <1>1, <3>1
  <2> QED
    BY <1>1, <2>1, <2>2
<1>3. k + l \in 0 .. MemSize - a /\ a + (k + l) = a + k + l
  BY <1>1, SizeType
<1>4. Ends(m, a, k + l)
  BY <1>1, <1>2, <1>3 DEF Ends
<1> QED
  BY <1>4, LengthIs DEF l

(* What lies before an address does not matter for the string there. *)
LEMMA LengthAgree ==
  ASSUME NEW m, NEW o, Ended(m), Ended(o), NEW a \in Addr, \A x \in a .. MemSize : m[x] = o[x]
  PROVE  Length(m, a) = Length(o, a)
<1> DEFINE l == Length(o, a)
<1>1. l \in Nat /\ a + l <= MemSize /\ o[a + l] = 0 /\ \A j \in 0 .. l - 1 : o[a + j] # 0
  BY LengthFacts
<1> HIDE DEF l
<1>2. a \in Nat /\ MemSize \in Nat
  BY SizeType
<1>3. ASSUME NEW j \in 0 .. l PROVE m[a + j] = o[a + j]
  <2>1. a + j \in a .. MemSize
    BY <1>1, <1>2
  <2> QED
    BY <2>1
<1>4. Ends(m, a, l)
  BY <1>1, <1>2, <1>3 DEF Ends
<1> QED
  BY <1>4, LengthIs DEF l

-----------------------------------------------------------------------------
(* What the callers keep to. *)

(* What stands in front of the characters of src, how many of them are      *)
(* copied, and what is left of num after k of them.                         *)
Old(m, c) == IF c.op \in {"strcat", "strncat"} THEN Length(m, c.dest) ELSE 0
Count(m, c) == IF c.op = "strncat" THEN Shorter(c.n, Length(m, c.src)) ELSE Length(m, c.src)
Left(c, k) == IF c.op \in {"strncpy", "strncat"}
                THEN IF k <= c.n THEN c.n - k ELSE c.n - k + WordMod
                ELSE c.n
To(m, c) == c.dest + Old(m, c)

LEMMA StringCallType ==
  ASSUME NEW m, NEW c \in StringCalls(m)
  PROVE  /\ c.op \in StringOps /\ c.dest \in Nat /\ c.src \in Nat /\ c.n \in Nat
         /\ c.dest < MemSize /\ c.src < MemSize /\ c.n <= MemSize
         /\ c.dest \in Addr /\ c.src \in Addr
<1>1. c \in [op : StringOps, dest : 0 .. MemSize - 1, src : 0 .. MemSize - 1,
             n : 0 .. MemSize, fill : {0}]
  BY DEF StringCalls
<1>2. c.op \in StringOps /\ c.dest \in 0 .. MemSize - 1 /\ c.src \in 0 .. MemSize - 1 /\ c.n \in 0 .. MemSize
  BY <1>1
<1> QED
  BY <1>2, SizeType

LEMMA ShorterType ==
  ASSUME NEW x \in Nat, NEW y \in Nat
  PROVE  Shorter(x, y) \in Nat /\ Shorter(x, y) <= x /\ Shorter(x, y) <= y
  BY DEF Shorter

(* What is written lies in the memory, and either not in front of the       *)
(* characters that are still to be read or behind all of them.              *)
LEMMA Apart ==
  ASSUME NEW m, Ended(m), NEW c \in StringCalls(m), c.op # "strlen"
  PROVE  /\ Old(m, c) \in Nat /\ Count(m, c) \in Nat /\ To(m, c) \in Nat
         /\ Length(m, c.src) \in Nat /\ Count(m, c) <= Length(m, c.src)
         /\ To(m, c) <= c.src \/ c.src + Length(m, c.src) < To(m, c)
         /\ To(m, c) + Count(m, c) <= MemSize
         /\ c.op # "strncpy" => To(m, c) + Count(m, c) < MemSize
         /\ c.op = "strncpy" => c.dest + c.n <= MemSize
<1> DEFINE l == Length(m, c.src)
           r == Room(m, c)
<1>1. /\ c.op \in StringOps /\ c.dest \in Nat /\ c.src \in Nat /\ c.n \in Nat
      /\ c.dest \in Addr /\ c.src \in Addr
  BY StringCallType
<1>2. l \in Nat /\ Length(m, c.dest) \in Nat
  BY <1>1, LengthFacts
<1>3. Old(m, c) \in Nat
  BY <1>2 DEF Old
<1>4. Shorter(c.n, l) \in Nat /\ Shorter(c.n, l) <= l
  BY <1>1, <1>2, ShorterType
<1>5. Count(m, c) \in Nat /\ Count(m, c) <= l
  BY <1>2, <1>4 DEF Count
<1>6. /\ c.dest + r <= MemSize /\ (c.op = "strncpy" => c.dest + l <= MemSize)
      /\ c.dest + r <= c.src \/ c.src + l < c.dest
  BY DEF StringCalls
<1>7. c.op # "strncpy" => r = Old(m, c) + Count(m, c) + 1
  BY <1>1 DEF Room, Old, Count, StringOps
<1>8. c.op = "strncpy" => r = c.n /\ Old(m, c) = 0 /\ Count(m, c) = l
  BY DEF Room, Old, Count
<1>9. To(m, c) = c.dest + Old(m, c)
  BY DEF To
<1> HIDE DEF l, r
<1>10. To(m, c) \in Nat
  BY <1>1, <1>3, <1>9
<1>11. MemSize \in Nat
  BY SizeType
<1>12. CASE c.op = "strncpy"
  <2>1. To(m, c) = c.dest
    BY <1>1, <1>8, <1>9, <1>12
  <2> QED
    BY <1>1, <1>2, <1>3, <1>5, <1>6, <1>8, <1>10, <1>11, <1>12, <2>1 DEF l
<1>13. CASE c.op # "strncpy"
  <2>1. c.dest + r = To(m, c) + Count(m, c) + 1
    BY <1>1, <1>3, <1>5, <1>7, <1>9, <1>13
  <2> QED
    BY <1>1, <1>2, <1>3, <1>5, <1>6, <1>9, <1>10, <1>11, <1>13, <2>1 DEF l
<1> QED
  BY <1>12, <1>13

(* num is counted down once for every character, through 0. *)
LEMMA LeftSteps ==
  ASSUME NEW m, NEW c \in StringCalls(m), NEW k \in Nat, k < MemSize
  PROVE  /\ Left(c, k) \in 0 .. WordMod - 1
         /\ Left(c, k + 1) = IF c.op \in {"strncpy", "strncat"} THEN (Left(c, k) - 1) % WordMod
                             ELSE Left(c, k)
<1>1. c.n \in Nat /\ c.n <= MemSize
  BY StringCallType
<1>2. MemSize \in Nat /\ WordMod \in Nat /\ WordMod > 4 * MemSize
  BY SizeType
<1> DEFINE N == c.n
<1> HIDE DEF N
<1>3. N \in Nat /\ N <= MemSize
  BY <1>1 DEF N
<1>4. CASE c.op \in {"strncpy", "strncat"}
  <2>1. Left(c, k) = IF k <= N THEN N - k ELSE N - k + WordMod
    BY <1>4 DEF Left, N
  <2>2. Left(c, k + 1) = IF k + 1 <= N THEN N - (k + 1) ELSE N - (k + 1) + WordMod
    BY <1>4 DEF Left, N
  <2> DEFINE x == Left(c, k) - 1
  <2>3. Left(c, k) \in 0 .. WordMod - 1
    BY <1>2, <1>3, <2>1
  <2>4. x \in Int /\ 0 - WordMod <= x /\ x < WordMod
    BY <1>2, <2>3
  <2> HIDE DEF x
  <2>5. x % WordMod = IF x < 0 THEN x + WordMod ELSE x
    BY <1>2, <2>4, WordRemainder
  <2>6. Left(c, k + 1) = IF x < 0 THEN x + WordMod ELSE x
    BY <1>2, <1>3, <2>1, <2>2 DEF x
  <2> QED
    BY <1>4, <2>3, <2>5, <2>6 DEF x
<1>5. CASE c.op \notin {"strncpy", "strncat"}
  BY <1>1, <1>2, <1>5 DEF Left
<1> QED
  BY <1>4, <1>5

(* A memory with the first `count` characters of src written at `to`. *)
Overlay(m, c, to, count) ==
  [a \in Addr |-> IF a \in to .. to + count - 1 THEN m[c.src + (a - to)] ELSE m[a]]

LEMMA OverlayIs == \A to, count : Overlaid(to, count) = Overlay(before, call, to, count)
  BY DEF Overlaid, Overlay

(* The character that is read next is still the one the caller passed. *)
LEMMA Intact ==
  ASSUME NEW m, Ended(m), NEW c \in StringCalls(m), c.op # "strlen",
         NEW k \in 0 .. Length(m, c.src)
  PROVE  Overlay(m, c, To(m, c), k)[c.src + k] = m[c.src + k]
<1> DEFINE l == Length(m, c.src)
           to == To(m, c)
<1>1. l \in Nat /\ to \in Nat /\ (to <= c.src \/ c.src + l < to)
  BY Apart
<1>2. c.src \in Nat /\ c.src \in Addr
  BY StringCallType
<1>3. c.src + l <= MemSize /\ MemSize \in Nat /\ Addr = 0 .. MemSize
  BY <1>2, LengthFacts, SizeType
<1>4. k \in Nat /\ k <= l
  BY <1>1
<1> HIDE DEF l, to
<1>5. c.src + k \in Addr /\ c.src + k \notin to .. to + k - 1
  BY <1>1, <1>2, <1>3, <1>4
<1> QED
  BY <1>5 DEF Overlay, to

(* Writing it gives the next memory. *)
LEMMA OverlaySteps ==
  ASSUME NEW m, Ended(m), NEW c \in StringCalls(m), NEW to \in Nat, NEW k \in Nat,
         to + k \in Addr, c.src + k \in Addr
  PROVE  /\ Overlay(m, c, to, k) \in [Addr -> Byte]
         /\ Overlay(m, c, to, k + 1) = [Overlay(m, c, to, k) EXCEPT ![to + k] = m[c.src + k]]
<1>1. c.src \in Nat /\ Addr = 0 .. MemSize /\ MemSize \in Nat /\ m \in [Addr -> Byte]
  BY StringCallType, SizeType DEF Ended
<1>2. ASSUME NEW a \in Addr, a \in to .. to + k PROVE m[c.src + (a - to)] \in Byte
  <2>1. c.src + (a - to) \in Addr
    BY <1>1, <1>2
  <2> QED
    BY <1>1, <2>1
<1>3. Overlay(m, c, to, k) \in [Addr -> Byte]
  <2>1. ASSUME NEW a \in Addr
        PROVE  (IF a \in to .. to + k - 1 THEN m[c.src + (a - to)] ELSE m[a]) \in Byte
    <3>1. a \in to .. to + k - 1 => a \in to .. to + k
      OBVIOUS
    <3> QED
      BY <1>1, <1>2, <3>1
  <2> QED
    BY <2>1 DEF Overlay
<1>4. \A a \in Addr : a \in to .. to + (k + 1) - 1 <=> a = to + k \/ a \in to .. to + k - 1
  BY <1>1
<1>5. (to + k) - to = k /\ to + k \notin to .. to + k - 1
  OBVIOUS
<1> QED
  BY <1>3, <1>4, <1>5 DEF Overlay

(* A loop that copies begins. *)
LEMMA CopyStarts ==
  ASSUME NEW m, Ended(m), NEW c \in StringCalls(m), c.op # "strlen"
  PROVE  /\ 0 \in 0 .. Count(m, c) /\ Left(c, 0) = c.n
         /\ Overlay(m, c, To(m, c), 0) = m
<1>1. Count(m, c) \in Nat /\ To(m, c) \in Nat
  BY Apart
<1>2. c.n \in Nat
  BY StringCallType
<1>3. \A a : a \notin To(m, c) .. To(m, c) + 0 - 1
  BY <1>1
<1> QED
  BY <1>1, <1>2, <1>3 DEF Left, Overlay, Ended

-----------------------------------------------------------------------------
(* The inductive invariant. *)

(* A string function that runs was called with strings, and waits for       *)
(* nothing.                                                                 *)
LiveInv ==
  call.op \in StringOps =>
    /\ caller = Nobody /\ call \in StringCalls(before) /\ Ended(before)
    /\ pc \in {"scan", "copy", "returned", "faulted"}

(* The scan has passed no 0. *)
ScanInv ==
  pc = "scan" =>
    /\ call.op \in {"strlen", "strcat", "strncat"} /\ mem = before
    /\ s = call.src /\ n = call.n /\ result = 0
    /\ d \in call.dest .. call.dest + Length(before, call.dest)

(* s - call.src characters are in place and counted. *)
CopyInv ==
  pc = "copy" =>
    LET k == s - call.src
    IN  /\ call.op \in StringOps \ {"strlen"} /\ result = 0
        /\ k \in 0 .. Count(before, call)
        /\ d = To(before, call) + k /\ n = Left(call, k)
        /\ mem = Overlay(before, call, To(before, call), k)

(* The memory memset found, when strncpy called it, has all of src at dest, *)
(* and its num is what src left of strncpy's.                               *)
CallerInv ==
  caller # Nobody =>
    LET length == Length(callerBefore, caller.src)
    IN  /\ caller \in StringCalls(callerBefore) /\ caller.op = "strncpy" /\ Ended(callerBefore)
        /\ length <= caller.n
        /\ call.op = "memset" /\ call.dest = caller.dest /\ call.n = caller.n - length /\ call.fill = 0
        /\ before = Overlay(callerBefore, caller, caller.dest, length)

StringResults == StrlenCounts /\ StrcpyKeepsTail /\ StrncatTerminates /\ StrncpyPadsFront

StringInv ==
  /\ StringTypeOK /\ (call.op \in Ops => IInv)
  /\ LiveInv /\ ScanInv /\ CopyInv /\ CallerInv /\ StringResults

LEMMA Distinct == Ops \cap StringOps = {}
  BY DEF Ops, StringOps

(* Which of the two libraries the call is of. *)
LEMMA Library ==
  ASSUME StringInv
  PROVE  call.op \in Ops \/ call.op \in StringOps
<1>1. call \in Calls \/ call \in StringCalls(before)
  BY DEF StringInv, StringTypeOK
<1> QED
  BY <1>1, CallType, StringCallType

LEMMA MemoryKept == IInv => /\ pc \in {"called", "forward", "backward", "words", "returned"}
                            /\ call \in Calls /\ call.op \in Ops
                            /\ mem \in [Addr -> Byte] /\ before \in [Addr -> Byte]
                            /\ d \in 0 .. MemSize + 3 /\ s \in Addr /\ n \in 0 .. WordMod - 1
                            /\ result \in -255 .. 255
<1> SUFFICES ASSUME IInv
             PROVE  /\ pc \in {"called", "forward", "backward", "words", "returned"}
                    /\ call \in Calls /\ call.op \in Ops
                    /\ mem \in [Addr -> Byte] /\ before \in [Addr -> Byte]
                    /\ d \in 0 .. MemSize + 3 /\ s \in Addr /\ n \in 0 .. WordMod - 1
                    /\ result \in -255 .. 255
  OBVIOUS
<1>1. TypeOK
  BY DEF IInv
<1>2. n \in 0 .. WordMod - 1
  BY <1>1, SizeType DEF TypeOK
<1> QED
  BY <1>1, <1>2, CallType DEF TypeOK

(* A call of a memory function meets the rest of the invariant. *)
LEMMA MemoryInv ==
  /\ IInv /\ CallerInv /\ callerBefore \in [Addr -> Byte]
  /\ caller = Nobody \/ caller \in StringCalls(callerBefore)
  => StringInv
<1> SUFFICES ASSUME IInv, CallerInv, caller = Nobody \/ caller \in StringCalls(callerBefore),
                    callerBefore \in [Addr -> Byte]
             PROVE  StringInv
  OBVIOUS
<1>1. /\ pc \in {"called", "forward", "backward", "words", "returned"} /\ call \in Calls
      /\ call.op \in Ops /\ call.op \notin StringOps
  BY MemoryKept, Distinct
<1>2. StringTypeOK
  BY <1>1, MemoryKept DEF StringTypeOK
<1>3. LiveInv /\ ScanInv /\ CopyInv
  BY <1>1 DEF LiveInv, ScanInv, CopyInv
<1>4. call.op \notin {"strlen", "strcpy", "strcat", "strncpy", "strncat"} /\ pc # "faulted"
  BY <1>1 DEF StringOps
<1>5. StringResults
  BY <1>4 DEF StringResults, StrlenCounts, StrcpyKeepsTail, StrncatTerminates, StrncpyPadsFront, Done
<1> QED
  BY <1>2, <1>3, <1>5 DEF StringInv

LEMMA StringInitInv == StringInit => StringInv
<1> SUFFICES ASSUME StringInit PROVE StringInv
  OBVIOUS
<1>1. caller = Nobody /\ callerBefore = mem /\ (Init \/ CallString)
  BY DEF StringInit
<1>2. CallerInv
  BY <1>1 DEF CallerInv
<1>3. CASE Init
  <2>1. IInv
    BY <1>3, InitIInv
  <2>2. callerBefore \in [Addr -> Byte]
    BY <1>1, <2>1, MemoryKept
  <2> QED
    BY <1>1, <1>2, <2>1, <2>2, MemoryInv
<1>4. CASE CallString
  <2>1. /\ mem \in StringMemories /\ before = mem /\ call \in StringCalls(mem)
        /\ pc = IF call.op \in {"strlen", "strcat", "strncat"} THEN "scan" ELSE "copy"
        /\ d = call.dest /\ s = call.src /\ n = call.n /\ result = 0
    BY <1>4 DEF CallString
  <2>2. Ended(before) /\ mem \in [Addr -> Byte]
    BY <2>1, StringAssumption DEF Ended
  <2>3. /\ call.op \in StringOps /\ call.dest \in Nat /\ call.src \in Nat /\ call.n \in Nat
        /\ call.dest < MemSize /\ call.n <= MemSize /\ call.dest \in Addr /\ call.src \in Addr
    BY <2>1, StringCallType
  <2>4. call.op \notin Ops
    BY <2>3, Distinct
  <2>5. StringTypeOK
    <3>1. d \in 0 .. MemSize + 3 /\ n \in 0 .. WordMod - 1 /\ 0 \in -255 .. 255
      BY <2>1, <2>3, SizeType
    <3> QED
      BY <1>1, <2>1, <2>2, <2>3, <3>1 DEF StringTypeOK
  <2>6. LiveInv
    BY <1>1, <2>1, <2>2 DEF LiveInv
  <2>7. ScanInv
    <3>1. Length(before, call.dest) \in Nat
      BY <2>2, <2>3, LengthFacts
    <3>2. call.dest \in call.dest .. call.dest + Length(before, call.dest)
      BY <2>3, <3>1
    <3> QED
      BY <2>1, <3>2 DEF ScanInv
  <2>8. CopyInv
    <3> SUFFICES ASSUME pc = "copy" PROVE CopyInv
      BY DEF CopyInv
    <3>1. call.op \in StringOps \ {"strlen"} /\ call.op \notin {"strcat", "strncat"}
      BY <2>1, <2>3
    <3>2. /\ 0 \in 0 .. Count(before, call) /\ Left(call, 0) = call.n
          /\ Overlay(before, call, To(before, call), 0) = before
      BY <2>1, <2>2, <3>1, CopyStarts
    <3>3. s - call.src = 0 /\ To(before, call) + 0 = call.dest
      BY <2>1, <2>3, <3>1 DEF To, Old
    <3> QED
      BY <2>1, <3>1, <3>2, <3>3 DEF CopyInv
  <2>9. StringResults
    <3>1. pc \notin {"returned", "faulted"}
      BY <2>1
    <3> QED
      BY <3>1 DEF StringResults, StrlenCounts, StrcpyKeepsTail, StrncatTerminates, StrncpyPadsFront, Done
  <2> QED
    BY <1>2, <2>4, <2>5, <2>6, <2>7, <2>8, <2>9 DEF StringInv
<1> QED
  BY <1>1, <1>3, <1>4

-----------------------------------------------------------------------------
(* The steps of the string functions. *)

(* What a running string function may rely on. *)
LEMMA StringFacts ==
  ASSUME StringInv, call.op \in StringOps
  PROVE  /\ caller = Nobody /\ call \in StringCalls(before) /\ Ended(before)
         /\ mem \in [Addr -> Byte] /\ before \in [Addr -> Byte] /\ callerBefore \in [Addr -> Byte]
         /\ call.dest \in Nat /\ call.src \in Nat /\ call.n \in Nat
         /\ call.dest < MemSize /\ call.src < MemSize /\ call.n <= MemSize
         /\ call.dest \in Addr /\ call.src \in Addr /\ call.op \notin Ops
         /\ MemSize \in Nat /\ WordMod \in Nat /\ WordMod > 4 * MemSize
<1>1. caller = Nobody /\ call \in StringCalls(before) /\ Ended(before)
  BY DEF StringInv, LiveInv
<1>2. mem \in [Addr -> Byte] /\ before \in [Addr -> Byte] /\ callerBefore \in [Addr -> Byte]
  BY DEF StringInv, StringTypeOK
<1> QED
  BY <1>1, <1>2, StringCallType, SizeType, Distinct

(* One character of strlen's loop, and the end of it. *)
LEMMA ScanKeeps ==
  ASSUME StringInv, Scan
  PROVE  StringInv'
<1> DEFINE l == Length(before, call.dest)
<1>1. /\ pc = "scan" /\ call.op \in {"strlen", "strcat", "strncat"} /\ mem = before
      /\ s = call.src /\ n = call.n /\ result = 0 /\ d \in call.dest .. call.dest + l
      /\ UNCHANGED <<call, mem, before, s, n, callerVars>>
  BY DEF StringInv, ScanInv, Scan
<1>2. call.op \in StringOps
  BY <1>1 DEF StringOps
<1>3. /\ caller = Nobody /\ call \in StringCalls(before) /\ Ended(before)
      /\ call.dest \in Nat /\ call.dest \in Addr /\ MemSize \in Nat /\ call.op \notin Ops
  BY <1>2, StringFacts
<1>4. /\ l \in Nat /\ call.dest + l <= MemSize /\ before[call.dest + l] = 0
      /\ \A j \in 0 .. l - 1 : before[call.dest + j] # 0
  BY <1>3, LengthFacts
<1> HIDE DEF l
<1>5. UNCHANGED <<caller, callerBefore>>
  BY <1>1 DEF callerVars
<1>6. CallerInv'
  BY <1>3, <1>5 DEF CallerInv
<1>7. StringTypeOK
  BY DEF StringInv
<1>8. CASE mem[d] # 0 /\ d' = d + 1 /\ UNCHANGED <<pc, result>>
  <2>1. d' \in call.dest .. call.dest + l
    BY <1>1, <1>3, <1>4, <1>8
  <2>2. d' \in 0 .. MemSize + 3
    BY <1>3, <1>4, <2>1
  <2>3. StringTypeOK'
    BY <1>1, <1>5, <1>7, <1>8, <2>2 DEF StringTypeOK
  <2>4. LiveInv' /\ ScanInv' /\ CopyInv'
    BY <1>1, <1>3, <1>5, <1>8, <2>1 DEF LiveInv, ScanInv, CopyInv, l
  <2>5. StringResults'
    BY <1>1, <1>8 DEF StringResults, StrlenCounts, StrcpyKeepsTail, StrncatTerminates, StrncpyPadsFront, Done
  <2> QED
    BY <1>1, <1>3, <1>6, <2>3, <2>4, <2>5 DEF StringInv
<1>9. CASE mem[d] = 0 /\ UNCHANGED d
  <2>1. d - call.dest = l
    <3>1. d - call.dest \in 0 .. l /\ call.dest + (d - call.dest) = d
      BY <1>1, <1>3, <1>4
    <3>2. d - call.dest \notin 0 .. l - 1
      BY <1>1, <1>4, <1>9, <3>1
    <3> QED
      BY <1>4, <3>1, <3>2
  <2>2. CASE call.op = "strlen"
    <3>1. pc' = "returned" /\ result' = l
      BY <1>1, <1>9, <2>1, <2>2 DEF Scan
    <3>2. l \in Addr
      BY <1>3, <1>4, SizeType
    <3>3. StringTypeOK'
      BY <1>1, <1>5, <1>7, <1>9, <3>1, <3>2 DEF StringTypeOK
    <3>4. LiveInv' /\ ScanInv' /\ CopyInv'
      BY <1>1, <1>3, <1>5, <3>1 DEF LiveInv, ScanInv, CopyInv
    <3>5. StringResults'
      BY <1>1, <2>2, <3>1 DEF StringResults, StrlenCounts, StrcpyKeepsTail, StrncatTerminates, StrncpyPadsFront, Done, l
    <3> QED
      BY <1>1, <1>3, <1>6, <3>3, <3>4, <3>5 DEF StringInv
  <2>3. CASE call.op # "strlen"
    <3>1. pc' = "copy" /\ UNCHANGED result
      BY <1>1, <1>9, <2>3 DEF Scan
    <3>2. StringTypeOK'
      BY <1>1, <1>5, <1>7, <1>9, <3>1 DEF StringTypeOK
    <3>3. LiveInv' /\ ScanInv'
      BY <1>1, <1>3, <1>5, <3>1 DEF LiveInv, ScanInv
    <3>4. CopyInv'
      <4>1. /\ 0 \in 0 .. Count(before, call) /\ Left(call, 0) = call.n
            /\ Overlay(before, call, To(before, call), 0) = before
        BY <1>3, <2>3, CopyStarts
      <4>2. d = To(before, call) + 0
        <5>1. To(before, call) = call.dest + l
          BY <1>1, <2>3 DEF To, Old, l
        <5> QED
          BY <1>1, <1>3, <1>4, <2>1, <5>1
      <4>3. s' - call'.src = 0
        BY <1>1, <1>2, StringFacts
      <4>4. call'.op \in StringOps \ {"strlen"} /\ result' = 0
        BY <1>1, <1>2, <2>3, <3>1
      <4>5. UNCHANGED <<mem, before, call, n, d>> /\ mem = before /\ n = call.n
        BY <1>1, <1>9
      <4> QED
        BY <4>1, <4>2, <4>3, <4>4, <4>5 DEF CopyInv
    <3>5. StringResults'
      BY <3>1 DEF StringResults, StrlenCounts, StrcpyKeepsTail, StrncatTerminates, StrncpyPadsFront, Done
    <3> QED
      BY <1>1, <1>3, <1>6, <3>2, <3>3, <3>4, <3>5 DEF StringInv
  <2> QED
    BY <2>2, <2>3
<1> QED
  BY <1>8, <1>9 DEF Scan

(* Where a copying loop stands. *)
LEMMA CopyFacts ==
  ASSUME StringInv, pc = "copy"
  PROVE  LET k == s - call.src
             l == Length(before, call.src)
         IN  /\ call.op \in StringOps /\ call.op # "strlen" /\ result = 0
             /\ k \in Nat /\ k <= Count(before, call) /\ l \in Nat /\ call.src + l <= MemSize
             /\ s = call.src + k /\ d = To(before, call) + k /\ n = Left(call, k)
             /\ mem = Overlay(before, call, To(before, call), k)
             /\ mem[s] = before[s] /\ (mem[s] = 0 <=> k = l)
             /\ mem[s] = 0 => k = Count(before, call)
<1> DEFINE k == s - call.src
           l == Length(before, call.src)
<1>1. /\ call.op \in StringOps \ {"strlen"} /\ result = 0 /\ k \in 0 .. Count(before, call)
      /\ d = To(before, call) + k /\ n = Left(call, k)
      /\ mem = Overlay(before, call, To(before, call), k)
  BY DEF StringInv, CopyInv
<1>2. call \in StringCalls(before) /\ Ended(before) /\ call.src \in Nat /\ call.src \in Addr
  BY <1>1, StringFacts
<1>3. Count(before, call) \in Nat /\ Count(before, call) <= l
  BY <1>1, <1>2, Apart
<1>4. /\ l \in Nat /\ call.src + l <= MemSize /\ before[call.src + l] = 0
      /\ \A j \in 0 .. l - 1 : before[call.src + j] # 0
  BY <1>2, LengthFacts
<1>5. k \in Nat /\ k <= Count(before, call) /\ k \in 0 .. l
  BY <1>1, <1>3, <1>4
<1>6. s = call.src + k
  <2>1. s \in Int
    BY SizeType DEF StringInv, StringTypeOK
  <2> QED
    BY <1>2, <2>1
<1>7. mem[call.src + k] = before[call.src + k]
  BY <1>1, <1>2, <1>5, Intact
<1> HIDE DEF k, l
<1>8. before[call.src + k] = 0 <=> k = l
  BY <1>4, <1>5
<1>9. k = l => k = Count(before, call)
  BY <1>3, <1>4, <1>5
<1> QED
  BY <1>1, <1>4, <1>5, <1>6, <1>7, <1>8, <1>9 DEF k, l

(* One character of a copying loop. *)
LEMMA CopyCharKeeps ==
  ASSUME StringInv, CopyChar
  PROVE  StringInv'
<1> DEFINE k == s - call.src
           l == Length(before, call.src)
           to == To(before, call)
           count == Count(before, call)
<1>1. /\ pc = "copy" /\ mem[s] # 0 /\ (call.op = "strncat" => n # 0)
      /\ mem' = [mem EXCEPT ![d] = mem[s]] /\ d' = d + 1 /\ s' = s + 1
      /\ n' = IF call.op \in {"strncpy", "strncat"} THEN (n - 1) % WordMod ELSE n
      /\ UNCHANGED <<pc, call, before, result, callerVars>>
  BY DEF CopyChar
<1>2. /\ call.op \in StringOps /\ call.op # "strlen" /\ result = 0
      /\ k \in Nat /\ k <= count /\ l \in Nat /\ call.src + l <= MemSize
      /\ s = call.src + k /\ d = to + k /\ n = Left(call, k)
      /\ mem = Overlay(before, call, to, k) /\ mem[s] = before[s] /\ k # l
  BY <1>1, CopyFacts
<1>3. /\ caller = Nobody /\ call \in StringCalls(before) /\ Ended(before)
      /\ call.src \in Nat /\ call.n \in Nat /\ MemSize \in Nat /\ WordMod \in Nat /\ call.op \notin Ops
      /\ WordMod > 4 * MemSize
  BY <1>2, StringFacts
<1>4. /\ to \in Nat /\ count \in Nat /\ count <= l /\ to + count <= MemSize
  BY <1>2, <1>3, Apart
<1>5. k < count
  <2>1. CASE call.op = "strncat"
    <3>1. n = IF k <= call.n THEN call.n - k ELSE call.n - k + WordMod
      BY <1>2, <2>1 DEF Left
    <3>2. count = Shorter(call.n, l)
      BY <2>1 DEF Count
    <3> HIDE DEF k, l, count
    <3>3. k <= call.n /\ k <= l
      <4>1. count <= call.n /\ call.n \in Nat
        BY <1>2, <1>3, <3>2, ShorterType
      <4>2. k \in Nat /\ k <= count /\ l \in Nat /\ count \in Nat /\ count <= l
        BY <1>2, <1>4
      <4> QED
        BY <4>1, <4>2
    <3>4. k # call.n
      BY <1>1, <1>3, <2>1, <3>1, <3>3
    <3> QED
      BY <1>2, <1>3, <3>2, <3>3, <3>4 DEF Shorter
  <2>2. CASE call.op # "strncat"
    <3>1. count = l
      BY <2>2 DEF Count
    <3> HIDE DEF k, l, count
    <3> QED
      BY <1>2, <3>1
  <2> QED
    BY <2>1, <2>2
<1> HIDE DEF k, l, to, count
<1>6. /\ to + k \in Addr /\ call.src + k \in Addr /\ k < MemSize /\ k + 1 \in 0 .. count
      /\ call.src + (k + 1) \in Addr /\ to + (k + 1) \in 0 .. MemSize
  <2>1. k \in Nat /\ l \in Nat /\ call.src + l <= MemSize
    BY <1>2
  <2>2. call.src \in Nat /\ MemSize \in Nat /\ Addr = 0 .. MemSize
    BY <1>3, SizeType
  <2>3. to \in Nat /\ count \in Nat /\ count <= l /\ to + count <= MemSize
    BY <1>4
  <2> QED
    BY <1>5, <2>1, <2>2, <2>3
<1>7. mem' = Overlay(before, call, to, k + 1) /\ mem' \in [Addr -> Byte]
  <2>1. mem' = [Overlay(before, call, to, k) EXCEPT ![to + k] = before[call.src + k]]
    BY <1>1, <1>2
  <2>2. /\ Overlay(before, call, to, k) \in [Addr -> Byte]
        /\ Overlay(before, call, to, k + 1) = [Overlay(before, call, to, k) EXCEPT ![to + k] = before[call.src + k]]
    BY <1>2, <1>3, <1>4, <1>6, OverlaySteps
  <2>3. before[call.src + k] \in Byte
    BY <1>3, <1>6 DEF Ended
  <2> QED
    BY <2>1, <2>2, <2>3
<1>8. n' = Left(call, k + 1) /\ n' \in 0 .. WordMod - 1
  <2>1. /\ Left(call, k) \in 0 .. WordMod - 1
        /\ Left(call, k + 1) = IF call.op \in {"strncpy", "strncat"} THEN (Left(call, k) - 1) % WordMod
                               ELSE Left(call, k)
    BY <1>2, <1>3, <1>6, LeftSteps
  <2>2. (Left(call, k) - 1) % WordMod \in 0 .. WordMod - 1
    <3> DEFINE x == Left(call, k) - 1
    <3>1. x \in Int /\ WordMod > 0
      BY <1>3, <2>1
    <3> HIDE DEF x
    <3>2. x % WordMod \in 0 .. WordMod - 1
      BY <1>3, <3>1
    <3> QED
      BY <3>2 DEF x
  <2> QED
    BY <1>1, <1>2, <2>1, <2>2
<1>9. s' = call.src + (k + 1) /\ d' = to + (k + 1)
  BY <1>1, <1>2, <1>3, <1>4
<1>10. UNCHANGED <<caller, callerBefore>>
  BY <1>1 DEF callerVars
<1>11. StringTypeOK'
  <2>1. d' \in 0 .. MemSize + 3
    BY <1>3, <1>6, <1>9
  <2>2. StringTypeOK /\ s' \in Addr
    BY <1>6, <1>9 DEF StringInv
  <2> QED
    BY <1>1, <1>7, <1>8, <1>10, <2>1, <2>2 DEF StringTypeOK
<1>12. CopyInv'
  <2>1. s' - call'.src = k + 1
    BY <1>1, <1>2, <1>3, <1>9
  <2>2. To(before', call') = to /\ Count(before', call') = count
    BY <1>1 DEF to, count
  <2> QED
    BY <1>1, <1>2, <1>6, <1>7, <1>8, <1>9, <2>1, <2>2 DEF CopyInv
<1>13. LiveInv' /\ ScanInv' /\ CallerInv'
  BY <1>1, <1>3, <1>10 DEF LiveInv, ScanInv, CallerInv
<1>14. StringResults'
  BY <1>1 DEF StringResults, StrlenCounts, StrcpyKeepsTail, StrncatTerminates, StrncpyPadsFront, Done
<1> QED
  BY <1>1, <1>3, <1>11, <1>12, <1>13, <1>14 DEF StringInv

(* The string at dest while src is copied: no 0 up to where the loop        *)
(* stands, and the caller's memory from there on.                           *)
LEMMA NoZeroYet ==
  ASSUME NEW m, Ended(m), NEW c \in StringCalls(m), c.op \notin {"strlen", "strncpy"},
         NEW k \in 0 .. Count(m, c)
  PROVE  /\ \A j \in 0 .. Old(m, c) + k - 1 : Overlay(m, c, To(m, c), k)[c.dest + j] # 0
         /\ \A x \in To(m, c) + k .. MemSize : Overlay(m, c, To(m, c), k)[x] = m[x]
         /\ To(m, c) + k \in Addr /\ To(m, c) + k < MemSize
         /\ To(m, c) + k = c.dest + (Old(m, c) + k)
<1> DEFINE old == Old(m, c)
           to == To(m, c)
           l == Length(m, c.src)
           o == Overlay(m, c, to, k)
<1>1. /\ old \in Nat /\ to \in Nat /\ l \in Nat /\ Count(m, c) \in Nat /\ Count(m, c) <= l
      /\ to + Count(m, c) < MemSize
  BY Apart
<1>2. c.dest \in Nat /\ c.dest \in Addr /\ c.src \in Nat /\ c.src \in Addr /\ MemSize \in Nat /\ Addr = 0 .. MemSize
  BY StringCallType, SizeType
<1>3. \A j \in 0 .. l - 1 : m[c.src + j] # 0
  BY <1>2, LengthFacts
<1>4. \A j \in 0 .. old - 1 : m[c.dest + j] # 0
  <2>1. CASE c.op \in {"strcat", "strncat"}
    <3>1. old = Length(m, c.dest)
      BY <2>1 DEF Old
    <3>2. \A j \in 0 .. Length(m, c.dest) - 1 : m[c.dest + j] # 0
      BY <1>2, LengthFacts
    <3> HIDE DEF old
    <3> QED
      BY <3>1, <3>2
  <2>2. CASE c.op \notin {"strcat", "strncat"}
    <3>1. old = 0
      BY <2>2 DEF Old
    <3> HIDE DEF old
    <3> QED
      BY <3>1
  <2> QED
    BY <2>1, <2>2
<1>5. to = c.dest + old
  BY DEF To
<1>6. k \in Nat /\ k <= l /\ to + k < MemSize
  <2> DEFINE count == Count(m, c)
  <2>1. /\ k \in 0 .. count /\ count \in Nat /\ count <= l /\ l \in Nat
        /\ to \in Nat /\ to + count < MemSize /\ MemSize \in Nat
    BY <1>1, <1>2
  <2> HIDE DEF count, l, to
  <2> QED
    BY <2>1
<1>7. \A x \in Addr : o[x] = IF x \in to .. to + k - 1 THEN m[c.src + (x - to)] ELSE m[x]
  BY DEF Overlay
<1> HIDE DEF old, to, l, o
<1>8. ASSUME NEW j \in 0 .. old + k - 1 PROVE o[c.dest + j] # 0
  <2>0. /\ old \in Nat /\ k \in Nat /\ to = c.dest + old /\ c.dest \in Nat
        /\ to + k < MemSize /\ MemSize \in Nat
    BY <1>1, <1>2, <1>5, <1>6
  <2>1. c.dest + j \in Addr /\ j \in Nat /\ j < old + k
    <3>1. j \in Nat /\ j < old + k
      BY <2>0
    <3>2. c.dest + j \in 0 .. MemSize
      BY <2>0, <3>1
    <3> QED
      BY <3>1, <3>2 DEF Addr
  <2>2. CASE j < old
    <3>1. c.dest + j \notin to .. to + k - 1 /\ j \in 0 .. old - 1
      BY <2>0, <2>1, <2>2
    <3> QED
      BY <1>4, <1>7, <2>1, <3>1
  <2>3. CASE j >= old
    <3>1. /\ c.dest + j \in to .. to + k - 1 /\ j - old \in 0 .. l - 1
          /\ (c.dest + j) - to = j - old
      <4>1. j < old + k /\ j \in Nat /\ old \in Nat /\ k \in Nat /\ k <= l /\ l \in Nat
        BY <1>1, <1>6, <2>0, <2>1
      <4>2. to = c.dest + old /\ c.dest \in Nat
        BY <1>2, <1>5
      <4> QED
        BY <2>3, <4>1, <4>2
    <3> QED
      BY <1>3, <1>7, <2>1, <3>1
  <2> QED
    BY <2>0, <2>1, <2>2, <2>3
<1>9. ASSUME NEW x \in to + k .. MemSize PROVE o[x] = m[x]
  <2>1. k \in Nat /\ to \in Nat /\ MemSize \in Nat
    BY <1>1, <1>2, <1>6
  <2>2. x \in Addr /\ x \notin to .. to + k - 1
    BY <2>1 DEF Addr
  <2> QED
    BY <1>7, <2>2
<1>10. to + k \in Addr /\ to + k = c.dest + (old + k)
  <2>1. /\ old \in Nat /\ k \in Nat /\ to = c.dest + old /\ c.dest \in Nat
        /\ to + k < MemSize /\ MemSize \in Nat
    BY <1>1, <1>2, <1>5, <1>6
  <2>2. to + k \in 0 .. MemSize /\ to + k = c.dest + (old + k)
    BY <2>1
  <2> QED
    BY <2>2 DEF Addr
<1> QED
  BY <1>6, <1>8, <1>9, <1>10 DEF old, to, o

(* strcpy and strcat stop, and dest goes on with the caller's memory. *)
LEMMA StopCopyKeeps ==
  ASSUME StringInv, StopCopy
  PROVE  StringInv'
<1> DEFINE k == s - call.src
           l == Length(before, call.src)
           to == To(before, call)
           old == Old(before, call)
<1>1. /\ pc = "copy" /\ call.op \in {"strcpy", "strcat"} /\ mem[s] = 0 /\ pc' = "returned"
      /\ UNCHANGED <<call, mem, before, d, s, n, result, callerVars>>
  BY DEF StopCopy
<1>2. /\ call.op \in StringOps /\ k = Count(before, call) /\ k = l /\ k \in Nat
      /\ mem = Overlay(before, call, to, k)
  BY <1>1, CopyFacts
<1>3. /\ caller = Nobody /\ call \in StringCalls(before) /\ Ended(before) /\ call.op \notin Ops
      /\ call.dest \in Nat /\ call.dest \in Addr /\ mem \in [Addr -> Byte] /\ MemSize \in Nat
  BY <1>2, StringFacts
<1>4. old \in Nat /\ to \in Nat
  BY <1>1, <1>3, Apart
<1>5. k \in 0 .. Count(before, call)
  BY <1>2
<1>6. /\ \A j \in 0 .. old + k - 1 : mem[call.dest + j] # 0
      /\ \A x \in to + k .. MemSize : mem[x] = before[x]
      /\ to + k \in Addr /\ to + k < MemSize /\ to + k = call.dest + (old + k)
  BY <1>1, <1>2, <1>3, <1>5, NoZeroYet
<1> HIDE DEF k, l, to, old
<1>7. Ended(mem)
  <2>1. MemSize \in to + k .. MemSize
    BY <1>2, <1>3, <1>4, <1>6
  <2> QED
    BY <1>3, <1>6, <2>1 DEF Ended
<1>8. Length(mem, call.dest) = (old + k) + Length(mem, to + k)
  <2> DEFINE o == old + k
  <2>1. o \in Nat /\ to + k = call.dest + o /\ call.dest + o \in Addr
    BY <1>2, <1>4, <1>6
  <2>2. \A j \in 0 .. o - 1 : mem[call.dest + j] # 0
    <3>1. \A j \in 0 .. o - 1 : j \in 0 .. old + k - 1
      BY <1>2, <1>4
    <3> QED
      BY <1>6, <3>1
  <2> HIDE DEF o
  <2>3. Length(mem, call.dest) = o + Length(mem, call.dest + o)
    BY <1>3, <1>7, <2>1, <2>2, LengthFrom
  <2>4. Length(mem, call.dest) = o + Length(mem, to + k)
    BY <2>1, <2>3
  <2> QED
    BY <2>4 DEF o
<1>9. Length(mem, to + k) = Length(before, to + k)
  BY <1>3, <1>6, <1>7, LengthAgree
<1>10. UNCHANGED <<caller, callerBefore>>
  BY <1>1 DEF callerVars
<1>11. StrcpyKeepsTail'
  <2> DEFINE old2 == IF call.op = "strcat" THEN Length(before, call.dest) ELSE 0
             end == call.dest + old2 + Length(before, call.src)
  <2>1. old2 = old /\ to = call.dest + old
    BY <1>1 DEF Old, old, To, to
  <2>2. end = to + k
    BY <1>2, <2>1 DEF l
  <2>3. mem = Overlaid(call.dest + old2, Length(before, call.src))
    BY <1>2, <2>1, OverlayIs DEF l
  <2>4. end - call.dest = old + k
    BY <1>2, <1>3, <1>4, <1>6, <2>2
  <2>5. Length(mem, call.dest) = (end - call.dest) + Length(before, end)
    BY <1>8, <1>9, <2>2, <2>4
  <2>6. UNCHANGED <<call, mem, before>> /\ Overlaid(call.dest + old2, Length(before, call.src))'
                                             = Overlaid(call.dest + old2, Length(before, call.src))
    BY <1>1 DEF Overlaid
  <2> QED
    BY <2>3, <2>5, <2>6 DEF StrcpyKeepsTail
<1>12. StringResults'
  BY <1>1, <1>11 DEF StringResults, StrlenCounts, StrncatTerminates, StrncpyPadsFront, Done
<1>13. StringTypeOK'
  BY <1>1, <1>10 DEF StringInv, StringTypeOK
<1>14. LiveInv' /\ ScanInv' /\ CopyInv' /\ CallerInv'
  BY <1>1, <1>3, <1>10 DEF LiveInv, ScanInv, CopyInv, CallerInv
<1> QED
  BY <1>1, <1>3, <1>12, <1>13, <1>14 DEF StringInv

(* strncat ends the string. *)
LEMMA TerminateKeeps ==
  ASSUME StringInv, Terminate
  PROVE  StringInv'
<1> DEFINE k == s - call.src
           l == Length(before, call.src)
           to == To(before, call)
           old == Old(before, call)
<1>1. /\ pc = "copy" /\ call.op = "strncat" /\ (mem[s] = 0 \/ n = 0) /\ pc' = "returned"
      /\ mem' = [mem EXCEPT ![d] = 0]
      /\ UNCHANGED <<call, before, d, s, n, result, callerVars>>
  BY DEF Terminate
<1>2. /\ call.op \in StringOps /\ k <= Count(before, call) /\ k \in Nat /\ l \in Nat
      /\ mem = Overlay(before, call, to, k) /\ d = to + k /\ n = Left(call, k)
      /\ mem[s] = 0 => k = Count(before, call)
  BY <1>1, CopyFacts
<1>3. /\ caller = Nobody /\ call \in StringCalls(before) /\ Ended(before) /\ call.op \notin Ops
      /\ call.dest \in Nat /\ call.dest \in Addr /\ call.n \in Nat /\ mem \in [Addr -> Byte]
      /\ MemSize \in Nat
  BY <1>2, StringFacts
<1>4. old \in Nat /\ to \in Nat /\ Count(before, call) \in Nat
  BY <1>1, <1>3, Apart
<1>5. Count(before, call) = Shorter(call.n, l)
  BY <1>1 DEF Count
<1>6. k = Count(before, call)
  <2>1. CASE n = 0
    <3>1. n = IF k <= call.n THEN call.n - k ELSE call.n - k + WordMod
      BY <1>1, <1>2 DEF Left
    <3> HIDE DEF k, l
    <3>2. Shorter(call.n, l) <= call.n
      BY <1>2, <1>3, ShorterType
    <3>3. k <= call.n
      BY <1>2, <1>3, <1>4, <1>5, <3>2
    <3> QED
      BY <1>2, <1>3, <1>4, <1>5, <2>1, <3>1, <3>2, <3>3
  <2> QED
    BY <1>1, <1>2, <2>1
<1>7. k \in 0 .. Count(before, call)
  BY <1>2, <1>6
<1>8. /\ \A j \in 0 .. old + k - 1 : mem[call.dest + j] # 0
      /\ \A x \in to + k .. MemSize : mem[x] = before[x]
      /\ to + k \in Addr /\ to + k < MemSize /\ to + k = call.dest + (old + k)
  BY <1>1, <1>2, <1>3, <1>7, NoZeroYet
<1> HIDE DEF k, l, to, old
<1>9. mem' \in [Addr -> Byte] /\ mem'[to + k] = 0 /\ \A x \in Addr \ {to + k} : mem'[x] = mem[x]
  <2>1. 0 \in Byte
    BY DEF Byte
  <2> QED
    BY <1>1, <1>2, <1>3, <1>8, <2>1
<1>10. Ended(mem')
  <2>1. MemSize \in to + k .. MemSize /\ MemSize \in Addr /\ MemSize # to + k
    BY <1>2, <1>3, <1>4, <1>8, SizeType
  <2> QED
    BY <1>3, <1>8, <1>9, <2>1 DEF Ended
<1>11. Length(mem', call.dest) = old + k
  <2>1. old + k \in 0 .. MemSize - call.dest
    BY <1>2, <1>3, <1>4, <1>8
  <2>2. ASSUME NEW j \in 0 .. old + k - 1 PROVE mem'[call.dest + j] # 0
    <3>1. call.dest + j \in Addr \ {to + k}
      BY <1>2, <1>3, <1>4, <1>8, SizeType
    <3> QED
      BY <1>8, <1>9, <3>1
  <2>3. mem'[call.dest + (old + k)] = 0
    BY <1>8, <1>9
  <2> DEFINE o == old + k
  <2>4. /\ o \in 0 .. MemSize - call.dest /\ mem'[call.dest + o] = 0
        /\ \A j \in 0 .. o - 1 : mem'[call.dest + j] # 0
    <3>1. \A j \in 0 .. o - 1 : j \in 0 .. old + k - 1
      BY <1>2, <1>4
    <3> QED
      BY <2>1, <2>2, <2>3, <3>1
  <2> HIDE DEF o
  <2>5. Ends(mem', call.dest, o)
    BY <2>4 DEF Ends
  <2>6. Length(mem', call.dest) = o
    BY <1>3, <1>10, <2>5, LengthIs
  <2> QED
    BY <2>6 DEF o
<1>12. UNCHANGED <<caller, callerBefore>>
  BY <1>1 DEF callerVars
<1>13. StrncatTerminates'
  <2> DEFINE end == call.dest + Length(before, call.dest)
             count == Shorter(call.n, Length(before, call.src))
  <2>1. end = to /\ count = k
    BY <1>1, <1>5, <1>6 DEF To, to, Old, l
  <2>2. mem' = [Overlaid(end, count) EXCEPT ![end + count] = 0]
    BY <1>1, <1>2, <2>1, OverlayIs
  <2>3. end - call.dest = old /\ Length(mem', call.dest) = (end - call.dest) + count
    <3>1. to = call.dest + old
      BY DEF to, old, To
    <3> QED
      BY <1>3, <1>4, <1>11, <2>1, <3>1
  <2>4. UNCHANGED <<call, before>> /\ Overlaid(end, count)' = Overlaid(end, count)
    BY <1>1 DEF Overlaid
  <2> QED
    BY <2>2, <2>3, <2>4 DEF StrncatTerminates
<1>14. StringResults'
  BY <1>1, <1>13 DEF StringResults, StrlenCounts, StrcpyKeepsTail, StrncpyPadsFront, Done
<1>15. StringTypeOK'
  BY <1>1, <1>9, <1>12 DEF StringInv, StringTypeOK
<1>16. LiveInv' /\ ScanInv' /\ CopyInv' /\ CallerInv'
  BY <1>1, <1>3, <1>12 DEF LiveInv, ScanInv, CopyInv, CallerInv
<1> QED
  BY <1>1, <1>3, <1>14, <1>15, <1>16 DEF StringInv

(* strncpy's own loop is over: memset begins, or faults. *)
LEMMA PadKeeps ==
  ASSUME StringInv, Pad
  PROVE  StringInv'
<1> DEFINE k == s - call.src
           l == Length(before, call.src)
<1>1. pc = "copy" /\ call.op = "strncpy" /\ mem[s] = 0 /\ UNCHANGED <<mem, n, result>>
  BY DEF Pad
<1>2. /\ call.op \in StringOps /\ result = 0 /\ k = l /\ l \in Nat
      /\ mem = Overlay(before, call, To(before, call), k) /\ n = Left(call, k)
  BY <1>1, CopyFacts
<1>3. /\ caller = Nobody /\ call \in StringCalls(before) /\ Ended(before) /\ call.op \notin Ops
      /\ call.dest \in Nat /\ call.dest \in Addr /\ call.n \in Nat /\ call.n <= MemSize
      /\ mem \in [Addr -> Byte] /\ before \in [Addr -> Byte] /\ callerBefore \in [Addr -> Byte]
      /\ MemSize \in Nat /\ WordMod \in Nat /\ WordMod > 4 * MemSize
  BY <1>2, StringFacts
<1>4. call.dest + call.n <= MemSize /\ l <= MemSize
  <2>1. call.dest + call.n <= MemSize
    BY <1>1, <1>3, Apart
  <2>2. call.src \in Nat /\ call.src + l <= MemSize
    BY <1>1, <1>2, <1>3, CopyFacts, StringFacts
  <2> HIDE DEF l
  <2> QED
    BY <1>2, <1>3, <2>1, <2>2
<1>5. n = IF l <= call.n THEN call.n - l ELSE call.n - l + WordMod
  BY <1>1, <1>2 DEF Left
<1>6. To(before, call) = call.dest
  BY <1>1, <1>3 DEF To, Old
<1>7. PadDest = call.dest
  BY DEF PadDest
<1>8. call.dest + n <= MemSize <=> l <= call.n
  <2> HIDE DEF l
  <2> QED
    BY <1>2, <1>3, <1>4, <1>5
<1>9. CASE l <= call.n
  <2>1. /\ call' = [op |-> "memset", dest |-> call.dest, src |-> call.dest, n |-> n, fill |-> 0]
        /\ pc' = "called" /\ before' = mem /\ d' = call.dest /\ s' = call.dest
        /\ caller' = call /\ callerBefore' = before
    BY <1>7, <1>8, <1>9 DEF Pad
  <2>2. n = call.n - l /\ n \in 0 .. MemSize /\ call.dest + n <= MemSize
    <3> HIDE DEF l
    <3> QED
      BY <1>2, <1>3, <1>5, <1>8, <1>9
  <2>3. call' \in Calls
    <3>1. 0 \in Fills /\ "memset" \in Ops
      BY StringAssumption DEF Ops
    <3>2. call' \in [op : Ops, dest : Addr, src : Addr, n : 0 .. MemSize, fill : Fills]
      BY <1>3, <2>1, <2>2, <3>1
    <3>3. call'.dest = call.dest /\ call'.src = call.dest /\ call'.n = n
      BY <2>1
    <3> QED
      BY <2>2, <3>2, <3>3 DEF Calls
  <2>4. Begun'
    <3>1. call'.dest = call.dest /\ call'.src = call.dest /\ call'.n = n
      BY <2>1
    <3> QED
      BY <1>1, <1>2, <1>3, <2>1, <2>3, <3>1 DEF Begun
  <2>5. IInv'
    BY <2>4, BegunIInv, PTL
  <2>6. CallerInv'
    <3>1. call'.op = "memset" /\ call'.dest = call.dest /\ call'.n = call.n - l /\ call'.fill = 0
      BY <2>1, <2>2
    <3>2. before' = Overlay(before, call, call.dest, l)
      BY <1>2, <1>6, <2>1
    <3> QED
      BY <1>1, <1>3, <1>9, <2>1, <3>1, <3>2 DEF CallerInv
  <2>7. callerBefore' \in [Addr -> Byte] /\ caller' \in StringCalls(callerBefore')
    BY <1>3, <2>1
  <2>8. (/\ IInv /\ CallerInv /\ callerBefore \in [Addr -> Byte]
         /\ caller = Nobody \/ caller \in StringCalls(callerBefore))'
    BY <2>5, <2>6, <2>7
  <2> QED
    BY <2>8, MemoryInv, PTL
<1>10. CASE ~ (l <= call.n)
  <2>1. pc' = "faulted" /\ UNCHANGED <<call, before, d, s, caller, callerBefore>>
    BY <1>7, <1>8, <1>10 DEF Pad, callerVars
  <2>2. StringTypeOK'
    BY <1>1, <2>1 DEF StringInv, StringTypeOK
  <2>3. LiveInv' /\ ScanInv' /\ CopyInv' /\ CallerInv'
    BY <1>3, <2>1 DEF LiveInv, ScanInv, CopyInv, CallerInv
  <2>4. l > call.n
    <3> HIDE DEF l
    <3> QED
      BY <1>2, <1>3, <1>10
  <2>5. StringResults'
    BY <1>1, <2>1, <2>4 DEF StringResults, StrlenCounts, StrcpyKeepsTail, StrncatTerminates, StrncpyPadsFront, Done
  <2> QED
    BY <1>3, <2>1, <2>2, <2>3, <2>5 DEF StringInv
<1> QED
  BY <1>9, <1>10

(* memset is back, and strncpy returns. *)
LEMMA ResumeKeeps ==
  ASSUME StringInv, Resume
  PROVE  StringInv'
<1> DEFINE l == Length(callerBefore, caller.src)
<1>1. /\ pc = "returned" /\ caller # Nobody /\ call' = caller /\ before' = callerBefore
      /\ caller' = Nobody /\ UNCHANGED <<pc, mem, d, s, n, result, callerBefore>>
  BY DEF Resume
<1>2. /\ caller \in StringCalls(callerBefore) /\ caller.op = "strncpy" /\ Ended(callerBefore)
      /\ l <= caller.n /\ call.op = "memset" /\ call.dest = caller.dest /\ call.n = caller.n - l
      /\ call.fill = 0 /\ before = Overlay(callerBefore, caller, caller.dest, l)
  BY <1>1 DEF StringInv, CallerInv
<1>3. IInv
  BY <1>2 DEF StringInv, Ops
<1>4. mem = [a \in Addr |-> IF a \in Dest THEN 0 ELSE before[a]]
  <2>1. SetResult
    BY <1>3 DEF IInv, ReturnedInv
  <2>2. 0 % 256 = 0
    OBVIOUS
  <2> QED
    BY <1>1, <1>2, <2>1, <2>2 DEF SetResult
<1>5. Dest = caller.dest .. caller.dest + (caller.n - l) - 1
  BY <1>2 DEF Dest
<1>6. caller.op \in StringOps /\ caller.op \notin Ops
  BY <1>2, Distinct DEF StringOps
<1>7. StringTypeOK'
  BY <1>1, <1>2 DEF StringInv, StringTypeOK
<1>8. LiveInv' /\ ScanInv' /\ CopyInv' /\ CallerInv'
  BY <1>1, <1>2 DEF LiveInv, ScanInv, CopyInv, CallerInv
<1>9. StrncpyPadsFront'
  <2>1. /\ Length(before', call'.src) = l
        /\ mem' = [a \in Addr |-> IF a \in call'.dest .. call'.dest + (call'.n - l) - 1 THEN 0
                                  ELSE Overlay(before', call', call'.dest, l)[a]]
    BY <1>1, <1>2, <1>4, <1>5
  <2> QED
    BY <1>1, <1>2, <2>1 DEF StrncpyPadsFront, Overlaid, Overlay
<1>10. StringResults'
  BY <1>1, <1>2, <1>9 DEF StringResults, StrlenCounts, StrcpyKeepsTail, StrncatTerminates, Done
<1> QED
  BY <1>1, <1>6, <1>7, <1>8, <1>10 DEF StringInv

(* No memory function changes the call or its history. *)
LEMMA MemoryFrame ==
  ASSUME Next
  PROVE  UNCHANGED <<call, before>>
  BY DEF Next, Memcpy, Memmove, Forward, Backward, MemsetHead, Words, Memcmp, Returned, vars

LEMMA StringUnchanged ==
  ASSUME StringInv, UNCHANGED stringVars
  PROVE  StringInv'
<1>1. UNCHANGED <<pc, call, mem, before, d, s, n, result, caller, callerBefore>> /\ UNCHANGED vars
  BY DEF stringVars, vars, callerVars
<1>2. (call.op \in Ops => IInv)'
  <2>1. CASE call.op \in Ops
    <3>1. IInv
      BY <2>1 DEF StringInv
    <3>2. IInv'
      BY <1>1, <3>1, NextIInv
    <3> QED
      BY <3>2
  <2>2. CASE call.op \notin Ops
    BY <1>1, <2>2
  <2> QED
    BY <2>1, <2>2
<1>3. StringTypeOK'
  BY <1>1 DEF StringInv, StringTypeOK
<1>4. LiveInv' /\ ScanInv' /\ CopyInv' /\ CallerInv'
  BY <1>1 DEF StringInv, LiveInv, ScanInv, CopyInv, CallerInv
<1>5. StringResults'
  BY <1>1 DEF StringInv, StringResults, StrlenCounts, StrcpyKeepsTail, StrncatTerminates, StrncpyPadsFront, Done, Overlaid
<1> QED
  BY <1>2, <1>3, <1>4, <1>5 DEF StringInv

(* A step of a memory function, with strncpy waiting for it or without. *)
LEMMA MemoryKeeps ==
  ASSUME StringInv, Next, UNCHANGED callerVars
  PROVE  StringInv'
<1>1. UNCHANGED <<caller, callerBefore>> /\ UNCHANGED <<call, before>>
  BY MemoryFrame DEF callerVars
<1>2. CASE call.op \in Ops
  <2>1. IInv'
    <3>1. IInv
      BY <1>2 DEF StringInv
    <3> QED
      BY <3>1, NextIInv
  <2>2. CallerInv'
    BY <1>1 DEF StringInv, CallerInv
  <2>3. callerBefore' \in [Addr -> Byte] /\ (caller' = Nobody \/ caller' \in StringCalls(callerBefore'))
    BY <1>1 DEF StringInv, StringTypeOK
  <2>4. (/\ IInv /\ CallerInv /\ callerBefore \in [Addr -> Byte]
         /\ caller = Nobody \/ caller \in StringCalls(callerBefore))'
    BY <2>1, <2>2, <2>3
  <2> QED
    BY <2>4, MemoryInv, PTL
<1>3. CASE call.op \in StringOps
  <2>1. pc \in {"scan", "copy", "returned", "faulted"}
    BY <1>3 DEF StringInv, LiveInv
  <2>2. Returned
    BY <2>1 DEF Next, Memcpy, Memmove, Forward, Backward, MemsetHead, Words, Memcmp
  <2> QED
    BY <2>2, StringUnchanged DEF Returned, stringVars
<1> QED
  BY <1>2, <1>3, Library

LEMMA StringNextInv == StringInv /\ [StringNext]_stringVars => StringInv'
<1> SUFFICES ASSUME StringInv, [StringNext]_stringVars PROVE StringInv'
  OBVIOUS
<1>1. CASE Next /\ UNCHANGED callerVars
  BY <1>1, MemoryKeeps
<1>2. CASE Scan
  BY <1>2, ScanKeeps
<1>3. CASE CopyChar
  BY <1>3, CopyCharKeeps
<1>4. CASE StopCopy
  BY <1>4, StopCopyKeeps
<1>5. CASE Terminate
  BY <1>5, TerminateKeeps
<1>6. CASE Pad
  BY <1>6, PadKeeps
<1>7. CASE Resume
  BY <1>7, ResumeKeeps
<1>8. CASE Faulted \/ UNCHANGED stringVars
  BY <1>8, StringUnchanged DEF Faulted
<1> QED
  BY <1>1, <1>2, <1>3, <1>4, <1>5, <1>6, <1>7, <1>8 DEF StringNext

-----------------------------------------------------------------------------
(* The inductive invariant holds in every state of every call. *)
THEOREM StringInvariance == StringSpec => []StringInv
<1> QED
  BY StringInitInv, StringNextInv, PTL DEF StringSpec

(* Every character a string function reads lies in the memory, and so does  *)
(* what it returns, as long as its caller passes strings and room.          *)
THEOREM StringTypeCorrect == StringSpec => []StringTypeOK
<1>1. StringInv => StringTypeOK
  BY DEF StringInv
<1> QED
  BY <1>1, StringInvariance, PTL

(* strlen finds the first 0 of every string. *)
THEOREM StrlenIsLength == StringSpec => []StrlenCounts
<1>1. StringInv => StrlenCounts
  BY DEF StringInv, StringResults
<1> QED
  BY <1>1, StringInvariance, PTL

(* strcpy and strcat leave the string unterminated: what follows it in the  *)
(* memory belongs to it.                                                    *)
THEOREM TailStays == StringSpec => []StrcpyKeepsTail
<1>1. StringInv => StrcpyKeepsTail
  BY DEF StringInv, StringResults
<1> QED
  BY <1>1, StringInvariance, PTL

(* strncat always ends the string, for every num. *)
THEOREM AppendEnds == StringSpec => []StrncatTerminates
<1>1. StringInv => StrncatTerminates
  BY DEF StringInv, StringResults
<1> QED
  BY <1>1, StringInvariance, PTL

(* strncpy clears the front of what it copied.  It faults only when src is  *)
(* longer than num, and then it never returns.                              *)
THEOREM PaddingInFront == StringSpec => []StrncpyPadsFront
<1>1. StringInv => StrncpyPadsFront
  BY DEF StringInv, StringResults
<1> QED
  BY <1>1, StringInvariance, PTL

(* The memory functions keep their promises beside the string functions,    *)
(* and for strncpy.                                                         *)
THEOREM MemoryStillWorks ==
  StringSpec => [](CopyResult /\ MoveResult /\ SetResult /\ WritesInside /\ CompareResult)
<1>1. StringInv => CopyResult /\ MoveResult /\ SetResult /\ WritesInside /\ CompareResult
  <2> SUFFICES ASSUME StringInv
               PROVE  CopyResult /\ MoveResult /\ SetResult /\ WritesInside /\ CompareResult
    OBVIOUS
  <2>1. CASE call.op \in Ops
    BY <2>1 DEF StringInv, IInv, ReturnedInv
  <2>2. CASE call.op \notin Ops
    BY <2>2 DEF Ops, CopyResult, MoveResult, SetResult, WritesInside, CompareResult
  <2> QED
    BY <2>1, <2>2
<1> QED
  BY <1>1, StringInvariance, PTL

-----------------------------------------------------------------------------
(* The loops end. *)

(* What the iterations are counted by. *)
RangeInv ==
  /\ pc \in {"called", "forward", "backward", "words", "scan", "copy", "returned", "faulted"}
  /\ MemSize \in Nat /\ d \in Nat /\ s \in Nat /\ n \in Nat /\ s <= MemSize
  /\ pc = "scan" => d <= MemSize

LEMMA RangeHolds == StringInv => RangeInv
<1> SUFFICES ASSUME StringInv PROVE RangeInv
  OBVIOUS
<1>1. /\ MemSize \in Nat /\ d \in Nat /\ s \in Nat /\ n \in Nat /\ s <= MemSize
      /\ pc \in {"called", "forward", "backward", "words", "scan", "copy", "returned", "faulted"}
  BY SizeType DEF StringInv, StringTypeOK
<1>2. ASSUME pc = "scan" PROVE d <= MemSize
  <2>1. /\ call.op \in StringOps /\ d \in call.dest .. call.dest + Length(before, call.dest)
    BY <1>2 DEF StringInv, ScanInv, StringOps
  <2>2. call.dest \in Addr /\ call.dest \in Nat /\ Ended(before)
    BY <2>1, StringFacts
  <2>3. Length(before, call.dest) \in Nat /\ call.dest + Length(before, call.dest) <= MemSize
    BY <2>2, LengthFacts
  <2> QED
    BY <1>1, <2>1, <2>2, <2>3
<1> QED
  BY <1>1, <1>2 DEF RangeInv

LEMMA IterationsNatural == RangeInv => IterationsLeft \in Nat
<1> SUFFICES ASSUME RangeInv PROVE IterationsLeft \in Nat
  OBVIOUS
<1>1. CASE pc = "scan"
  BY <1>1 DEF RangeInv, IterationsLeft
<1>2. CASE pc # "scan"
  BY <1>2 DEF RangeInv, IterationsLeft
<1> QED
  BY <1>1, <1>2

(* One iteration less for each step of a memory function; what memset       *)
(* leaves to its words is no more than its count.                           *)
LEMMA MemoryUsesOne ==
  ASSUME RangeInv, RangeInv', Next, pc # "returned"
  PROVE  IterationsLeft' < IterationsLeft
<1>1. n \in Nat /\ n' \in Nat /\ d \in Nat
  BY DEF RangeInv
<1>2. /\ pc = "called" => IterationsLeft = n + 3
      /\ pc \in {"forward", "backward", "words"} => IterationsLeft = n + 2
      /\ pc' = "called" => IterationsLeft' = n' + 3
      /\ pc' \in {"forward", "backward", "words"} => IterationsLeft' = n' + 2
      /\ pc' = "returned" => IterationsLeft' \in {0, 1}
  BY DEF IterationsLeft
<1>3. CASE Memcpy \/ Memmove
  <2>1. pc = "called" /\ pc' \in {"forward", "backward", "returned"} /\ n' = n
    BY <1>3 DEF Memcpy, Memmove
  <2> QED
    BY <1>1, <1>2, <2>1
<1>4. CASE Forward \/ Backward \/ Words
  <2>1. /\ pc \in {"forward", "backward", "words"}
        /\ \/ pc' = pc /\ n' = n - 1
           \/ pc' = "returned"
    BY <1>4 DEF Forward, Backward, Words
  <2> QED
    BY <1>1, <1>2, <2>1
<1>5. CASE MemsetHead
  <2>1. /\ pc = "called"
        /\ \/ pc' = "returned"
           \/ pc' = "words" /\ n > 8 /\ n' = (n - ((-d) % 4)) \div 4
    BY <1>1, <1>5 DEF MemsetHead
  <2>2. n > 8 => (n - ((-d) % 4)) \div 4 <= n
    <3>1. (-d) % 4 \in 0 .. 3
      BY <1>1
    <3>2. \A h \in 0 .. 3 : n > 8 => (n - h) \div 4 <= n
      BY <1>1
    <3> QED
      BY <3>1, <3>2
  <2> QED
    BY <1>1, <1>2, <2>1, <2>2
<1>6. CASE Memcmp
  <2>1. /\ pc = "called"
        /\ \/ pc' = pc /\ n' = n - 1
           \/ pc' = "returned"
    BY <1>6 DEF Memcmp
  <2> QED
    BY <1>1, <1>2, <2>1
<1> QED
  BY <1>3, <1>4, <1>5, <1>6 DEF Next, Returned

(* A scan moves the one pointer and a copy the other; strncpy's memset is   *)
(* called for no more bytes than the memory has.                            *)
LEMMA StringUsesOne ==
  ASSUME StringInv, RangeInv, RangeInv', Scan \/ CopyChar \/ StopCopy \/ Terminate \/ Pad \/ Resume
  PROVE  IterationsLeft' < IterationsLeft
<1>1. MemSize \in Nat /\ d \in Nat /\ s \in Nat /\ n \in Nat /\ s <= MemSize
  BY DEF RangeInv
<1>2. /\ pc = "scan" => IterationsLeft = (MemSize - d) + (MemSize - s) + MemSize + 5
      /\ pc = "copy" => IterationsLeft = (MemSize - s) + MemSize + 4
      /\ pc = "returned" /\ caller # Nobody => IterationsLeft = 1
      /\ pc' = "scan" => IterationsLeft' = (MemSize - d') + (MemSize - s') + MemSize + 5
      /\ pc' = "copy" => IterationsLeft' = (MemSize - s') + MemSize + 4
      /\ pc' = "called" => IterationsLeft' = n' + 3
      /\ pc' = "returned" => IterationsLeft' \in {0, 1}
      /\ pc' = "returned" /\ caller' = Nobody => IterationsLeft' = 0
      /\ pc' = "faulted" => IterationsLeft' = 0
  BY DEF IterationsLeft
<1>3. CASE Scan
  <2>1. /\ pc = "scan" /\ d <= MemSize /\ s' = s
        /\ \/ pc' = pc /\ d' = d + 1
           \/ pc' \in {"returned", "copy"}
    BY <1>3 DEF Scan, RangeInv
  <2> QED
    BY <1>1, <1>2, <2>1
<1>4. CASE CopyChar
  <2>1. pc = "copy" /\ pc' = pc /\ s' = s + 1
    BY <1>4 DEF CopyChar
  <2> QED
    BY <1>1, <1>2, <2>1
<1>5. CASE StopCopy \/ Terminate
  <2>1. pc = "copy" /\ pc' = "returned"
    BY <1>5 DEF StopCopy, Terminate
  <2> QED
    BY <1>1, <1>2, <2>1
<1>6. CASE Pad
  <2>1. /\ pc = "copy" /\ n' = n
        /\ \/ pc' = "called" /\ call.dest + n <= MemSize
           \/ pc' = "faulted"
    BY <1>6 DEF Pad, PadDest
  <2>2. call.dest \in Nat
    <3>1. call.op \in StringOps
      BY <2>1, <1>6 DEF Pad, StringOps
    <3> QED
      BY <3>1, StringFacts
  <2> QED
    BY <1>1, <1>2, <2>1, <2>2
<1>7. CASE Resume
  BY <1>2, <1>7 DEF Resume
<1> QED
  BY <1>3, <1>4, <1>5, <1>6, <1>7

(* Whatever the memory holds, a call ends within the iterations it started  *)
(* with: at most three times the memory and five.                           *)
THEOREM LoopsEnd ==
  StringSpec => IterationsLeft <= 3 * MemSize + 5 /\ LoopsAdvance
<1>1. StringInit => IterationsLeft <= 3 * MemSize + 5
  <2> SUFFICES ASSUME StringInit PROVE IterationsLeft <= 3 * MemSize + 5
    OBVIOUS
  <2>1. RangeInv
    BY StringInitInv, RangeHolds
  <2>2. CASE Init
    <3>1. pc = "called" /\ n \in 0 .. MemSize
      BY <2>2, SizeType, CallType DEF Init
    <3>2. IterationsLeft = n + 3
      BY <3>1 DEF IterationsLeft
    <3> QED
      BY <3>1, <3>2, SizeType
  <2>3. CASE CallString
    <3>1. pc \in {"scan", "copy"}
      BY <2>3 DEF CallString
    <3>2. \/ IterationsLeft = (MemSize - d) + (MemSize - s) + MemSize + 5
          \/ IterationsLeft = (MemSize - s) + MemSize + 4
      BY <3>1 DEF IterationsLeft
    <3> QED
      BY <2>1, <3>2 DEF RangeInv
  <2> QED
    BY <2>2, <2>3 DEF StringInit
<1>2. StringInv /\ RangeInv /\ RangeInv' /\ IterationsLeft \in Nat /\ (IterationsLeft \in Nat)'
        /\ [StringNext]_stringVars
        => [IterationsLeft' \in 0 .. IterationsLeft - 1]_stringVars
  <2> SUFFICES ASSUME StringInv, RangeInv, RangeInv', IterationsLeft \in Nat,
                      IterationsLeft' \in Nat, StringNext
               PROVE  [IterationsLeft' \in 0 .. IterationsLeft - 1]_stringVars
    OBVIOUS
  <2>1. CASE Next /\ UNCHANGED callerVars /\ pc # "returned"
    <3>1. IterationsLeft' < IterationsLeft
      BY <2>1, MemoryUsesOne
    <3> QED
      BY <3>1
  <2>2. CASE Next /\ UNCHANGED callerVars /\ pc = "returned"
    <3>1. UNCHANGED vars
      BY <2>2 DEF Next, Memcpy, Memmove, Forward, Backward, MemsetHead, Words, Memcmp, Returned
    <3> QED
      BY <2>2, <3>1 DEF stringVars
  <2>3. CASE Scan \/ CopyChar \/ StopCopy \/ Terminate \/ Pad \/ Resume
    <3>1. IterationsLeft' < IterationsLeft
      BY <2>3, StringUsesOne
    <3> QED
      BY <3>1
  <2>4. CASE Faulted
    BY <2>4 DEF Faulted
  <2> QED
    BY <2>1, <2>2, <2>3, <2>4 DEF StringNext
<1> QED
  BY <1>1, <1>2, RangeHolds, IterationsNatural, StringInvariance, PTL DEF StringSpec, LoopsAdvance
=============================================================================
