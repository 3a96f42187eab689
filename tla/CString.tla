--------------------------------- MODULE CString --------------------------------
(***************************************************************************)
(* The string library c_husky (static_libs/c_husky/src/string): strlen,     *)
(* strcpy, strcat, strncpy and strncat, one action per iteration of a loop, *)
(* over the memory and beside the memory functions of MemOps, one of which  *)
(* strncpy calls.                                                           *)
(*                                                                          *)
(* A call is a record like one of MemOps', with n for num; d, s and n are   *)
(* again the pointers and the counter.                                      *)
(***************************************************************************)
EXTENDS MemOps

CONSTANTS
  StringMemories  \* what the memory may hold when a string function is called

ASSUME StringAssumption ==
  /\ 0 \in Fills
  /\ StringMemories \subseteq [Addr -> Byte]
  /\ \A m \in StringMemories : m[MemSize] = 0

VARIABLES
  caller,         \* the call of strncpy that waits for memset
  callerBefore    \* history: the memory when strncpy was called

callerVars == <<caller, callerBefore>>
stringVars == <<vars, callerVars>>

Nobody == [op |-> "nobody"]

StringOps == {"strlen", "strcpy", "strcat", "strncpy", "strncat"}
-----------------------------------------------------------------------------
(* The length of the string at an address of a memory. *)
Length(m, a) == CHOOSE k \in 0 .. MemSize - a :
                  m[a + k] = 0 /\ \A j \in 0 .. k - 1 : m[a + j] # 0

Shorter(x, y) == IF x < y THEN x ELSE y

(* The bytes of dest a caller provides, by the function's name in C; those  *)
(* behind them are memory of somebody else.                                 *)
Room(m, c) ==
  LET length == Length(m, c.src)
      old == IF c.op \in {"strcat", "strncat"} THEN Length(m, c.dest) ELSE 0
  IN  CASE c.op = "strlen" -> 0
        [] c.op \in {"strcpy", "strcat"} -> old + length + 1
        [] c.op = "strncpy" -> c.n
        [] c.op = "strncat" -> old + Shorter(c.n, length) + 1

(* Callers pass strings, and regions that do not overlap.  The memory goes  *)
(* on for as long as strncpy copies.                                        *)
StringCalls(m) ==
  {c \in [op : StringOps, dest : 0 .. MemSize - 1, src : 0 .. MemSize - 1,
          n : 0 .. MemSize, fill : {0}] :
     /\ c.op \in {"strlen", "strcpy", "strcat"} => c.n = 0
     /\ c.op = "strlen" => c.src = c.dest
     /\ c.dest + Room(m, c) <= MemSize
     /\ c.op = "strncpy" => c.dest + Length(m, c.src) <= MemSize
     /\ c.dest + Room(m, c) <= c.src \/ c.src + Length(m, c.src) < c.dest}

CallString ==
  /\ mem \in StringMemories /\ before = mem
  /\ call \in StringCalls(mem)
  /\ pc = IF call.op \in {"strlen", "strcat", "strncat"} THEN "scan" ELSE "copy"
  /\ d = call.dest /\ s = call.src /\ n = call.n /\ result = 0

StringInit == (Init \/ CallString) /\ caller = Nobody /\ callerBefore = mem

(* Mutant of Scan: the terminator is counted. *)
ScanInclusive ==
  /\ pc = "scan"
  /\ \/ mem[d] # 0 /\ d' = d + 1 /\ UNCHANGED <<pc, result>>
     \/ /\ mem[d] = 0 /\ UNCHANGED d
        /\ IF call.op = "strlen" THEN pc' = "returned" /\ result' = d - call.dest + 1
                                 ELSE pc' = "copy" /\ UNCHANGED result
  /\ UNCHANGED <<call, mem, before, s, n, callerVars>>

(* strlen's loop, for its callers too. *)
Scan ==
  /\ pc = "scan"
  /\ \/ mem[d] # 0 /\ d' = d + 1 /\ UNCHANGED <<pc, result>>
     \/ /\ mem[d] = 0 /\ UNCHANGED d
        /\ IF call.op = "strlen" THEN pc' = "returned" /\ result' = d - call.dest
                                 ELSE pc' = "copy" /\ UNCHANGED result
  /\ UNCHANGED <<call, mem, before, s, n, callerVars>>

(* Mutant of CopyChar: num is not counted down. *)
CopyCharUncounted ==
  /\ pc = "copy" /\ mem[s] # 0 /\ (call.op = "strncat" => n # 0)
  /\ mem' = [mem EXCEPT ![d] = mem[s]]
  /\ d' = d + 1 /\ s' = s + 1
  /\ UNCHANGED <<pc, call, before, n, result, callerVars>>

(* Mutant of CopyChar: num is a signed number. *)
CopyCharSigned ==
  /\ pc = "copy" /\ mem[s] # 0 /\ (call.op = "strncat" => n # 0)
  /\ mem' = [mem EXCEPT ![d] = mem[s]]
  /\ d' = d + 1 /\ s' = s + 1
  /\ n' = IF call.op \in {"strncpy", "strncat"} THEN n - 1 ELSE n
  /\ UNCHANGED <<pc, call, before, result, callerVars>>

(* One iteration of a copying loop.  Only strncat's looks at num; strncpy   *)
(* counts it down as well, and it wraps below 0.                            *)
CopyChar ==
  /\ pc = "copy" /\ mem[s] # 0 /\ (call.op = "strncat" => n # 0)
  /\ mem' = [mem EXCEPT ![d] = mem[s]]
  /\ d' = d + 1 /\ s' = s + 1
  /\ n' = IF call.op \in {"strncpy", "strncat"} THEN (n - 1) % WordMod ELSE n
  /\ UNCHANGED <<pc, call, before, result, callerVars>>

(* Mutant of StopCopy: the terminator is copied as well. *)
StopCopyTerminated ==
  /\ pc = "copy" /\ call.op \in {"strcpy", "strcat"} /\ mem[s] = 0
  /\ pc' = "returned" /\ mem' = [mem EXCEPT ![d] = 0]
  /\ UNCHANGED <<call, before, d, s, n, result, callerVars>>

(* strcpy, and strcat with it, stops in front of the terminator. *)
StopCopy ==
  /\ pc = "copy" /\ call.op \in {"strcpy", "strcat"} /\ mem[s] = 0
  /\ pc' = "returned"
  /\ UNCHANGED <<call, mem, before, d, s, n, result, callerVars>>

(* strncat writes one. *)
Terminate ==
  /\ pc = "copy" /\ call.op = "strncat" /\ (mem[s] = 0 \/ n = 0)
  /\ mem' = [mem EXCEPT ![d] = 0]
  /\ pc' = "returned"
  /\ UNCHANGED <<call, before, d, s, n, result, callerVars>>

(* Mutant of PadDest: the padding starts behind what was copied. *)
PadDestBehind == d

(* strncpy hands its own argument, not the pointer it advanced, to memset.  *)
PadDest == call.dest

(* strncpy calls memset for num bytes of 0.  A num that wrapped is nearly   *)
(* the whole address space, in which memset faults.                         *)
Pad ==
  /\ pc = "copy" /\ call.op = "strncpy" /\ mem[s] = 0
  /\ IF PadDest + n <= MemSize
       THEN /\ call' = [op |-> "memset", dest |-> PadDest, src |-> PadDest, n |-> n, fill |-> 0]
            /\ pc' = "called" /\ before' = mem /\ d' = PadDest /\ s' = PadDest
            /\ caller' = call /\ callerBefore' = before
       ELSE pc' = "faulted" /\ UNCHANGED <<call, before, d, s, callerVars>>
  /\ UNCHANGED <<mem, n, result>>

(* memset came back to strncpy, which returns. *)
Resume ==
  /\ pc = "returned" /\ caller # Nobody
  /\ call' = caller /\ before' = callerBefore
  /\ caller' = Nobody
  /\ UNCHANGED <<pc, mem, d, s, n, result, callerBefore>>

Faulted == pc = "faulted" /\ UNCHANGED stringVars

StringNext == \/ Next /\ UNCHANGED callerVars
              \/ Scan \/ CopyChar \/ StopCopy \/ Terminate \/ Pad \/ Resume \/ Faulted

(* The loops run. *)
StringSpec == StringInit /\ [][StringNext]_stringVars /\ WF_stringVars(StringNext)
-----------------------------------------------------------------------------
StringTypeOK ==
  /\ pc \in {"called", "forward", "backward", "words", "scan", "copy", "returned", "faulted"}
  /\ call \in Calls \/ call \in StringCalls(before)
  /\ caller = Nobody \/ caller \in StringCalls(callerBefore)
  /\ mem \in [Addr -> Byte] /\ before \in [Addr -> Byte] /\ callerBefore \in [Addr -> Byte]
  /\ d \in 0 .. MemSize + 3 /\ s \in Addr /\ n \in 0 .. WordMod - 1
  /\ result \in -255 .. 255 \/ result \in Addr

Done(op) == pc = "returned" /\ caller = Nobody /\ call.op = op

(* The memory after `count` characters of src were written at `to`. *)
Overlaid(to, count) ==
  [a \in Addr |-> IF a \in to .. to + count - 1 THEN before[call.src + (a - to)] ELSE before[a]]

(* strlen counts the characters in front of the first 0. *)
StrlenCounts == Done("strlen") => result = Length(before, call.dest) /\ mem = before

(* strcpy and strcat write the characters of src and no terminator: the     *)
(* string at dest goes on with what memory held behind them, up to the      *)
(* first 0 there (strcpy.cpp:6-10).                                         *)
StrcpyKeepsTail ==
  Done("strcpy") \/ Done("strcat") =>
    LET old == IF call.op = "strcat" THEN Length(before, call.dest) ELSE 0
        end == call.dest + old + Length(before, call.src)
    IN  /\ mem = Overlaid(call.dest + old, Length(before, call.src))
        /\ Length(mem, call.dest) = (end - call.dest) + Length(before, end)

(* strncat, whatever num is, leaves a string that ends: the old one, then   *)
(* at most num characters of src, and it writes one byte more than those.   *)
StrncatTerminates ==
  Done("strncat") =>
    LET end == call.dest + Length(before, call.dest)
        count == Shorter(call.n, Length(before, call.src))
    IN  /\ mem = [Overlaid(end, count) EXCEPT ![end + count] = 0]
        /\ Length(mem, call.dest) = (end - call.dest) + count

(* strncpy clears as many bytes as num exceeds the length of src, but the   *)
(* first ones of dest and not those behind the copy: what it returns starts *)
(* with the end of src only if src is longer than that, and is empty        *)
(* otherwise.  It does not return at all when src is longer than num.       *)
StrncpyPadsFront ==
  LET length == Length(before, call.src)
      pad == call.n - length
  IN  /\ pc = "faulted" => call.op = "strncpy" /\ length > call.n
      /\ Done("strncpy") =>
           /\ length <= call.n
           /\ mem = [a \in Addr |-> IF a \in call.dest .. call.dest + pad - 1 THEN 0
                                    ELSE Overlaid(call.dest, length)[a]]

(* The iterations still to come: of a scan and a copy up to the end of the  *)
(* memory, of a memset that may follow, and of the memory functions by      *)
(* their counter.                                                           *)
IterationsLeft ==
  CASE pc = "scan" -> (MemSize - d) + (MemSize - s) + MemSize + 5
    [] pc = "copy" -> (MemSize - s) + MemSize + 4
    [] pc = "called" -> n + 3
    [] pc \in {"forward", "backward", "words"} -> n + 2
    [] pc = "returned" /\ caller # Nobody -> 1
    [] OTHER -> 0

(* Every iteration comes closer to the end of its loop, and no function     *)
(* starts one again: a counter that wraps below 0 is never one that a loop  *)
(* still counts by, and memset's words end although its count is rounded.   *)
LoopsAdvance == [][IterationsLeft' \in 0 .. IterationsLeft - 1]_stringVars

(* Every call returns, that of strncpy after the memset it waits for, or    *)
(* faults in that memset.                                                   *)
CallsEnd == <>(pc = "faulted" \/ (pc = "returned" /\ caller = Nobody))
=============================================================================
