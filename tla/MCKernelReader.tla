----------------------------- MODULE MCKernelReader -----------------------------
(***************************************************************************)
(* Instances of KernelReader for TLC: a volume that holds one of a few      *)
(* kernel files, with the real sizes of pages, headers and limits.          *)
(***************************************************************************)
EXTENDS KernelReader

Seg(off, filesz, memsz) == [load |-> TRUE, offset |-> off, filesz |-> filesz, memsz |-> memsz]
Note == [load |-> FALSE, offset |-> 64, filesz |-> 32, memsz |-> 32]
Bss(off, size) == [nobits |-> TRUE, alloc |-> TRUE, offset |-> off, size |-> size]
Bits == [nobits |-> FALSE, alloc |-> TRUE, offset |-> 4096, size |-> 100]
Common == [nobits |-> TRUE, alloc |-> FALSE, offset |-> 4096, size |-> 100]
Empty == [nobits |-> TRUE, alloc |-> TRUE, offset |-> 4096, size |-> 0]

File(size, ph, shOff, sh) ==
  [size |-> size, magic |-> TRUE, kind |-> TRUE, phEntry |-> ProgHeaderSize, phOff |-> 64,
   ph |-> ph, shEntry |-> SectionHeaderSize, shOff |-> shOff, sh |-> sh]

Segments == <<Seg(4096, 100, 100), Note, Seg(8192, 4097, 4097)>>

\* the section headers are followed by other bytes; one byte more than 5 pages
Padded == File(20481, Segments, 16384, <<Bits, Bss(8192, 8193), Common, Empty, Bss(4096, 4096)>>)
\* the section headers end the file, as GNU ld lays it out
Linked == File(16384 + 2 * 64, Segments, 16384, <<Bits, Bss(8192, 100)>>)
\* .bss reaches past the end of the file, as a segment and as a section
BssSegment == File(9000, <<Seg(4096, 100, 100), Seg(8192, 100, 8192)>>, 8400, <<>>)
BssSection == File(9000, <<Seg(4096, 100, 100)>>, 8400, <<Bss(8192, 8192)>>)
\* the program headers end the file
LateTable == [File(8192 + 3 * 56, Segments, 4096, <<Bits>>) EXCEPT !.phOff = 8192]

\* refused before or by the loader, and a file shorter than an ELF header
Others == {
  [Padded EXCEPT !.magic = FALSE], [Padded EXCEPT !.kind = FALSE, !.size = MaxFileSize],
  [Padded EXCEPT !.phEntry = 64, !.shEntry = 40],
  [Padded EXCEPT !.size = 0], [Padded EXCEPT !.size = 40],
  [Padded EXCEPT !.size = MaxFileSize + 1] }

MCImages == {Padded, Linked, BssSegment, BssSection, LateTable} \cup Others
MCLinked == {Linked}
MCBssSegment == {BssSegment}
MCPadded == {Padded}

MCLowProgHeaders == {[load |-> FALSE, offset |-> 0, filesz |-> 0, memsz |-> 0], Seg(0, 300, 200)}
MCLowSectionHeaders == {[nobits |-> FALSE, alloc |-> FALSE, offset |-> 0, size |-> 0], Bss(0, 200)}
=============================================================================
