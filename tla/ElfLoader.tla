------------------------------- MODULE ElfLoader -------------------------------
(***************************************************************************)
(* The checks of Elf::ElfLoader (static_libs/elf/src/elf_loader.cpp): which *)
(* images, header tables, segments and sections it accepts, and how much    *)
(* memory its callers ask the firmware for.  A parsed image is a record:    *)
(*   size            the bytes of the file                                  *)
(*   magic, kind     the identification bytes / the class, version, machine *)
(*                   and type fields have the supported values              *)
(*   phEntry, phOff  size of a program header and offset of their table     *)
(*   ph              the program headers, in file order                     *)
(*   shEntry, shOff, sh   the same for the section headers                  *)
(* Only what the loader reads is kept; bytes are never represented.         *)
(***************************************************************************)
EXTENDS Integers, Sequences

CONSTANTS
  WordMod,   \* uint64_t arithmetic is modulo WordMod (2^64)
  IntMod     \* an int has IntMod values (2^32)

ASSUME WidthAssumption ==
  /\ WordMod \in Nat /\ IntMod \in Nat
  /\ IntMod >= 4 * 268435456   \* MAX_FILE_SIZE + a page is an int
  /\ IntMod % 2 = 0
  /\ WordMod >= IntMod

PageSize == 4096            \* EFI_PAGE_SIZE
ElfHeaderSize == 64         \* sizeof(Elf64_ElfHeader)
ProgHeaderSize == 56        \* sizeof(Elf64_ProgHeader)
SectionHeaderSize == 64     \* sizeof(Elf64_SectionHeader)

ProgHeader == [load : BOOLEAN, offset : Nat, filesz : Nat, memsz : Nat]
SectionHeader == [nobits : BOOLEAN, alloc : BOOLEAN, offset : Nat, size : Nat]

Image == [size : Nat, magic : BOOLEAN, kind : BOOLEAN,
          phEntry : Nat, phOff : Nat, ph : Seq(ProgHeader),
          shEntry : Nat, shOff : Nat, sh : Seq(SectionHeader)]

(* uint64_t addition of two in-range values. *)
Add64(a, b) == IF a + b < WordMod THEN a + b ELSE a + b - WordMod

(* static_cast<int>: the low half of the word, as a signed number. *)
ToInt(n) == LET low == n % IntMod
            IN  IF low < IntMod \div 2 THEN low ELSE low - IntMod

(* Mutant of PagesFor: without the rounding up. *)
PagesForRoundedDown(bufferSize) == bufferSize \div PageSize

(* The pages the allocation callbacks ask for: int arithmetic, a division  *)
(* that truncates towards zero, then a conversion to UINTN.                *)
PagesFor(bufferSize) ==
  LET sum == bufferSize + PageSize - 1
  IN  IF sum >= 0 THEN sum \div PageSize
      ELSE IF (-sum) \div PageSize = 0 THEN 0
      ELSE WordMod - ((-sum) \div PageSize)

checkElf(img) == CASE ~img.magic -> "ElfHeaderCorrupted"
                   [] img.magic /\ ~img.kind -> "ElfTypeNotSupported"
                   [] OTHER -> "NoError"

(* Mutant of Table: the last header is forgotten. *)
TableShort(error, num) ==
  [error |-> error, num |-> IF num = 0 THEN 0 ELSE num - 1, null |-> error # "NoError"]

(* The result of getProgramHeaders and getSectionHeaders: the error, the   *)
(* number stored through the out parameter (the callers start it at 0),    *)
(* and whether the returned pointer is null.                               *)
ElfErrors == {"NoError", "ElfHeaderCorrupted", "ElfTypeNotSupported", "ElfSizeExceeded",
              "ElfGenericError"}
Tables == [error : ElfErrors, num : Nat, null : BOOLEAN]
Table(error, num) == [error |-> error, num |-> num, null |-> error # "NoError"]

(* Mutant of HeaderTable: the table is looked for in the whole file, and    *)
(* not in the bytes of it that were read.                                   *)
HeaderTableWhole(img, fileSize, entry, off, num, entrySize) ==
  IF checkElf(img) # "NoError" THEN Table(checkElf(img), 0)
  ELSE IF entry # entrySize THEN Table("ElfGenericError", 0)
  ELSE IF Add64(off, num * entrySize) >= img.size THEN Table("ElfSizeExceeded", num)
  ELSE Table("NoError", num)

HeaderTable(img, fileSize, entry, off, num, entrySize) ==
  IF checkElf(img) # "NoError" THEN Table(checkElf(img), 0)
  ELSE IF entry # entrySize THEN Table("ElfGenericError", 0)
  ELSE IF Add64(off, num * entrySize) >= fileSize THEN Table("ElfSizeExceeded", num)
  ELSE Table("NoError", num)

getProgramHeaders(img, fileSize) ==
  HeaderTable(img, fileSize, img.phEntry, img.phOff, Len(img.ph), ProgHeaderSize)

getSectionHeaders(img, fileSize) ==
  HeaderTable(img, fileSize, img.shEntry, img.shOff, Len(img.sh), SectionHeaderSize)

(* The bounds test of loadExecutableProgram, made after the callback has   *)
(* already allocated the destination.                                      *)
SegmentInBounds(h, fileSize) ==
  /\ h.offset < fileSize
  /\ Add64(h.offset, h.filesz) < fileSize
  /\ Add64(h.offset, h.memsz) < fileSize

(* loadNoBitsSection: which sections it looks at, and its bounds test,     *)
(* made before the callback is called.                                     *)
NoBitsLoadable(s) == s.nobits /\ s.size # 0 /\ s.alloc

NoBitsInBounds(s, fileSize) ==
  /\ s.offset < fileSize
  /\ Add64(s.offset, s.size) < fileSize

-----------------------------------------------------------------------------
(* What a linker writes: the arithmetic of the checks does not wrap, and    *)
(* a segment has at least as many bytes in memory as in the file.  The      *)
(* kernel is linked at 0xffffffff80000000 (kernel/src/arch/x86_64/          *)
(* linker.ld:6), so nothing in it is longer than 2 GiB less a page.         *)
LinkerSegment(h) ==
  /\ h.filesz <= h.memsz
  /\ h.memsz + PageSize <= IntMod \div 2
  /\ h.offset + h.memsz < WordMod

LinkerSection(s) ==
  /\ s.size + PageSize <= IntMod \div 2
  /\ s.offset + s.size < WordMod

LinkerImage(img) ==
  /\ \A i \in DOMAIN img.ph : LinkerSegment(img.ph[i])
  /\ \A i \in DOMAIN img.sh : LinkerSection(img.sh[i])
  /\ img.phOff + Len(img.ph) * ProgHeaderSize < WordMod
  /\ img.shOff + Len(img.sh) * SectionHeaderSize < WordMod
  /\ img.size < WordMod
=============================================================================
