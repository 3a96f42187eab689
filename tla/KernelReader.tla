------------------------------ MODULE KernelReader ------------------------------
(***************************************************************************)
(* KernelReader::readKernel (bootloader/src/loader/kernel_reader.cpp) with  *)
(* getVolume and readFile inlined: find the boot volume, open               *)
(* \boot\kernel.elf, read the whole file, and copy its loadable segments    *)
(* and NOBITS sections into freshly allocated pages.                        *)
(*                                                                          *)
(* One action per call into the UEFI firmware; the firmware's answer is the *)
(* nondeterministic choice in it.  What the code does through a pointer     *)
(* that points at nothing is recorded in `wild`; the firmware failures that *)
(* happened are recorded in `faults`.  Both are history variables.          *)
(***************************************************************************)
EXTENDS ElfLoader

CONSTANTS
  Images,           \* the files that may be on the volume
  InfoSizes,        \* buffer sizes GetInfo may ask for
  ShortReads,       \* byte counts a Read may deliver short of the whole file
  LowProgHeaders,   \* what physical page 0 may hold, read as a program header
  LowSectionHeaders \* ... and read as a section header

ASSUME ImagesAssumption ==
  Images \subseteq Image /\ \A img \in Images : LinkerImage(img)

ASSUME EnvironmentAssumption ==
  /\ InfoSizes \subseteq Nat /\ ShortReads \subseteq Nat
  /\ LowProgHeaders \subseteq ProgHeader
  /\ LowSectionHeaders \subseteq SectionHeader

NumRetries == 5
DefaultBufferSize == 256
MaxFileSize == 268435456    \* 256 MiB

VARIABLES
  pc,          \* the next firmware call
  error,       \* *error, the caller's KernelLoadError
  opened,      \* file handles that are open
  pools,       \* live pool buffers, as [id, size]
  infoBuffer,  \* readFile's pointer: 0 uninitialised, else a buffer's id
  bufferSize,  \* the size passed to GetInfo and AllocatePool
  retries,
  image,       \* the file on the volume; never changes
  fileSize,    \* FileInfo.FileSize, then the bytes Read delivered
  fileBuffer,  \* "unset", "live", or "wild" when its allocation failed
  view,        \* the image the ELF loader sees in the file buffer
  table,       \* the header table being walked
  index,       \* the loop counter of the walk
  allocs,      \* page allocations granted, in order, as [use, pages]
  loaded,      \* segments and sections written, in order
  faults, wild

poolVars == <<pools, infoBuffer, bufferSize, retries>>
fileVars == <<image, fileSize, fileBuffer, view>>
loadVars == <<table, index, allocs, loaded>>
vars == <<pc, error, opened, poolVars, fileVars, loadVars, faults, wild>>

-----------------------------------------------------------------------------
OpenFailures == {"NO_MEDIA", "MEDIA_CHANGED", "NOT_FOUND", "VOLUME_CORRUPTED",
                 "WRITE_PROTECTED", "ACCESS_DENIED", "DEVICE_ERROR"}
FileFailures == {"NO_MEDIA", "VOLUME_CORRUPTED", "DEVICE_ERROR"}

(* The switch after Open. *)
OpenError(status) ==
  CASE status \in {"NO_MEDIA", "MEDIA_CHANGED", "NOT_FOUND"} -> "KernelNotFound"
    [] status = "VOLUME_CORRUPTED" -> "VolumeCorrupted"
    [] status \in {"WRITE_PROTECTED", "ACCESS_DENIED"} -> "AccessDenied"
    [] OTHER -> "UnknownError"

(* The switches after GetInfo and Read. *)
FileError(status) ==
  CASE status = "VOLUME_CORRUPTED" -> "VolumeCorrupted"
    [] status = "NO_MEDIA" -> "KernelNotFound"
    [] OTHER -> "UnknownError"

InfoLive == \E b \in pools : b.id = infoBuffer

(* FreePool(infoBuffer): the buffers left, and the misuse it amounts to. *)
Freed == {b \in pools : b.id # infoBuffer}
BadFree == IF InfoLive THEN {}
           ELSE IF infoBuffer = 0 THEN {"freeUninit"} ELSE {"freeStale"}

(* AllocatePool(bufferSize): on failure the pointer keeps its old value. *)
AllocatePool(others, id, size, ok) ==
  /\ pools' = IF ok THEN others \cup {[id |-> id, size |-> size]} ELSE others
  /\ infoBuffer' = IF ok THEN id ELSE infoBuffer
  /\ faults' = IF ok THEN faults ELSE faults \cup {"pool"}

(* AllocatePages never grants more than the address space holds. *)
Grants(pages) == {ok \in BOOLEAN : ok => pages <= WordMod \div PageSize}

Init ==
  /\ pc = "getVolume" /\ error = "UnknownError" /\ opened = {}
  /\ pools = {} /\ infoBuffer = 0 /\ bufferSize = DefaultBufferSize /\ retries = 0
  /\ image \in Images /\ view = image
  /\ fileSize = 0 /\ fileBuffer = "unset"
  /\ table = Table("NoError", 0) /\ index = 0
  /\ allocs = <<>> /\ loaded = <<>> /\ faults = {} /\ wild = {}

(* Two HandleProtocol calls and OpenVolume; any of them may fail. *)
GetVolume ==
  /\ pc = "getVolume"
  /\ \/ pc' = "open" /\ opened' = {"volume"}
     \/ pc' = "failed" /\ UNCHANGED opened
  /\ UNCHANGED <<error, poolVars, fileVars, loadVars, faults, wild>>

OpenKernel ==
  /\ pc = "open"
  /\ \/ pc' = "allocInfo" /\ opened' = opened \cup {"kernel"} /\ UNCHANGED error
     \/ \E status \in OpenFailures :
          pc' = "failed" /\ error' = OpenError(status) /\ UNCHANGED opened
  /\ UNCHANGED <<poolVars, fileVars, loadVars, faults, wild>>

(* readFile up to its loop.  A failed AllocatePool still frees the pointer. *)
AllocInfo ==
  /\ pc = "allocInfo"
  /\ error' = "UnknownError"
  /\ \E ok \in BOOLEAN :
       /\ AllocatePool(pools, 1, bufferSize, ok)
       /\ pc' = IF ok THEN "getInfo" ELSE "failed"
       /\ wild' = IF ok THEN wild ELSE wild \cup BadFree
  /\ UNCHANGED <<opened, bufferSize, retries, fileVars, loadVars>>

GetInfoWild == IF InfoLive THEN {} ELSE {"getInfo"}

(* GetInfo succeeded: FileSize is read from the buffer, whatever it is.     *)
GetInfoOk ==
  /\ pc = "getInfo" /\ retries < NumRetries
  /\ fileSize' \in IF InfoLive THEN {image.size} ELSE {img.size : img \in Images}
  /\ wild' = wild \cup GetInfoWild
  /\ pc' = "checkSize"
  /\ UNCHANGED <<error, opened, poolVars, image, fileBuffer, view, loadVars, faults>>

GetInfoFails ==
  /\ pc = "getInfo" /\ retries < NumRetries
  /\ \E status \in FileFailures : error' = FileError(status)
  /\ pools' = Freed
  /\ wild' = wild \cup GetInfoWild \cup BadFree
  /\ pc' = "failed"
  /\ UNCHANGED <<opened, infoBuffer, bufferSize, retries, fileVars, loadVars, faults>>

(* Mutant of GetInfoTooSmall: the retry is not counted. *)
GetInfoTooSmallUncounted ==
  /\ pc = "getInfo" /\ retries < NumRetries
  /\ bufferSize' \in InfoSizes
  /\ \E ok \in BOOLEAN : AllocatePool(Freed, retries + 2, bufferSize', ok)
  /\ wild' = wild \cup GetInfoWild \cup BadFree
  /\ UNCHANGED <<pc, error, opened, retries, fileVars, loadVars>>

(* Mutant of GetInfoTooSmall: one round too many. *)
GetInfoTooSmallOneMore ==
  /\ pc = "getInfo" /\ retries <= NumRetries
  /\ bufferSize' \in InfoSizes
  /\ retries' = retries + 1
  /\ \E ok \in BOOLEAN : AllocatePool(Freed, retries + 2, bufferSize', ok)
  /\ wild' = wild \cup GetInfoWild \cup BadFree
  /\ UNCHANGED <<pc, error, opened, fileVars, loadVars>>

(* Mutant of GetInfoTooSmall: the buffer is not allocated anew. *)
GetInfoTooSmallFreesOnly ==
  /\ pc = "getInfo" /\ retries < NumRetries
  /\ bufferSize' \in InfoSizes
  /\ retries' = retries + 1
  /\ pools' = Freed
  /\ wild' = wild \cup GetInfoWild \cup BadFree
  /\ UNCHANGED <<pc, error, opened, infoBuffer, fileVars, loadVars, faults>>

(* Mutant of GetInfoTooSmall: the new buffer has the old size. *)
GetInfoTooSmallOldSize ==
  /\ pc = "getInfo" /\ retries < NumRetries
  /\ bufferSize' \in InfoSizes
  /\ retries' = retries + 1
  /\ \E ok \in BOOLEAN : AllocatePool(Freed, retries + 2, bufferSize, ok)
  /\ wild' = wild \cup GetInfoWild \cup BadFree
  /\ UNCHANGED <<pc, error, opened, fileVars, loadVars>>

(* BUFFER_TOO_SMALL: free the buffer and allocate the size GetInfo asked   *)
(* for; the status of that allocation is not looked at.                    *)
GetInfoTooSmall ==
  /\ pc = "getInfo" /\ retries < NumRetries
  /\ bufferSize' \in InfoSizes
  /\ retries' = retries + 1
  /\ \E ok \in BOOLEAN : AllocatePool(Freed, retries + 2, bufferSize', ok)
  /\ wild' = wild \cup GetInfoWild \cup BadFree
  /\ UNCHANGED <<pc, error, opened, fileVars, loadVars>>

(* Mutant of GiveUpInfo: returns without freeing the last buffer. *)
GiveUpInfoLeaks ==
  /\ pc = "getInfo" /\ retries >= NumRetries
  /\ pc' = "failed"
  /\ UNCHANGED <<error, opened, poolVars, fileVars, loadVars, faults, wild>>

(* The retries are used up. *)
GiveUpInfo ==
  /\ pc = "getInfo" /\ retries >= NumRetries
  /\ pools' = Freed
  /\ wild' = wild \cup BadFree
  /\ pc' = "failed"
  /\ UNCHANGED <<error, opened, infoBuffer, bufferSize, retries, fileVars, loadVars, faults>>

(* The file size is refused when it is 0 or above the limit; either way     *)
(* the info buffer is freed.                                                *)
CheckSize ==
  /\ pc = "checkSize"
  /\ pools' = Freed
  /\ wild' = wild \cup BadFree
  /\ pc' = IF fileSize = 0 \/ fileSize > MaxFileSize THEN "failed" ELSE "allocFile"
  /\ UNCHANGED <<error, opened, infoBuffer, bufferSize, retries, fileVars, loadVars, faults>>

(* Mutant of neededPages: the rounding is off by one. *)
neededPagesShort(size) == (size + (PageSize - 2)) \div PageSize

neededPages(size) == (size + (PageSize - 1)) \div PageSize

(* AllocatePages for the file; its status is not looked at either.          *)
AllocFile ==
  /\ pc = "allocFile"
  /\ \/ /\ fileBuffer' = "live"
        /\ allocs' = Append(allocs, [use |-> "file", pages |-> neededPages(fileSize)])
        /\ UNCHANGED faults
     \/ /\ fileBuffer' = "wild"
        /\ faults' = faults \cup {"pages"}
        /\ UNCHANGED allocs
  /\ pc' = "read"
  /\ UNCHANGED <<error, opened, poolVars, image, fileSize, view, table, index, loaded, wild>>

ReadWild == IF fileBuffer = "live" THEN {} ELSE {"read"}

(* Read delivered `got` bytes.  None at all is treated as a failure by      *)
(* readKernel, since BufferSize is then 0.  The loader then reads the ELF   *)
(* header, which is the file's only if a live buffer holds all of it.       *)
ReadOk ==
  /\ pc = "read"
  /\ \E got \in ShortReads \cup {fileSize} :
       /\ got <= fileSize
       /\ fileSize' = got
       /\ LET whole == fileBuffer = "live" /\ got >= ElfHeaderSize
          IN  /\ view' \in IF whole THEN {image} ELSE Images
              /\ wild' = wild \cup ReadWild \cup
                           (IF whole \/ got = 0 THEN {} ELSE {"readHeader"})
       /\ faults' = IF got < fileSize THEN faults \cup {"short"} ELSE faults
       /\ pc' = IF got = 0 THEN "failed" ELSE "progHeaders"
  /\ UNCHANGED <<error, opened, poolVars, image, fileBuffer, loadVars>>

(* Read failed: infoBuffer is freed once more.                              *)
ReadFails ==
  /\ pc = "read"
  /\ \E status \in FileFailures : error' = FileError(status)
  /\ pools' = Freed
  /\ wild' = wild \cup ReadWild \cup BadFree
  /\ faults' = faults \cup {"read"}
  /\ pc' = "failed"
  /\ UNCHANGED <<opened, infoBuffer, bufferSize, retries, fileVars, loadVars>>

-----------------------------------------------------------------------------
(* checkElf and getProgramHeaders: an error is logged at most; only the     *)
(* number of headers decides what happens next.                             *)
GetProgramHeaders ==
  /\ pc = "progHeaders"
  /\ table' = getProgramHeaders(view, fileSize)
  /\ index' = 0
  /\ pc' = "loadSegment"
  /\ UNCHANGED <<error, opened, poolVars, fileVars, allocs, loaded, faults, wild>>

(* Header i of the table: through a null pointer it is whatever page 0      *)
(* holds.                                                                   *)
HeadersAt(headers, low) == IF table.null THEN low ELSE {headers[index + 1]}
HeaderWild == IF table.null THEN {"nullHeader"} ELSE {}

(* Mutant of Skip: the callback is called before the type is looked at. *)
SkipAllocates ==
  /\ index' = index + 1
  /\ allocs' = Append(allocs, [use |-> "segment", pages |-> 1])
  /\ UNCHANGED <<pc, loaded>>

(* One iteration that has nothing to load. *)
Skip ==
  /\ index' = index + 1
  /\ UNCHANGED <<pc, allocs, loaded>>

(* One iteration whose callback was asked for the given bytes. *)
Load(use, bytes, offset, filesz, inBounds) ==
  LET pages == PagesFor(ToInt(bytes))
  IN  \E ok \in Grants(pages) :
        /\ allocs' = IF ok THEN Append(allocs, [use |-> use, pages |-> pages]) ELSE allocs
        /\ loaded' = IF ok /\ inBounds
                       THEN Append(loaded, [use |-> use, index |-> index, low |-> table.null,
                                            offset |-> offset, filesz |-> filesz,
                                            memsz |-> bytes, pages |-> pages])
                       ELSE loaded
        /\ index' = IF ok /\ inBounds THEN index + 1 ELSE index
        /\ pc' = IF ok /\ inBounds THEN pc ELSE "failed"

(* loadExecutableProgram with its callback: the pages are allocated before  *)
(* the bounds are tested.                                                   *)
LoadSegment ==
  /\ pc = "loadSegment" /\ index < table.num
  /\ \E h \in HeadersAt(view.ph, LowProgHeaders) :
       IF h.load
         THEN Load("segment", h.memsz, h.offset, h.filesz, SegmentInBounds(h, fileSize))
         ELSE Skip
  /\ wild' = wild \cup HeaderWild
  /\ UNCHANGED <<error, opened, poolVars, fileVars, table, faults>>

GetSectionHeaders ==
  /\ pc = "loadSegment" /\ index >= table.num
  /\ table' = getSectionHeaders(view, fileSize)
  /\ index' = 0
  /\ pc' = "loadNoBits"
  /\ UNCHANGED <<error, opened, poolVars, fileVars, allocs, loaded, faults, wild>>

(* loadNoBitsSection with its callback: bounds first, then the pages.       *)
LoadNoBits ==
  /\ pc = "loadNoBits" /\ index < table.num
  /\ \E s \in HeadersAt(view.sh, LowSectionHeaders) :
       \/ ~NoBitsLoadable(s) /\ Skip
       \/ /\ NoBitsLoadable(s) /\ ~NoBitsInBounds(s, fileSize)
          /\ pc' = "failed"
          /\ UNCHANGED <<index, allocs, loaded>>
       \/ /\ NoBitsLoadable(s) /\ NoBitsInBounds(s, fileSize)
          /\ Load("nobits", s.size, s.offset, 0, NoBitsInBounds(s, fileSize))
  /\ wild' = wild \cup HeaderWild
  /\ UNCHANGED <<error, opened, poolVars, fileVars, table, faults>>

(* Page 0 may also be unmapped: the first read through null then faults.    *)
NullFault ==
  /\ pc \in {"loadSegment", "loadNoBits"} /\ index < table.num /\ table.null
  /\ pc' = "faulted"
  /\ wild' = wild \cup HeaderWild
  /\ UNCHANGED <<error, opened, poolVars, fileVars, loadVars, faults>>

CloseKernel ==
  /\ pc = "loadNoBits" /\ index >= table.num
  /\ opened' = opened \ {"kernel"}
  /\ pc' = "done"
  /\ UNCHANGED <<error, poolVars, fileVars, loadVars, faults, wild>>

Stopped == {"failed", "done", "faulted"}
Returned == pc \in Stopped /\ UNCHANGED vars

ReadFile == \/ AllocInfo \/ GetInfoOk \/ GetInfoFails \/ GetInfoTooSmall \/ GiveUpInfo
            \/ CheckSize \/ AllocFile \/ ReadOk \/ ReadFails
LoadKernel == \/ GetProgramHeaders \/ LoadSegment \/ GetSectionHeaders
              \/ LoadNoBits \/ NullFault \/ CloseKernel
Next == GetVolume \/ OpenKernel \/ ReadFile \/ LoadKernel \/ Returned

(* The bootloader is the only thread: it executes its next instruction.     *)
Spec == Init /\ [][Next]_vars /\ WF_vars(Next)
-----------------------------------------------------------------------------
ErrorCodes == {"KernelNotFound", "VolumeCorrupted", "AccessDenied", "UnknownError"}
Labels == {"getVolume", "open", "allocInfo", "getInfo", "checkSize", "allocFile", "read",
           "progHeaders", "loadSegment", "loadNoBits"} \cup Stopped
Uses == {"segment", "nobits"}
Allocs == [use : Uses \cup {"file"}, pages : Nat]
Loads == [use : Uses, index : Nat, low : BOOLEAN, offset : Nat, filesz : Nat,
          memsz : Nat, pages : Nat]

(* Every variable has the type of the C++ object it stands for. *)
TypeOK ==
  /\ pc \in Labels /\ error \in ErrorCodes /\ opened \subseteq {"volume", "kernel"}
  /\ pools \subseteq [id : 1 .. NumRetries + 1, size : Nat]
  /\ infoBuffer \in 0 .. NumRetries + 1 /\ bufferSize \in Nat /\ retries \in 0 .. NumRetries
  /\ image \in Images /\ view \in Images
  /\ fileSize \in Nat /\ fileBuffer \in {"unset", "live", "wild"}
  /\ table \in Tables /\ index \in Nat
  /\ allocs \in Seq(Allocs) /\ loaded \in Seq(Loads)
  /\ faults \subseteq {"pool", "pages", "read", "short"}
  /\ wild \subseteq {"freeUninit", "freeStale", "getInfo", "read", "readHeader", "nullHeader"}

(* readFile frees every pool buffer it allocates on every path out of it,  *)
(* across the free-and-reallocate rounds of its GetInfo loop: a buffer is  *)
(* live only while GetInfo is being asked or its answer is being looked at. *)
NoPoolLeak ==
  /\ \A a, b \in pools : a = b
  /\ pc \notin {"getInfo", "checkSize"} => pools = {}

(* Whatever sizes GetInfo asked for in earlier rounds, the buffer it is     *)
(* given now is live and of exactly the size it is told, unless an          *)
(* AllocatePool failed.                                                     *)
InfoBufferFits ==
  pc = "getInfo" /\ "pool" \notin faults =>
    [id |-> infoBuffer, size |-> bufferSize] \in pools

(* readKernel goes through an invalid pointer only in the wake of a failed  *)
(* firmware call, or when getSectionHeaders or getProgramHeaders returned   *)
(* null; never on a path on which everything succeeded.                     *)
WildOnlyAfterFault ==
  /\ wild \cap {"freeUninit", "getInfo"} # {} => "pool" \in faults
  /\ "freeStale" \in wild => faults \cap {"pool", "read"} # {}
  /\ "read" \in wild => "pages" \in faults
  /\ "readHeader" \in wild => faults \cap {"pages", "short"} # {} \/ fileSize < ElfHeaderSize
  /\ "nullHeader" \in wild => table.null \/ getProgramHeaders(view, fileSize).null

(* Read is asked for no more bytes than the pages readFile allocated hold,  *)
(* and for no more than the limit, whatever the file's size.                *)
ReadFitsBuffer ==
  pc = "read" =>
    /\ fileSize \in 1 .. MaxFileSize
    /\ fileBuffer = "live" => fileSize <= PageSize * allocs[1].pages

(* What a copied segment or section occupies lies inside its own pages,     *)
(* and the bytes copied lie inside what Read delivered, in spite of the int *)
(* the size went through.                                                   *)
LoadedFits ==
  \A k \in DOMAIN loaded : ~loaded[k].low =>
    /\ loaded[k].filesz <= loaded[k].memsz
    /\ loaded[k].memsz <= PageSize * loaded[k].pages
    /\ loaded[k].offset + loaded[k].filesz < fileSize

(* A header that is looked at lies wholly within the bytes Read delivered,  *)
(* also when those are fewer than the file has and the table's offset and   *)
(* length come from a header that was read from somewhere else.             *)
HeadersInFile ==
  index < table.num /\ ~table.null =>
    /\ pc = "loadSegment" => view.phOff + (index + 1) * ProgHeaderSize < fileSize
    /\ pc = "loadNoBits" => view.shOff + (index + 1) * SectionHeaderSize < fileSize

(* Until the load fails, every page allocation is the file buffer or backs  *)
(* exactly one copied segment or section, in order; a failed load leaves at *)
(* most one allocation that nothing was copied to.                          *)
AllocationsAccounted ==
  LET held == IF fileBuffer = "live" THEN 1 ELSE 0
  IN  /\ Len(allocs) >= held + Len(loaded)
      /\ Len(allocs) <= held + Len(loaded) + (IF pc = "failed" THEN 1 ELSE 0)
      /\ \A k \in DOMAIN loaded :
           allocs[held + k] = [use |-> loaded[k].use, pages |-> loaded[k].pages]

LoadedFromFile(use) == {k \in DOMAIN loaded : loaded[k].use = use /\ ~loaded[k].low}

(* When the walk over the program headers is over, every PT_LOAD header of  *)
(* a readable table has been copied, once and in file order; when the call  *)
(* completes the same holds of the NOBITS sections.                         *)
LoadIsComplete ==
  /\ pc \in {"loadNoBits", "done"} =>
       {loaded[k].index : k \in LoadedFromFile("segment")} =
         IF getProgramHeaders(view, fileSize).null THEN {}
         ELSE {i - 1 : i \in {j \in DOMAIN view.ph : view.ph[j].load}}
  /\ pc = "done" =>
       {loaded[k].index : k \in LoadedFromFile("nobits")} =
         IF getSectionHeaders(view, fileSize).null THEN {}
         ELSE {i - 1 : i \in {j \in DOMAIN view.sh : NoBitsLoadable(view.sh[j])}}
  /\ \A use \in Uses : \A j, k \in LoadedFromFile(use) :
       j < k => loaded[j].index < loaded[k].index

(* readKernel returns, or faults: the GetInfo loop is bounded however often *)
(* the firmware asks for another buffer (the code's own retry limit), and   *)
(* the header walks end.                                                    *)
Terminates == <>(pc \in Stopped)

-----------------------------------------------------------------------------
(* The file buffer and one allocation for each header of the longest tables.*)
PageNeeds == {1 + Len(img.ph) + Len(img.sh) : img \in Images}
PageAllocLimit == CHOOSE n \in PageNeeds : \A m \in PageNeeds : m <= n

(* The counts of headers are 16-bit fields: some file needs the most pages. *)
ASSUME LargestAssumption == \E n \in PageNeeds : \A m \in PageNeeds : m <= n

(* An upper bound on the firmware calls and header iterations still to      *)
(* come.  The sizes of the tables are known when the file has been read.    *)
StepsLeft ==
  CASE pc = "getVolume" -> PageAllocLimit + NumRetries + 9
    [] pc = "open" -> PageAllocLimit + NumRetries + 8
    [] pc = "allocInfo" -> PageAllocLimit + NumRetries + 7
    [] pc = "getInfo" -> PageAllocLimit + (NumRetries - retries) + 6
    [] pc = "checkSize" -> PageAllocLimit + 5
    [] pc = "allocFile" -> PageAllocLimit + 4
    [] pc = "read" -> PageAllocLimit + 3
    [] pc = "progHeaders" -> Len(view.ph) + Len(view.sh) + 3
    [] pc = "loadSegment" -> (table.num - index) + Len(view.sh) + 2
    [] pc = "loadNoBits" -> (table.num - index) + 1
    [] OTHER -> 0

(* Every step of readKernel uses up one of the steps it has left: no answer *)
(* of the firmware sends it back, neither a GetInfo that asks for a larger  *)
(* buffer again and again nor a file that turns out shorter than its size.  *)
(* A call takes at most as many steps as the bound it starts with.          *)
Advances == [][StepsLeft' \in 0 .. StepsLeft - 1]_vars

Contract == INSTANCE LoadContract WITH
              status <- IF pc \in {"failed", "done"} THEN "returned"
                        ELSE IF pc = "faulted" THEN "faulted" ELSE "running",
              pageAllocs <- Len(allocs), poolBuffers <- IF pools = {} THEN 0 ELSE 1,
              MaxPageAllocs <- PageAllocLimit

(* readKernel is what efi_main takes it for: every page and pool buffer it  *)
(* asks for is accounted, and it comes back.                                *)
KeepsContract == Contract!Spec

-----------------------------------------------------------------------------
(* What the repository says of the same code, and the code does not do.     *)

(* kernel_reader.cpp:244 "free the file info buffer, we don't need it       *)
(* anymore": with every AllocatePool granted, no buffer is freed twice.     *)
InfoBufferFreedOnce == "freeStale" \in wild => "pool" \in faults

(* elf_loader.h:79 "nullptr if some error occurred (stored in error)": the  *)
(* headers are read only when there is a table, every firmware call having   *)
(* succeeded.                                                               *)
HeadersReadFromTable == faults = {} => "nullHeader" \notin wild

(* elf_loader.cpp:106 "zero-out eventual mismatch between the size in file  *)
(* vs the size in memory": a segment whose bytes are in the file is loaded, *)
(* and the rest of it zeroed.                                               *)
SegmentInFileAccepted ==
  pc = "loadSegment" /\ ~table.null /\ index < table.num =>
    LET h == view.ph[index + 1]
    IN  h.load /\ h.offset + h.filesz <= fileSize => SegmentInBounds(h, fileSize)
=============================================================================
