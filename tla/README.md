# A TLA+ model of chihuahua-os-core

This directory models the boot loader of ChihuahuaOS and the libraries it is built from: the
boot sequence, the reader and loader of the kernel file, the page tables, the graphics mode, the
memory map, the memory functions and the C strings. TLC checks every model on small instances, and TLAPS
proves the main properties of most of them for all values of their constants. Paths below are relative
to the repository; `PROJECT.json` maps each definition to its lines.

## The system

| component | state | operations |
|---|---|---|
| Boot sequence, `bootloader/src/main.cpp` | which call is in progress | `efi_main`, `panic` |
| Graphics mode, `bootloader/src/gop.cpp` | best mode so far, the display's mode (firmware) | `setAppropriateFramebuffer` |
| Kernel reader, `bootloader/src/loader/` | file handles, pool buffers, allocated pages, retry count | `readKernel`, `getVolume`, `readFile` |
| ELF loader, `static_libs/elf` | none; reads headers and copies | `checkElf`, `getProgramHeaders`, `getSectionHeaders`, `loadExecutableProgram`, `loadNoBitsSection` |
| Memory map, `main.cpp:90-174` | the buffer, the map's size and key (firmware) | `getMemoryMap` |
| Paginator, `static_libs/paginator` | the page tables in physical memory, `pagingDisabledNow`, cr3 | `mapPage`, `identityMapPage`, `translateVirtToPhys`, `activateRootPageTable`; `unmapPage` and `invalidatePage` are empty |
| Memory functions, `static_libs/chihuahua_essentials`, repeated in `c_husky` | the memory they are given | `memcpy`, `memmove`, `memset`, `memcmp` |
| C strings, `static_libs/c_husky` | the strings they are given | `strlen`, `strcpy`, `strcat`, `strncpy`, `strncat` |
| Kernel, `kernel/src` | none | `kernel_main` halts; `__cxa_guard_*` |
| Option, Result, bit macros | none that changes | templates and macros |
| UEFI headers, scripts | – | third-party declarations; build and run |

**Interactions.** `efi_main` calls the graphics mode, the kernel reader and `getMemoryMap`, one
after the other, and looks only at whether the first and the last succeeded. All three share the
firmware: its pool, its pages, and the memory map, whose size and key change with every
allocation. The kernel reader hands the file to the ELF loader, which calls back for the memory
of each segment and section. The paginator calls back for the memory of each table. Nothing calls
the paginator yet: the boot ends in a prompt after the memory map. `strcat`, `strncat` and `strncpy` call
`strlen`, `strcpy` and `memset` of their own library; the boot loader uses the memory functions only.

**What is hard.** One thread runs, so nothing is interleaved but the firmware: every call can
fail, and the work is in the paths that follow. A call that failed half-way must have given back
what it took. Sizes are asked for and used after an allocation may have changed them. A retry
loop frees and reallocates. Sizes go through an `int`, a wrapped addition, a truncating division.
And the page tables share memory in ways their author did not intend. `PROJECT.json` lists each
hazard with its line.

**What makes each part correct.**

* Kernel reader: no buffer is lost, every buffer is as large as the firmware is told, headers are read
  from what was delivered, whatever is loaded lies in its own pages and in the file, the load is complete, and the call ends.
* Paginator: a failed call leaves mappings alone, only force replaces a mapping, tables are
  allocated once; and, as far as tables do not share memory, an address space.
* Graphics mode: the description handed out is that of the display, and of the best mode; no mode is asked for twice.
* Memory map: the buffer holds the map, and the map is still the firmware's when the boot is done.
* Boot: it reaches its prompt, or panics, or faults; at the prompt each of the three calls is over and what
  the graphics mode promised still holds.
* Memory functions: the right bytes, and no others.
* C strings: what ends up in memory, where the string that is left ends, and whether the call returns.

## The modules

| module | models | lines |
|---|---|---|
| `ElfLoader` | the checks and size conversions of the ELF loader, as operators | `elf_loader.cpp` |
| `KernelReader` | `readKernel` with `getVolume` and `readFile` inlined, one action per firmware call or header | `kernel_reader.cpp` |
| `LoadContract` | abstract: what `efi_main` relies on when it calls `readKernel` | `kernel_reader.h`, `main.cpp:69` |
| `AddressSpace` | abstract: the promises of `page_table.h` | `page_table.h` |
| `Paging` | the paginator, one action per level of `mapPage`'s walk | `page_table.cpp`, `x86_64_paging_controller.cpp` |
| `Gop` | `setAppropriateFramebuffer`, one action per firmware call | `gop.cpp` |
| `MemoryMap` | `getMemoryMap`, one action per firmware call | `main.cpp:90-174` |
| `Boot` | `efi_main`: composes `Gop`, `LoadContract` and `MemoryMap` over one firmware | `main.cpp:38-88` |
| `MemOps` | the four memory functions, one action per iteration | `mem_essentials.cpp` |
| `CString` | the string functions, one action per iteration, with the `memset` that `strncpy` calls; extends `MemOps` | `c_husky/src/string` |
| `KernelReaderProofs`, `LoadProofs`, `PagingProofs`, `MemOpsProofs`, `CStringProofs`, `GopProofs`, `BootProofs` | theorems | |
| `MC…` | instances for TLC | |

Operators named `…` + a description of a slip (`neededPagesShort`, `LevelSameFrame`) stand before the
definition they are a variant of and say so ("Mutant of"). They are not part of the model: each is
a plausible slip in the code, and a property is kept only if TLC finds that slip to break it.

### From code to model

**KernelReader.** `pc` names the next firmware call. A pool buffer is its number and size; `pools` is
the set of live ones, `infoBuffer` the pointer (0 while uninitialised). A failed `AllocatePool` keeps
the pointer as it was, and most statuses are not looked at, as in the code. What is then done
through a pointer that points at nothing goes into `wild`, the firmware failures that came before
into `faults`: two history variables that let a property say "only after a failure". A file is a
record of the header fields the loader reads (`Image`). When the buffer does not hold the file, the
loader sees any image. When a header table is null but its count is not, the headers are
whatever physical page 0 holds (`LowProgHeaders`), or the read faults (`NullFault`). `allocs` and
`loaded` record what was allocated and what was copied, in order. The returned value is not
modelled: it is `INVALID_KERNEL_ELF_INFO` on every path. Handles are in `opened`; the code closes
only the kernel's, and only on success.

**Paging.** An entry is the record of the address it was built from and its flags. The code reads an
address back with a mask of the number 40, not of 40 ones, and so gets two bits of it
(`GetAddr`): every page-aligned table reads back as 0. The lower tables the code really works on
are therefore the words of physical page 0, the variable `low`; the frames it allocates and
clears are never reached again, and are not represented. Entries of the second and third level
are stored in the root table, as the code does (`Level`). With paging on, the recursive
address the code computes is not canonical, and the first access faults (`pc = "faulted"`);
page 0 may also be unmapped (`LowFault`).

**Gop.** The firmware's list of modes, the mode in effect, the best so far. A pointer to a mode's
information is an index and whether it is the firmware's own record, which is what `gop.cpp:63` compares.

**MemoryMap.** The firmware's map is a size and a key; `MapChanges` is what an allocation does to it.
`owned` are the pages not given back. A grant may be at address 0, which `AllocateAnyPages` does
not exclude and the code tests only the first time.

**Boot.** Each component's `Next` runs while `stage` names its call, and the firmware's map changes
when the component allocates. `After` is the order of the calls. `readKernel` takes part through
`LoadContract`; the run `kernel_reader` checks that `KernelReader` implements it (`KeepsContract`).

**MemOps.** `mem` is the memory, `d`, `s`, `n` the pointers and the counter, `before` (history) the memory
at the call. memset up to its loop is one step, since nothing observes the memory in between.

**CString.** The variables are those of `MemOps`, whose actions run unchanged. A string function starts at `Scan` (strlen's loop)
or at `CopyChar`; `strncpy` ends by handing its own `dest` and what is left of `num` to memset (`Pad`): its call and
the memory it saw wait in `caller` and `callerBefore` until memset returns (`Resume`). Callers provide the room the
function's name promises in C to need (`Room`), and regions that do not overlap. `strncpy` copies past `num`; the memory behind
`dest` is assumed to go on for as long as it does. `num` wraps below 0, and the memset that follows faults.

## The runs

| run | question | distinct states |
|---|---|---|
| `kernel_reader` | buffers, bounds, accounting, completeness, steps and termination, and the refinement of `LoadContract`, for eleven files and every firmware answer | 715,142 |
| `paging` | failed calls, force and frames, for four addresses that share indices and use the recursive slot, with paging on or off | 1,312,712 |
| `paging_promises` | does `Paging` implement `AddressSpace` for addresses with distinct L1 indices? | 764,604 |
| `gop` | description, choice, calls and return, for every list of one to three modes | 28,524 |
| `boot` | buffer, map, order, the state at the prompt and progress, over the whole boot | 16,684 |
| `c_library` | the results of the memory and the string functions, their writes, their iterations and return | 308,071 |

The other runs each show one line of the repository's comments or headers that the code does not
keep; `findings` in `PROJECT.json` quotes it.

| run | what the repository says | what TLC shows |
|---|---|---|
| `freed_once` | "free the file info buffer, we don't need it anymore" | a failing Read frees it again |
| `null_table` | "nullptr if some error occurred" | headers are read through the null pointer |
| `bss_segment` | "zero-out eventual mismatch between the size in file vs the size in memory" | a segment in the file is refused because of its zeros |
| `paging_translate` | "The physical address corresponding to the given virtual address" | a mapped address translates to 0 |
| `gop_formats` | "we don't support anything other than RGB32 and BGR32" | a display in another format keeps it |
| `boot_map_size` | "so we can allocate the correct size" | the allocation itself enlarges the map |

What the passing runs say is to be read with these: `WildOnlyAfterFault` says *when* the code uses
an invalid pointer, not that it never does, and `KeepsPromises` is restricted to addresses with
distinct L1 indices because the tables of all others share memory.

Other differences between the code and its comments are built into the definitions, which follow
the code, and have no run of their own: `readKernel` never reports success (`error` is never set
to it); a header table or NOBITS section that ends with the file is refused (`HeaderTable`,
`NoBitsInBounds`); an address is taken for canonical without a look at bit 47 (`SignExtended`); the physical
address is shifted by 12 into a field that already starts at bit 12; table entries forbid execution of every page
below them (`TableEntry`); a newly allocated table writes slot 1 of page 0, forced or not
(`Level`); with paging on, `mapPage` faults; `strcpy` and `strcat` copy no terminator
(`StopCopy`), and `strncpy` pads the front of `dest` (`PadDest`) and copies past `num` (`CopyChar`); `activateRootPageTable` always answers false (`Activate`);
`BytesPerRow` is a number of pixels (`Describe`).

### Bounds, and why they suffice

* `KernelReader` uses the real page size, header sizes, file limit, default buffer and retry
  limit. `WordMod = IntMod = 2^30` stand for 2^64 and 2^32: TLC's integers are 32 bits wide, and
  all values in a linker's image are below both. The proofs keep the two as parameters. Eleven files: two complete ones, with the section headers
  inside and at the end; a .bss past the end, as a segment and as a section; program headers at the end; a wrong magic, type,
  entry size; the sizes 0, 40, one more than five pages, the limit and one more. Three short reads: nothing, less than a header, into the last segment.
  `InfoSizes` has a size below and one above the default.
* `Paging`: four entries per table, so that indices of four addresses can be shared at
  every level, four frames, one more than the three a call needs, so that the allocator
  runs out in the middle of a later call; it may also refuse at any time.
* `Gop`: lists of one to three of seven modes: both supported formats and both others, one
  exact, one whose deviations cancel, two that deviate equally. Choosing the best compares two at a time.
* `Boot`: map sizes just below, at and above a page and above two; two page allocations by
  the kernel; `MaxKey` bounds how often the map changes in `readKernel`; `KeyMod` is large enough
  for the key never to come round within one boot (`FirmwareAssumption`).
* `MemOps`: 17 bytes hold a head, two aligned words and a tail of memset at each alignment, and all overlaps of
  two regions; `WordMod = 128` wraps like 2^64 does as long as it is above four times the memory. The three fills are 0, one
that is negative and one above a byte.
* `CString`: the same 17 bytes. Six memories put strings of length 0 to 17 at every address, with one
  to four terminators, so that the tail a missing terminator exposes is empty, short or the rest of the memory; `num` is every number up to 17,
  below, at and above each length.

### Fairness and liveness

The code is single-threaded and runs with nothing else, so a step that can be taken is taken:
`WF(Next)` in `KernelReader` and `Gop`, `WF(StringNext)` in `CString` (and `WF(Next)` in `MemOps`, whose calls `CString` runs), and `WF(Call)` in `Boot`. That the firmware's calls return is assumed, with
any answer. In `Boot` `readKernel` ends by its contract (`LoadReturns`), which `kernel_reader`
checks to follow from its own loop bounds. Nobody is assumed to press a key: `Boots` ends at the
prompt. `Paging` has no fairness and no liveness property, because its callers need not call.

`Terminates` is worth checking because of the GetInfo loop, which ends only by its count of
retries when the firmware keeps asking for another size. `CallsEnd` says that `strncpy` gets out of the memset it waits for, or faults in it.

Beside each of these three stands the reason for it, an action property about a measure: `Advances` (`StepsLeft`), `AsksOnce`
(`CallsLeft`) and `LoopsAdvance` (`IterationsLeft`) say that every step leaves fewer steps than there were, and never less than none.
They need no fairness, and unlike liveness they say how long a call can take.

## The proofs

tlapm checks every leaf. Each theorem is for every value of the constants under the
assumptions stated in the module that declares them.

**KernelReaderProofs.** `IInv` is the type invariant, three strengthenings and the three properties that
then are inductive beside them (`WildOnlyAfterFault`, `LoadedFits`, `AllocationsAccounted`). `PoolInv`: no
buffer is live outside of GetInfo's loop and the check after it; any live one is the one
`infoBuffer` points at, of the size `bufferSize` says, and there is one unless an allocation failed.
`FileInv`: the first allocation has the pages the size needs. `TableInv`: the table being walked is the
one the loader returned for this file and these bytes. `NoPoolLeak` alone is not inductive: that the
buffer freed in a round is *the* live one needs the link to the pointer. Proved: `TypeCorrect`, `NoLeak`, `InfoFits`,
`WildExplained`, `ReadFits`, `HeadersRead`, `CopiesFit`, `PagesAccounted`. `CopiesFit` and `HeadersRead` rest on `ImagesAssumption`:
images are a linker's (`LinkerImage`), whose segments and header tables do not wrap and whose segments are smaller than 2 GiB less a page, as
the link address in `kernel/src/arch/x86_64/linker.ld:6` implies. `HeadersRead` needs `TableInv` because the count of the table, which
was compared with the size of the file, and the counter of the walk meet only through the table it returned.

**PagingProofs.** The core of the argument is `GetAddrZero`: of a page-aligned address the mask
keeps nothing, so every entry in reach reads back as table 0. The invariant therefore says that
all addresses in the tables are page-aligned, that a mapped address has a non-zero entry at its L1
index, and that the root names frames already allocated. Assumed: callers pass page-aligned
addresses and `Present`, frames are fresh, page-aligned and not page 0, the words of page 0 are page-aligned entries.
Proved: `TypeCorrect`, `FailuresKeep`, `FramesNamed`, `NoDoubleMapping`, that `translateVirtToPhys`
answers 0 always (`TranslateFindsNothing`; the test for an existing mapping at the head of `mapPage` is thus dead),
and the refinement `KeepsThePromises`: for addresses with distinct L1 indices, none the recursive
one, and clear low memory, every step is a step of `AddressSpace` or changes nothing it sees.

**MemOpsProofs.** One conjunct per loop (`ForwardInv`, `BackwardInv`, `WordsInv`, and `CalledInv` for memcmp) says what is
done and what is still as it was; `ReturnedInv` are the results. That the wrapped comparison in memmove
is right is proved for every memory smaller than a quarter of the word (`MemoryAssumption`).
Proved: `TypeCorrect`, `SetFills`, `CopyCopies`, `MoveShifts`, `CompareFinds`, `InsideOnly`.
`MoveShifts` states what the code does when `dest` starts inside `src`: the loop from the back runs
over offsets n to 1, so the region lands one byte too far.

**CStringProofs.** That every string has an end rests on the least-element principle for the natural numbers, which the
library's `WFMin` gives for the well-founded order of `NatLessThanWellFounded` (`Least`, `LengthEnds`). `CopyInv` says that the
characters copied so far are in place and counted (`Overlay`, `Left`) and all else is the caller's; since callers keep source and destination apart, what is read
next is untouched (`Apart`, `Intact`). While strncpy waits, `CallerInv` relates the memory memset was given to the one strncpy was, and memset keeps the invariant of
`MemOpsProofs` (`MemoryInv`), whose lemma `BegunIInv` covers any call of a memory function. Assumed: `StringAssumption`
(memories end in a 0, and 0 can be filled in) and the callers of `StringCalls`.
Proved: `StringTypeCorrect`, `StrlenIsLength`, `TailStays`, `AppendEnds`, `PaddingInFront`, `MemoryStillWorks`, the memory
functions' results under `StringSpec`, and `LoopsEnd`, which bounds every call by three times the memory and five. For it `RangeInv` keeps the pointers
of the loop that runs inside of the memory and its counter a natural number, also where `num` has wrapped.

**LoadProofs.** About the end of the load. `CompleteInv`: a walk has copied exactly the headers below its counter that have to
be loaded, none through a null table, and leaves what the walk before copied. With the table's count being the file's
(`TableCount`) this gives `Completeness`: `LoadIsComplete` for every file. `LimitInv` bounds the page allocations at
each point by the headers walked; with `PoolInv` it makes every step one of `LoadContract` (`ContractKept`). The same bound starts the measure of `StepsBounded`: a call takes no
more steps than the largest file needs pages and headers, the five retries and nine. `WalkInv` (the counter is within its table) keeps
the measure from going below 0, and once a file has been read its own, smaller bound takes the place of the largest one. Assumed: one file needs
the most pages (`LargestAssumption`; the counts of headers are 16-bit fields).

**GopProofs.** The invariant is "best of those seen so far": the best mode deviates no more than any supported one already described,
and less than the mode in effect at the start unless it is that mode. `ChoosesBest` itself says nothing before the loop
ends, so it is not inductive. The display is in the old mode until SetMode, and the caller's description is that of the best mode after the loop.
Proved: `TypeCorrect`, `DescriptionTrue`, `BestChosen`, and `CallsBounded` (one call per mode and two more), for every list of modes and preferred resolution.

**BootProofs.** The graphics part is the invariant of `GopProofs`, instantiated. `BufferInv` says before each firmware call of getMemoryMap
what it owns and what size it was told, `StageInv` that its variables rest until its turn and that a valid map has the firmware's key from
the call that filled it on. Nothing after that call changes the map, so no bound on the number of changes is needed
although keys wrap. Proved: `TypeCorrect`, `TargetAlwaysHoldsMap`, `OneBufferAtMost`, `MapStaysCurrent`, `PromptIsComplete`, for all sizes of the
map, lists of modes and page allocations of `readKernel`. `PromptIsComplete` combines all three: `StageInv` also says which calls are over at each stage, and
what the search promised (`DescriptionFollows`, `BestFollows`) is carried to the prompt by the instance of its invariant. Assumed: `FirmwareAssumption`, `ModesAssumption` (lists of modes are not empty) and
`BoundAssumption`.

**Only model-checked.** Liveness (`Terminates`, `GopReturns`, `Boots`, `CallsEnd`), and with it the last conjunct of `KeepsContract`:
the prover does not reason about fairness or about which action is enabled. What is proved of the first, second and fourth is the measure that every step
decreases (`StepsBounded`, `CallsBounded`, `LoopsEnd`), so that only "a step that can be taken is taken, and one can be" is left to TLC. `Boots` has no
measure: `LoadContract` does not count the calls of `readKernel`.

## What is not modelled

* The UEFI headers. 13,700 of the repository's 16,200 lines are vendored declarations of the firmware's interface (GNU-EFI): types, GUIDs and
  prototypes, most of protocols nothing here uses. They have no behaviour; the calls the code makes are modelled where it makes
  them. Almost all of the project's own code outside of them that keeps or changes state is mapped.
* Kernel, Option, Result, scripts: no state that changes, no caller, or not part of the program. `kernel_main` halts, and no static
  needs the `__cxa_guard` functions.
* Text output. On some firmware it allocates; `MapIsCurrent` therefore speaks of the allocations of the boot loader's own calls.
* Contents of files, pages and memory maps, except as far as a check looks at them; of the paginator's cleared frames nothing is read.
* The descriptors' size and version, which `getMemoryMap` passes through.

## Plan

Done: 1 `ElfLoader`, `KernelReader` with its proofs; 2 `AddressSpace`, `Paging` with its proofs and the
refinement; 3 `Gop`, `MemoryMap`, `LoadContract`, `Boot`; 4 `MemOps` with its proofs; 5 `CString`; 6 `GopProofs`
and `BootProofs`; 7 `LoadProofs`: completeness, and the safety half of `KernelReader` ⇒ `LoadContract`; 8 `CStringProofs`;
9 the measures of the loops, the headers' bounds and the state at the prompt.

Every safety property a passing run checks is proved as well. Next: a model of `unmapPage` and of the jump to the
kernel once the code has them.
