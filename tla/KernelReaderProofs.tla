--------------------------- MODULE KernelReaderProofs ---------------------------
(***************************************************************************)
(* Proofs about KernelReader, for every set of files, every buffer size the *)
(* firmware may ask for, every short read and every contents of page 0.     *)
(***************************************************************************)
EXTENDS KernelReader, TLAPS

-----------------------------------------------------------------------------
(* The operators of ElfLoader. *)

(* Both header look-ups return a table: an error, a count and a pointer. *)
LEMMA TableType ==
  ASSUME NEW img \in Image, NEW n \in Nat
  PROVE  getProgramHeaders(img, n) \in Tables /\ getSectionHeaders(img, n) \in Tables
<1>1. checkElf(img) \in ElfErrors
  BY DEF checkElf, ElfErrors
<1>2. ASSUME NEW e \in ElfErrors, NEW m \in Nat PROVE Table(e, m) \in Tables
  BY DEF Table, Tables
<1>3. Len(img.ph) \in Nat /\ Len(img.sh) \in Nat
  BY DEF Image
<1>4. {"ElfGenericError", "ElfSizeExceeded", "NoError"} \subseteq ElfErrors /\ 0 \in Nat
  BY DEF ElfErrors
<1> QED
  BY <1>1, <1>2, <1>3, <1>4 DEF getProgramHeaders, getSectionHeaders, HeaderTable

(* A table that is not null has as many entries as the file has headers. *)
LEMMA TableCount ==
  ASSUME NEW img \in Image, NEW n \in Nat
  PROVE  /\ ~getProgramHeaders(img, n).null => getProgramHeaders(img, n).num = Len(img.ph)
         /\ ~getSectionHeaders(img, n).null => getSectionHeaders(img, n).num = Len(img.sh)
  BY DEF getProgramHeaders, getSectionHeaders, HeaderTable, Table, checkElf

(* The callbacks never compute a negative number of pages, whatever the    *)
(* conversion to int makes of the size.                                     *)
LEMMA PagesForType ==
  ASSUME NEW n \in Nat
  PROVE  PagesFor(ToInt(n)) \in Nat
<1> DEFINE i == ToInt(n)
<1>1. n % IntMod \in 0 .. IntMod - 1
  BY WidthAssumption
<1>2. i \in Int /\ i >= -IntMod
  BY <1>1, WidthAssumption DEF ToInt
<1> HIDE DEF i
<1>3. i + PageSize - 1 >= 0 => (i + PageSize - 1) \div PageSize \in Nat
  BY <1>2 DEF PageSize
<1>4. ASSUME i + PageSize - 1 >= 0 PROVE PagesFor(i) \in Nat
  BY <1>3, <1>4 DEF PagesFor
<1>5. ASSUME ~(i + PageSize - 1 >= 0) PROVE PagesFor(i) \in Nat
  <2> DEFINE m == -(i + PageSize - 1)
  <2>1. m \in Nat /\ m <= IntMod
    BY <1>2, <1>5, WidthAssumption DEF PageSize
  <2> HIDE DEF m
  <2>2. m \div PageSize \in 0 .. WordMod
    BY <2>1, WidthAssumption DEF PageSize
  <2>3. WordMod - (m \div PageSize) \in Nat
    BY <2>2, WidthAssumption
  <2> QED
    BY <1>5, <2>3 DEF PagesFor, m
<1> QED
  BY <1>4, <1>5 DEF i

(* A size below 2 GiB survives the conversion to int, and the pages asked  *)
(* for hold it.                                                             *)
LEMMA PagesForFits ==
  ASSUME NEW n \in Nat, n + PageSize <= IntMod \div 2
  PROVE  n <= PageSize * PagesFor(ToInt(n))
<1>1. n < IntMod \div 2 /\ n < IntMod
  BY WidthAssumption DEF PageSize
<1>2. n % IntMod = n
  BY <1>1, WidthAssumption
<1>3. ToInt(n) = n
  BY <1>1, <1>2 DEF ToInt
<1>4. PagesFor(n) = (n + PageSize - 1) \div PageSize
  BY DEF PagesFor, PageSize
<1> QED
  BY <1>3, <1>4 DEF PageSize

-----------------------------------------------------------------------------
(* The inductive invariant. *)

BeforeOpen == {"getVolume", "open"}
Asking == {"getInfo", "checkSize"}
BeforeRead == BeforeOpen \cup Asking \cup {"allocInfo", "allocFile"}
Before == BeforeRead \cup {"read", "progHeaders"}

(* The one pool buffer readFile may hold is the one it points to, at the   *)
(* size it last asked for.                                                  *)
PoolInv ==
  /\ pc \notin Asking => pools = {}
  /\ pools \subseteq {[id |-> infoBuffer, size |-> bufferSize]}
  /\ pc \in Asking /\ "pool" \notin faults => pools # {}
  /\ pc \in Asking \cup {"allocFile", "read"} => infoBuffer # 0

(* The file buffer and the size of what it is to hold. *)
FileInv ==
  /\ fileBuffer = "unset" => pc \in BeforeRead \cup {"failed"}
  /\ pc \in BeforeRead => fileBuffer = "unset" /\ allocs = <<>>
  /\ pc \in Before => loaded = <<>>
  /\ pc \in {"allocFile", "read"} => fileSize \in 1 .. MaxFileSize
  /\ pc = "read" /\ fileBuffer = "live" =>
       allocs = <<[use |-> "file", pages |-> neededPages(fileSize)]>>
  /\ fileBuffer = "wild" => "pages" \in faults

(* The table being walked is the one the loader returned for this file. *)
TableInv ==
  /\ pc = "loadSegment" => table = getProgramHeaders(view, fileSize)
  /\ pc = "loadNoBits" => table = getSectionHeaders(view, fileSize)
  /\ pc \in Before => "nullHeader" \notin wild
  /\ pc \in BeforeRead \cup {"read"} => "readHeader" \notin wild

IInv == /\ TypeOK /\ PoolInv /\ FileInv /\ TableInv
        /\ WildOnlyAfterFault /\ LoadedFits /\ AllocationsAccounted

(* Where the header under the counter comes from, and what is known of it. *)
LEMMA SegmentHeader ==
  ASSUME TypeOK, TableInv, pc = "loadSegment", index < table.num,
         NEW h \in HeadersAt(view.ph, LowProgHeaders)
  PROVE  h \in ProgHeader /\ (~table.null => LinkerSegment(h))
<1>1. CASE table.null
  BY <1>1, EnvironmentAssumption DEF HeadersAt
<1>2. CASE ~table.null
  <2>1. view \in Image /\ LinkerImage(view) /\ fileSize \in Nat /\ index \in Nat
    BY ImagesAssumption DEF TypeOK
  <2>2. table.num = Len(view.ph)
    BY <1>2, <2>1, TableCount DEF TableInv
  <2>3. index + 1 \in DOMAIN view.ph /\ view.ph \in Seq(ProgHeader)
    BY <2>1, <2>2 DEF Image
  <2> QED
    BY <1>2, <2>1, <2>3 DEF HeadersAt, LinkerImage
<1> QED
  BY <1>1, <1>2, TableType, ImagesAssumption DEF TypeOK, Tables

LEMMA SectionHeaderAt ==
  ASSUME TypeOK, TableInv, pc = "loadNoBits", index < table.num,
         NEW s \in HeadersAt(view.sh, LowSectionHeaders)
  PROVE  s \in SectionHeader /\ (~table.null => LinkerSection(s))
<1>1. CASE table.null
  BY <1>1, EnvironmentAssumption DEF HeadersAt
<1>2. CASE ~table.null
  <2>1. view \in Image /\ LinkerImage(view) /\ fileSize \in Nat /\ index \in Nat
    BY ImagesAssumption DEF TypeOK
  <2>2. table.num = Len(view.sh)
    BY <1>2, <2>1, TableCount DEF TableInv
  <2>3. index + 1 \in DOMAIN view.sh /\ view.sh \in Seq(SectionHeader)
    BY <2>1, <2>2 DEF Image
  <2> QED
    BY <1>2, <2>1, <2>3 DEF HeadersAt, LinkerImage
<1> QED
  BY <1>1, <1>2, TableType, ImagesAssumption DEF TypeOK, Tables

LEMMA InitIInv == Init => IInv
<1> SUFFICES ASSUME Init PROVE IInv
  OBVIOUS
<1> USE DEF Init
<1>1. TypeOK
  <2>1. Table("NoError", 0) \in Tables
    BY DEF Table, Tables, ElfErrors
  <2>2. allocs \in Seq(Allocs) /\ loaded \in Seq(Loads)
    OBVIOUS
  <2> QED
    BY <2>1, <2>2 DEF TypeOK, Labels, ErrorCodes, NumRetries, DefaultBufferSize
<1>2. PoolInv /\ FileInv /\ TableInv
  BY DEF PoolInv, FileInv, TableInv, BeforeOpen, Asking, BeforeRead, Before
<1>3. WildOnlyAfterFault /\ LoadedFits /\ AllocationsAccounted
  BY DEF WildOnlyAfterFault, LoadedFits, AllocationsAccounted
<1> QED
  BY <1>1, <1>2, <1>3 DEF IInv

-----------------------------------------------------------------------------
(* Every step preserves the types. *)

LEMMA LoadType ==
  ASSUME allocs \in Seq(Allocs), loaded \in Seq(Loads),
         index \in Nat, NEW use \in Uses, NEW bytes \in Nat, NEW offset \in Nat,
         NEW filesz \in Nat, NEW inBounds \in BOOLEAN, pc \in Labels,
         table.null \in BOOLEAN, Load(use, bytes, offset, filesz, inBounds)
  PROVE  /\ allocs' \in Seq(Allocs)
         /\ loaded' \in Seq(Loads) /\ index' \in Nat /\ pc' \in Labels
<1> DEFINE pages == PagesFor(ToInt(bytes))
<1>1. pages \in Nat
  BY PagesForType
<1> HIDE DEF pages
<1>2. [use |-> use, pages |-> pages] \in Allocs
  BY <1>1 DEF Allocs
<1> DEFINE l == [use |-> use, index |-> index, low |-> table.null, offset |-> offset,
                 filesz |-> filesz, memsz |-> bytes, pages |-> pages]
<1>3. l \in Loads
  BY <1>1 DEF Loads
<1> HIDE DEF l
<1>4. allocs' = allocs \/ allocs' = Append(allocs, [use |-> use, pages |-> pages])
  BY DEF Load, pages
<1>5. loaded' = loaded \/ loaded' = Append(loaded, l)
  BY DEF Load, pages, l
<1>6. index' \in {index, index + 1} /\ pc' \in {pc, "failed"}
  BY DEF Load
<1>7. allocs' \in Seq(Allocs)
  BY <1>2, <1>4
<1>8. loaded' \in Seq(Loads)
  BY <1>3, <1>5
<1> QED
  BY <1>6, <1>7, <1>8 DEF Labels, Stopped

LEMMA NextTypeOK == TypeOK /\ TableInv /\ [Next]_vars => TypeOK'
<1> SUFFICES ASSUME TypeOK, TableInv, [Next]_vars PROVE TypeOK'
  OBVIOUS
<1> USE DEF TypeOK, Labels, Stopped, vars, poolVars, fileVars, loadVars
<1>1. CASE GetVolume
  BY <1>1 DEF GetVolume
<1>2. CASE OpenKernel
  BY <1>2 DEF OpenKernel, OpenError, ErrorCodes
<1>3. CASE AllocInfo
  BY <1>3 DEF AllocInfo, AllocatePool, BadFree, NumRetries, ErrorCodes
<1>4. CASE GetInfoOk
  <2>1. \A img \in Images : img.size \in Nat
    BY ImagesAssumption DEF Image
  <2> QED
    BY <1>4, <2>1 DEF GetInfoOk, GetInfoWild
<1>5. CASE GetInfoFails
  BY <1>5 DEF GetInfoFails, GetInfoWild, BadFree, Freed, FileError, ErrorCodes
<1>6. CASE GetInfoTooSmall
  BY <1>6, EnvironmentAssumption
     DEF GetInfoTooSmall, AllocatePool, GetInfoWild, BadFree, Freed, NumRetries
<1>7. CASE GiveUpInfo
  BY <1>7 DEF GiveUpInfo, BadFree, Freed
<1>8. CASE CheckSize
  BY <1>8 DEF CheckSize, BadFree, Freed
<1>9. CASE AllocFile
  <2>1. neededPages(fileSize) \in Nat
    BY DEF neededPages, PageSize
  <2>2. [use |-> "file", pages |-> neededPages(fileSize)] \in Allocs
    BY <2>1 DEF Allocs
  <2>3. allocs' \in Seq(Allocs)
    BY <1>9, <2>2 DEF AllocFile
  <2> QED
    BY <1>9, <2>3 DEF AllocFile
<1>10. CASE ReadOk
  BY <1>10, EnvironmentAssumption DEF ReadOk, ReadWild
<1>11. CASE ReadFails
  BY <1>11 DEF ReadFails, ReadWild, BadFree, Freed, FileError, ErrorCodes
<1>12. CASE GetProgramHeaders
  BY <1>12, TableType, ImagesAssumption DEF GetProgramHeaders
<1>13. CASE LoadSegment
  <2>1. PICK h \in HeadersAt(view.ph, LowProgHeaders) :
          IF h.load
            THEN Load("segment", h.memsz, h.offset, h.filesz, SegmentInBounds(h, fileSize))
            ELSE Skip
    BY <1>13 DEF LoadSegment
  <2>2. h \in ProgHeader
    BY <1>13, SegmentHeader DEF LoadSegment
  <2>3. /\ allocs' \in Seq(Allocs)
        /\ loaded' \in Seq(Loads) /\ index' \in Nat /\ pc' \in Labels
    <3>1. CASE h.load
      <4>1. SegmentInBounds(h, fileSize) \in BOOLEAN /\ "segment" \in Uses
        BY DEF SegmentInBounds, Uses
      <4>2. table.null \in BOOLEAN
        BY DEF Tables
      <4>3. h.memsz \in Nat /\ h.offset \in Nat /\ h.filesz \in Nat
        BY <2>2 DEF ProgHeader
      <4> QED
        BY <2>1, <3>1, <4>1, <4>2, <4>3, LoadType
    <3>2. CASE ~h.load
      BY <2>1, <3>2 DEF Skip
    <3> QED
      BY <3>1, <3>2
  <2> QED
    BY <1>13, <2>3 DEF LoadSegment, HeaderWild
<1>14. CASE GetSectionHeaders
  BY <1>14, TableType, ImagesAssumption DEF GetSectionHeaders
<1>15. CASE LoadNoBits
  <2>1. PICK s \in HeadersAt(view.sh, LowSectionHeaders) :
          \/ Skip
          \/ pc' = "failed" /\ UNCHANGED <<index, allocs, loaded>>
          \/ Load("nobits", s.size, s.offset, 0, NoBitsInBounds(s, fileSize))
    BY <1>15 DEF LoadNoBits
  <2>2. s \in SectionHeader
    BY <1>15, SectionHeaderAt DEF LoadNoBits
  <2>3. /\ allocs' \in Seq(Allocs)
        /\ loaded' \in Seq(Loads) /\ index' \in Nat /\ pc' \in Labels
    <3>1. CASE Load("nobits", s.size, s.offset, 0, NoBitsInBounds(s, fileSize))
      <4>1. "nobits" \in Uses /\ table.null \in BOOLEAN /\ NoBitsInBounds(s, fileSize) \in BOOLEAN
        BY DEF Tables, Uses, NoBitsInBounds
      <4>2. s.size \in Nat /\ s.offset \in Nat /\ 0 \in Nat
        BY <2>2 DEF SectionHeader
      <4> QED
        BY <3>1, <4>1, <4>2, LoadType
    <3> QED
      BY <2>1, <3>1 DEF Skip
  <2> QED
    BY <1>15, <2>3 DEF LoadNoBits, HeaderWild
<1>16. CASE NullFault
  BY <1>16 DEF NullFault, HeaderWild
<1>17. CASE CloseKernel
  BY <1>17 DEF CloseKernel
<1>18. CASE UNCHANGED vars
  BY <1>18
<1> QED
  BY <1>1, <1>2, <1>3, <1>4, <1>5, <1>6, <1>7, <1>8, <1>9, <1>10, <1>11, <1>12, <1>13,
     <1>14, <1>15, <1>16, <1>17, <1>18 DEF Next, ReadFile, LoadKernel, Returned

-----------------------------------------------------------------------------
(* Every step preserves the rest of the invariant. *)

(* The limit on the file's size is a number. *)
LEMMA MaxFileSizeType == MaxFileSize \in Nat
  BY SMT DEF MaxFileSize

(* A walk over headers touches only its own variables. *)
LEMMA WalkFrame ==
  ASSUME LoadSegment \/ LoadNoBits
  PROVE  /\ UNCHANGED <<error, opened, poolVars, fileVars, table, faults>>
         /\ pc' \in {pc, "failed"}
         /\ wild' = wild \cup HeaderWild
  BY DEF LoadSegment, LoadNoBits, Load, Skip

LEMMA NextPoolInv == TypeOK /\ PoolInv /\ [Next]_vars => PoolInv'
<1> SUFFICES ASSUME TypeOK, PoolInv, [Next]_vars PROVE PoolInv'
  OBVIOUS
<1> USE DEF PoolInv, Asking, vars, poolVars
<1>1. CASE GetVolume
  BY <1>1 DEF GetVolume
<1>2. CASE OpenKernel
  BY <1>2 DEF OpenKernel
<1>3. CASE AllocInfo
  <2>1. pools = {} /\ bufferSize' = bufferSize
    BY <1>3 DEF AllocInfo
  <2>2. PICK ok \in BOOLEAN : /\ AllocatePool(pools, 1, bufferSize, ok)
                             /\ pc' = IF ok THEN "getInfo" ELSE "failed"
    BY <1>3 DEF AllocInfo
  <2>3. CASE ok
    <3>1. pools' = {[id |-> 1, size |-> bufferSize]} /\ infoBuffer' = 1 /\ pc' = "getInfo"
      BY <2>1, <2>2, <2>3 DEF AllocatePool
    <3> QED
      BY <2>1, <3>1
  <2>4. CASE ~ok
    BY <2>1, <2>2, <2>4 DEF AllocatePool
  <2> QED
    BY <2>3, <2>4
<1>4. CASE GetInfoOk
  BY <1>4 DEF GetInfoOk
<1>5. CASE GetInfoFails
  BY <1>5 DEF GetInfoFails, Freed
<1>6. CASE GetInfoTooSmall
  <2>1. Freed = {}
    BY DEF Freed
  <2>2. retries + 2 # 0
    BY DEF TypeOK
  <2> QED
    BY <1>6, <2>1, <2>2 DEF GetInfoTooSmall, AllocatePool
<1>7. CASE GiveUpInfo
  BY <1>7 DEF GiveUpInfo, Freed
<1>8. CASE CheckSize
  BY <1>8 DEF CheckSize, Freed
<1>9. CASE AllocFile
  BY <1>9 DEF AllocFile
<1>10. CASE ReadOk
  BY <1>10 DEF ReadOk
<1>11. CASE ReadFails
  BY <1>11 DEF ReadFails, Freed
<1>12. CASE LoadSegment \/ LoadNoBits
  <2>1. pc \in {"loadSegment", "loadNoBits"}
    BY <1>12 DEF LoadSegment, LoadNoBits
  <2> QED
    BY <1>12, <2>1, WalkFrame
<1>13. CASE GetProgramHeaders \/ GetSectionHeaders \/ NullFault \/ CloseKernel
  BY <1>13 DEF GetProgramHeaders, GetSectionHeaders, NullFault, CloseKernel
<1>14. CASE UNCHANGED vars
  BY <1>14
<1> QED
  BY <1>1, <1>2, <1>3, <1>4, <1>5, <1>6, <1>7, <1>8, <1>9, <1>10, <1>11, <1>12, <1>13,
     <1>14 DEF Next, ReadFile, LoadKernel, Returned

LEMMA NextFileInv == TypeOK /\ FileInv /\ [Next]_vars => FileInv'
<1> SUFFICES ASSUME TypeOK, FileInv, [Next]_vars PROVE FileInv'
  OBVIOUS
<1> USE DEF FileInv, BeforeOpen, Asking, BeforeRead, Before, vars, fileVars, loadVars
<1>1. CASE GetVolume \/ OpenKernel
  BY <1>1 DEF GetVolume, OpenKernel
<1>2. CASE AllocInfo
  BY <1>2 DEF AllocInfo, AllocatePool
<1>3. CASE GetInfoOk
  BY <1>3 DEF GetInfoOk
<1>4. CASE GetInfoFails
  BY <1>4 DEF GetInfoFails
<1>5. CASE GetInfoTooSmall
  BY <1>5 DEF GetInfoTooSmall, AllocatePool
<1>6. CASE GiveUpInfo
  BY <1>6 DEF GiveUpInfo
<1>7. CASE CheckSize
  <2>1. fileSize \in Nat /\ MaxFileSize \in Nat
    BY MaxFileSizeType DEF TypeOK
  <2>2. /\ pc = "checkSize" /\ pc' \in {"failed", "allocFile"}
        /\ UNCHANGED <<fileSize, fileBuffer, allocs, loaded, faults>>
    BY <1>7 DEF CheckSize
  <2>3. pc' = "allocFile" => fileSize # 0 /\ ~(fileSize > MaxFileSize)
    BY <1>7 DEF CheckSize
  <2>4. pc' = "allocFile" => fileSize \in 1 .. MaxFileSize
    BY <2>1, <2>3
  <2> QED
    BY <2>2, <2>4
<1>8. CASE AllocFile
  <2>1. pc = "allocFile" /\ allocs = <<>>
    BY <1>8 DEF AllocFile
  <2>2. Append(<<>>, [use |-> "file", pages |-> neededPages(fileSize)])
          = <<[use |-> "file", pages |-> neededPages(fileSize)]>>
    OBVIOUS
  <2>3. neededPages(fileSize)' = neededPages(fileSize)
    BY <1>8 DEF AllocFile, neededPages
  <2> QED
    BY <1>8, <2>1, <2>2, <2>3 DEF AllocFile
<1>9. CASE ReadOk
  BY <1>9 DEF ReadOk
<1>10. CASE ReadFails
  BY <1>10 DEF ReadFails
<1>11. CASE LoadSegment \/ LoadNoBits
  <2>1. pc \in {"loadSegment", "loadNoBits"}
    BY <1>11 DEF LoadSegment, LoadNoBits
  <2> QED
    BY <1>11, <2>1, WalkFrame
<1>12. CASE GetProgramHeaders \/ GetSectionHeaders \/ NullFault \/ CloseKernel
  BY <1>12 DEF GetProgramHeaders, GetSectionHeaders, NullFault, CloseKernel
<1>13. CASE UNCHANGED vars
  BY <1>13 DEF neededPages
<1> QED
  BY <1>1, <1>2, <1>3, <1>4, <1>5, <1>6, <1>7, <1>8, <1>9, <1>10, <1>11, <1>12, <1>13
     DEF Next, ReadFile, LoadKernel, Returned

LEMMA NextTableInv == TypeOK /\ TableInv /\ [Next]_vars => TableInv'
<1> SUFFICES ASSUME TypeOK, TableInv, [Next]_vars PROVE TableInv'
  OBVIOUS
<1> USE DEF TableInv, BeforeOpen, Asking, BeforeRead, Before, vars, fileVars, loadVars
<1>1. CASE GetVolume \/ OpenKernel
  BY <1>1 DEF GetVolume, OpenKernel
<1>2. CASE AllocInfo
  BY <1>2 DEF AllocInfo, BadFree
<1>3. CASE GetInfoOk
  BY <1>3 DEF GetInfoOk, GetInfoWild
<1>4. CASE GetInfoFails
  BY <1>4 DEF GetInfoFails, GetInfoWild, BadFree
<1>5. CASE GetInfoTooSmall
  BY <1>5 DEF GetInfoTooSmall, GetInfoWild, BadFree
<1>6. CASE GiveUpInfo \/ CheckSize
  BY <1>6 DEF GiveUpInfo, CheckSize, BadFree
<1>7. CASE AllocFile
  BY <1>7 DEF AllocFile
<1>8. CASE ReadOk
  BY <1>8 DEF ReadOk, ReadWild
<1>9. CASE ReadFails
  BY <1>9 DEF ReadFails
<1>10. CASE LoadSegment \/ LoadNoBits
  <2>1. pc \in {"loadSegment", "loadNoBits"}
    BY <1>10 DEF LoadSegment, LoadNoBits
  <2> QED
    BY <1>10, <2>1, WalkFrame
<1>11. CASE GetProgramHeaders
  BY <1>11 DEF GetProgramHeaders
<1>12. CASE GetSectionHeaders
  BY <1>12 DEF GetSectionHeaders
<1>13. CASE NullFault \/ CloseKernel
  BY <1>13 DEF NullFault, CloseKernel
<1>14. CASE UNCHANGED vars
  BY <1>14
<1> QED
  BY <1>1, <1>2, <1>3, <1>4, <1>5, <1>6, <1>7, <1>8, <1>9, <1>10, <1>11, <1>12, <1>13,
     <1>14 DEF Next, ReadFile, LoadKernel, Returned

(* While GetInfo is being asked, freeing or filling the info buffer is      *)
(* legal unless an allocation failed.                                       *)
LEMMA InfoUse ==
  ASSUME PoolInv, pc \in Asking
  PROVE  /\ "pool" \notin faults => BadFree = {} /\ GetInfoWild = {}
         /\ BadFree \subseteq {"freeStale"}
         /\ GetInfoWild \subseteq {"getInfo"}
<1>1. "pool" \notin faults => InfoLive
  BY DEF PoolInv, InfoLive
<1> QED
  BY <1>1 DEF PoolInv, BadFree, GetInfoWild

LEMMA NextWild ==
  TypeOK /\ PoolInv /\ FileInv /\ TableInv /\ WildOnlyAfterFault /\ [Next]_vars
    => WildOnlyAfterFault'
<1> SUFFICES ASSUME TypeOK, PoolInv, FileInv, TableInv, WildOnlyAfterFault, [Next]_vars
             PROVE  WildOnlyAfterFault'
  OBVIOUS
<1> USE DEF WildOnlyAfterFault, vars, fileVars, loadVars
<1>1. CASE GetVolume \/ OpenKernel
  BY <1>1 DEF GetVolume, OpenKernel
<1>2. CASE AllocInfo
  BY <1>2 DEF AllocInfo, AllocatePool, BadFree
<1>3. CASE GetInfoOk
  <2>1. "readHeader" \notin wild /\ "nullHeader" \notin wild /\ pc \in Asking
    BY <1>3 DEF GetInfoOk, TableInv, Before, BeforeRead, Asking
  <2> QED
    BY <1>3, <2>1, InfoUse DEF GetInfoOk
<1>4. CASE GetInfoFails
  <2>1. pc \in Asking
    BY <1>4 DEF GetInfoFails, Asking
  <2> QED
    BY <1>4, <2>1, InfoUse DEF GetInfoFails
<1>5. CASE GetInfoTooSmall
  <2>1. pc \in Asking
    BY <1>5 DEF GetInfoTooSmall, Asking
  <2> QED
    BY <1>5, <2>1, InfoUse DEF GetInfoTooSmall, AllocatePool
<1>6. CASE GiveUpInfo \/ CheckSize
  <2>1. pc \in Asking
    BY <1>6 DEF GiveUpInfo, CheckSize, Asking
  <2> QED
    BY <1>6, <2>1, InfoUse DEF GiveUpInfo, CheckSize
<1>7. CASE AllocFile
  BY <1>7 DEF AllocFile
<1>8. CASE ReadOk
  <2>1. "readHeader" \notin wild /\ "nullHeader" \notin wild
    BY <1>8 DEF ReadOk, TableInv, Before, BeforeRead, Asking
  <2>2. fileBuffer # "live" => "pages" \in faults
    BY <1>8 DEF ReadOk, FileInv, TypeOK, BeforeRead, BeforeOpen, Asking
  <2>3. faults \subseteq faults'
    BY <1>8 DEF ReadOk
  <2>4. /\ "readHeader" \in wild' => fileBuffer # "live" \/ ~(fileSize' >= ElfHeaderSize)
        /\ "read" \in wild' => "read" \in wild \/ fileBuffer # "live"
        /\ wild' \subseteq wild \cup {"read", "readHeader"}
    BY <1>8, <2>1 DEF ReadOk, ReadWild
  <2>5. fileSize' \in Nat
    BY <1>8, EnvironmentAssumption DEF ReadOk, TypeOK
  <2>6. ~(fileSize' >= ElfHeaderSize) => fileSize' < ElfHeaderSize
    BY <2>5 DEF ElfHeaderSize
  <2> QED
    BY <2>1, <2>2, <2>3, <2>4, <2>6
<1>9. CASE ReadFails
  <2>1. infoBuffer # 0 /\ (fileBuffer # "live" => "pages" \in faults)
    BY <1>9 DEF ReadFails, PoolInv, FileInv, TypeOK, BeforeRead, BeforeOpen, Asking
  <2> QED
    BY <1>9, <2>1 DEF ReadFails, BadFree, ReadWild
<1>10. CASE LoadSegment \/ LoadNoBits
  BY <1>10, WalkFrame DEF HeaderWild
<1>11. CASE GetProgramHeaders
  BY <1>11 DEF GetProgramHeaders, TableInv, Before
<1>12. CASE GetSectionHeaders
  BY <1>12 DEF GetSectionHeaders, TableInv
<1>13. CASE NullFault \/ CloseKernel
  BY <1>13 DEF NullFault, CloseKernel, HeaderWild
<1>14. CASE UNCHANGED vars
  BY <1>14
<1> QED
  BY <1>1, <1>2, <1>3, <1>4, <1>5, <1>6, <1>7, <1>8, <1>9, <1>10, <1>11, <1>12, <1>13,
     <1>14 DEF Next, ReadFile, LoadKernel, Returned

(* What one call of Load does to the two histories. *)
LEMMA LoadEffect ==
  ASSUME NEW use, NEW bytes, NEW offset, NEW filesz, NEW inBounds \in BOOLEAN,
         Load(use, bytes, offset, filesz, inBounds)
  PROVE  LET pages == PagesFor(ToInt(bytes))
             l == [use |-> use, index |-> index, low |-> table.null, offset |-> offset,
                   filesz |-> filesz, memsz |-> bytes, pages |-> pages]
             a == [use |-> use, pages |-> pages]
         IN  \/ /\ allocs' = Append(allocs, a) /\ loaded' = Append(loaded, l)
                /\ inBounds /\ pc' = pc
             \/ allocs' \in {allocs, Append(allocs, a)} /\ loaded' = loaded /\ pc' = "failed"
  BY DEF Load

(* A step that allocates and copies nothing. *)
LEMMA AccountedFrame ==
  ASSUME AllocationsAccounted, allocs \in Seq(Allocs), loaded \in Seq(Loads),
         UNCHANGED <<allocs, loaded, fileBuffer>>, pc = "failed" => pc' = "failed"
  PROVE  AllocationsAccounted'
<1> DEFINE slack == IF pc = "failed" THEN 1 ELSE 0
           held == IF fileBuffer = "live" THEN 1 ELSE 0
<1>1. Len(allocs) \in Nat /\ Len(loaded) \in Nat /\ held \in Nat
  OBVIOUS
<1>2. slack \in Nat /\ slack' \in Nat /\ slack <= slack' /\ held' = held
  OBVIOUS
<1>3. Len(allocs) <= held + Len(loaded) + slack
  BY DEF AllocationsAccounted
<1> HIDE DEF slack, held
<1>4. Len(allocs) <= held + Len(loaded) + slack'
  BY <1>1, <1>2, <1>3
<1> QED
  BY <1>4 DEF AllocationsAccounted, slack, held

LEMMA LoadAccounted ==
  ASSUME AllocationsAccounted, allocs \in Seq(Allocs), loaded \in Seq(Loads), pc # "failed",
         fileBuffer' = fileBuffer, NEW use, NEW bytes, NEW offset, NEW filesz,
         NEW inBounds \in BOOLEAN, Load(use, bytes, offset, filesz, inBounds)
  PROVE  AllocationsAccounted'
<1> DEFINE held == IF fileBuffer = "live" THEN 1 ELSE 0
           pages == PagesFor(ToInt(bytes))
           l == [use |-> use, index |-> index, low |-> table.null, offset |-> offset,
                 filesz |-> filesz, memsz |-> bytes, pages |-> pages]
           a == [use |-> use, pages |-> pages]
<1>1. \/ /\ allocs' = Append(allocs, a) /\ loaded' = Append(loaded, l) /\ pc' = pc
      \/ allocs' \in {allocs, Append(allocs, a)} /\ loaded' = loaded /\ pc' = "failed"
  BY LoadEffect
<1>2. l.use = use /\ l.pages = pages /\ a = [use |-> l.use, pages |-> l.pages]
  OBVIOUS
<1>3. /\ Len(allocs) = held + Len(loaded)
      /\ \A k \in DOMAIN loaded :
           allocs[held + k] = [use |-> loaded[k].use, pages |-> loaded[k].pages]
      /\ held \in {0, 1} /\ Len(loaded) \in Nat
  BY DEF AllocationsAccounted
<1> HIDE DEF l, a, pages
<1>4. /\ Len(Append(allocs, a)) = Len(allocs) + 1 /\ Append(allocs, a)[Len(allocs) + 1] = a
      /\ \A k \in 1 .. Len(allocs) : Append(allocs, a)[k] = allocs[k]
      /\ Len(Append(loaded, l)) = Len(loaded) + 1 /\ Append(loaded, l)[Len(loaded) + 1] = l
      /\ \A k \in 1 .. Len(loaded) : Append(loaded, l)[k] = loaded[k]
      /\ DOMAIN Append(loaded, l) = 1 .. Len(loaded) + 1 /\ DOMAIN loaded = 1 .. Len(loaded)
  OBVIOUS
<1>5. held' = held
  OBVIOUS
<1> HIDE DEF held
<1>6. CASE allocs' = Append(allocs, a) /\ loaded' = Append(loaded, l) /\ pc' = pc
  <2>1. Len(allocs') = held + Len(loaded')
    BY <1>3, <1>4, <1>6
  <2>2. ASSUME NEW k \in DOMAIN loaded'
        PROVE  allocs'[held + k] = [use |-> loaded'[k].use, pages |-> loaded'[k].pages]
    <3>1. CASE k = Len(loaded) + 1
      <4>1. loaded'[k] = l /\ held + k = Len(allocs) + 1
        BY <1>3, <1>4, <1>6, <3>1
      <4> QED
        BY <1>2, <1>4, <1>6, <4>1
    <3>2. CASE k # Len(loaded) + 1
      <4>1. k \in 1 .. Len(loaded)
        BY <1>3, <1>4, <1>6, <3>2
      <4>2. held + k \in 1 .. Len(allocs)
        BY <1>3, <4>1
      <4> QED
        BY <1>3, <1>4, <1>6, <4>1, <4>2
    <3> QED
      BY <3>1, <3>2
  <2>3. Len(loaded') \in Nat
    BY <1>3, <1>4, <1>6
  <2>4. /\ Len(allocs') >= held' + Len(loaded')
        /\ Len(allocs') <= held' + Len(loaded') + (IF pc' = "failed" THEN 1 ELSE 0)
    BY <1>3, <1>5, <2>1, <2>3
  <2>5. \A k \in DOMAIN loaded' :
          allocs'[held' + k] = [use |-> loaded'[k].use, pages |-> loaded'[k].pages]
    BY <1>5, <2>2
  <2> QED
    BY <2>4, <2>5 DEF AllocationsAccounted, held
<1>7. CASE allocs' \in {allocs, Append(allocs, a)} /\ loaded' = loaded /\ pc' = "failed"
  <2>1. Len(allocs') \in {held + Len(loaded), held + Len(loaded) + 1}
    BY <1>3, <1>4, <1>7
  <2>2. ASSUME NEW k \in DOMAIN loaded PROVE allocs'[held + k] = allocs[held + k]
    <3>1. held + k \in 1 .. Len(allocs)
      BY <1>3, <1>4
    <3> QED
      BY <1>4, <1>7, <3>1
  <2> QED
    BY <1>3, <1>5, <1>7, <2>1, <2>2 DEF AllocationsAccounted, held
<1> QED
  BY <1>1, <1>6, <1>7

LEMMA NextAccounted == TypeOK /\ FileInv /\ AllocationsAccounted /\ [Next]_vars
                         => AllocationsAccounted'
<1> SUFFICES ASSUME TypeOK, FileInv, AllocationsAccounted, [Next]_vars
             PROVE  AllocationsAccounted'
  OBVIOUS
<1>1. CASE AllocFile
  <2>1. fileBuffer = "unset" /\ allocs = <<>> /\ loaded = <<>> /\ pc = "allocFile"
    BY <1>1 DEF AllocFile, FileInv, BeforeRead, Before
  <2>2. loaded' = <<>> /\ Len(allocs') = IF fileBuffer' = "live" THEN 1 ELSE 0
    BY <1>1, <2>1 DEF AllocFile
  <2> QED
    BY <2>2 DEF AllocationsAccounted
<1>2. CASE LoadSegment
  <2>1. PICK h \in HeadersAt(view.ph, LowProgHeaders) :
          IF h.load
            THEN Load("segment", h.memsz, h.offset, h.filesz, SegmentInBounds(h, fileSize))
            ELSE Skip
    BY <1>2 DEF LoadSegment
  <2>2. CASE h.load
    <3>1. Load("segment", h.memsz, h.offset, h.filesz, SegmentInBounds(h, fileSize))
      BY <2>1, <2>2
    <3>2. SegmentInBounds(h, fileSize) \in BOOLEAN
      BY DEF SegmentInBounds
    <3>3. /\ allocs \in Seq(Allocs) /\ loaded \in Seq(Loads)
          /\ pc # "failed" /\ fileBuffer' = fileBuffer
      BY <1>2 DEF LoadSegment, TypeOK, fileVars
    <3> QED
      BY <3>1, <3>2, <3>3, LoadAccounted
  <2>3. CASE ~h.load
    BY <1>2, <2>1, <2>3, AccountedFrame DEF LoadSegment, Skip, fileVars, TypeOK
  <2> QED
    BY <2>2, <2>3
<1>3. CASE LoadNoBits
  <2>1. PICK s \in HeadersAt(view.sh, LowSectionHeaders) :
          \/ Skip
          \/ pc' = "failed" /\ UNCHANGED <<index, allocs, loaded>>
          \/ Load("nobits", s.size, s.offset, 0, NoBitsInBounds(s, fileSize))
    BY <1>3 DEF LoadNoBits
  <2>2. CASE Load("nobits", s.size, s.offset, 0, NoBitsInBounds(s, fileSize))
    <3>1. NoBitsInBounds(s, fileSize) \in BOOLEAN
      BY DEF NoBitsInBounds
    <3>2. /\ allocs \in Seq(Allocs) /\ loaded \in Seq(Loads)
          /\ pc # "failed" /\ fileBuffer' = fileBuffer
      BY <1>3 DEF LoadNoBits, TypeOK, fileVars
    <3> QED
      BY <2>2, <3>1, <3>2, LoadAccounted
  <2>3. CASE Skip \/ (pc' = "failed" /\ UNCHANGED <<index, allocs, loaded>>)
    BY <1>3, <2>3, AccountedFrame DEF LoadNoBits, Skip, fileVars, TypeOK
  <2> QED
    BY <2>1, <2>2, <2>3
<1>4. CASE UNCHANGED <<allocs, loaded, fileBuffer>> /\ (pc = "failed" => pc' = "failed")
  BY <1>4, AccountedFrame DEF TypeOK
<1> QED
  BY <1>1, <1>2, <1>3, <1>4
  DEF Next, ReadFile, LoadKernel, Returned, GetVolume, OpenKernel, AllocInfo, GetInfoOk,
      GetInfoFails, GetInfoTooSmall, GiveUpInfo, CheckSize, ReadOk, ReadFails,
      GetProgramHeaders, GetSectionHeaders, NullFault, CloseKernel, vars, fileVars, loadVars

LEMMA LoadFits ==
  ASSUME LoadedFits, loaded \in Seq(Loads), fileSize' = fileSize,
         NEW use, NEW bytes \in Nat, NEW offset \in Nat, NEW filesz \in Nat,
         NEW inBounds \in BOOLEAN, Load(use, bytes, offset, filesz, inBounds),
         ~table.null => /\ filesz <= bytes /\ bytes + PageSize <= IntMod \div 2
                        /\ inBounds => offset + filesz < fileSize
  PROVE  LoadedFits'
<1> DEFINE pages == PagesFor(ToInt(bytes))
           l == [use |-> use, index |-> index, low |-> table.null, offset |-> offset,
                 filesz |-> filesz, memsz |-> bytes, pages |-> pages]
<1>1. loaded' = loaded \/ (loaded' = Append(loaded, l) /\ inBounds)
  BY LoadEffect
<1>2. ~l.low /\ inBounds => /\ l.filesz <= l.memsz /\ l.memsz <= PageSize * l.pages
                           /\ l.offset + l.filesz < fileSize
  BY PagesForFits
<1> HIDE DEF l
<1>3. CASE loaded' = loaded
  BY <1>3 DEF LoadedFits
<1>4. CASE loaded' = Append(loaded, l) /\ inBounds
  <2>1. /\ DOMAIN loaded' = 1 .. Len(loaded) + 1 /\ DOMAIN loaded = 1 .. Len(loaded)
        /\ loaded'[Len(loaded) + 1] = l
        /\ \A k \in 1 .. Len(loaded) : loaded'[k] = loaded[k]
    BY <1>4
  <2>2. \A k \in DOMAIN loaded' : k \in DOMAIN loaded \/ loaded'[k] = l
    BY <2>1
  <2> QED
    BY <1>2, <1>4, <2>1, <2>2 DEF LoadedFits
<1> QED
  BY <1>1, <1>3, <1>4

(* The bounds tests, for headers whose arithmetic does not wrap. *)
LEMMA BoundsMean ==
  ASSUME NEW size \in Nat
  PROVE  /\ \A h \in ProgHeader : LinkerSegment(h) /\ SegmentInBounds(h, size) =>
                h.offset + h.filesz < size
         /\ \A s \in SectionHeader : NoBitsInBounds(s, size) => s.offset + 0 < size
<1>1. ASSUME NEW h \in ProgHeader, LinkerSegment(h), SegmentInBounds(h, size)
      PROVE  h.offset + h.filesz < size
  <2>1. h.offset + h.filesz < WordMod
    BY <1>1, WidthAssumption DEF LinkerSegment, ProgHeader
  <2> QED
    BY <1>1, <2>1 DEF SegmentInBounds, Add64
<1> QED
  BY <1>1 DEF NoBitsInBounds, SectionHeader

LEMMA NextLoadedFits == TypeOK /\ FileInv /\ TableInv /\ LoadedFits /\ [Next]_vars
                          => LoadedFits'
<1> SUFFICES ASSUME TypeOK, FileInv, TableInv, LoadedFits, [Next]_vars PROVE LoadedFits'
  OBVIOUS
<1>1. CASE LoadSegment
  <2>1. PICK h \in HeadersAt(view.ph, LowProgHeaders) :
          IF h.load
            THEN Load("segment", h.memsz, h.offset, h.filesz, SegmentInBounds(h, fileSize))
            ELSE Skip
    BY <1>1 DEF LoadSegment
  <2>2. h \in ProgHeader /\ (~table.null => LinkerSegment(h))
    BY <1>1, SegmentHeader DEF LoadSegment
  <2>3. CASE h.load
    <3>1. Load("segment", h.memsz, h.offset, h.filesz, SegmentInBounds(h, fileSize))
      BY <2>1, <2>3
    <3>2. SegmentInBounds(h, fileSize) \in BOOLEAN
      BY DEF SegmentInBounds
    <3>3. loaded \in Seq(Loads) /\ fileSize' = fileSize /\ fileSize \in Nat
      BY <1>1 DEF LoadSegment, TypeOK, fileVars
    <3>4. h.memsz \in Nat /\ h.offset \in Nat /\ h.filesz \in Nat
      BY <2>2 DEF ProgHeader
    <3>5. ~table.null => /\ h.filesz <= h.memsz /\ h.memsz + PageSize <= IntMod \div 2
                         /\ SegmentInBounds(h, fileSize) => h.offset + h.filesz < fileSize
      BY <2>2, <3>3, BoundsMean DEF LinkerSegment
    <3> QED
      BY <3>1, <3>2, <3>3, <3>4, <3>5, LoadFits
  <2>4. CASE ~h.load
    BY <1>1, <2>1, <2>4 DEF LoadSegment, Skip, fileVars, LoadedFits
  <2> QED
    BY <2>3, <2>4
<1>2. CASE LoadNoBits
  <2>1. PICK s \in HeadersAt(view.sh, LowSectionHeaders) :
          \/ Skip
          \/ pc' = "failed" /\ UNCHANGED <<index, allocs, loaded>>
          \/ Load("nobits", s.size, s.offset, 0, NoBitsInBounds(s, fileSize))
    BY <1>2 DEF LoadNoBits
  <2>2. s \in SectionHeader /\ (~table.null => LinkerSection(s))
    BY <1>2, SectionHeaderAt DEF LoadNoBits
  <2>3. CASE Load("nobits", s.size, s.offset, 0, NoBitsInBounds(s, fileSize))
    <3>1. NoBitsInBounds(s, fileSize) \in BOOLEAN
      BY DEF NoBitsInBounds
    <3>2. loaded \in Seq(Loads) /\ fileSize' = fileSize /\ fileSize \in Nat
      BY <1>2 DEF LoadNoBits, TypeOK, fileVars
    <3>3. s.size \in Nat /\ s.offset \in Nat /\ 0 \in Nat
      BY <2>2 DEF SectionHeader
    <3>4. ~table.null => /\ 0 <= s.size /\ s.size + PageSize <= IntMod \div 2
                         /\ NoBitsInBounds(s, fileSize) => s.offset + 0 < fileSize
      BY <2>2, <3>2, <3>3, BoundsMean DEF LinkerSection
    <3> QED
      BY <2>3, <3>1, <3>2, <3>3, <3>4, LoadFits
  <2>4. CASE Skip \/ (pc' = "failed" /\ UNCHANGED <<index, allocs, loaded>>)
    BY <1>2, <2>4 DEF LoadNoBits, Skip, fileVars, LoadedFits
  <2> QED
    BY <2>1, <2>3, <2>4
<1>3. CASE loaded = <<>> /\ loaded' = <<>>
  BY <1>3 DEF LoadedFits
<1>4. CASE UNCHANGED <<loaded, fileSize>>
  BY <1>4 DEF LoadedFits
<1>5. CASE GetInfoOk \/ ReadOk
  <2>1. loaded = <<>> /\ loaded' = loaded
    BY <1>5 DEF GetInfoOk, ReadOk, FileInv, Before, BeforeRead, Asking, loadVars
  <2> QED
    BY <1>3, <2>1
<1> QED
  BY <1>1, <1>2, <1>4, <1>5
  DEF Next, ReadFile, LoadKernel, Returned, GetVolume, OpenKernel, AllocInfo,
      GetInfoFails, GetInfoTooSmall, GiveUpInfo, CheckSize, AllocFile, ReadFails,
      GetProgramHeaders, GetSectionHeaders, NullFault, CloseKernel, vars, fileVars, loadVars

-----------------------------------------------------------------------------
(* The theorems. *)

THEOREM Invariance == Spec => []IInv
<1>1. IInv /\ [Next]_vars => IInv'
  BY NextTypeOK, NextPoolInv, NextFileInv, NextTableInv, NextWild, NextLoadedFits,
     NextAccounted DEF IInv
<1> QED
  BY <1>1, InitIInv, PTL DEF Spec

(* Every variable keeps the type of the object it stands for. *)
THEOREM TypeCorrect == Spec => []TypeOK
  BY Invariance, PTL DEF IInv

(* readFile leaks no pool buffer, on any path out of it. *)
THEOREM NoLeak == Spec => []NoPoolLeak
<1>1. IInv => NoPoolLeak
  BY DEF IInv, PoolInv, Asking, NoPoolLeak
<1> QED
  BY <1>1, Invariance, PTL

(* The buffer GetInfo fills is live and of the size it is told. *)
THEOREM InfoFits == Spec => []InfoBufferFits
<1>1. IInv => InfoBufferFits
  BY DEF IInv, PoolInv, Asking, InfoBufferFits
<1> QED
  BY <1>1, Invariance, PTL

(* An invalid pointer is used only after a firmware call failed, or after a *)
(* null table.                                                              *)
THEOREM WildExplained == Spec => []WildOnlyAfterFault
  BY Invariance, PTL DEF IInv

(* Read is never asked for more than its pages hold. *)
THEOREM ReadFits == Spec => []ReadFitsBuffer
<1>1. ASSUME IInv, pc = "read"
      PROVE  /\ fileSize \in 1 .. MaxFileSize
             /\ fileBuffer = "live" => fileSize <= PageSize * allocs[1].pages
  <2>1. fileSize \in 1 .. MaxFileSize /\ fileSize \in Nat
    BY <1>1 DEF IInv, FileInv, TypeOK
  <2>2. fileBuffer = "live" => allocs[1].pages = neededPages(fileSize)
    BY <1>1 DEF IInv, FileInv
  <2>3. fileSize <= PageSize * neededPages(fileSize)
    BY <2>1 DEF neededPages, PageSize
  <2> QED
    BY <2>1, <2>2, <2>3
<1>2. IInv => ReadFitsBuffer
  BY <1>1 DEF ReadFitsBuffer
<1> QED
  BY <1>2, Invariance, PTL

(* A table that is not null ends before the file does. *)
LEMMA TableInFile ==
  ASSUME NEW img \in Images, NEW n \in Nat
  PROVE  /\ ~getProgramHeaders(img, n).null =>
              img.phOff + Len(img.ph) * ProgHeaderSize < n
         /\ ~getSectionHeaders(img, n).null =>
              img.shOff + Len(img.sh) * SectionHeaderSize < n
<1>1. LinkerImage(img)
  BY ImagesAssumption
<1>2. /\ Add64(img.phOff, Len(img.ph) * ProgHeaderSize) =
           img.phOff + Len(img.ph) * ProgHeaderSize
      /\ Add64(img.shOff, Len(img.sh) * SectionHeaderSize) =
           img.shOff + Len(img.sh) * SectionHeaderSize
  BY <1>1 DEF LinkerImage, Add64
<1>3. /\ img.phOff \in Nat /\ Len(img.ph) * ProgHeaderSize \in Nat
      /\ img.shOff \in Nat /\ Len(img.sh) * SectionHeaderSize \in Nat
  BY ImagesAssumption DEF Image, ProgHeaderSize, SectionHeaderSize
<1>4. /\ ~getProgramHeaders(img, n).null =>
           ~(Add64(img.phOff, Len(img.ph) * ProgHeaderSize) >= n)
      /\ ~getSectionHeaders(img, n).null =>
           ~(Add64(img.shOff, Len(img.sh) * SectionHeaderSize) >= n)
  BY DEF getProgramHeaders, getSectionHeaders, HeaderTable, Table, checkElf
<1> QED
  BY <1>2, <1>3, <1>4

(* One header of a table that ends before the file does. *)
LEMMA HeaderWithin ==
  ASSUME NEW off \in Nat, NEW num \in Nat, NEW size \in Nat, NEW n \in Nat,
         NEW k \in Nat, k < num, off + num * size < n
  PROVE  off + (k + 1) * size < n
<1>1. \A a, b, c \in Nat : a <= b => a * c <= b * c
  OBVIOUS
<1>2. (k + 1) * size <= num * size
  BY <1>1
<1>3. (k + 1) * size \in Nat /\ num * size \in Nat
  OBVIOUS
<1> QED
  BY <1>2, <1>3

(* No header is read from behind the bytes that Read delivered. *)
THEOREM HeadersRead == Spec => []HeadersInFile
<1>1. ASSUME IInv, index < table.num, ~table.null
      PROVE  /\ pc = "loadSegment" => view.phOff + (index + 1) * ProgHeaderSize < fileSize
             /\ pc = "loadNoBits" => view.shOff + (index + 1) * SectionHeaderSize < fileSize
  <2>1. /\ view \in Images /\ view \in Image /\ fileSize \in Nat /\ index \in Nat
        /\ view.phOff \in Nat /\ view.shOff \in Nat
        /\ Len(view.ph) \in Nat /\ Len(view.sh) \in Nat
    <3>1. view \in Images /\ view \in Image /\ fileSize \in Nat /\ index \in Nat
      BY <1>1, ImagesAssumption DEF IInv, TypeOK
    <3>2. \A img \in Image : /\ img.phOff \in Nat /\ img.shOff \in Nat
                             /\ Len(img.ph) \in Nat /\ Len(img.sh) \in Nat
      BY DEF Image
    <3> QED
      BY <3>1, <3>2
  <2>2. ProgHeaderSize \in Nat /\ SectionHeaderSize \in Nat
    BY DEF ProgHeaderSize, SectionHeaderSize
  <2>3. ASSUME pc = "loadSegment"
        PROVE  view.phOff + (index + 1) * ProgHeaderSize < fileSize
    <3>1. table = getProgramHeaders(view, fileSize)
      BY <1>1, <2>3 DEF IInv, TableInv
    <3>2. index < Len(view.ph) /\ view.phOff + Len(view.ph) * ProgHeaderSize < fileSize
      BY <1>1, <2>1, <3>1, TableCount, TableInFile
    <3> QED
      BY <2>1, <2>2, <3>2, HeaderWithin
  <2>4. ASSUME pc = "loadNoBits"
        PROVE  view.shOff + (index + 1) * SectionHeaderSize < fileSize
    <3>1. table = getSectionHeaders(view, fileSize)
      BY <1>1, <2>4 DEF IInv, TableInv
    <3>2. index < Len(view.sh) /\ view.shOff + Len(view.sh) * SectionHeaderSize < fileSize
      BY <1>1, <2>1, <3>1, TableCount, TableInFile
    <3> QED
      BY <2>1, <2>2, <3>2, HeaderWithin
  <2> QED
    BY <2>3, <2>4
<1>2. IInv => HeadersInFile
  BY <1>1 DEF HeadersInFile
<1> QED
  BY <1>2, Invariance, PTL

(* What is copied lies inside its own pages and inside the file. *)
THEOREM CopiesFit == Spec => []LoadedFits
  BY Invariance, PTL DEF IInv

(* Page allocations and copies correspond one to one. *)
THEOREM PagesAccounted == Spec => []AllocationsAccounted
  BY Invariance, PTL DEF IInv
=============================================================================
