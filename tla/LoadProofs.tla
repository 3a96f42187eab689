------------------------------- MODULE LoadProofs -------------------------------
(***************************************************************************)
(* Proofs about what readKernel has done when its walks are over, for every *)
(* set of files: which headers it has loaded, and that it kept the contract *)
(* efi_main relies on.                                                      *)
(***************************************************************************)
EXTENDS KernelReaderProofs

-----------------------------------------------------------------------------
(* Which headers are loaded. *)

Copied(use) == {loaded[k].index : k \in LoadedFromFile(use)}

(* The headers below n that have to be loaded. *)
SegmentsBelow(n) == {j \in 0 .. n - 1 : j + 1 \in DOMAIN view.ph /\ view.ph[j + 1].load}
SectionsBelow(n) ==
  {j \in 0 .. n - 1 : j + 1 \in DOMAIN view.sh /\ NoBitsLoadable(view.sh[j + 1])}

InOrder == \A use \in Uses : \A j, k \in LoadedFromFile(use) :
             j < k => loaded[j].index < loaded[k].index

(* A walk has loaded exactly the headers below its counter, none of them    *)
(* through a null table, and leaves what the walk before it loaded.         *)
CompleteInv ==
  /\ pc = "loadSegment" =>
       /\ Copied("segment") = IF table.null THEN {} ELSE SegmentsBelow(index)
       /\ Copied("nobits") = {}
  /\ pc \in {"loadNoBits", "done"} =>
       Copied("segment") = IF getProgramHeaders(view, fileSize).null THEN {}
                           ELSE SegmentsBelow(Len(view.ph))
  /\ pc = "loadNoBits" =>
       Copied("nobits") = IF table.null THEN {} ELSE SectionsBelow(index)
  /\ pc = "done" =>
       Copied("nobits") = IF getSectionHeaders(view, fileSize).null THEN {}
                          ELSE SectionsBelow(Len(view.sh))
  /\ InOrder

(* The file the loader sees is one of the files, and its tables are finite. *)
LEMMA ViewFacts ==
  ASSUME TypeOK
  PROVE  /\ index \in Nat /\ fileSize \in Nat /\ table.null \in BOOLEAN
         /\ view \in Image
         /\ Len(view.ph) \in Nat /\ DOMAIN view.ph = 1 .. Len(view.ph)
         /\ Len(view.sh) \in Nat /\ DOMAIN view.sh = 1 .. Len(view.sh)
<1>1. index \in Nat /\ fileSize \in Nat /\ table.null \in BOOLEAN
  BY DEF TypeOK, Tables
<1>2. view \in Image
  BY ImagesAssumption DEF TypeOK
<1>3. view.ph \in Seq(ProgHeader) /\ view.sh \in Seq(SectionHeader)
  BY <1>2 DEF Image
<1> QED
  BY <1>1, <1>2, <1>3

(* Nothing is copied before the first walk. *)
LEMMA NothingCopied ==
  ASSUME loaded = <<>>
  PROVE  InOrder /\ \A use : Copied(use) = {}
<1>1. \A use : LoadedFromFile(use) = {}
  BY DEF LoadedFromFile
<1> QED
  BY <1>1 DEF InOrder, Copied

(* One load more: its header joins the others of its kind, at the end. *)
LEMMA OneMore ==
  ASSUME loaded \in Seq(Loads), NEW l \in Loads, loaded' = Append(loaded, l), InOrder,
         l.low \/ \A i \in Copied(l.use) : i < l.index
  PROVE  /\ InOrder'
         /\ \A use \in Uses :
              Copied(use)' = Copied(use) \cup IF l.use = use /\ ~l.low THEN {l.index} ELSE {}
<1> DEFINE n == Len(loaded)
<1>1. /\ n \in Nat /\ DOMAIN loaded = 1 .. n /\ DOMAIN loaded' = 1 .. n + 1
      /\ loaded'[n + 1] = l /\ \A k \in 1 .. n : loaded'[k] = loaded[k]
  OBVIOUS
<1> HIDE DEF n
<1>2. ASSUME NEW use
      PROVE  LoadedFromFile(use)' =
               LoadedFromFile(use) \cup IF l.use = use /\ ~l.low THEN {n + 1} ELSE {}
  <2>1. \A k : k \in 1 .. n + 1 <=> k \in 1 .. n \/ k = n + 1
    BY <1>1
  <2>2. n + 1 \notin 1 .. n
    BY <1>1
  <2>3. ASSUME NEW k
        PROVE  k \in LoadedFromFile(use)' <=>
                 k \in LoadedFromFile(use) \/ (l.use = use /\ ~l.low /\ k = n + 1)
    <3>1. CASE k \in 1 .. n
      BY <1>1, <2>1, <2>2, <3>1 DEF LoadedFromFile
    <3>2. CASE k = n + 1
      BY <1>1, <2>1, <2>2, <3>2 DEF LoadedFromFile
    <3>3. CASE k \notin 1 .. n /\ k # n + 1
      BY <1>1, <2>1, <3>3 DEF LoadedFromFile
    <3> QED
      BY <3>1, <3>2, <3>3
  <2> QED
    BY <2>3
<1>3. \A use : \A k \in LoadedFromFile(use) : k \in 1 .. n /\ loaded'[k] = loaded[k]
  BY <1>1 DEF LoadedFromFile
<1>4. ASSUME NEW use \in Uses
      PROVE  Copied(use)' = Copied(use) \cup IF l.use = use /\ ~l.low THEN {l.index} ELSE {}
  BY <1>1, <1>2, <1>3 DEF Copied
<1>5. ASSUME NEW use \in Uses, NEW j \in LoadedFromFile(use)', NEW k \in LoadedFromFile(use)',
             j < k
      PROVE  loaded'[j].index < loaded'[k].index
  <2>1. CASE k \in LoadedFromFile(use)
    <3>1. j # n + 1
      BY <1>1, <1>3, <1>5, <2>1
    <3>2. j \in LoadedFromFile(use)
      BY <1>2, <3>1
    <3>3. loaded[j].index < loaded[k].index
      BY <1>5, <2>1, <3>2 DEF InOrder
    <3> QED
      BY <1>3, <2>1, <3>2, <3>3
  <2>2. CASE k = n + 1 /\ l.use = use /\ ~l.low
    <3>1. j # n + 1
      BY <1>1, <1>5, <2>2
    <3>2. j \in LoadedFromFile(use)
      BY <1>2, <3>1
    <3>3. loaded[j].index \in Copied(use)
      BY <3>2 DEF Copied
    <3> QED
      BY <1>1, <1>3, <2>2, <3>2, <3>3
  <2> QED
    BY <1>2, <2>1, <2>2
<1> QED
  BY <1>4, <1>5 DEF InOrder

(* A header that is not to be loaded, and one that is, move the border.     *)
LEMMA BelowGrows ==
  ASSUME index \in Nat
  PROVE  /\ SegmentsBelow(index + 1) = SegmentsBelow(index) \cup
              IF index + 1 \in DOMAIN view.ph /\ view.ph[index + 1].load THEN {index} ELSE {}
         /\ SectionsBelow(index + 1) = SectionsBelow(index) \cup
              IF index + 1 \in DOMAIN view.sh /\ NoBitsLoadable(view.sh[index + 1])
                THEN {index} ELSE {}
<1>1. \A j : j \in 0 .. (index + 1) - 1 <=> j \in 0 .. index - 1 \/ j = index
  OBVIOUS
<1>2. index \notin 0 .. index - 1
  OBVIOUS
<1> QED
  BY <1>1, <1>2 DEF SegmentsBelow, SectionsBelow

LEMMA BelowEnds ==
  ASSUME index \in Nat, view \in Image
  PROVE  /\ index >= Len(view.ph) => SegmentsBelow(index) = SegmentsBelow(Len(view.ph))
         /\ index >= Len(view.sh) => SectionsBelow(index) = SectionsBelow(Len(view.sh))
<1>1. /\ Len(view.ph) \in Nat /\ DOMAIN view.ph = 1 .. Len(view.ph)
      /\ Len(view.sh) \in Nat /\ DOMAIN view.sh = 1 .. Len(view.sh)
  BY DEF Image
<1>2. ASSUME NEW n \in Nat, index >= n
      PROVE  \A j : j \in 0 .. index - 1 /\ j + 1 \in 1 .. n <=> j \in 0 .. n - 1 /\ j + 1 \in 1 .. n
  BY <1>2
<1> QED
  BY <1>1, <1>2 DEF SegmentsBelow, SectionsBelow

LEMMA CopiedFrame ==
  ASSUME loaded' = loaded
  PROVE  (InOrder => InOrder') /\ \A use \in Uses : Copied(use)' = Copied(use)
  BY DEF InOrder, Copied, LoadedFromFile

LEMMA BelowFrame ==
  ASSUME view' = view
  PROVE  /\ \A n : n = index' => SegmentsBelow(index)' = SegmentsBelow(n)
         /\ \A n : n = index' => SectionsBelow(index)' = SectionsBelow(n)
         /\ SegmentsBelow(Len(view.ph))' = SegmentsBelow(Len(view.ph))
         /\ SectionsBelow(Len(view.sh))' = SectionsBelow(Len(view.sh))
  BY DEF SegmentsBelow, SectionsBelow

(* The effect of one load on what has been copied. *)
LEMMA LoadCopies ==
  ASSUME TypeOK, InOrder, NEW use \in Uses, NEW bytes \in Nat, NEW offset \in Nat,
         NEW filesz \in Nat, NEW inBounds \in BOOLEAN,
         Load(use, bytes, offset, filesz, inBounds),
         table.null \/ \A i \in Copied(use) : i < index
  PROVE  /\ InOrder'
         /\ \/ pc' = "failed"
            \/ /\ pc' = pc /\ index' = index + 1
               /\ \A u \in Uses : Copied(u)' =
                    Copied(u) \cup IF u = use /\ ~table.null THEN {index} ELSE {}
<1> DEFINE pages == PagesFor(ToInt(bytes))
           l == [use |-> use, index |-> index, low |-> table.null, offset |-> offset,
                 filesz |-> filesz, memsz |-> bytes, pages |-> pages]
<1>1. \/ loaded' = Append(loaded, l) /\ pc' = pc /\ index' = index + 1
      \/ loaded' = loaded /\ pc' = "failed"
  BY DEF Load
<1>2. l \in Loads
  <2>1. pages \in Nat
    BY PagesForType
  <2>2. index \in Nat /\ table.null \in BOOLEAN
    BY DEF TypeOK, Tables
  <2> HIDE DEF pages
  <2> QED
    BY <2>1, <2>2 DEF Loads
<1>3. l.use = use /\ l.low = table.null /\ l.index = index
  OBVIOUS
<1> HIDE DEF l
<1>4. CASE loaded' = Append(loaded, l) /\ pc' = pc /\ index' = index + 1
  <2>1. loaded \in Seq(Loads)
    BY DEF TypeOK
  <2>2. /\ InOrder'
        /\ \A u \in Uses :
             Copied(u)' = Copied(u) \cup IF l.use = u /\ ~l.low THEN {l.index} ELSE {}
    BY <1>2, <1>3, <1>4, <2>1, OneMore
  <2> QED
    BY <1>3, <1>4, <2>2
<1>5. CASE loaded' = loaded /\ pc' = "failed"
  BY <1>5, CopiedFrame
<1> QED
  BY <1>1, <1>4, <1>5

(* One iteration of the walk over the program headers. *)
LEMMA SegmentComplete ==
  ASSUME IInv, CompleteInv, LoadSegment
  PROVE  CompleteInv'
<1>1. PICK h \in HeadersAt(view.ph, LowProgHeaders) :
        IF h.load
          THEN Load("segment", h.memsz, h.offset, h.filesz, SegmentInBounds(h, fileSize))
          ELSE Skip
  BY DEF LoadSegment
<1>2. pc = "loadSegment" /\ index < table.num /\ view' = view /\ table' = table
  BY DEF LoadSegment, fileVars
<1>3. /\ index \in Nat /\ view \in Image /\ fileSize \in Nat /\ table.null \in BOOLEAN
      /\ Len(view.ph) \in Nat /\ DOMAIN view.ph = 1 .. Len(view.ph)
  BY ViewFacts DEF IInv
<1>4. ~table.null => h = view.ph[index + 1] /\ index + 1 \in DOMAIN view.ph
  <2>1. ~table.null => table.num = Len(view.ph)
    BY <1>2, <1>3, TableCount DEF IInv, TableInv
  <2> QED
    BY <1>1, <1>2, <1>3, <2>1 DEF HeadersAt
<1>5. /\ Copied("segment") = IF table.null THEN {} ELSE SegmentsBelow(index)
      /\ Copied("nobits") = {} /\ InOrder
  BY <1>2 DEF CompleteInv
<1>6. /\ h \in ProgHeader
      /\ SegmentsBelow(index + 1) = SegmentsBelow(index) \cup
              IF index + 1 \in DOMAIN view.ph /\ view.ph[index + 1].load THEN {index} ELSE {}
  <2>1. h \in ProgHeader
    BY <1>1, <1>2, SegmentHeader DEF IInv
  <2> QED
    BY <1>3, <2>1, BelowGrows
<1>7. CASE h.load
  <2>1. /\ h.memsz \in Nat /\ h.offset \in Nat /\ h.filesz \in Nat
        /\ SegmentInBounds(h, fileSize) \in BOOLEAN /\ {"segment", "nobits"} = Uses
    BY <1>6 DEF ProgHeader, SegmentInBounds, Uses
  <2>2. table.null \/ \A i \in Copied("segment") : i < index
    BY <1>3, <1>5 DEF SegmentsBelow
  <2>3. /\ InOrder'
        /\ \/ pc' = "failed"
           \/ /\ pc' = pc /\ index' = index + 1
              /\ \A u \in Uses : Copied(u)' =
                   Copied(u) \cup IF u = "segment" /\ ~table.null THEN {index} ELSE {}
    <3>1. "segment" \in Uses /\ TypeOK
          /\ Load("segment", h.memsz, h.offset, h.filesz, SegmentInBounds(h, fileSize))
      BY <1>1, <1>7 DEF Uses, IInv
    <3> QED
      BY <1>5, <2>1, <2>2, <3>1, LoadCopies
  <2>4. CASE pc' = "failed"
    BY <2>3, <2>4 DEF CompleteInv
  <2>5. CASE /\ pc' = pc /\ index' = index + 1
             /\ \A u \in Uses : Copied(u)' =
                  Copied(u) \cup IF u = "segment" /\ ~table.null THEN {index} ELSE {}
    <3>1. /\ Copied("segment")' = IF table.null THEN {} ELSE SegmentsBelow(index + 1)
          /\ Copied("nobits")' = {}
      BY <1>4, <1>5, <1>6, <1>7, <2>1, <2>5
    <3>2. SegmentsBelow(index)' = SegmentsBelow(index + 1)
      BY <1>2, <2>5, BelowFrame
    <3> QED
      BY <1>2, <2>3, <2>5, <3>1, <3>2 DEF CompleteInv
  <2> QED
    BY <2>3, <2>4, <2>5
<1>8. CASE ~h.load
  <2>1. pc' = pc /\ index' = index + 1 /\ loaded' = loaded
    BY <1>1, <1>8 DEF Skip
  <2>2. /\ InOrder' /\ Copied("segment")' = Copied("segment")
        /\ Copied("nobits")' = Copied("nobits")
    BY <1>5, <2>1, CopiedFrame DEF Uses
  <2>3. ~table.null => SegmentsBelow(index)' = SegmentsBelow(index)
    <3>1. SegmentsBelow(index)' = SegmentsBelow(index + 1)
      BY <1>2, <2>1, BelowFrame
    <3> QED
      BY <1>4, <1>6, <1>8, <3>1
  <2> QED
    BY <1>2, <1>5, <2>1, <2>2, <2>3 DEF CompleteInv
<1> QED
  BY <1>7, <1>8

(* One iteration of the walk over the section headers. *)
LEMMA SectionComplete ==
  ASSUME IInv, CompleteInv, LoadNoBits
  PROVE  CompleteInv'
<1>1. PICK h \in HeadersAt(view.sh, LowSectionHeaders) :
        \/ ~NoBitsLoadable(h) /\ Skip
        \/ pc' = "failed" /\ loaded' = loaded
        \/ NoBitsLoadable(h) /\ Load("nobits", h.size, h.offset, 0, NoBitsInBounds(h, fileSize))
  BY DEF LoadNoBits
<1>2. pc = "loadNoBits" /\ index < table.num /\ view' = view /\ table' = table
      /\ fileSize' = fileSize
  BY DEF LoadNoBits, fileVars
<1>3. /\ index \in Nat /\ view \in Image /\ fileSize \in Nat /\ table.null \in BOOLEAN
      /\ Len(view.sh) \in Nat /\ DOMAIN view.sh = 1 .. Len(view.sh)
  BY ViewFacts DEF IInv
<1>4. ~table.null => h = view.sh[index + 1] /\ index + 1 \in DOMAIN view.sh
  <2>1. ~table.null => table.num = Len(view.sh)
    BY <1>2, <1>3, TableCount DEF IInv, TableInv
  <2> QED
    BY <1>1, <1>2, <1>3, <2>1 DEF HeadersAt
<1>5. /\ Copied("nobits") = IF table.null THEN {} ELSE SectionsBelow(index)
      /\ Copied("segment") = IF getProgramHeaders(view, fileSize).null THEN {}
                             ELSE SegmentsBelow(Len(view.ph))
      /\ InOrder
  BY <1>2 DEF CompleteInv
<1>6. /\ h \in SectionHeader
      /\ SectionsBelow(index + 1) = SectionsBelow(index) \cup
              IF index + 1 \in DOMAIN view.sh /\ NoBitsLoadable(view.sh[index + 1])
                THEN {index} ELSE {}
  <2>1. h \in SectionHeader
    BY <1>1, <1>2, SectionHeaderAt DEF IInv
  <2> QED
    BY <1>3, <2>1, BelowGrows
<1>7. (getProgramHeaders(view, fileSize).null)' = getProgramHeaders(view, fileSize).null
  BY <1>2
<1>8. CASE pc' = "failed" /\ loaded' = loaded
  BY <1>5, <1>8, CopiedFrame DEF CompleteInv
<1>9. CASE NoBitsLoadable(h) /\ Load("nobits", h.size, h.offset, 0, NoBitsInBounds(h, fileSize))
  <2>1. /\ h.size \in Nat /\ h.offset \in Nat /\ 0 \in Nat
        /\ NoBitsInBounds(h, fileSize) \in BOOLEAN /\ {"segment", "nobits"} = Uses
    BY <1>6 DEF SectionHeader, NoBitsInBounds, Uses
  <2>2. table.null \/ \A i \in Copied("nobits") : i < index
    BY <1>3, <1>5 DEF SectionsBelow
  <2>3. /\ InOrder'
        /\ \/ pc' = "failed"
           \/ /\ pc' = pc /\ index' = index + 1
              /\ \A u \in Uses : Copied(u)' =
                   Copied(u) \cup IF u = "nobits" /\ ~table.null THEN {index} ELSE {}
    <3>1. "nobits" \in Uses /\ TypeOK
      BY DEF Uses, IInv
    <3> QED
      BY <1>5, <1>9, <2>1, <2>2, <3>1, LoadCopies
  <2>4. CASE pc' = "failed"
    BY <2>3, <2>4 DEF CompleteInv
  <2>5. CASE /\ pc' = pc /\ index' = index + 1
             /\ \A u \in Uses : Copied(u)' =
                  Copied(u) \cup IF u = "nobits" /\ ~table.null THEN {index} ELSE {}
    <3>1. /\ Copied("nobits")' = IF table.null THEN {} ELSE SectionsBelow(index + 1)
          /\ Copied("segment")' = Copied("segment")
      BY <1>4, <1>5, <1>6, <1>9, <2>1, <2>5
    <3>2. /\ SectionsBelow(index)' = SectionsBelow(index + 1)
          /\ SegmentsBelow(Len(view.ph))' = SegmentsBelow(Len(view.ph))
      BY <1>2, <2>5, BelowFrame
    <3> QED
      BY <1>2, <1>5, <1>7, <2>3, <2>5, <3>1, <3>2 DEF CompleteInv
  <2> QED
    BY <2>3, <2>4, <2>5
<1>10. CASE ~NoBitsLoadable(h) /\ Skip
  <2>1. pc' = pc /\ index' = index + 1 /\ loaded' = loaded
    BY <1>10 DEF Skip
  <2>2. /\ InOrder' /\ Copied("segment")' = Copied("segment")
        /\ Copied("nobits")' = Copied("nobits")
    BY <1>5, <2>1, CopiedFrame DEF Uses
  <2>3. /\ ~table.null => SectionsBelow(index)' = SectionsBelow(index)
        /\ SegmentsBelow(Len(view.ph))' = SegmentsBelow(Len(view.ph))
    <3>1. /\ SectionsBelow(index)' = SectionsBelow(index + 1)
          /\ SegmentsBelow(Len(view.ph))' = SegmentsBelow(Len(view.ph))
      BY <1>2, <2>1, BelowFrame
    <3> QED
      BY <1>4, <1>6, <1>10, <3>1
  <2> QED
    BY <1>2, <1>5, <1>7, <2>1, <2>2, <2>3 DEF CompleteInv
<1> QED
  BY <1>1, <1>8, <1>9, <1>10

(* Between the walks, and at their end. *)
LEMMA BetweenComplete ==
  ASSUME IInv, CompleteInv, GetSectionHeaders \/ CloseKernel
  PROVE  CompleteInv'
<1>1. /\ loaded' = loaded /\ view' = view /\ fileSize' = fileSize
      /\ pc \in {"loadSegment", "loadNoBits"} /\ index >= table.num
  BY DEF GetSectionHeaders, CloseKernel, fileVars, loadVars
<1>2. /\ index \in Nat /\ view \in Image /\ fileSize \in Nat
  BY ViewFacts DEF IInv
<1>3. /\ InOrder' /\ Copied("segment")' = Copied("segment")
      /\ Copied("nobits")' = Copied("nobits")
  BY <1>1, CopiedFrame DEF Uses, CompleteInv
<1>4. /\ SegmentsBelow(Len(view.ph))' = SegmentsBelow(Len(view.ph))
      /\ SectionsBelow(Len(view.sh))' = SectionsBelow(Len(view.sh))
      /\ (getProgramHeaders(view, fileSize).null)' = getProgramHeaders(view, fileSize).null
      /\ (getSectionHeaders(view, fileSize).null)' = getSectionHeaders(view, fileSize).null
  BY <1>1, BelowFrame
<1>5. CASE GetSectionHeaders
  <2>1. /\ pc = "loadSegment" /\ pc' = "loadNoBits" /\ index' = 0
        /\ table = getProgramHeaders(view, fileSize)
    BY <1>5 DEF GetSectionHeaders, IInv, TableInv
  <2>2. ~table.null => SegmentsBelow(index) = SegmentsBelow(Len(view.ph))
    BY <1>1, <1>2, <2>1, TableCount, BelowEnds
  <2>3. SectionsBelow(index)' = {}
    BY <2>1 DEF SectionsBelow
  <2> QED
    BY <1>3, <1>4, <2>1, <2>2, <2>3 DEF CompleteInv
<1>6. CASE CloseKernel
  <2>1. /\ pc = "loadNoBits" /\ pc' = "done" /\ table = getSectionHeaders(view, fileSize)
    BY <1>6 DEF CloseKernel, IInv, TableInv
  <2>2. ~table.null => SectionsBelow(index) = SectionsBelow(Len(view.sh))
    BY <1>1, <1>2, <2>1, TableCount, BelowEnds
  <2> QED
    BY <1>3, <1>4, <2>1, <2>2 DEF CompleteInv
<1> QED
  BY <1>5, <1>6

LEMMA CompleteStep == IInv /\ CompleteInv /\ [Next]_vars => CompleteInv'
<1> SUFFICES ASSUME IInv, CompleteInv, [Next]_vars PROVE CompleteInv'
  OBVIOUS
<1>1. CASE LoadSegment \/ LoadNoBits \/ GetSectionHeaders \/ CloseKernel
  BY <1>1, SegmentComplete, SectionComplete, BetweenComplete
<1>2. CASE GetProgramHeaders
  <2>1. loaded' = <<>> /\ pc' = "loadSegment" /\ index' = 0
    BY <1>2 DEF GetProgramHeaders, IInv, FileInv, Before
  <2>2. InOrder' /\ Copied("segment")' = {} /\ Copied("nobits")' = {}
    <3>1. \A use : LoadedFromFile(use)' = {}
      BY <2>1 DEF LoadedFromFile
    <3> QED
      BY <3>1 DEF InOrder, Copied
  <2>3. SegmentsBelow(index)' = {}
    BY <2>1 DEF SegmentsBelow
  <2> QED
    BY <2>1, <2>2, <2>3 DEF CompleteInv
<1>3. CASE loaded' = loaded /\ pc' \notin {"loadSegment", "loadNoBits", "done"}
  BY <1>3, CopiedFrame DEF CompleteInv
<1>4. CASE UNCHANGED vars
  <2>1. UNCHANGED <<pc, loaded, view, fileSize, table, index>>
    BY <1>4 DEF vars, fileVars, loadVars
  <2>2. /\ InOrder' /\ Copied("segment")' = Copied("segment")
        /\ Copied("nobits")' = Copied("nobits")
    BY <2>1, CopiedFrame DEF Uses, CompleteInv
  <2>3. /\ SegmentsBelow(index)' = SegmentsBelow(index)
        /\ SectionsBelow(index)' = SectionsBelow(index)
        /\ SegmentsBelow(Len(view.ph))' = SegmentsBelow(Len(view.ph))
        /\ SectionsBelow(Len(view.sh))' = SectionsBelow(Len(view.sh))
        /\ (getProgramHeaders(view, fileSize).null)' = getProgramHeaders(view, fileSize).null
        /\ (getSectionHeaders(view, fileSize).null)' = getSectionHeaders(view, fileSize).null
    BY <2>1, BelowFrame
  <2> QED
    BY <2>1, <2>2, <2>3 DEF CompleteInv
<1>5. CASE Next
  BY <1>1, <1>2, <1>3, <1>4, <1>5
  DEF Next, ReadFile, LoadKernel, Returned, GetVolume, OpenKernel, AllocInfo, GetInfoOk,
      GetInfoFails, GetInfoTooSmall, GiveUpInfo, CheckSize, AllocFile, ReadOk, ReadFails,
      NullFault, loadVars
<1> QED
  BY <1>4, <1>5

(* A readKernel that completes has loaded every PT_LOAD segment and every   *)
(* NOBITS section of a readable table, once and in file order.              *)
THEOREM Completeness == Spec => []LoadIsComplete
<1>1. Init => CompleteInv
  <2> SUFFICES ASSUME Init PROVE CompleteInv
    OBVIOUS
  <2> QED
    BY NothingCopied DEF Init, CompleteInv
<1>2. IInv /\ CompleteInv => LoadIsComplete
  <2> SUFFICES ASSUME IInv, CompleteInv PROVE LoadIsComplete
    OBVIOUS
  <2>1. /\ DOMAIN view.ph = 1 .. Len(view.ph) /\ Len(view.ph) \in Nat
        /\ DOMAIN view.sh = 1 .. Len(view.sh) /\ Len(view.sh) \in Nat
    BY ViewFacts DEF IInv
  <2>2. SegmentsBelow(Len(view.ph)) = {i - 1 : i \in {j \in DOMAIN view.ph : view.ph[j].load}}
    <3>1. ASSUME NEW j
          PROVE  j \in 0 .. Len(view.ph) - 1 /\ j + 1 \in 1 .. Len(view.ph)
                   /\ view.ph[j + 1].load
                 <=> \E i \in 1 .. Len(view.ph) : view.ph[i].load /\ j = i - 1
      BY <2>1
    <3> QED
      BY <2>1, <3>1 DEF SegmentsBelow
  <2>3. SectionsBelow(Len(view.sh)) =
          {i - 1 : i \in {j \in DOMAIN view.sh : NoBitsLoadable(view.sh[j])}}
    <3>1. ASSUME NEW j
          PROVE  j \in 0 .. Len(view.sh) - 1 /\ j + 1 \in 1 .. Len(view.sh)
                   /\ NoBitsLoadable(view.sh[j + 1])
                 <=> \E i \in 1 .. Len(view.sh) : NoBitsLoadable(view.sh[i]) /\ j = i - 1
      BY <2>1
    <3> QED
      BY <2>1, <3>1 DEF SectionsBelow
  <2>4. InOrder
    BY DEF CompleteInv
  <2>5. pc \in {"loadNoBits", "done"} =>
          Copied("segment") = IF getProgramHeaders(view, fileSize).null THEN {}
                              ELSE SegmentsBelow(Len(view.ph))
    BY DEF CompleteInv
  <2>6. pc = "done" =>
          Copied("nobits") = IF getSectionHeaders(view, fileSize).null THEN {}
                             ELSE SectionsBelow(Len(view.sh))
    BY DEF CompleteInv
  <2> QED
    BY <2>2, <2>3, <2>4, <2>5, <2>6 DEF Copied, InOrder, LoadIsComplete
<1> QED
  BY <1>1, <1>2, CompleteStep, Invariance, PTL DEF Spec

-----------------------------------------------------------------------------
(* readKernel keeps the contract of LoadContract. *)

(* How many page allocations each point of the load can have made. *)
LimitInv ==
  /\ pc \in BeforeRead => Len(allocs) = 0
  /\ pc \in {"read", "progHeaders"} => Len(allocs) <= 1
  /\ pc = "loadSegment" =>
       index <= Len(view.ph) /\ Len(allocs) <= 1 + index
  /\ pc = "loadNoBits" =>
       index <= Len(view.sh) /\ Len(allocs) <= 1 + Len(view.ph) + index
  /\ Len(allocs) <= PageAllocLimit

(* The limit is a number, and one that every file keeps to. *)
LEMMA LimitHolds ==
  /\ PageAllocLimit \in Nat /\ PageAllocLimit >= 1
  /\ \A img \in Images : 1 + Len(img.ph) + Len(img.sh) <= PageAllocLimit
<1>1. PageAllocLimit \in PageNeeds /\ \A m \in PageNeeds : m <= PageAllocLimit
  BY LargestAssumption DEF PageAllocLimit
<1>2. \A img \in Images : Len(img.ph) \in Nat /\ Len(img.sh) \in Nat
  BY ImagesAssumption DEF Image
<1>3. ASSUME NEW m \in PageNeeds PROVE m \in Nat /\ m >= 1
  <2>1. PICK img \in Images : m = 1 + Len(img.ph) + Len(img.sh)
    BY DEF PageNeeds
  <2>2. \A a, b \in Nat : 1 + a + b \in Nat /\ 1 + a + b >= 1
    OBVIOUS
  <2>3. Len(img.ph) \in Nat /\ Len(img.sh) \in Nat
    BY <1>2
  <2> QED
    BY <2>1, <2>2, <2>3
<1> QED
  BY <1>1, <1>3 DEF PageNeeds

(* Every step allocates at most once. *)
LEMMA AllocOnce ==
  ASSUME TypeOK, [Next]_vars
  PROVE  /\ Len(allocs) \in Nat
         /\ Len(allocs') \in {Len(allocs), Len(allocs) + 1}
<1>1. allocs \in Seq(Allocs) /\ Len(allocs) \in Nat
  BY DEF TypeOK
<1>2. \A a : Len(Append(allocs, a)) = Len(allocs) + 1
  BY <1>1
<1>3. CASE AllocFile
  BY <1>1, <1>2, <1>3 DEF AllocFile
<1>4. CASE LoadSegment \/ LoadNoBits
  BY <1>1, <1>2, <1>4 DEF LoadSegment, LoadNoBits, Load, Skip
<1>5. CASE allocs' = allocs
  BY <1>1, <1>5
<1> QED
  BY <1>3, <1>4, <1>5
  DEF Next, ReadFile, LoadKernel, Returned, GetVolume, OpenKernel, AllocInfo, GetInfoOk,
      GetInfoFails, GetInfoTooSmall, GiveUpInfo, CheckSize, ReadOk, ReadFails,
      GetProgramHeaders, GetSectionHeaders, NullFault, CloseKernel, vars, loadVars

(* A table has no more entries than the file has headers, null or not. *)
LEMMA TableLimit ==
  ASSUME NEW img \in Image, NEW n \in Nat
  PROVE  /\ getProgramHeaders(img, n).num <= Len(img.ph)
         /\ getSectionHeaders(img, n).num <= Len(img.sh)
<1>1. Len(img.ph) \in Nat /\ Len(img.sh) \in Nat
  BY DEF Image
<1> QED
  BY <1>1 DEF getProgramHeaders, getSectionHeaders, HeaderTable, Table

(* One allocation more stays within what the header under the counter adds. *)
LEMMA SegmentWithin ==
  ASSUME NEW a \in Nat, NEW b \in {a, a + 1}, NEW i \in Nat,
         NEW p \in Nat, NEW q \in Nat, NEW limit \in Nat, 1 + p + q <= limit,
         i < p, a <= 1 + i
  PROVE  b <= 1 + (i + 1) /\ b <= limit /\ i + 1 <= p
  OBVIOUS

LEMMA SectionWithin ==
  ASSUME NEW a \in Nat, NEW b \in {a, a + 1}, NEW i \in Nat,
         NEW p \in Nat, NEW q \in Nat, NEW limit \in Nat, 1 + p + q <= limit,
         i < q, a <= 1 + p + i
  PROVE  b <= 1 + p + (i + 1) /\ b <= limit /\ i + 1 <= q
  OBVIOUS

LEMMA LimitStep == IInv /\ LimitInv /\ [Next]_vars => LimitInv'
<1> SUFFICES ASSUME IInv, LimitInv, [Next]_vars PROVE LimitInv'
  OBVIOUS
<1>1. /\ Len(allocs) \in Nat /\ Len(allocs') \in Nat
      /\ Len(allocs') \in {Len(allocs), Len(allocs) + 1}
  BY AllocOnce DEF IInv
<1>2. /\ index \in Nat /\ view \in Images /\ view \in Image /\ fileSize \in Nat
      /\ Len(view.ph) \in Nat /\ Len(view.sh) \in Nat
  BY ViewFacts DEF IInv, TypeOK
<1>3. /\ PageAllocLimit \in Nat /\ PageAllocLimit >= 1
      /\ 1 + Len(view.ph) + Len(view.sh) <= PageAllocLimit
  BY <1>2, LimitHolds
<1>4. CASE AllocFile
  <2>1. Len(allocs) = 0 /\ pc' = "read"
    BY <1>4 DEF AllocFile, LimitInv, BeforeRead
  <2>2. Len(allocs') <= 1 /\ Len(allocs') <= PageAllocLimit
    <3>1. \A n \in {0, 0 + 1} : n <= 1 /\ n <= PageAllocLimit
      BY <1>3
    <3> QED
      BY <1>1, <2>1, <3>1
  <2> QED
    BY <2>1, <2>2 DEF LimitInv, BeforeRead, BeforeOpen, Asking
<1>5. CASE LoadSegment
  <2>1. /\ pc = "loadSegment" /\ index < Len(view.ph) /\ view' = view
        /\ \/ pc' = "failed"
           \/ pc' = pc /\ index' = index + 1
    <3>1. index < table.num /\ table.num <= Len(view.ph)
      BY <1>2, <1>5, TableLimit DEF LoadSegment, IInv, TableInv
    <3>2. table.num \in Nat
      BY DEF IInv, TypeOK, Tables
    <3>3. index < Len(view.ph)
      BY <1>2, <3>1, <3>2
    <3> QED
      BY <1>5, <3>3 DEF LoadSegment, Load, Skip, fileVars
  <2>2. Len(allocs) <= 1 + index
    BY <2>1 DEF LimitInv
  <2>3. Len(allocs') <= 1 + (index + 1) /\ Len(allocs') <= PageAllocLimit
        /\ index + 1 <= Len(view.ph)
    <3> DEFINE a == Len(allocs)
               b == Len(allocs')
               p == Len(view.ph)
               q == Len(view.sh)
    <3>1. /\ a \in Nat /\ b \in {a, a + 1} /\ index \in Nat /\ p \in Nat /\ q \in Nat
          /\ PageAllocLimit \in Nat /\ 1 + p + q <= PageAllocLimit
          /\ index < p /\ a <= 1 + index
      BY <1>1, <1>2, <1>3, <2>1, <2>2
    <3> HIDE DEF a, b, p, q
    <3>2. b <= 1 + (index + 1) /\ b <= PageAllocLimit /\ index + 1 <= p
      BY <3>1, SegmentWithin
    <3> QED
      BY <3>2 DEF b, p
  <2> QED
    BY <2>1, <2>3 DEF LimitInv, BeforeRead, BeforeOpen, Asking
<1>6. CASE LoadNoBits
  <2>1. /\ pc = "loadNoBits" /\ index < Len(view.sh) /\ view' = view
        /\ \/ pc' = "failed"
           \/ pc' = pc /\ index' = index + 1
    <3>1. index < table.num /\ table.num <= Len(view.sh)
      BY <1>2, <1>6, TableLimit DEF LoadNoBits, IInv, TableInv
    <3>2. table.num \in Nat
      BY DEF IInv, TypeOK, Tables
    <3>3. index < Len(view.sh)
      BY <1>2, <3>1, <3>2
    <3> QED
      BY <1>6, <3>3 DEF LoadNoBits, Load, Skip, fileVars
  <2>2. Len(allocs) <= 1 + Len(view.ph) + index
    BY <2>1 DEF LimitInv
  <2>3. Len(allocs') <= 1 + Len(view.ph) + (index + 1) /\ Len(allocs') <= PageAllocLimit
        /\ index + 1 <= Len(view.sh)
    <3> DEFINE a == Len(allocs)
               b == Len(allocs')
               p == Len(view.ph)
               q == Len(view.sh)
    <3>1. /\ a \in Nat /\ b \in {a, a + 1} /\ index \in Nat /\ p \in Nat /\ q \in Nat
          /\ PageAllocLimit \in Nat /\ 1 + p + q <= PageAllocLimit
          /\ index < q /\ a <= 1 + p + index
      BY <1>1, <1>2, <1>3, <2>1, <2>2
    <3> HIDE DEF a, b, p, q
    <3>2. b <= 1 + p + (index + 1) /\ b <= PageAllocLimit /\ index + 1 <= q
      BY <3>1, SectionWithin
    <3> QED
      BY <3>2 DEF b, p, q
  <2> QED
    BY <2>1, <2>3 DEF LimitInv, BeforeRead, BeforeOpen, Asking
<1>7. CASE GetProgramHeaders
  BY <1>2, <1>7 DEF GetProgramHeaders, LimitInv, BeforeRead, BeforeOpen, Asking, fileVars
<1>8. CASE GetSectionHeaders
  <2>1. /\ pc = "loadSegment" /\ pc' = "loadNoBits" /\ index' = 0 /\ view' = view
        /\ allocs' = allocs
    BY <1>8 DEF GetSectionHeaders, fileVars
  <2>2. Len(allocs) <= 1 + index /\ index <= Len(view.ph)
    BY <2>1 DEF LimitInv
  <2>3. Len(allocs) <= 1 + Len(view.ph) + 0
    BY <1>1, <1>2, <2>2
  <2> QED
    BY <1>2, <2>1, <2>3 DEF LimitInv, BeforeRead, BeforeOpen, Asking
<1>9. CASE UNCHANGED vars
  BY <1>9 DEF vars, fileVars, loadVars, LimitInv
<1>10. CASE allocs' = allocs /\ pc' \in Stopped
  BY <1>10 DEF LimitInv, Stopped, BeforeRead, BeforeOpen, Asking
<1>11. CASE allocs' = allocs /\ pc \in BeforeRead /\ pc' \in BeforeRead
  BY <1>11 DEF LimitInv, BeforeRead, BeforeOpen, Asking
<1>12. CASE ReadOk
  BY <1>12 DEF ReadOk, LimitInv, BeforeRead, BeforeOpen, Asking, loadVars
<1> QED
  BY <1>4, <1>5, <1>6, <1>7, <1>8, <1>9, <1>10, <1>11, <1>12
  DEF Next, ReadFile, LoadKernel, Returned, GetVolume, OpenKernel, AllocInfo, GetInfoOk,
      GetInfoFails, GetInfoTooSmall, GiveUpInfo, CheckSize, ReadFails,
      NullFault, CloseKernel, loadVars, Stopped, BeforeRead, BeforeOpen, Asking

(* The steps of readKernel are those of its contract: each asks for at most *)
(* one page allocation within the limit, and the step that ends the call    *)
(* leaves no pool buffer.                                                   *)
LEMMA ContractStep ==
  ASSUME IInv, LimitInv', PoolInv', [Next]_vars
  PROVE  [Contract!Next]_(Contract!contractVars)
<1>1. /\ Len(allocs) \in Nat /\ Len(allocs') \in {Len(allocs), Len(allocs) + 1}
      /\ Len(allocs') <= PageAllocLimit
  BY AllocOnce DEF IInv, LimitInv
<1>2. CASE UNCHANGED vars
  BY <1>2 DEF vars, poolVars, loadVars, Contract!contractVars
<1>3. CASE Next /\ pc \notin Stopped
  <2>1. pc' \in Stopped => pools' = {}
    BY DEF PoolInv, Asking, Stopped
  <2>2. CASE pc' \in Stopped
    <3>1. Contract!Leave
      BY <1>1, <1>3, <2>1, <2>2 DEF Contract!Leave, Stopped
    <3> QED
      BY <3>1 DEF Contract!Next
  <2>3. CASE pc' \notin Stopped
    <3>1. Contract!Ask
      BY <1>1, <1>3, <2>3 DEF Contract!Ask, Stopped
    <3> QED
      BY <3>1 DEF Contract!Next
  <2> QED
    BY <2>2, <2>3
<1>4. CASE Next /\ pc \in Stopped
  <2>1. UNCHANGED vars
    BY <1>4 DEF Next, ReadFile, LoadKernel, Returned, GetVolume, OpenKernel, AllocInfo,
      GetInfoOk, GetInfoFails, GetInfoTooSmall, GiveUpInfo, CheckSize, AllocFile, ReadOk,
      ReadFails, GetProgramHeaders, LoadSegment, GetSectionHeaders, LoadNoBits, NullFault,
      CloseKernel, Stopped
  <2> QED
    BY <1>2, <2>1
<1> QED
  BY <1>2, <1>3, <1>4

(* What efi_main relies on, but for the return itself: the firmware is      *)
(* asked for a bounded number of pages, and no pool buffer is left.         *)
THEOREM ContractKept ==
  Spec => Contract!Init /\ [][Contract!Next]_(Contract!contractVars)
<1>1. Init => Contract!Init /\ LimitInv
  <2> SUFFICES ASSUME Init PROVE Contract!Init /\ LimitInv
    OBVIOUS
  <2>1. pc = "getVolume" /\ allocs = <<>> /\ pools = {} /\ Len(allocs) = 0
    BY DEF Init
  <2>2. Contract!Init
    BY <2>1 DEF Contract!Init
  <2>3. LimitInv
    BY <2>1, LimitHolds DEF LimitInv
  <2> QED
    BY <2>2, <2>3
<1>2. IInv /\ IInv' /\ LimitInv' /\ [Next]_vars => [Contract!Next]_(Contract!contractVars)
  BY ContractStep DEF IInv
<1> QED
  BY <1>1, <1>2, LimitStep, Invariance, PTL DEF Spec

-----------------------------------------------------------------------------
(* Every step uses up one of the steps left. *)

(* A walk stops at the end of its table. *)
WalkInv == pc \in {"loadSegment", "loadNoBits"} => index <= table.num

LEMMA WalkStep == IInv /\ WalkInv /\ [Next]_vars => WalkInv'
<1> SUFFICES ASSUME IInv, WalkInv, [Next]_vars PROVE WalkInv'
  OBVIOUS
<1>1. index \in Nat /\ table.num \in Nat
  BY DEF IInv, TypeOK, Tables
<1>2. CASE LoadSegment \/ LoadNoBits
  <2>1. /\ index < table.num /\ table' = table
        /\ index' = index + 1 \/ pc' = "failed"
    BY <1>2 DEF LoadSegment, LoadNoBits, Load, Skip
  <2> QED
    BY <1>1, <2>1 DEF WalkInv
<1>3. CASE GetProgramHeaders \/ GetSectionHeaders
  <2>1. index' = 0 /\ table' \in Tables
    BY <1>3, ViewFacts, TableType DEF GetProgramHeaders, GetSectionHeaders, IInv
  <2> QED
    BY <2>1 DEF WalkInv, Tables
<1>4. CASE UNCHANGED vars
  BY <1>4 DEF vars, loadVars, WalkInv
<1>5. CASE pc' \notin {"loadSegment", "loadNoBits"}
  BY <1>5 DEF WalkInv
<1> QED
  BY <1>2, <1>3, <1>4, <1>5
  DEF Next, ReadFile, LoadKernel, Returned, GetVolume, OpenKernel, AllocInfo, GetInfoOk,
      GetInfoFails, GetInfoTooSmall, GiveUpInfo, CheckSize, AllocFile, ReadOk, ReadFails,
      NullFault, CloseKernel

(* What the measure is made of: the limit covers every file's tables. *)
StepsInv ==
  /\ PageAllocLimit \in Nat /\ NumRetries \in Nat
  /\ retries \in Nat /\ retries <= NumRetries
  /\ index \in Nat /\ table.num \in Nat
  /\ Len(view.ph) \in Nat /\ Len(view.sh) \in Nat
  /\ 1 + Len(view.ph) + Len(view.sh) <= PageAllocLimit
  /\ pc = "loadSegment" => index <= table.num /\ table.num <= Len(view.ph)
  /\ pc = "loadNoBits" => index <= table.num /\ table.num <= Len(view.sh)

LEMMA StepsFacts == IInv /\ WalkInv => StepsInv
<1> SUFFICES ASSUME IInv, WalkInv PROVE StepsInv
  OBVIOUS
<1>1. /\ view \in Images /\ view \in Image /\ fileSize \in Nat /\ index \in Nat
      /\ Len(view.ph) \in Nat /\ Len(view.sh) \in Nat
  BY ViewFacts DEF IInv, TypeOK
<1>2. /\ PageAllocLimit \in Nat /\ 1 + Len(view.ph) + Len(view.sh) <= PageAllocLimit
  BY <1>1, LimitHolds
<1>3. NumRetries \in Nat /\ retries \in Nat /\ retries <= NumRetries /\ table.num \in Nat
  BY DEF IInv, TypeOK, Tables, NumRetries
<1>4. /\ pc = "loadSegment" => index <= table.num /\ table.num <= Len(view.ph)
      /\ pc = "loadNoBits" => index <= table.num /\ table.num <= Len(view.sh)
  BY <1>1, TableLimit DEF IInv, TableInv, WalkInv
<1> QED
  BY <1>1, <1>2, <1>3, <1>4 DEF StepsInv

(* The bound never goes below 0. *)
LEMMA StepsNatural == IInv /\ WalkInv => StepsLeft \in Nat
<1> SUFFICES ASSUME IInv, WalkInv PROVE StepsLeft \in Nat
  OBVIOUS
<1> DEFINE p == Len(view.ph)
           q == Len(view.sh)
<1>1. /\ PageAllocLimit \in Nat /\ NumRetries \in Nat
      /\ retries \in Nat /\ retries <= NumRetries
      /\ index \in Nat /\ table.num \in Nat /\ p \in Nat /\ q \in Nat
      /\ pc \in {"loadSegment", "loadNoBits"} => index <= table.num
  BY StepsFacts DEF StepsInv
<1>2. StepsLeft =
        CASE pc = "getVolume" -> PageAllocLimit + NumRetries + 9
          [] pc = "open" -> PageAllocLimit + NumRetries + 8
          [] pc = "allocInfo" -> PageAllocLimit + NumRetries + 7
          [] pc = "getInfo" -> PageAllocLimit + (NumRetries - retries) + 6
          [] pc = "checkSize" -> PageAllocLimit + 5
          [] pc = "allocFile" -> PageAllocLimit + 4
          [] pc = "read" -> PageAllocLimit + 3
          [] pc = "progHeaders" -> p + q + 3
          [] pc = "loadSegment" -> (table.num - index) + q + 2
          [] pc = "loadNoBits" -> (table.num - index) + 1
          [] OTHER -> 0
  BY DEF StepsLeft
<1> HIDE DEF p, q
<1> QED
  BY <1>1, <1>2

(* The value of the bound at each label. *)
LEMMA StepsAt ==
  /\ pc = "getVolume" => StepsLeft = PageAllocLimit + NumRetries + 9
  /\ pc = "open" => StepsLeft = PageAllocLimit + NumRetries + 8
  /\ pc = "allocInfo" => StepsLeft = PageAllocLimit + NumRetries + 7
  /\ pc = "getInfo" => StepsLeft = PageAllocLimit + (NumRetries - retries) + 6
  /\ pc = "checkSize" => StepsLeft = PageAllocLimit + 5
  /\ pc = "allocFile" => StepsLeft = PageAllocLimit + 4
  /\ pc = "read" => StepsLeft = PageAllocLimit + 3
  /\ pc = "progHeaders" => StepsLeft = Len(view.ph) + Len(view.sh) + 3
  /\ pc = "loadSegment" => StepsLeft = (table.num - index) + Len(view.sh) + 2
  /\ pc = "loadNoBits" => StepsLeft = (table.num - index) + 1
  /\ pc \in Stopped => StepsLeft = 0
  BY DEF StepsLeft, Stopped

(* Before the file is read, the labels follow one another, and only the     *)
(* GetInfo loop comes back to where it was: with one retry less.            *)
LEMMA ReadUsesOne ==
  ASSUME StepsInv, StepsInv', GetVolume \/ OpenKernel \/ ReadFile
  PROVE  StepsLeft' < StepsLeft
<1>1. /\ PageAllocLimit \in Nat /\ NumRetries \in Nat
      /\ retries \in Nat /\ retries <= NumRetries
      /\ retries' \in Nat /\ retries' <= NumRetries
      /\ Len(view.ph)' \in Nat /\ Len(view.sh)' \in Nat
      /\ 1 + Len(view.ph)' + Len(view.sh)' <= PageAllocLimit
  BY DEF StepsInv
<1> DEFINE p == Len(view.ph)'
           q == Len(view.sh)'
<1>2. p \in Nat /\ q \in Nat /\ 1 + p + q <= PageAllocLimit
  BY <1>1
<1>3. /\ pc' = "open" => StepsLeft' = PageAllocLimit + NumRetries + 8
      /\ pc' = "allocInfo" => StepsLeft' = PageAllocLimit + NumRetries + 7
      /\ pc' = "getInfo" => StepsLeft' = PageAllocLimit + (NumRetries - retries') + 6
      /\ pc' = "checkSize" => StepsLeft' = PageAllocLimit + 5
      /\ pc' = "allocFile" => StepsLeft' = PageAllocLimit + 4
      /\ pc' = "read" => StepsLeft' = PageAllocLimit + 3
      /\ pc' = "progHeaders" => StepsLeft' = p + q + 3
      /\ pc' = "failed" => StepsLeft' = 0
  BY DEF StepsLeft
<1> HIDE DEF p, q
<1>4. CASE GetVolume \/ OpenKernel \/ AllocInfo
  <2>1. \/ pc = "getVolume" /\ pc' \in {"open", "failed"}
        \/ pc = "open" /\ pc' \in {"allocInfo", "failed"}
        \/ pc = "allocInfo" /\ pc' \in {"getInfo", "failed"}
    BY <1>4 DEF GetVolume, OpenKernel, AllocInfo
  <2> QED
    BY <1>1, <1>3, <2>1, StepsAt
<1>5. CASE GetInfoOk \/ GetInfoFails \/ GiveUpInfo
  <2>1. pc = "getInfo" /\ pc' \in {"checkSize", "failed"}
    BY <1>5 DEF GetInfoOk, GetInfoFails, GiveUpInfo
  <2> QED
    BY <1>1, <1>3, <2>1, StepsAt
<1>6. CASE GetInfoTooSmall
  <2>1. pc = "getInfo" /\ pc' = pc /\ retries' = retries + 1
    BY <1>6 DEF GetInfoTooSmall
  <2> QED
    BY <1>1, <1>3, <2>1, StepsAt
<1>7. CASE CheckSize \/ AllocFile
  <2>1. \/ pc = "checkSize" /\ pc' \in {"allocFile", "failed"}
        \/ pc = "allocFile" /\ pc' = "read"
    BY <1>7 DEF CheckSize, AllocFile
  <2> QED
    BY <1>1, <1>3, <2>1, StepsAt
<1>8. CASE ReadOk \/ ReadFails
  <2>1. pc = "read" /\ pc' \in {"progHeaders", "failed"}
    BY <1>8 DEF ReadOk, ReadFails
  <2> QED
    BY <1>1, <1>2, <1>3, <2>1, StepsAt
<1> QED
  BY <1>4, <1>5, <1>6, <1>7, <1>8 DEF ReadFile

(* The walks count their headers; the file the loader sees stays the same.  *)
LEMMA WalkUsesOne ==
  ASSUME StepsInv, StepsInv', LoadKernel
  PROVE  StepsLeft' < StepsLeft
<1> DEFINE p == Len(view.ph)
           q == Len(view.sh)
<1>1. /\ index \in Nat /\ table.num \in Nat /\ p \in Nat /\ q \in Nat
      /\ pc \in {"loadSegment", "loadNoBits"} => index <= table.num
  BY DEF StepsInv
<1>2. /\ table.num' \in Nat
      /\ pc' = "loadSegment" => table.num' <= Len(view.ph)'
      /\ pc' = "loadNoBits" => table.num' <= Len(view.sh)'
  BY DEF StepsInv
<1>3. view' = view
  BY DEF LoadKernel, GetProgramHeaders, LoadSegment, GetSectionHeaders, LoadNoBits,
         NullFault, CloseKernel, fileVars
<1>4. /\ pc' = "loadSegment" => StepsLeft' = (table.num' - index') + q + 2
      /\ pc' = "loadNoBits" => StepsLeft' = (table.num' - index') + 1
      /\ pc' \in Stopped => StepsLeft' = 0
  BY <1>3 DEF StepsLeft, Stopped
<1>5. /\ pc = "progHeaders" => StepsLeft = p + q + 3
      /\ pc = "loadSegment" => StepsLeft = (table.num - index) + q + 2
      /\ pc = "loadNoBits" => StepsLeft = (table.num - index) + 1
  BY StepsAt
<1>6. /\ pc' = "loadSegment" => table.num' <= p
      /\ pc' = "loadNoBits" => table.num' <= q
  BY <1>2, <1>3
<1> HIDE DEF p, q
<1>7. CASE GetProgramHeaders
  <2>1. pc = "progHeaders" /\ pc' = "loadSegment" /\ index' = 0
    BY <1>7 DEF GetProgramHeaders
  <2> QED
    BY <1>1, <1>2, <1>4, <1>5, <1>6, <2>1
<1>8. CASE GetSectionHeaders
  <2>1. pc = "loadSegment" /\ pc' = "loadNoBits" /\ index' = 0
    BY <1>8 DEF GetSectionHeaders
  <2> QED
    BY <1>1, <1>2, <1>4, <1>5, <1>6, <2>1
<1>9. CASE LoadSegment \/ LoadNoBits
  <2>1. /\ pc \in {"loadSegment", "loadNoBits"} /\ index < table.num /\ table' = table
        /\ \/ pc' = pc /\ index' = index + 1
           \/ pc' = "failed"
    BY <1>9 DEF LoadSegment, LoadNoBits, Load, Skip
  <2>2. CASE pc' = pc /\ index' = index + 1
    <3>1. table.num' = table.num
      BY <2>1
    <3> QED
      BY <1>1, <1>4, <1>5, <2>1, <2>2, <3>1
  <2>3. CASE pc' = "failed"
    BY <1>1, <1>4, <1>5, <2>1, <2>3 DEF Stopped
  <2> QED
    BY <2>1, <2>2, <2>3
<1>10. CASE NullFault \/ CloseKernel
  <2>1. pc \in {"loadSegment", "loadNoBits"} /\ pc' \in Stopped
    BY <1>10 DEF NullFault, CloseKernel, Stopped
  <2> QED
    BY <1>1, <1>4, <1>5, <2>1
<1> QED
  BY <1>7, <1>8, <1>9, <1>10 DEF LoadKernel

(* readKernel takes a bounded number of steps, whatever the firmware        *)
(* answers: the bound it starts with loses at least one with every step and *)
(* never becomes negative.                                                  *)
THEOREM StepsBounded ==
  Spec => StepsLeft = PageAllocLimit + NumRetries + 9 /\ Advances
<1>1. Init => StepsLeft = PageAllocLimit + NumRetries + 9
  BY StepsAt DEF Init
<1>2. Init => WalkInv
  BY DEF Init, WalkInv
<1>3. StepsInv /\ StepsInv' /\ StepsLeft \in Nat /\ (StepsLeft \in Nat)' /\ [Next]_vars
        => [StepsLeft' \in 0 .. StepsLeft - 1]_vars
  <2> SUFFICES ASSUME StepsInv, StepsInv', StepsLeft \in Nat, StepsLeft' \in Nat, Next
               PROVE  [StepsLeft' \in 0 .. StepsLeft - 1]_vars
    OBVIOUS
  <2>2. CASE Returned
    BY <2>2 DEF Returned
  <2>3. CASE GetVolume \/ OpenKernel \/ ReadFile \/ LoadKernel
    <3>1. StepsLeft' < StepsLeft
      BY <2>3, ReadUsesOne, WalkUsesOne
    <3> QED
      BY <3>1
  <2> QED
    BY <2>2, <2>3 DEF Next
<1> QED
  BY <1>1, <1>2, <1>3, WalkStep, StepsFacts, StepsNatural, Invariance, PTL DEF Spec, Advances
=============================================================================
