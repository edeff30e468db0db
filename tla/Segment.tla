------------------------------ MODULE Segment ------------------------------
(***************************************************************************)
(* A segment in memory and on the device: SegBase, whose records of one    *)
(* page have their data at the end of the segment, SegLatencyFriendly,     *)
(* which keeps all data inline, and loadSegKV, which reads both.  Lengths  *)
(* and offsets stand for the bytes; a slice is its two lengths.            *)
(***************************************************************************)
EXTENDS Naturals, Sequences, FiniteSets, SequencesExt

CONSTANTS Page,            (* ALIGNED_SIZE, which is the page size too     *)
          SegHeaderSize,   (* SizeOfSegOnDisk                              *)
          DataHeaderSize,  (* SizeOfDataHeader                             *)
          KeyLens, DataLens

ASSUME SegmentAssumption ==
  /\ {Page, SegHeaderSize, DataHeaderSize} \subseteq Nat \ {0}
  /\ KeyLens \subseteq Nat /\ DataLens \subseteq Nat

Slices == [key : KeyLens, data : DataLens]
Kinds == {"SegBase", "SegLatencyFriendly"}

NewSeg(kind, size) ==
  [kind |-> kind, size |-> size, head |-> SegHeaderSize, tail |-> size, list |-> <<>>]

Sum(list, F(_)) == FoldLeft(LAMBDA n, x : n + F(x), 0, list)

(* IsAlignedData, of which SegLatencyFriendly knows nothing.               *)
InTail(g, x) == g.kind = "SegBase" /\ x.data = Page

(* Mutant: an equal size is enough.                                        *)
MutTryPut(g, list) ==
  g.tail - g.head >= Sum(list, LAMBDA x : x.data + x.key + DataHeaderSize)

TryPut(g, list) ==
  g.tail - g.head > Sum(list, LAMBDA x : x.data + x.key + DataHeaderSize)

HeadNeed(g, x) == DataHeaderSize + x.key + (IF InTail(g, x) THEN 0 ELSE x.data)
TailNeed(g, x) == IF InTail(g, x) THEN Page ELSE 0

Put(g, x) == [g EXCEPT !.head = @ + HeadNeed(g, x), !.tail = @ - TailNeed(g, x),
                       !.list = Append(@, x)]
PutList(g, list) == FoldLeft(Put, g, list)

-----------------------------------------------------------------------------
(* fillEntryToSlice and copyToDataBuf. *)

Before(g, i) == SubSeq(g.list, 1, i - 1)
HeadPos(g, i) == SegHeaderSize + Sum(Before(g, i), LAMBDA x : HeadNeed(g, x))
TailPos(g, i) == g.size - Sum(SubSeq(g.list, 1, i), LAMBDA x : TailNeed(g, x))

(* Mutant: the next header is looked for behind the data, as if inline.    *)
MutEntry(g, i) ==
  LET x == g.list[i]
      inline == HeadPos(g, i) + DataHeaderSize + x.key
  IN [slice |-> x, at |-> HeadPos(g, i), next |-> inline + x.data,
      data |-> IF InTail(g, x) THEN TailPos(g, i) ELSE inline]

(* The header of the i-th slice and where it lies in the segment.          *)
Entry(g, i) ==
  LET x == g.list[i]
      inline == HeadPos(g, i) + DataHeaderSize + x.key
  IN [slice |-> x, at |-> HeadPos(g, i), next |-> HeadPos(g, i) + HeadNeed(g, x),
      data |-> IF InTail(g, x) THEN TailPos(g, i) ELSE inline]

(* Mutant: all data of whole pages share the last page.                    *)
MutDataAt(g, i) ==
  IF InTail(g, g.list[i]) THEN g.size - g.list[i].data
  ELSE HeadPos(g, i) + DataHeaderSize + g.list[i].key

(* Where copyToDataBuf puts the data of the i-th slice: offset_end goes    *)
(* down by the length of the data, offset_begin goes up.                   *)
DataAt(g, i) ==
  IF InTail(g, g.list[i])
  THEN g.size - Sum(SubSeq(g.list, 1, i), LAMBDA x : IF InTail(g, x) THEN x.data ELSE 0)
  ELSE HeadPos(g, i) + DataHeaderSize + g.list[i].key

Piece(what, i, at, len) == [what |-> what, of |-> i, at |-> at, len |-> len]

(* What copyToDataBuf writes, the memset of what is free included.         *)
Pieces(g) ==
  {Piece("segment header", 0, 0, SegHeaderSize)}
  \cup UNION {{Piece("header", i, HeadPos(g, i), DataHeaderSize),
               Piece("key", i, HeadPos(g, i) + DataHeaderSize, g.list[i].key),
               Piece("data", i, DataAt(g, i), g.list[i].data)} : i \in DOMAIN g.list}
  \cup IF g.kind = "SegBase" THEN {Piece("zeroes", 0, g.head, g.tail - g.head)} ELSE {}

(* The length _writeDataToDevice writes.                                   *)
WrittenSize(g) == IF g.kind = "SegBase" THEN g.size ELSE (g.head \div Page + 1) * Page

-----------------------------------------------------------------------------
(* loadSegKV. *)

(* The header found at an offset.                                          *)
HeaderAt(g, off) == Entry(g, CHOOSE i \in DOMAIN g.list : HeadPos(g, i) = off)

(* head_offset at the n-th turn of the loop.                               *)
HeadOffset(g, n) ==
  FoldLeft(LAMBDA off, i : HeaderAt(g, off).next, SegHeaderSize, [i \in 1 .. n - 1 |-> i])

KeyOffset(h) == h.next - h.slice.key - (IF h.slice.data = Page THEN 0 ELSE h.slice.data)

(* Does the n-th turn find the n-th slice, with its key and its data?      *)
FindsKey(g, n) ==
  KeyOffset(HeaderAt(g, HeadOffset(g, n))) = HeadPos(g, n) + DataHeaderSize
FindsData(g, n) ==
  LET h == HeaderAt(g, HeadOffset(g, n))
  IN h.at = HeadPos(g, n) /\ h.slice = g.list[n] /\ h.data = DataAt(g, n)
=============================================================================
