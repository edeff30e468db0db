---------------------------- MODULE DeviceLayout ----------------------------
(***************************************************************************)
(* Where things lie on the devices.  CreateMetaData divides the first      *)
(* device into super block, index, segment tables and segments, the others *)
(* hold segments only; DS_MultiVolume_Impl and the two tiers of            *)
(* DS_MultiTier_Impl compute their parts.  Open finds them again from the  *)
(* super block.  In between a segment is filled and written.               *)
(***************************************************************************)
EXTENDS Segment, TLC

CONSTANTS Word,          (* 2^32, the range of a uint32_t                  *)
          SBSize,        (* SB_SIZE_ONDISK                                 *)
          TimeSize, CounterSize, EntrySize, StatSize,  (* of index and SST *)
          Configs        (* what Create and Open are called with           *)

ASSUME DeviceLayoutAssumption ==
  /\ {Word, SBSize, TimeSize, CounterSize, EntrySize, StatSize} \subseteq Nat \ {0}
  /\ SBSize % Page = 0 /\ DataHeaderSize <= EntrySize
  /\ Configs \subseteq
       [store : {"MultiVolume", "MultiTier"},
        ht : 0 .. Word - 1,              (* hashtable_size                 *)
        seg : 1 .. Word - 1,             (* segment_size                   *)
        seg2 : 1 .. Word - 1,            (* secondary_seg_size             *)
        caps : Seq(Nat),                 (* the capacity of every device   *)
        slices : Nat]                    (* bound on the slices written    *)

VARIABLES phase,
          cfg,     (* the configuration in use                             *)
          sb,      (* the super block with its reserved region             *)
          cand,    (* seg_num_candidate of the volume on the first device  *)
          vols,    (* the volumes, the one on the first device first       *)
          made,    (* history: the volumes that Create made                *)
          seg      (* a segment and where it goes                          *)

vars == <<phase, cfg, sb, cand, vols, made, seg>>

NoSeg == [vol |-> 0, id |-> 0, seg |-> NewSeg("SegBase", Page)]
NoSB == [ht |-> 0, idxLen |-> 0, sstOff |-> 0, sstLen |-> 0]

Init ==
  /\ phase = "new"
  /\ cfg \in Configs
  /\ sb = NoSB /\ cand = 0 /\ vols = <<>> /\ made = <<>> /\ seg = NoSeg

Log2(n) == CHOOSE b \in 0 .. n : 2^b <= n /\ n < 2^(b + 1)
InPages(len) == (len \div Page + 1) * Page

Vol(start, size, num) == [start |-> start, size |-> size, num |-> num, bit |-> Log2(size)]

Fail == phase' = "failed" /\ UNCHANGED <<cfg, sb, cand, vols, made, seg>>

-----------------------------------------------------------------------------
(* CreateMetaData: the index. *)

(* Mutant: number is not decremented first.                                *)
MutHashSize(n) == IF n = 0 THEN 1 ELSE 2^(Log2(n) + 1) % Word

(* CalcHashSizeForPower2, which fills all bits below the highest of n - 1. *)
HashSize(n) ==
  LET below == (n + Word - 1) % Word
  IN IF below = 0 THEN 1 ELSE 2^(Log2(below) + 1) % Word

(* CalcIndexSizeOnDevice.                                                  *)
IndexSize(ht) == InPages(TimeSize + CounterSize * ht + EntrySize * ht)

HtWanted == IF cfg.ht = 0 THEN ((cfg.caps[1] \div Page) * 2) % Word ELSE cfg.ht

CreateIndex ==
  /\ phase = "new"
  /\ LET ht == HashSize(HtWanted)
     IN IF cfg.caps[1] < SBSize \/ cfg.caps[1] < SBSize + IndexSize(ht) THEN Fail
        ELSE /\ phase' = "index"
             /\ sb' = [sb EXCEPT !.ht = ht, !.idxLen = IndexSize(ht),
                                 !.sstOff = SBSize + IndexSize(ht)]
             /\ UNCHANGED <<cfg, cand, vols, made, seg>>

-----------------------------------------------------------------------------
(* CreateAllComponents. *)

PageAligned(size) == size % Page = 0
PureVols(size) == [i \in 1 .. Len(cfg.caps) - 1 |-> Vol(0, size, cfg.caps[i + 1] \div size)]
SegNum(vs) == FoldLeft(LAMBDA n, v : n + v.num, 0, vs)

Sizing(first) ==
  /\ phase' = "sizing"
  /\ vols' = first
  /\ cand' = (cfg.caps[1] - sb.sstOff) \div cfg.seg
  /\ UNCHANGED <<cfg, sb, made, seg>>

(* The pure volumes of DS_MultiVolume_Impl.                                *)
CreatePureVolumes ==
  /\ phase = "index" /\ cfg.store = "MultiVolume"
  /\ IF PageAligned(cfg.seg) THEN Sizing(PureVols(cfg.seg)) ELSE Fail

(* MediumTier::CreateVolume, and the test of FastTier::CreateVolume.       *)
CreateMediumTier ==
  /\ phase = "index" /\ cfg.store = "MultiTier"
  /\ IF PageAligned(cfg.seg2) /\ PageAligned(cfg.seg) THEN Sizing(PureVols(cfg.seg2)) ELSE Fail

(* calcSSTsLengthOnDiskBySegNum, with a number that may have wrapped.      *)
SSTsLength(n) == InPages(StatSize * (n % Word) + TimeSize)

TooLarge(n) ==
  SSTsLength(n + SegNum(vols)) + n * 2^Log2(cfg.seg) > cfg.caps[1] - sb.sstOff

(* Mutant: the candidate is not reduced.                                   *)
MutShrunk(n) == n

Shrunk(n) == (n + Word - 1) % Word

(* One turn of the loop of calcSegNumForMetaVolume or of                   *)
(* CalcSegNumForFastTierVolume, which differ in nothing.                   *)
ShrinkMetaVolume ==
  /\ phase = "sizing"
  /\ TooLarge(cand)
  /\ cand' = Shrunk(cand)
  /\ UNCHANGED <<phase, cfg, sb, vols, made, seg>>

(* The volume on the first device.                                         *)
CreateMetaVolume ==
  /\ phase = "sizing"
  /\ ~TooLarge(cand)
  /\ phase' = "created"
  /\ LET sst == SSTsLength(cand + SegNum(vols))
     IN /\ sb' = [sb EXCEPT !.sstLen = sst]
        /\ vols' = <<Vol(sb.sstOff + sst, cfg.seg, cand)>> \o vols
        /\ made' = vols'
  /\ UNCHANGED <<cfg, cand, seg>>

(* initSBReservedContentForCreate: sizes and numbers of segments and the   *)
(* paths of the devices, the volume on the first device first.             *)
Reserved == [sizes |-> [i \in DOMAIN vols |-> vols[i].size],
             nums |-> [i \in DOMAIN vols |-> vols[i].num],
             devs |-> cfg.caps]

(* zeroDeviceMetaRegion, SetSuperBlock and SetReservedContent.             *)
SetSuperBlock ==
  /\ phase = "created"
  /\ IF (SBSize + sb.idxLen + sb.sstLen) % Page # 0 THEN Fail
     ELSE /\ phase' = "up"
          /\ sb' = Reserved @@ sb
          /\ UNCHANGED <<cfg, cand, vols, made, seg>>

-----------------------------------------------------------------------------
(* Open, with another set of options and devices that need not be the same.*)

MetaStart == sb.sstOff + sb.sstLen

(* verifyTopology compares the number and the paths of the devices, which  *)
(* are their capacities here.                                              *)
SameTopology(caps) ==
  Len(caps) = Len(sb.devs) /\ \A i \in DOMAIN caps : caps[i] = sb.devs[i]

(* FastTier::OpenVolume and MediumTier::OpenVolume, or what DS_MultiVolume *)
(* does for its first volume and for the others.                           *)
Opened(i) == Vol(IF i = 1 THEN MetaStart ELSE 0, sb.sizes[i], sb.nums[i])

(* TryLoadSB reads the first device, which is taken to be the right one.   *)
Open(c) ==
  /\ phase = "up"
  /\ c.caps[1] = cfg.caps[1]
  /\ cfg' = c
  /\ IF SameTopology(c.caps)
     THEN phase' = "reopened" /\ vols' = [i \in DOMAIN sb.sizes |-> Opened(i)]
     ELSE phase' = "refused" /\ vols' = <<>>
  /\ UNCHANGED <<sb, cand, made>>
  /\ seg' = NoSeg

-----------------------------------------------------------------------------
(* A segment of a volume. *)

(* Volume: ids and offsets, the latter relative to the start of the volume.*)
SegOffset(v, id) == id * 2^v.bit
SegIdOf(v, off) == off \div 2^v.bit

(* Where a Get and the iterator look for the data of the i-th slice of the *)
(* segment: its entry has the offset of the header in the volume and that  *)
(* of the data in the segment.                                             *)
HeaderOffset(i) == SegOffset(vols[seg.vol], seg.id) + HeadPos(seg.seg, i)
DataOffsetPhy(i) ==
  LET v == vols[seg.vol] IN SegOffset(v, SegIdOf(v, HeaderOffset(i))) + Entry(seg.seg, i).data

MaxValueLen == cfg.seg - SegHeaderSize - EntrySize

NewSegment(v, id, kind) ==
  /\ phase = "up" /\ seg = NoSeg /\ cfg.slices > 0
  /\ id < vols[v].num
  /\ seg' = [vol |-> v, id |-> id, seg |-> NewSeg(kind, vols[v].size)]
  /\ UNCHANGED <<phase, cfg, sb, cand, vols, made>>

(* The first slice of a segment in ReqMerge and writeDataImmediately is    *)
(* put without a TryPut.  WriteData has refused data longer than           *)
(* maxValueLen_, in which there is no room for the key.                    *)
PutFirst(x) ==
  /\ seg.vol # 0 /\ seg.seg.list = <<>>
  /\ x.data <= MaxValueLen
  /\ seg' = [seg EXCEPT !.seg = Put(@, x)]
  /\ UNCHANGED <<phase, cfg, sb, cand, vols, made>>

Oversized ==
  seg.seg.list # <<>> /\ ~TryPut(NewSeg(seg.seg.kind, seg.seg.size), <<seg.seg.list[1]>>)
Written == seg.vol # 0 /\ ~Oversized

(* A request of a client, or a list that a merge or a migration keeps      *)
(* together.                                                               *)
PutSlices(list) ==
  /\ Written
  /\ Len(seg.seg.list) + Len(list) <= cfg.slices
  /\ \A i \in DOMAIN list : list[i].data <= MaxValueLen
  /\ TryPut(seg.seg, list)
  /\ seg' = [seg EXCEPT !.seg = PutList(@, list)]
  /\ UNCHANGED <<phase, cfg, sb, cand, vols, made>>

Next ==
  \/ CreateIndex \/ CreatePureVolumes \/ CreateMediumTier
  \/ ShrinkMetaVolume \/ CreateMetaVolume \/ SetSuperBlock
  \/ \E c \in Configs : Open(c)
  \/ \E v \in DOMAIN vols, kind \in Kinds : \E id \in 0 .. vols[v].num - 1 : NewSegment(v, id, kind)
  \/ \E x \in Slices : PutFirst(x) \/ PutSlices(<<x>>)
  \/ \E x, y \in Slices : PutSlices(<<x, y>>)

(* Create runs to its end in the thread that calls it.                     *)
Spec == Init /\ [][Next]_vars /\ WF_vars(ShrinkMetaVolume \/ CreateMetaVolume)
-----------------------------------------------------------------------------
Phases == {"new", "index", "sizing", "created", "up", "reopened", "refused", "failed"}

TypeOK ==
  /\ phase \in Phases /\ cfg \in Configs /\ cand \in 0 .. Word - 1
  /\ {sb.ht, sb.idxLen, sb.sstOff, sb.sstLen} \subseteq Nat
  /\ \A v \in DOMAIN vols : vols[v].num \in Nat /\ vols[v].size \in Nat
  /\ Oversized \/ seg.seg.head \in SegHeaderSize .. seg.seg.tail
  /\ seg.seg.tail \in 0 .. seg.seg.size

IsPower(n) == \E b \in 0 .. n : n = 2^b

(* The hash table has a slot for every entry asked for, and a power of two *)
(* of them, unless more than half of the range is asked for.               *)
HashTableLargeEnough ==
  phase # "new" /\ phase # "failed" /\ made = <<>> /\ HtWanted \in 1 .. Word \div 2 =>
    sb.ht >= HtWanted /\ IsPower(sb.ht) /\ sb.ht < 2 * HtWanted

(* Super block, index, segment tables and segments do not overlap, hold    *)
(* what they are for when the tables are full, and end with the device.    *)
RegionsHold ==
  phase \in {"up", "reopened"} =>
    /\ TimeSize + (CounterSize + EntrySize) * sb.ht <= sb.idxLen
    /\ SBSize + sb.idxLen <= sb.sstOff
    /\ TimeSize + StatSize * SegNum(vols) <= sb.sstLen
    /\ sb.sstOff + sb.sstLen <= vols[1].start
    /\ \A v \in DOMAIN vols : vols[v].start + vols[v].num * 2^vols[v].bit <= sb.devs[v]

(* A segment whose first slice fits does not reach into the next one if    *)
(* its size is a power of two.  Nothing demands that it is; only then is   *)
(* segSizeBit_ its logarithm.                                              *)
WritesStayInSegment ==
  Written /\ IsPower(vols[seg.vol].size) =>
    LET v == vols[seg.vol]
        off == SegOffset(v, seg.id)
    IN /\ off + WrittenSize(seg.seg) <= SegOffset(v, seg.id + 1)
       /\ \A i \in DOMAIN seg.seg.list : SegIdOf(v, off + HeadPos(seg.seg, i)) = seg.id

Apart(p, q) == p.at + p.len <= q.at \/ q.at + q.len <= p.at \/ p.len = 0 \/ q.len = 0

(* What is written to a segment lies in it, every piece for itself.        *)
PiecesApart ==
  Written =>
    \A p \in Pieces(seg.seg) :
      /\ p.at + p.len <= seg.seg.size
      /\ \A q \in Pieces(seg.seg) \ {p} : Apart(p, q)

(* The entries lead readers to the data that was written, again if the     *)
(* size of the segment is a power of two; and a merge or migration that    *)
(* follows the headers finds every slice: with its key too, but for a page *)
(* of data that was written inline.                                        *)
SlicesFoundAgain ==
  Written =>
    \A n \in DOMAIN seg.seg.list :
      /\ IsPower(vols[seg.vol].size) =>
           DataOffsetPhy(n) = SegOffset(vols[seg.vol], seg.id) + DataAt(seg.seg, n)
      /\ FindsData(seg.seg, n)
      /\ seg.seg.kind = "SegBase" \/ seg.seg.list[n].data # Page => FindsKey(seg.seg, n)

(* Whatever options a store is opened with, its volumes are where Create   *)
(* has put them.                                                           *)
VolumesFoundAgain == phase = "reopened" => vols = made

(* Types, the hash table and the regions of the devices, and the volumes   *)
(* that an opened store finds.                                             *)
Consistent ==
  TypeOK /\ HashTableLargeEnough /\ RegionsHold /\ VolumesFoundAgain

(* Create finds a number of segments if the tables of no segment of its    *)
(* own leave any room; otherwise the candidate wraps below 0 and the loop  *)
(* does not end.                                                           *)
SizingEnds ==
  (phase = "sizing" /\ ~TooLarge(0)) ~> phase # "sizing"
=============================================================================
