--------------------------- MODULE NvdmDataProofs ---------------------------
(***************************************************************************)
(* What NvdmStore is for, proved for any region, keys, values and bounds.  *)
(* DurInv relates the logs to the tables in RAM at every label, mid-write, *)
(* mid-transfer and mid-recovery included; it is inductive given the types *)
(* and the blocks (NvdmStoreProofs).  On it rest durable reads, exact      *)
(* accounting, the absence of asserts, the refinement of NvdmKv and the    *)
(* discipline of the status bytes.                                         *)
(***************************************************************************)
EXTENDS NvdmStoreProofs

(* The parts of DurInv. *)

\* The header in RAM that names a copy.
Header(c) == [size |-> c.val, peb |-> c.peb, off |-> c.off, seq |-> c.seq]

\* Two live copies of an item have different sequence numbers, and at most one item has two.
CopyInv ==
    /\ \A c, d \in Current : c.index = d.index <=> c.key = d.key
    /\ \A c, d \in Current : c.index = d.index /\ c # d => c.seq # d.seq
    /\ \A c, d, x, y \in Current :
          c.index = d.index /\ c # d /\ x.index = y.index /\ x # y => c \in {x, y}

\* A second live copy exists only between the commit of a write and the discard of
\* the copy it replaces, or after a power failure there, until the scan meets it.
NoPairs == \A c, d \in Current : c.index = d.index => c = d
PairLabels == FinalLabels \ {"delete_old"}
PairInv == pc \in PairLabels \/ (pc = "item_scan" /\ scan.abnormal) => NoPairs

\* The tables in RAM are empty until the logs are scanned.
BootInv ==
    pc \in {"off", "peb_scan", "peb_empty", "peb_count"} =>
        /\ \A i \in Indexes : items[i] = NoItem
        /\ sum = 0 /\ wseq = 0
        /\ \A p \in Pebs : info[p].free = 0 /\ info[p].dirty = 0
        /\ scan.pos = 1 /\ scan.dirty = 0 /\ scan.valid = 0 /\ ~scan.abnormal

\* Where a copy stands in a scan, a transfer or a write under way.
AtWriting == pc \in WritingLabels
AtMigrate == pc \in {"migrate", "copied"}
Scanned(c) == c.peb < scan.peb \/ (c.peb = scan.peb /\ c.off < scan.dirty + scan.valid)
Passed(c) == \E n \in DOMAIN gc.src :
        /\ c.peb = gc.src[n]
        /\ n < gc.cur \/ (n = gc.cur /\ c.off < Place(log[Source], gc.pos))
Aside(c) == c.peb = Source /\ c.off = SourceItem.off
IsOld(c) == c.peb = w.oldPeb /\ c.off = w.oldOff

\* The copies the table of headers stands for.
View ==
    CASE pc = "item_scan" -> {c \in Current : Scanned(c)}
      [] AtWriting -> {c \in Current : c.index # w.index}
      [] pc = "delete_old" -> {c \in Current : ~IsOld(c)}
      [] pc = "migrate" -> {c \in Stored : c.peb = gc.dst \/ (Live(c.peb) /\ ~Passed(c))}
      [] pc = "copied" ->
            {c \in Stored : c.peb = gc.dst \/ (Live(c.peb) /\ ~Passed(c) /\ ~Aside(c))}
      [] OTHER -> Current
Pending ==
    CASE AtWriting -> {w.index} [] pc = "copied" -> {SourceItem.index} [] OTHER -> {}

\* The table t stands for the copies V, but for the indexes P in transit; n is the
\* highest sequence number in use.
Present(t) == {i \in Indexes : t[i].size # 0}
Mirrors(V, t, n, P) ==
    /\ \A c \in V : t[c.index] = Header(c) /\ c.seq <= n
    /\ \A i \in Indexes : t[i].size # 0 => i \in P \/ \E c \in V : c.index = i
    /\ \A i \in Indexes : t[i].size = 0 <=> t[i].seq = NoSeq
TableInv ==
    pc \in FinalLabels \cup {"item_scan"} =>
        Mirrors(View, items, wseq, Pending) /\ sum = Cardinality(Present(items))

\* From the name search to the allocation, collections included, the header a write
\* will take is that of its key, or a free one if there is one.
AimInv ==
    pc \in {"alloc"} \cup CollectLabels /\ req # NoReq =>
        IF w.append
        THEN /\ \A c \in Current : c.key # req.key
             /\ Present(items) # Indexes => items[w.index].size = 0
        ELSE /\ \A c \in Current : c.index = w.index <=> c.key = req.key
             /\ items[w.index].size # 0

\* The item a write appends and the header that names it from Allocate on.
NewItem(status) == [status |-> status, off |-> w.off, key |-> req.key, index |-> w.index,
                    seq |-> wseq, val |-> req.val]
NewHeader == [size |-> req.val, peb |-> w.peb, off |-> w.off, seq |-> wseq]
\* The item being written is the newest of its index; its predecessor is the old copy.
Replaces ==
    /\ items[w.index] = NewHeader /\ wseq # NoSeq
    /\ \A c \in Current :
          /\ c.index = w.index <=> c.key = req.key
          /\ c.index = w.index => ~w.append /\ IsOld(c)
          /\ c.seq < wseq
    /\ ~w.append => \E c \in Current : c.index = w.index
    /\ info[w.peb].free = Capacity - w.off - Footprint(req.val)
    /\ w.fresh => \A c \in Stored : c.peb = w.peb => c.off = w.off
WriteInv ==
    /\ AtWriting => Replaces
    /\ pc = "writing" => ~Torn(log[w.peb]) /\ w.off = End(log[w.peb])
    /\ pc \in {"valid", "peb_actived"} =>
          /\ log[w.peb] # <<>>
          /\ log[w.peb][Len(log[w.peb])] = NewItem(IF pc = "valid" THEN ItemWriting ELSE ItemValid)
    /\ pc = "delete_old" =>
          /\ items[w.index] = NewHeader
          /\ \E c, d \in Current : /\ c.key = req.key /\ c.index = w.index /\ Header(c) = NewHeader
                                   /\ IsOld(d) /\ d.index = w.index /\ d.seq < c.seq

\* The transfer: what is behind the cursor of the sources and what is in the target
\* are the same items.
Alike(c, d) == c.index = d.index /\ c.key = d.key /\ c.seq = d.seq /\ c.val = d.val
MoveInv ==
    /\ pc = "transfering" => /\ log[gc.dst] = <<>> /\ gc.off = 0 /\ gc.cur = 1 /\ gc.pos = 1
                             /\ info[gc.dst].free = Capacity
    /\ AtMigrate =>
        /\ \A c \in Stored : Passed(c) => \E d \in Stored : d.peb = gc.dst /\ Alike(c, d)
        /\ \A d \in Stored : d.peb = gc.dst => \E c \in Stored : Passed(c) /\ Alike(c, d)
        /\ info[gc.dst].free = Capacity - gc.off
        /\ gc.cur \in DOMAIN gc.src => gc.pos <= Len(log[Source]) + 1
        /\ gc.cur \notin DOMAIN gc.src => gc.pos = 1
    /\ pc = "migrate" => gc.off = End(log[gc.dst]) /\ ~Torn(log[gc.dst])
    /\ pc = "copied" =>
        /\ SourceItem.status = ItemValid /\ SourceItem.seq <= wseq
        /\ log[gc.dst] # <<>>
        /\ log[gc.dst][Len(log[gc.dst])] = [SourceItem EXCEPT !.status = ItemWriting, !.off = gc.off]
        /\ items[SourceItem.index] = [size |-> SourceItem.val, peb |-> gc.dst, off |-> gc.off,
                                      seq |-> SourceItem.seq]
\* Blocks are erased only without current copies, and each block once.
Injective(s) == \A i, j \in DOMAIN s : s[i] = s[j] => i = j
SourceInv ==
    /\ pc \in ReclaimLabels /\ gc.then \in {"alloc", "init"} =>
          \A c \in Current : c.peb \notin Sources
    /\ pc \in CollectLabels => Injective(gc.src)
    /\ Injective(scan.reclaiming)

\* The free pointer of a live block: the end of its log, or none behind a torn write.
Closed(p) == info[p].free = 0
Clean(p) == info[p].free = Capacity - End(log[p]) /\ ~Torn(log[p])
OpenAt(p) == Closed(p) \/ Clean(p)
BeingWritten(p) == AtWriting /\ p = w.peb
RoomAtEnd == \A p \in Pebs : Known(p) /\ Live(p) /\ ~BeingWritten(p) => OpenAt(p)
SpareClean == \A p \in Pebs : Known(p) /\ info[p].reserved => info[p].dirty = 0
\* The running sums of the scan are the place it has reached.
ScanSpace ==
    pc = "item_scan" =>
        /\ \A p \in Pebs : p > scan.peb => info[p].free = 0 /\ info[p].dirty = 0
        /\ scan.peb \in Pebs =>
              /\ info[scan.peb].free = 0 /\ info[scan.peb].dirty = scan.dirty
              /\ IF Live(scan.peb)
                 THEN /\ scan.pos <= Len(log[scan.peb]) + 1
                      /\ \A j \in DOMAIN log[scan.peb] :
                            log[scan.peb][j].status = ItemWriting => j >= scan.pos
                      /\ scan.dirty + scan.valid = Place(log[scan.peb], scan.pos)
                 ELSE scan.pos = 1 /\ scan.dirty = 0 /\ scan.valid = 0
        /\ scan.peb \notin Pebs => scan.pos = 1 /\ scan.dirty = 0 /\ scan.valid = 0
FreeInv == RoomAtEnd /\ SpareClean /\ ScanSpace
\* The valid size RAM knows of a block is that of its valid items, but for the item
\* a write has allocated and not committed.
Tracked(p) ==
    \/ Live(p)
    \/ BeingWritten(p)
    \/ pc \in {"transfering", "migrate", "copied"} /\ p = gc.dst
Foot(l) == [j \in DOMAIN l |-> Footprint(l[j].val)]
ValidBelow(l, n) == SumOver({j \in DOMAIN l : j < n /\ l[j].status = ItemValid}, Foot(l))
InFlight(p) == IF pc \in {"writing", "valid"} /\ p = w.peb THEN Footprint(req.val) ELSE 0
ValidExact ==
    \A p \in Pebs : Known(p) /\ Tracked(p) => ValidIn(p) = ValidBytes(p) + InFlight(p)
ValidSoFar ==
    pc = "item_scan" /\ scan.peb \in Pebs /\ Live(scan.peb) =>
        scan.valid = ValidBelow(log[scan.peb], scan.pos)
ValidInv == ValidExact /\ ValidSoFar

\* The inductive invariant of the data, given the types and the blocks.
DurInv ==
    /\ LogInv /\ HeaderInv /\ CopyInv /\ PairInv /\ BootInv /\ TableInv /\ AimInv /\ WriteInv
    /\ MoveInv /\ SourceInv /\ FreeInv /\ ValidInv

-----------------------------------------------------------------------------
(* What rests on it. *)

\* Only a delete call has something to report before it ends.
DoneInv == pc \notin {"delete", "assert"} => ~deleted
\* g_valid_data_size counts the table of headers.
TableBytes == [i \in Indexes |-> IF items[i].size = 0 THEN 0 ELSE Footprint(items[i].size)]
TotalInv ==
    pc \in FinalLabels \ {"init", "held"} /\ ~(pc \in CollectLabels /\ req = NoReq) =>
        vsize = SumOver(Indexes, TableBytes)

Whole == TypeOK /\ Located /\ BlockInv /\ DurInv
LEMMA WholeParts ==
    ASSUME Whole
    PROVE  /\ TypeOK /\ Located /\ BlockInv
           /\ LogInv /\ HeaderInv /\ CopyInv /\ PairInv /\ BootInv /\ TableInv /\ AimInv
           /\ WriteInv /\ MoveInv /\ SourceInv /\ FreeInv /\ ValidInv
BY DEF Whole, DurInv

-----------------------------------------------------------------------------
(* Which blocks are live. *)
LEMMA LiveSame ==
    ASSUME MarksNone
    PROVE  \A p \in Pebs : Live(p)' <=> Live(p)
BY DEF Live, MarksNone

LEMMA LiveMarks ==
    ASSUME NEW x \in Pebs, NEW s, Marks(x, s), Status(x) # PebTransfered, s # PebTransfered
    PROVE  /\ \A p \in Pebs \ {x} : Live(p)' <=> Live(p)
           /\ s \notin {PebActived, PebReclaiming} => ~Live(x)'
<1>1. (\A q \in Pebs : hdr'[q].status # PebTransfered) <=> (\A q \in Pebs : hdr[q].status # PebTransfered)
  BY DEF Marks, Status
<1>2. \A p \in Pebs \ {x} : Live(p)' <=> Live(p)
  BY <1>1 DEF Live, Marks
<1>3. hdr'[x].status = s BY DEF Marks
<1> QED BY <1>2, <1>3 DEF Live

LEMMA NotLive ==
    \A p \in Pebs : Status(p) \notin {PebActived, PebTransfered, PebReclaiming} => ~Live(p)
BY DEF Live, Status

LEMMA CurrentIs ==
    \A c : c \in Current <=> c \in Stored /\ Live(c.peb)
BY DEF Current

LEMMA CurrentFields ==
    ASSUME TypeOK, LogInv
    PROVE  /\ \A c \in Current :
                 /\ c.peb \in Pebs /\ c.off \in Int /\ c.key \in Keys /\ c.index \in Indexes
                 /\ c.seq \in Nat \ {0} /\ c.val \in Values
           /\ \A c, d \in Current : c.peb = d.peb /\ c.off = d.off => c = d
BY StoredFields DEF Current

\* A step that concerns one block, which is not live, or has no copies.
LEMMA CurrentKept ==
    ASSUME TypeOK, LogInv, TypeOK', LogInv', NEW x \in Pebs,
           \A p \in Pebs \ {x} : Live(p)' <=> Live(p),
           \A c : c.peb # x => (c \in Stored' <=> c \in Stored),
           \A c \in Current : c.peb # x,
           ~Live(x)'
    PROVE  Current' = Current
<1>1. ASSUME NEW c \in Current PROVE c \in Current'
  <2>1. c \in Stored /\ Live(c.peb) /\ c.peb # x /\ c.peb \in Pebs
    BY <1>1, CurrentIs, CurrentFields
  <2>2. c \in Stored' /\ Live(c.peb)' BY <2>1
  <2> QED BY <2>2 DEF Current
<1>2. ASSUME NEW c \in Current' PROVE c \in Current
  <2>1. c \in Stored' /\ Live(c.peb)' BY <1>2 DEF Current
  <2>2. c.peb \in Pebs
    <3>1. PICK p \in Pebs : c \in CopiesIn(log'[p], p) BY <2>1 DEF Stored
    <3>2. log'[p] \in Seq(Items) /\ Laid(log'[p])
      <4>1. log' \in [Pebs -> Seq(Items)] BY DEF TypeOK
      <4> QED BY <4>1 DEF LogInv
    <3> QED BY <3>1, <3>2, CopyFields
  <2>3. c.peb # x BY <2>1
  <2> QED BY <2>1, <2>2, <2>3, CurrentIs
<1> QED BY <1>1, <1>2

LEMMA CurrentAsBefore ==
    ASSUME TypeOK, LogInv, Stored' = Stored, \A p \in Pebs : Live(p)' <=> Live(p)
    PROVE  Current' = Current
<1>1. \A c \in Stored : c.peb \in Pebs BY StoredFields
<1> QED BY <1>1 DEF Current

\* A block that is not live has no current copies.
LEMMA NotCurrent ==
    ASSUME NEW x, ~Live(x)
    PROVE  \A c \in Current : c.peb # x
BY DEF Current

\* A block is marked, erased or taken while it is not live.
LEMMA SpareMarked ==
    ASSUME TypeOK, LogInv, TypeOK', NEW x \in Pebs, NEW s,
           SetPebStatus(x, s) \/ (Activate(x) /\ s = PebActiving), s \in PebStatus,
           Status(x) # PebTransfered, s \notin {PebTransfered, PebActived, PebReclaiming},
           \A c \in Current : c.peb # x
    PROVE  /\ LogInv' /\ Stored' = Stored /\ Current' = Current
           /\ ~Live(x)' /\ \A p \in Pebs : Live(p)' => Live(p)
<1>1. log' = log BY DEF SetPebStatus, Activate
<1>2. LogInv' /\ Stored' = Stored BY <1>1, LogSame
<1>3. Marks(x, s) BY MarkFacts
<1>4. (\A p \in Pebs \ {x} : Live(p)' <=> Live(p)) /\ ~Live(x)' BY <1>3, LiveMarks
<1> QED BY <1>2, <1>4, CurrentKept

LEMMA SpareErased ==
    ASSUME TypeOK, LogInv, TypeOK', NEW x \in Pebs, NEW n, EraseAndFormat(x, n),
           Status(x) # PebTransfered, \A c \in Current : c.peb # x
    PROVE  /\ LogInv' /\ Stored' = {c \in Stored : c.peb # x} /\ Current' = Current
           /\ ~Live(x)' /\ \A p \in Pebs : Live(p)' => Live(p)
<1>1. LogInv' /\ Stored' = {c \in Stored : c.peb # x} BY LogErased
<1>2. Marks(x, PebVirgin) BY MarkFacts
<1>3. (\A p \in Pebs \ {x} : Live(p)' <=> Live(p)) /\ ~Live(x)'
  BY <1>2, LiveMarks, StatusFacts
<1> QED BY <1>1, <1>3, CurrentKept

LEMMA ClassifyCurrent ==
    ASSUME Whole, TypeOK', Classify
    PROVE  LogInv' /\ Current' = Current
<1> USE WholeParts
<1>0. {PebActiving, PebVirgin, PebErasing, PebEmpty} \cap {PebActived, PebTransfered, PebReclaiming} = {}
  BY StatusFacts
<1>1. CASE ScanActiving \/ ScanUnknown
  <2>1. /\ scan.peb \in Pebs /\ \E n : EraseAndFormat(scan.peb, n)
        /\ Status(scan.peb) \in {PebActiving, PebVirgin, PebErasing}
    BY <1>1, NextPebType DEF ScanActiving, ScanUnknown, Scanning, Status
  <2>2. \A c \in Current : c.peb # scan.peb BY <1>0, <2>1, NotLive, NotCurrent
  <2> QED BY <1>0, <2>1, <2>2, SpareErased
<1>2. CASE ScanActivingEmpty
  <2>1. /\ scan.peb \in Pebs /\ SetPebStatus(scan.peb, PebEmpty)
        /\ Status(scan.peb) = PebVirgin
    BY <1>2 DEF ScanActivingEmpty, Located, BlockInv, ScanInv
  <2>2. \A c \in Current : c.peb # scan.peb BY <1>0, <2>1, NotLive, NotCurrent
  <2>3. PebEmpty \in PebStatus BY DEF PebStatus
  <2> QED BY <1>0, <2>1, <2>2, <2>3, SpareMarked
<1>3. CASE \/ ScanTransfering \/ ScanTransfered \/ ScanReclaiming \/ ScanActived \/ ScanEmpty
           \/ ScanMean \/ AllFormatted
  <2>1. UNCHANGED flash
    BY <1>3 DEF ScanTransfering, ScanTransfered, ScanReclaiming, ScanActived, ScanEmpty,
                ScanKnown, ScanMean, AllFormatted
  <2>2. MarksNone /\ log' = log BY <2>1 DEF flash, MarksNone
  <2> QED BY <2>2, LiveSame, LogSame, CurrentAsBefore
<1>4. CASE FormatUnknown
  <2>1. pc = "peb_count" /\ Unknown # {} BY <1>4 DEF FormatUnknown
  <2>2. PICK x \in Unknown :
          hdr' = [hdr EXCEPT ![x].count = scan.mean, ![x].status = PebEmpty] /\ log' = log
    <3>1. Unknown \subseteq Nat BY PebFacts DEF Unknown
    <3>2. Lowest(Unknown) \in Unknown BY <2>1, <3>1, LowestMember
    <3> QED BY <1>4, <3>2 DEF FormatUnknown
  <2>3. x \in Pebs /\ info[x].count = NoCount BY <2>2 DEF Unknown
  <2>4. Status(x) \in {PebVirgin, PebEmpty}
    BY <2>1, <2>3 DEF BlockInv, ScanInv, Classified
  <2>5. Marks(x, PebEmpty) BY <2>2, <2>3, Shapes DEF Marks, Headers
  <2>6. (\A p \in Pebs \ {x} : Live(p)' <=> Live(p)) /\ ~Live(x)'
    BY <1>0, <2>3, <2>4, <2>5, LiveMarks
  <2>7. \A c \in Current : c.peb # x BY <1>0, <2>3, <2>4, NotLive, NotCurrent
  <2>8. LogInv' /\ Stored' = Stored BY <2>2, LogSame
  <2> QED BY <2>3, <2>6, <2>7, <2>8, CurrentKept
<1> QED BY <1>1, <1>2, <1>3, <1>4 DEF Classify

LEMMA SameFlash ==
    ASSUME Whole, hdr' = hdr, log' = log
    PROVE  LogInv' /\ Stored' = Stored /\ Current' = Current
<1> USE WholeParts
<1>1. MarksNone BY DEF MarksNone
<1> QED BY <1>1, LiveSame, LogSame, CurrentAsBefore

LEMMA StillCurrent ==
    ASSUME Whole, Still
    PROVE  LogInv' /\ Stored' = Stored /\ Current' = Current
BY WholeParts, StillFacts, SameFlash

LEMMA PowerCurrent ==
    ASSUME Whole, PowerOn \/ PowerLoss
    PROVE  LogInv' /\ Stored' = Stored /\ Current' = Current
BY SameFlash DEF PowerOn, PowerLoss, flash

\* The marks that do not change what is live.
LEMMA MarkReclaimingCurrent ==
    ASSUME Whole, MarkReclaiming
    PROVE  /\ LogInv' /\ Stored' = Stored /\ Current' = Current /\ log' = log
           /\ \A p \in Pebs : Live(p)' => Live(p)
<1> USE WholeParts
<1>1. Source \in Pebs /\ pc = "mark" /\ gc.cur \in DOMAIN gc.src /\ SetPebStatus(Source, PebReclaiming)
  BY SourceType DEF MarkReclaiming, AtSource
<1>2. PICK x \in Pebs : x = Source BY <1>1
<1>3. Apart(Sources) /\ NotReserved(Sources) /\ \A p \in Sources : Status(p) \in {PebActived, PebReclaiming}
  BY <1>1 DEF BlockInv, MarkInv
<1>4. x \in Sources BY <1>1, <1>2, SourcesType DEF Source
<1>5. \A p \in Pebs : Status(p) # PebTransfered
  BY <1>3, StatusFacts DEF Apart
<1>6. Marks(x, PebReclaiming) /\ log' = log
  <2>1. PebReclaiming \in PebStatus BY DEF PebStatus
  <2> QED BY <1>1, <1>2, <2>1, MarkFacts DEF SetPebStatus
<1>7. \A p \in Pebs \ {x} : Live(p)' <=> Live(p)
  BY <1>5, <1>6, LiveMarks, StatusFacts
<1>8. Live(x) BY <1>3, <1>4, <1>5 DEF Live, Status
<1>9. Live(x)' BY <1>5, <1>6, StatusFacts DEF Live, Marks, Status
<1> QED BY <1>6, <1>7, <1>8, <1>9, LogSame, CurrentAsBefore

LEMMA TargetActivedCurrent ==
    ASSUME Whole, TargetActived
    PROVE  /\ LogInv' /\ Stored' = Stored /\ Current' = Current /\ log' = log
           /\ \A p \in Pebs : Live(p)' => Live(p)
<1> USE WholeParts
<1>1. PICK x \in Pebs : x = gc.dst BY DEF TargetActived, Located
<1>2. Status(x) = PebTransfered /\ Apart({x}) BY <1>1 DEF TargetActived, BlockInv, ActivedInv
<1>3. Marks(x, PebActived) /\ log' = log
  <2>1. PebActived \in PebStatus BY DEF PebStatus
  <2> QED BY <1>1, <2>1, MarkFacts DEF TargetActived, SetPebStatus
<1>4. \A p \in Pebs \ {x} : Status(p) \in {PebEmpty, PebActived} BY <1>2 DEF Apart
<1>5. \A p \in Pebs : Live(p) <=> p = x \/ Status(p) = PebActived
  BY <1>2, <1>4, StatusFacts DEF Live, Status
<1>6. \A p \in Pebs : Live(p)' <=> p = x \/ Status(p) = PebActived
  BY <1>3, <1>4, StatusFacts DEF Live, Status, Marks
<1> QED BY <1>3, <1>5, <1>6, LogSame, CurrentAsBefore

LEMMA PickTargetCurrent ==
    ASSUME Whole, TypeOK', PickTarget
    PROVE  /\ LogInv' /\ Stored' = Stored /\ Current' = Current /\ log' = log
           /\ \A p \in Pebs : Live(p)' => Live(p)
<1> USE WholeParts
<1>1. pc = "mark" /\ Reserved # {}
  BY DEF PickTarget, AfterSources, BlockInv, MarkInv
<1>2. PICK x \in Reserved : x = Least(Reserved, EraseCount) BY <1>1, LeastReserved
<1>3. Activate(x) /\ x \in Pebs /\ info[x].reserved
  BY <1>1, <1>2 DEF PickTarget, Reserved
<1>4. Status(x) = PebEmpty
  <2>1. Apart(Sources) /\ NotReserved(Sources) BY <1>1 DEF BlockInv, MarkInv
  <2> QED BY <1>3, <2>1 DEF Apart, NotReserved
<1>5. \A c \in Current : c.peb # x BY <1>3, <1>4, StatusFacts, NotLive, NotCurrent
<1>6. PebActiving \in PebStatus /\ PebActiving \notin {PebTransfered, PebActived, PebReclaiming}
      /\ Status(x) # PebTransfered
  BY <1>4, StatusFacts DEF PebStatus
<1>7. log' = log BY <1>3 DEF Activate
<1> QED BY <1>3, <1>5, <1>6, <1>7, SpareMarked

LEMMA StartTransferCurrent ==
    ASSUME Whole, TypeOK', StartTransfer
    PROVE  /\ LogInv' /\ Stored' = Stored /\ Current' = Current /\ log' = log
           /\ \A p \in Pebs : Live(p)' => Live(p)
<1> USE WholeParts
<1>1. PICK x \in Pebs : x = gc.dst BY DEF StartTransfer, Located
<1>2. SetPebStatus(x, PebTransfering) /\ Status(x) = PebActiving
  BY <1>1 DEF StartTransfer, BlockInv, TransferInv
<1>3. \A c \in Current : c.peb # x BY <1>2, StatusFacts, NotLive, NotCurrent
<1>4. /\ PebTransfering \in PebStatus
      /\ PebTransfering \notin {PebTransfered, PebActived, PebReclaiming}
      /\ Status(x) # PebTransfered
  BY <1>2, StatusFacts DEF PebStatus
<1>5. log' = log BY <1>2 DEF SetPebStatus
<1> QED BY <1>2, <1>3, <1>4, <1>5, SpareMarked

LEMMA ReclaimCurrent ==
    ASSUME Whole, TypeOK', Reclaim
    PROVE  /\ LogInv' /\ Stored' = Stored /\ Current' = Current /\ log' = log
           /\ \A p \in Pebs : Live(p)' => Live(p)
<1> USE WholeParts
<1>1. Source \in Pebs /\ pc = "reclaim" /\ gc.cur \in DOMAIN gc.src /\ SetPebStatus(Source, PebErasing)
  BY SourceType DEF Reclaim, AtSource
<1>2. PICK x \in Pebs : x = Source BY <1>1
<1>3. x \in Sources /\ pc \in ReclaimLabels /\ Opened = {}
  BY <1>1, <1>2, SourcesType DEF Source, ReclaimLabels, Opened
<1>4. Status(x) # PebTransfered /\ \A c \in Current : c.peb # x
  <2>1. CASE info[x].reserved
    BY <1>3, <2>1, Reclaiming, StatusFacts, NotLive, NotCurrent
  <2>2. CASE ~info[x].reserved /\ gc.then \in {"alloc", "init"}
    BY <1>3, <2>2, Reclaiming, StatusFacts DEF SourceInv
  <2>3. CASE ~info[x].reserved /\ gc.then = "actived"
    <3>1. Status(x) = PebReclaiming /\ gc.dst \in Pebs /\ Status(gc.dst) = PebTransfered
      BY <1>3, <2>3, Reclaiming
    <3>2. ~Live(x) BY <3>1, StatusFacts DEF Live, Status
    <3> QED BY <3>1, <3>2, StatusFacts, NotCurrent
  <2>4. CASE ~info[x].reserved /\ gc.then = "relocate"
    BY <1>3, <2>4, Reclaiming, StatusFacts, NotLive, NotCurrent
  <2> QED BY <1>3, <2>1, <2>2, <2>3, <2>4, Reclaiming
<1>5. PebErasing \in PebStatus /\ PebErasing \notin {PebTransfered, PebActived, PebReclaiming}
  BY StatusFacts DEF PebStatus
<1>6. log' = log BY <1>1 DEF SetPebStatus
<1> QED BY <1>1, <1>2, <1>4, <1>5, <1>6, SpareMarked

LEMMA ErasedCurrent ==
    ASSUME Whole, TypeOK', Erase \/ MarkEmpty
    PROVE  /\ LogInv' /\ Current' = Current
           /\ ~Live(Source) /\ \A p \in Pebs : Live(p)' => Live(p)
<1> USE WholeParts
<1>1. pc \in {"erase", "empty"} /\ Source \in Pebs BY SourceInDomain DEF Erase, MarkEmpty, Located
<1>2. PICK x \in Pebs : x = Source BY <1>1
<1>3. Status(x) = IF pc = "erase" THEN PebErasing ELSE PebVirgin
  BY <1>1, <1>2 DEF BlockInv, ReclaimInv, ReclaimLabels
<1>4. Status(x) # PebTransfered /\ \A c \in Current : c.peb # x
  BY <1>3, StatusFacts, NotLive, NotCurrent
<1>0. ~Live(Source) BY <1>2, <1>3, StatusFacts, NotLive
<1>5. CASE Erase
  <2>1. \E n : EraseAndFormat(x, n) BY <1>2, <1>5 DEF Erase
  <2> QED BY <1>0, <1>4, <2>1, SpareErased
<1>6. CASE MarkEmpty
  <2>1. SetPebStatus(x, PebEmpty) BY <1>2, <1>6 DEF MarkEmpty
  <2>2. PebEmpty \in PebStatus /\ PebEmpty \notin {PebTransfered, PebActived, PebReclaiming}
    BY StatusFacts DEF PebStatus
  <2> QED BY <1>0, <1>4, <2>1, <2>2, SpareMarked
<1> QED BY <1>0, <1>5, <1>6

\* A step that discards one copy.
LEMMA DiscardCurrent ==
    ASSUME TypeOK, LogInv, NEW x \in Pebs, NEW off, Discard(x, off)
    PROVE  /\ LogInv' /\ hdr' = hdr
           /\ Stored' = {c \in Stored : ~(c.peb = x /\ c.off = off)}
           /\ Current' = {c \in Current : ~(c.peb = x /\ c.off = off)}
           /\ \A p \in Pebs : Live(p)' <=> Live(p)
<1>1. /\ LogInv' /\ Stored' = {c \in Stored : ~(c.peb = x /\ c.off = off)} /\ hdr' = hdr
  BY LogDiscarded
<1>2. MarksNone BY <1>1 DEF MarksNone
<1>3. \A p \in Pebs : Live(p)' <=> Live(p) BY <1>2, LiveSame
<1>4. \A c \in Stored : c.peb \in Pebs BY StoredFields
<1>5. Current' = {c \in Current : ~(c.peb = x /\ c.off = off)}
  BY <1>1, <1>3, <1>4 DEF Current
<1> QED BY <1>1, <1>3, <1>5

-----------------------------------------------------------------------------
(* The transfer. *)
LEMMA SourceItemFacts ==
    ASSUME Whole, Migrating, SourceHasItem
    PROVE  /\ gc.cur \in DOMAIN gc.src /\ Source \in Pebs /\ gc.pos \in DOMAIN log[Source]
           /\ SourceItem \in Items
           /\ SourceItem.status = ItemValid => SourceItem.key \in Keys /\ SourceItem.seq # NoSeq
<1> USE WholeParts
<1>1. gc.cur \in DOMAIN gc.src /\ Source \in Pebs BY SourceType DEF Migrating, AtSource
<1>2. log[Source] \in Seq(Items) /\ Laid(log[Source]) BY <1>1, Shapes DEF LogInv
<1>3. gc.pos \in DOMAIN log[Source] BY <1>2, LocalFields DEF SourceHasItem
<1>4. SourceItem \in Items BY <1>2, <1>3 DEF SourceItem
<1> QED BY <1>1, <1>2, <1>3, <1>4 DEF SourceItem, Laid, Keyed

LEMMA CopyItemCurrent ==
    ASSUME Whole, CopyItem
    PROVE  /\ LogInv' /\ Stored' = Stored /\ Current' = Current /\ hdr' = hdr
           /\ \A p \in Pebs \ {gc.dst} : log'[p] = log[p]
           /\ log'[gc.dst] = Append(log[gc.dst], [SourceItem EXCEPT !.status = ItemWriting, !.off = gc.off])
<1> USE WholeParts
<1>1. gc.dst \in Pebs /\ pc = "migrate" BY CopiedTo DEF CopyItem, Migrating, AtSource
<1>2. SourceItem \in Items BY SourceItemFacts DEF CopyItem
<1> DEFINE item == [SourceItem EXCEPT !.status = ItemWriting, !.off = gc.off]
<1>3. item \in Items /\ item.status = ItemWriting /\ item.off = gc.off
  BY <1>2, LocalFields, ItemCodes DEF Items
<1>4. Append1(gc.dst, item) /\ hdr' = hdr BY DEF CopyItem, Append1
<1>5. gc.off = End(log[gc.dst]) /\ ~Torn(log[gc.dst]) BY <1>1 DEF MoveInv
<1> HIDE DEF item
<1>6. /\ LogInv' /\ Stored' = Stored /\ \A p \in Pebs \ {gc.dst} : log'[p] = log[p]
      /\ log'[gc.dst] = Append(log[gc.dst], item)
  BY <1>1, <1>3, <1>4, <1>5, LogAppended
<1>7. MarksNone BY <1>4 DEF MarksNone
<1> QED BY <1>4, <1>6, <1>7, LiveSame, CurrentAsBefore DEF item

Moved == [peb |-> gc.dst, off |-> gc.off, key |-> SourceItem.key, index |-> SourceItem.index,
          seq |-> SourceItem.seq, val |-> SourceItem.val]
LEMMA CopiedFacts ==
    ASSUME Whole, pc = "copied"
    PROVE  /\ gc.cur \in DOMAIN gc.src /\ Source \in Pebs /\ gc.pos \in DOMAIN log[Source]
           /\ gc.dst \in Pebs /\ log[gc.dst] \in Seq(Items) /\ Laid(log[gc.dst])
           /\ Len(log[gc.dst]) \in DOMAIN log[gc.dst]
           /\ log[gc.dst][Len(log[gc.dst])]
                = [SourceItem EXCEPT !.status = ItemWriting, !.off = gc.off]
           /\ SourceItem \in Items /\ SourceItem.status = ItemValid
           /\ SourceItem.key \in Keys /\ SourceItem.seq # NoSeq
<1> USE WholeParts
<1>1. /\ gc.cur \in DOMAIN gc.src /\ Source \in Pebs /\ gc.pos \in DOMAIN log[Source]
      /\ gc.dst \in Pebs
  BY SourceInDomain DEF Located
<1>2. /\ log[Source] \in Seq(Items) /\ Laid(log[Source])
      /\ log[gc.dst] \in Seq(Items) /\ Laid(log[gc.dst])
  BY <1>1, Shapes DEF LogInv
<1>3. /\ SourceItem.status = ItemValid /\ log[gc.dst] # <<>>
      /\ log[gc.dst][Len(log[gc.dst])]
                = [SourceItem EXCEPT !.status = ItemWriting, !.off = gc.off]
  BY DEF MoveInv
<1>4. Len(log[gc.dst]) \in DOMAIN log[gc.dst] BY <1>2, <1>3
<1> QED BY <1>1, <1>2, <1>3, <1>4 DEF SourceItem, Laid, Keyed

LEMMA CommitCopyCurrent ==
    ASSUME Whole, CommitCopy
    PROVE  /\ LogInv' /\ Stored' = Stored \cup {Moved} /\ Current' = Current /\ hdr' = hdr
           /\ \A p \in Pebs \ {gc.dst} : log'[p] = log[p]
           /\ End(log'[gc.dst]) = gc.off + Footprint(SourceItem.val) /\ ~Torn(log'[gc.dst])
           /\ log'[gc.dst] = Validated(log[gc.dst], gc.off)
<1> USE WholeParts
<1>1. pc = "copied" /\ Validate(gc.dst, gc.off) BY DEF CommitCopy
<1>2. PICK x \in Pebs : x = gc.dst BY <1>1, CopiedFacts
<1>3. PICK k \in DOMAIN log[x] : k = Len(log[x]) BY <1>1, <1>2, CopiedFacts
<1>4. log[x] \in Seq(Items) /\ Laid(log[x]) /\ SourceItem \in Items BY <1>1, <1>2, CopiedFacts
<1>5. log[x][k] = [SourceItem EXCEPT !.status = ItemWriting, !.off = gc.off]
  BY <1>1, <1>2, <1>3, CopiedFacts
<1>6. /\ log[x][k].off = gc.off /\ log[x][k].status = ItemWriting
      /\ log[x][k].key = SourceItem.key /\ log[x][k].seq = SourceItem.seq
      /\ log[x][k].index = SourceItem.index /\ log[x][k].val = SourceItem.val
  BY <1>4, <1>5 DEF Items
<1>7. log[x][k].key \in Keys /\ log[x][k].seq # NoSeq BY <1>1, <1>6, CopiedFacts
<1>8. /\ LogInv' /\ Stored' = Stored \cup {Copy(log[x], x, k)} /\ hdr' = hdr
      /\ \A p \in Pebs \ {x} : log'[p] = log[p]
      /\ End(log'[x]) = End(log[x]) /\ ~Torn(log'[x])
      /\ log'[x] = Validated(log[x], gc.off)
  BY <1>1, <1>2, <1>3, <1>6, <1>7, LogValidated
<1>9. Copy(log[x], x, k) = Moved BY <1>2, <1>6 DEF Copy, Moved
<1>10. End(log[x]) = gc.off + Footprint(SourceItem.val)
  <2>1. log[x] # <<>> BY <1>3
  <2> QED BY <1>3, <1>4, <1>6, <2>1, Placed
<1>11. ~Live(x) BY <1>1, <1>2, StatusFacts, NotLive, CopiedTo
<1>12. MarksNone BY <1>8 DEF MarksNone
<1>13. Current' = Current
  <2>1. \A c : c.peb # x => (c \in Stored' <=> c \in Stored) BY <1>2, <1>8, <1>9 DEF Moved
  <2>2. \A p \in Pebs : Live(p)' <=> Live(p) BY <1>12, LiveSame
  <2>3. Current' \subseteq Current
    <3>1. \A c \in Stored : c.peb \in Pebs BY StoredFields
    <3>2. Moved.peb = x BY <1>2 DEF Moved
    <3> QED BY <1>8, <1>9, <1>11, <2>2, <3>1, <3>2 DEF Current
  <2>4. Current \subseteq Current'
    <3>1. \A c \in Stored : c.peb \in Pebs BY StoredFields
    <3> QED BY <1>8, <2>2, <3>1 DEF Current
  <2> QED BY <2>3, <2>4
<1> QED BY <1>2, <1>8, <1>9, <1>10, <1>13

\* At the end of the transfer the target replaces its sources.
LEMMA EndTransferCurrent ==
    ASSUME Whole, EndTransfer
    PROVE  /\ LogInv' /\ Stored' = Stored /\ Current' = View
           /\ \A c \in Stored : Passed(c) <=> c.peb \in Sources
           /\ \A p \in Pebs : Live(p)' <=> p = gc.dst \/ (Live(p) /\ p \notin Sources)
<1> USE WholeParts
<1>1. pc = "migrate" /\ gc.cur > Len(gc.src) /\ SetPebStatus(gc.dst, PebTransfered)
  BY DEF EndTransfer, AfterSources
<1>2. PICK x \in Pebs : x = gc.dst BY <1>1 DEF Located
<1>3. /\ AllReclaiming(Sources) /\ NotReserved(Sources)
      /\ Status(x) = PebTransfering /\ Apart(Sources \cup {x})
  BY <1>1, <1>2 DEF BlockInv, TransferInv
<1>4. Marks(x, PebTransfered) /\ log' = log
  <2>1. PebTransfered \in PebStatus BY DEF PebStatus
  <2> QED BY <1>1, <1>2, <2>1, MarkFacts DEF SetPebStatus
<1>5. LogInv' /\ Stored' = Stored BY <1>4, LogSame
<1>6. \A c : Passed(c) <=> c.peb \in Sources
  <2>1. gc.src \in Seq(Pebs) /\ gc.cur \in Nat BY LocalFields
  <2>2. \A n \in DOMAIN gc.src : n < gc.cur /\ n # gc.cur BY <1>1, <2>1
  <2> QED BY <2>2 DEF Passed, Sources, Blocks
<1>7. x \notin Sources BY <1>3, StatusFacts DEF AllReclaiming
<1>8. Sources \subseteq Pebs BY SourcesType
<1>9. \A p \in Pebs \ Sources : p # x => Status(p) \in {PebEmpty, PebActived} BY <1>3 DEF Apart
<1>10. \A p \in Pebs : Live(p) <=> p \in Sources \/ (p # x /\ Status(p) = PebActived)
  BY <1>3, <1>8, <1>9, StatusFacts DEF Live, Status, AllReclaiming
<1>11. \A p \in Pebs : Live(p)' <=> p = x \/ (p \notin Sources /\ Status(p) = PebActived)
  <2>1. ASSUME NEW p \in Pebs, p # x, p \notin Sources PROVE Live(p)' <=> Status(p) = PebActived
    <3>1. hdr'[p].status = Status(p) /\ Status(p) \in {PebEmpty, PebActived}
      BY <1>4, <1>9, <2>1 DEF Marks, Status
    <3> QED BY <3>1, StatusFacts DEF Live
  <2>2. ASSUME NEW p \in Sources PROVE ~Live(p)'
    <3>1. p \in Pebs /\ p # x /\ Status(p) = PebReclaiming BY <1>3, <1>7, <1>8 DEF AllReclaiming
    <3>2. hdr'[p].status = PebReclaiming /\ hdr'[x].status = PebTransfered
      BY <1>4, <3>1 DEF Marks, Status
    <3> QED BY <1>2, <3>2, StatusFacts DEF Live
  <2>3. Live(x)'
    BY <1>4 DEF Live, Marks
  <2> QED BY <1>7, <2>1, <2>2, <2>3
<1>12. \A p \in Pebs : Live(p)' <=> p = x \/ (Live(p) /\ p \notin Sources)
  BY <1>7, <1>10, <1>11
<1>13. View = {c \in Stored : c.peb = x \/ (Live(c.peb) /\ ~Passed(c))}
  BY <1>1, <1>2 DEF View, AtWriting, WritingLabels
<1>14. Current' = View
  <2>1. \A c \in Stored : c.peb \in Pebs BY StoredFields
  <2> QED BY <1>5, <1>6, <1>12, <1>13, <2>1 DEF Current
<1> QED BY <1>2, <1>5, <1>6, <1>12, <1>14

-----------------------------------------------------------------------------
(* A write. *)
LEMMA FreePebRoom ==
    ASSUME TypeOK, NEW size \in Nat, CanAllocate(size)
    PROVE  \/ FreePeb(size) \in Pebs /\ info[FreePeb(size)].free > size
           \/ FreePeb(size) \in Reserved
<1>1. CASE Roomy(size) # {}
  <2> DEFINE free == [p \in Pebs |-> info[p].free]
  <2>1. Roomy(size) \in SUBSET Pebs BY DEF Roomy
  <2>2. \A p \in Roomy(size) : info[p].free \in Nat BY Fields DEF Roomy
  <2>3. \A p \in Roomy(size) : free[p] \in Nat BY <2>1, <2>2
  <2>4. Least(Roomy(size), free) \in Roomy(size) BY <1>1, <2>1, <2>3, LeastMember
  <2> QED BY <1>1, <2>4 DEF FreePeb, Roomy
<1>2. CASE Roomy(size) = {}
  <2>1. Cardinality(Reserved) > 1 BY <1>2 DEF CanAllocate
  <2> QED BY <1>2, <2>1, NoReserve, LeastReserved DEF FreePeb
<1> QED BY <1>1, <1>2

LEMMA ReqFacts ==
    ASSUME TypeOK, Located, pc \in CallLabels
    PROVE  /\ req \in WriteReq /\ req.key \in Keys /\ req.val \in Values
           /\ Footprint(req.val) \in Nat \ {0}
<1>1. req \in WriteReq BY DEF Located
<1>2. req.key \in Keys /\ req.val \in Values BY <1>1 DEF WriteReq
<1> QED BY <1>1, <1>2, ValueTypes

Fresh(p) == info[p].free = Capacity
\* The block find_free_peb returns: open at the end of its log, and with room.
LEMMA AllocateRoom ==
    ASSUME Whole, Allocate
    PROVE  \E p \in Pebs :
              /\ Allocated(p)
              /\ w'.peb = p /\ w'.off = Capacity - info[p].free /\ w'.fresh = Fresh(p)
              /\ w'.oldPeb = items[w.index].peb /\ w'.oldOff = items[w.index].off
              /\ w'.index = w.index /\ w'.append = w.append
              /\ log' = log /\ w'.off = End(log[p]) /\ ~Torn(log[p])
              /\ Fresh(p) => log[p] = <<>>
              /\ info[p].free > Footprint(req.val)
              /\ info[p].reserved => Fresh(p)
              /\ IF Fresh(p) THEN Activate(p) ELSE hdr' = hdr /\ Live(p)
              /\ Status(p) = IF info[p].reserved THEN PebEmpty ELSE PebActived
<1> USE WholeParts
<1>1. pc = "alloc" /\ CanAllocate(Footprint(req.val)) BY DEF Allocate, Allocating
<1>2. Footprint(req.val) \in Nat \ {0} /\ req.val \in Values BY <1>1, ReqFacts DEF CallLabels
<1>3. PICK p : p = FreePeb(Footprint(req.val)) OBVIOUS
<1>4. Allocated(p) BY <1>3 DEF Allocate, Allocated
<1>5. p \in Pebs /\ (info[p].reserved \/ info[p].free > Footprint(req.val))
  BY <1>1, <1>2, <1>3, FreePebRoom DEF Reserved
<1>6. Status(p) = IF info[p].reserved THEN PebEmpty ELSE PebActived
  BY <1>1, <1>5 DEF BlockInv, CallInv, SettledLabels, Apart
<1>7. Known(p) BY <1>1, KnownFinal, FinalFacts DEF SettledLabels
<1>8. info[p].reserved => Fresh(p) BY <1>5, <1>7 DEF HeaderInv, RoomInv, Fresh
<1>9. Footprint(req.val) < Capacity /\ Capacity \in Nat
  <2>1. req.val \in 1 .. MaxItemSize BY <1>2, StoreAssumption
  <2> QED BY <2>1, FlashAssumption DEF Footprint
<1>10. info[p].free \in Int /\ info[p].free > Footprint(req.val)
  BY <1>5, <1>8, <1>9, Fields DEF Fresh
<1>11. log[p] \in Seq(Items) /\ Laid(log[p]) BY <1>5, Shapes DEF LogInv
<1>12. Capacity - info[p].free = End(log[p]) /\ ~Torn(log[p])
  <2>1. CASE info[p].reserved
    <3>1. log[p] = <<>> BY <1>5, <1>6, <2>1 DEF HeaderInv, HeadersSound, Sound, Status
    <3> QED BY <1>8, <1>9, <2>1, <3>1, LaidEmpty DEF Fresh
  <2>2. CASE ~info[p].reserved
    <3>1. Live(p) BY <1>6, <2>2 DEF Live, Status
    <3>2. ~(AtWriting /\ p = w.peb) BY <1>1 DEF AtWriting, WritingLabels
    <3>3. Closed(p) \/ Clean(p) BY <1>5, <1>7, <3>1, <3>2 DEF FreeInv, RoomAtEnd, BeingWritten, OpenAt
    <3>4. ~Closed(p) BY <1>2, <1>10 DEF Closed
    <3> QED BY <1>9, <1>10, <1>11, <3>3, <3>4, Placed DEF Clean
  <2> QED BY <2>1, <2>2
<1>13. Fresh(p) => log[p] = <<>>
  <2> SUFFICES ASSUME Fresh(p) PROVE log[p] = <<>> OBVIOUS
  <2>1. End(log[p]) = 0 BY <1>9, <1>12 DEF Fresh
  <2> QED BY <1>11, <2>1, WithinLog
<1>14. /\ w'.peb = p /\ w'.off = Capacity - info[p].free /\ w'.fresh = Fresh(p)
       /\ w'.oldPeb = items[w.index].peb /\ w'.oldOff = items[w.index].off
       /\ w'.index = w.index /\ w'.append = w.append
  BY <1>4, LocalFields DEF Allocated, Writes, Fresh
<1>15. IF Fresh(p) THEN Activate(p) ELSE hdr' = hdr /\ log' = log
  BY <1>4 DEF Allocated, flash, Fresh
<1>16. log' = log BY <1>15 DEF Activate
<1>17. ~Fresh(p) => Live(p) BY <1>6, <1>8 DEF Live, Status
<1> QED BY <1>4, <1>5, <1>6, <1>8, <1>10, <1>12, <1>13, <1>14, <1>15, <1>16, <1>17

LEMMA AllocateCurrent ==
    ASSUME Whole, TypeOK', Allocate
    PROVE  LogInv' /\ Stored' = Stored /\ Current' = Current
<1> USE WholeParts
<1>1. PICK p \in Pebs :
              /\ log' = log
              /\ Fresh(p) => log[p] = <<>>
              /\ IF Fresh(p) THEN Activate(p) ELSE hdr' = hdr
              /\ Status(p) = IF info[p].reserved THEN PebEmpty ELSE PebActived
  BY AllocateRoom
<1>2. CASE ~Fresh(p) BY <1>1, <1>2, SameFlash
<1>3. CASE Fresh(p)
  <2>1. \A c \in Current : c.peb # p
    <3>1. CopiesIn(log[p], p) = {} BY <1>1, <1>3, LaidEmpty
    <3> QED BY <3>1, CurrentIs, StoredMember
  <2>2. PebActiving \in PebStatus /\ PebActiving \notin {PebTransfered, PebActived, PebReclaiming}
        /\ Status(p) # PebTransfered
    BY <1>1, StatusFacts DEF PebStatus
  <2> QED BY <1>1, <1>3, <2>1, <2>2, SpareMarked
<1> QED BY <1>2, <1>3

LEMMA WriteItemCurrent ==
    ASSUME Whole, WriteItem
    PROVE  /\ LogInv' /\ Stored' = Stored /\ Current' = Current /\ hdr' = hdr
           /\ \A p \in Pebs \ {w.peb} : log'[p] = log[p]
           /\ log'[w.peb] = Append(log[w.peb], NewItem(ItemWriting))
<1> USE WholeParts
<1>1. pc = "writing" /\ Append1(w.peb, NewItem(ItemWriting)) /\ hdr' = hdr
  BY DEF WriteItem, NewItem, Append1
<1>2. w.peb \in Pebs BY <1>1, WrittenTo DEF HeaderInv, WritingLabels
<1>3. req.key \in Keys /\ req.val \in Values BY <1>1, ReqFacts DEF CallLabels, WritingLabels
<1>4. /\ NewItem(ItemWriting) \in Items /\ NewItem(ItemWriting).status = ItemWriting
      /\ NewItem(ItemWriting).off = w.off
  <2>1. wseq \in Nat BY DEF TypeOK
  <2> QED BY <1>3, <2>1, LocalFields, ItemCodes DEF NewItem, Items
<1>5. ~Torn(log[w.peb]) /\ w.off = End(log[w.peb]) BY <1>1 DEF WriteInv
<1>6. /\ LogInv' /\ Stored' = Stored /\ \A p \in Pebs \ {w.peb} : log'[p] = log[p]
      /\ log'[w.peb] = Append(log[w.peb], NewItem(ItemWriting))
  BY <1>1, <1>2, <1>4, <1>5, LogAppended
<1>7. MarksNone BY <1>1 DEF MarksNone
<1> QED BY <1>1, <1>6, <1>7, LiveSame, CurrentAsBefore

NewCopy == [peb |-> w.peb, off |-> w.off, key |-> req.key, index |-> w.index, seq |-> wseq,
            val |-> req.val]
LEMMA NewFacts ==
    ASSUME Whole, pc \in {"valid", "peb_actived"}
    PROVE  /\ w.peb \in Pebs /\ log[w.peb] \in Seq(Items) /\ Laid(log[w.peb])
           /\ Len(log[w.peb]) \in DOMAIN log[w.peb]
           /\ log[w.peb][Len(log[w.peb])]
                = NewItem(IF pc = "valid" THEN ItemWriting ELSE ItemValid)
           /\ Copy(log[w.peb], w.peb, Len(log[w.peb])) = NewCopy
           /\ End(log[w.peb]) = w.off + Footprint(req.val)
           /\ req.key \in Keys /\ req.val \in Values
<1> USE WholeParts
<1>1. pc \in WritingLabels /\ pc \in CallLabels BY DEF WritingLabels, CallLabels
<1>2. w.peb \in Pebs BY <1>1, WrittenTo DEF HeaderInv
<1>3. log[w.peb] \in Seq(Items) /\ Laid(log[w.peb]) BY <1>2, Shapes DEF LogInv
<1>4. /\ log[w.peb] # <<>>
      /\ log[w.peb][Len(log[w.peb])] = NewItem(IF pc = "valid" THEN ItemWriting ELSE ItemValid)
  BY DEF WriteInv
<1>5. Len(log[w.peb]) \in DOMAIN log[w.peb] BY <1>3, <1>4
<1>6. Copy(log[w.peb], w.peb, Len(log[w.peb])) = NewCopy BY <1>4 DEF Copy, NewCopy, NewItem
<1>7. End(log[w.peb]) = w.off + Footprint(req.val) BY <1>3, <1>4, Placed DEF NewItem
<1> QED BY <1>1, <1>2, <1>3, <1>4, <1>5, <1>6, <1>7, ReqFacts

LEMMA MarkValidCurrent ==
    ASSUME Whole, MarkValid
    PROVE  /\ LogInv' /\ Stored' = Stored \cup {NewCopy} /\ hdr' = hdr
           /\ Current' = IF w.fresh THEN Current ELSE Current \cup {NewCopy}
           /\ \A p \in Pebs \ {w.peb} : log'[p] = log[p]
           /\ log'[w.peb] = Validated(log[w.peb], w.off)
           /\ End(log'[w.peb]) = w.off + Footprint(req.val) /\ ~Torn(log'[w.peb])
           /\ NewCopy \notin Stored
<1> USE WholeParts
<1>1. pc = "valid" /\ Validate(w.peb, w.off) BY DEF MarkValid
<1>2. PICK x \in Pebs : x = w.peb BY <1>1, NewFacts
<1>3. PICK k \in DOMAIN log[x] : k = Len(log[x]) BY <1>1, <1>2, NewFacts
<1>4. log[x] \in Seq(Items) /\ Laid(log[x]) /\ log[x][k] = NewItem(ItemWriting)
  BY <1>1, <1>2, <1>3, NewFacts
<1>5. /\ log[x][k].off = w.off /\ log[x][k].status = ItemWriting
      /\ log[x][k].key \in Keys /\ log[x][k].seq # NoSeq
  <2>1. req.key \in Keys /\ wseq # NoSeq
    BY <1>1, NewFacts DEF WriteInv, Replaces, AtWriting, WritingLabels
  <2> QED BY <1>4, <2>1 DEF NewItem
<1>6. Copy(log[x], x, k) = NewCopy BY <1>1, <1>2, <1>3, NewFacts
<1>7. /\ LogInv' /\ Stored' = Stored \cup {NewCopy} /\ hdr' = hdr
      /\ \A p \in Pebs \ {x} : log'[p] = log[p]
      /\ log'[x] = Validated(log[x], w.off)
      /\ End(log'[x]) = End(log[x]) /\ ~Torn(log'[x])
  BY <1>1, <1>2, <1>5, <1>6, LogValidated
<1>8. End(log[x]) = w.off + Footprint(req.val) BY <1>1, <1>2, NewFacts
<1>9. NewCopy \notin Stored
  <2> SUFFICES ASSUME NewCopy \in Stored PROVE FALSE OBVIOUS
  <2>1. NewCopy.peb = x /\ NewCopy.off = w.off BY <1>2 DEF NewCopy
  <2>2. NewCopy \in CopiesIn(log[x], x) BY <2>1, StoredMember
  <2>3. PICK j \in DOMAIN log[x] : log[x][j].status = ItemValid /\ NewCopy = Copy(log[x], x, j)
    BY <2>2 DEF CopiesIn
  <2>4. log[x][j].off = log[x][k].off BY <1>5, <2>1, <2>3 DEF Copy
  <2>5. j = k BY <1>4, <2>4, OffsetsDiffer
  <2> QED BY <1>5, <2>3, <2>5, ItemCodes
<1>10. Live(x) <=> ~w.fresh
  <2>1. Status(x) = IF w.fresh THEN PebActiving ELSE PebActived
    BY <1>1, <1>2, WrittenTo DEF HeaderInv, WritingLabels
  <2> QED BY <2>1, StatusFacts DEF Live, Status
<1>11. MarksNone BY <1>7 DEF MarksNone
<1>12. Current' = IF w.fresh THEN Current ELSE Current \cup {NewCopy}
  <2>1. \A p \in Pebs : Live(p)' <=> Live(p) BY <1>11, LiveSame
  <2>2. \A c \in Stored : c.peb \in Pebs BY StoredFields
  <2>3. NewCopy.peb = x BY <1>2 DEF NewCopy
  <2>4. \A c : c \in Current' <=> (c \in Stored \/ c = NewCopy) /\ Live(c.peb)'
    BY <1>7 DEF Current
  <2>5. \A c : c \in Current' <=> c \in Current \/ (c = NewCopy /\ ~w.fresh)
    BY <1>10, <2>1, <2>2, <2>3, <2>4, CurrentIs
  <2> QED BY <2>5
<1> QED BY <1>2, <1>7, <1>8, <1>9, <1>12

LEMMA PebActivedNowCurrent ==
    ASSUME Whole, PebActivedNow
    PROVE  /\ LogInv' /\ Stored' = Stored /\ Current' = Current \cup {NewCopy} /\ log' = log
           /\ \A p \in Pebs : Live(p)' <=> p = w.peb \/ Live(p)
           /\ NewCopy \notin Current /\ NewCopy \in Stored
<1> USE WholeParts
<1>1. pc = "peb_actived" /\ SetPebStatus(w.peb, PebActived) BY DEF PebActivedNow
<1>2. PICK x \in Pebs : x = w.peb BY <1>1, NewFacts
<1>3. w.fresh BY <1>1 DEF BlockInv, CallInv
<1>4. Status(x) = PebActiving
  BY <1>1, <1>2, <1>3, WrittenTo DEF HeaderInv, WritingLabels
<1>5. Marks(x, PebActived) /\ log' = log
  <2>1. PebActived \in PebStatus BY DEF PebStatus
  <2> QED BY <1>1, <1>2, <2>1, MarkFacts DEF SetPebStatus
<1>6. LogInv' /\ Stored' = Stored BY <1>5, LogSame
<1>7. \A p \in Pebs \ {x} : Live(p)' <=> Live(p) BY <1>4, <1>5, LiveMarks, StatusFacts
<1>8. Live(x)' BY <1>5 DEF Live, Marks
<1>9. ~Live(x) BY <1>4, StatusFacts, NotLive
<1>10. NewCopy \in Stored
  <2>1. PICK k \in DOMAIN log[x] : k = Len(log[x]) BY <1>1, <1>2, NewFacts
  <2>2. log[x][k].status = ItemValid /\ NewCopy = Copy(log[x], x, k)
    BY <1>1, <1>2, <2>1, NewFacts DEF NewItem
  <2>3. NewCopy \in CopiesIn(log[x], x) BY <2>1, <2>2 DEF CopiesIn
  <2> QED BY <2>3 DEF Stored
<1>11. \A c \in Stored : c.peb = x => c = NewCopy
  <2>1. \A c \in Stored : c.peb = x => c.off = w.off
    BY <1>1, <1>2, <1>3 DEF WriteInv, Replaces, AtWriting, WritingLabels
  <2>2. NewCopy.peb = x /\ NewCopy.off = w.off BY <1>2 DEF NewCopy
  <2> QED BY <1>10, <2>1, <2>2, StoredFields
<1>12. NewCopy.peb = x BY <1>2 DEF NewCopy
<1>13. Current' = Current \cup {NewCopy}
  <2>1. \A c \in Stored : c.peb \in Pebs BY StoredFields
  <2>2. \A c : c \in Current' <=> c \in Stored /\ Live(c.peb)' BY <1>6 DEF Current
  <2>3. \A c : c \in Current' <=> c \in Current \/ c = NewCopy
    BY <1>7, <1>8, <1>9, <1>10, <1>11, <1>12, <2>1, <2>2, CurrentIs
  <2> QED BY <2>3
<1> QED BY <1>2, <1>5, <1>6, <1>7, <1>8, <1>9, <1>10, <1>12, <1>13, CurrentIs

LEMMA DeleteOldCurrent ==
    ASSUME Whole, DeleteOld
    PROVE  /\ LogInv' /\ Stored' = {c \in Stored : ~IsOld(c)} /\ hdr' = hdr
           /\ Current' = {c \in Current : ~IsOld(c)}
           /\ \A p \in Pebs : Live(p)' <=> Live(p)
<1> USE WholeParts
<1>1. w.oldPeb \in Pebs /\ Discard(w.oldPeb, w.oldOff) BY DEF DeleteOld, Located
<1> QED BY <1>1, DiscardCurrent DEF IsOld

-----------------------------------------------------------------------------
(* The scan. *)
ScanLook == SkipPeb \/ ScanEndOfLog \/ ScanTornItem \/ ScanDeletedItem \/ ScanFirstCopy
LEMMA ScanLookCurrent ==
    ASSUME Whole, ScanLook
    PROVE  LogInv' /\ Stored' = Stored /\ Current' = Current /\ hdr' = hdr /\ log' = log
<1>1. hdr' = hdr /\ log' = log
  BY DEF ScanLook, SkipPeb, ScanEndOfLog, ScanTornItem, ScanDeletedItem, ScanFirstCopy, flash
<1> QED BY <1>1, SameFlash

LEMMA ScanNewerCurrent ==
    ASSUME Whole, ScanNewerCopy
    PROVE  LET h == items[ScannedItem.index] IN
           /\ h.peb \in Pebs /\ LogInv' /\ hdr' = hdr
           /\ Stored' = {c \in Stored : ~(c.peb = h.peb /\ c.off = h.off)}
           /\ Current' = {c \in Current : ~(c.peb = h.peb /\ c.off = h.off)}
           /\ \A p \in Pebs : Live(p)' <=> Live(p)
<1> USE WholeParts
<1>1. ScannedItem.index \in Indexes
  BY ScannedType DEF ScanNewerCopy, ScanningValid, ScanningItems
<1>2. items[ScannedItem.index].peb \in Pebs BY <1>1, Fields
<1>3. Discard(items[ScannedItem.index].peb, items[ScannedItem.index].off) BY DEF ScanNewerCopy
<1> QED BY <1>2, <1>3, DiscardCurrent

LEMMA ScanOlderCurrent ==
    ASSUME Whole, ScanOlderCopy
    PROVE  /\ scan.peb \in Pebs /\ LogInv' /\ hdr' = hdr
           /\ Stored' = {c \in Stored : ~(c.peb = scan.peb /\ c.off = ScannedItem.off)}
           /\ Current' = {c \in Current : ~(c.peb = scan.peb /\ c.off = ScannedItem.off)}
           /\ \A p \in Pebs : Live(p)' <=> Live(p)
<1> USE WholeParts
<1>1. scan.peb \in Pebs BY NextPebType DEF ScanOlderCopy, ScanningValid, ScanningItems
<1>2. Discard(scan.peb, ScannedItem.off) BY DEF ScanOlderCopy
<1> QED BY <1>1, <1>2, DiscardCurrent

\* A block whose items are scanned is live.
LEMMA ScanningLive ==
    ASSUME Whole, ScanningItems
    PROVE  scan.peb \in Pebs /\ Live(scan.peb)
<1> USE WholeParts
<1>1. scan.peb \in Pebs /\ pc = "item_scan" BY NextPebType DEF ScanningItems
<1>2. Classified(PebCount) /\ Status(scan.peb) # PebVirgin
  BY <1>1 DEF BlockInv, ScanInv
<1>3. \A p \in Pebs : p < PebCount BY PebFacts
<1>4. /\ Status(scan.peb) \notin {PebVirgin, PebEmpty, PebActiving, PebErasing, PebTransfering}
      /\ Status(scan.peb) \in PebStatus
      /\ Status(scan.peb) = PebReclaiming => scan.transfered = NoPeb
  BY <1>1, <1>2, <1>3, Fields DEF ScanningItems, Skipped, Classified, Status, Blocks
<1>5. Status(scan.peb) \in {PebActived, PebTransfered, PebReclaiming} BY <1>4 DEF PebStatus
<1>6. scan.transfered = NoPeb => \A q \in Pebs : hdr[q].status # PebTransfered
  BY <1>2, <1>3, PebFacts DEF Classified, Status
<1> QED BY <1>1, <1>4, <1>5, <1>6 DEF Live, Status

\* A block that is skipped is not.
LEMMA SkippedNotLive ==
    ASSUME Whole, SkipPeb
    PROVE  scan.peb \in Pebs /\ ~Live(scan.peb)
<1> USE WholeParts
<1>1. scan.peb \in Pebs /\ pc = "item_scan" BY NextPebType DEF SkipPeb
<1>2. Classified(PebCount) BY <1>1 DEF BlockInv, ScanInv
<1>3. \A p \in Pebs : p < PebCount BY PebFacts
<1>4. CASE info[scan.peb].reserved
  BY <1>1, <1>2, <1>3, <1>4, StatusFacts, NotLive DEF Classified
<1>5. CASE scan.peb = scan.transfering
  BY <1>1, <1>2, <1>3, <1>5, StatusFacts, NotLive DEF Classified
<1>6. CASE scan.transfered # NoPeb /\ \E r \in DOMAIN scan.reclaiming : scan.reclaiming[r] = scan.peb
  <2>1. Status(scan.peb) = PebReclaiming
    BY <1>1, <1>2, <1>3, <1>6 DEF Classified, Blocks
  <2>2. scan.transfered \in Pebs BY <1>6, LocalFields
  <2>3. Status(scan.transfered) = PebTransfered BY <1>2, <2>2 DEF Classified
  <2> QED BY <1>1, <2>1, <2>2, <2>3, StatusFacts DEF Live, Status
<1> QED BY <1>1, <1>4, <1>5, <1>6 DEF SkipPeb, Skipped

\* What each group of steps does to the current copies.
LEMMA DeleteItemCurrent ==
    ASSUME Whole, DeleteItem
    PROVE  \E i \in Indexes :
              /\ i \in Found(req.keys) /\ items[i].peb \in Pebs /\ LogInv' /\ hdr' = hdr
              /\ Discard(items[i].peb, items[i].off)
              /\ Stored' = {c \in Stored : ~(c.peb = items[i].peb /\ c.off = items[i].off)}
              /\ Current' = {c \in Current : ~(c.peb = items[i].peb /\ c.off = items[i].off)}
              /\ \A p \in Pebs : Live(p)' <=> Live(p)
              /\ items' = [items EXCEPT ![i] = NoItem]
              /\ info' = [info EXCEPT ![items[i].peb].dirty = @ + Footprint(items[i].size)]
              /\ vsize' = vsize - Footprint(items[i].size)
              /\ pc' = Check(/\ Writable(hdr[items[i].peb])
                             /\ vsize >= Footprint(items[i].size), "delete")
<1> USE WholeParts
<1>1. PICK i \in Indexes :
              /\ i \in Found(req.keys)
              /\ items[i].peb \in Pebs /\ Discard(items[i].peb, items[i].off)
              /\ info' = [info EXCEPT ![items[i].peb].dirty = @ + Footprint(items[i].size)]
              /\ items' = [items EXCEPT ![i] = NoItem]
              /\ vsize' = vsize - Footprint(items[i].size)
              /\ pc' = Check(/\ Writable(hdr[items[i].peb])
                             /\ vsize >= Footprint(items[i].size), "delete")
  BY Deleting
<1>2. /\ LogInv' /\ hdr' = hdr
      /\ Stored' = {c \in Stored : ~(c.peb = items[i].peb /\ c.off = items[i].off)}
      /\ Current' = {c \in Current : ~(c.peb = items[i].peb /\ c.off = items[i].off)}
      /\ \A p \in Pebs : Live(p)' <=> Live(p)
  BY <1>1, DiscardCurrent
<1> QED BY <1>1, <1>2

CalmMarks == MarkReclaiming \/ StartTransfer \/ Reclaim \/ TargetActived \/ PickTarget
LEMMA CalmCurrent ==
    ASSUME Whole, TypeOK', CalmMarks
    PROVE  /\ LogInv' /\ Stored' = Stored /\ Current' = Current /\ log' = log
           /\ \A p \in Pebs : Live(p)' => Live(p)
BY MarkReclaimingCurrent, StartTransferCurrent, ReclaimCurrent, TargetActivedCurrent,
   PickTargetCurrent DEF CalmMarks

LEMMA Groups ==
    ASSUME Next
    PROVE  \/ Classify \/ ScanLook \/ ScanNewerCopy \/ ScanOlderCopy \/ Still
           \/ CalmMarks \/ EndTransfer \/ PebActivedNow
           \/ CopyItem \/ CommitCopy \/ WriteItem \/ MarkValid \/ DeleteOld \/ DeleteItem
           \/ Erase \/ MarkEmpty \/ Allocate \/ PowerOn \/ PowerLoss
BY NextGroups DEF ScanLogs, ScanLook, Marked, CalmMarks, Writes1

\* The steps that leave the current copies alone.
LEMMA CurrentSame ==
    ASSUME Whole, TypeOK',
           \/ Classify \/ ScanLook \/ Still \/ CalmMarks \/ CopyItem \/ CommitCopy \/ WriteItem
           \/ Erase \/ MarkEmpty \/ Allocate \/ PowerOn \/ PowerLoss
    PROVE  LogInv' /\ Current' = Current
BY ClassifyCurrent, ScanLookCurrent, StillCurrent, CalmCurrent, CopyItemCurrent,
   CommitCopyCurrent, WriteItemCurrent, ErasedCurrent, AllocateCurrent, PowerCurrent

LEMMA LogStep ==
    ASSUME Whole, TypeOK', [Next]_vars
    PROVE  LogInv'
<1>1. CASE UNCHANGED vars BY <1>1, SameFlash DEF vars, flash
<1>2. CASE Next
  BY <1>2, Groups, CurrentSame, ScanNewerCurrent, ScanOlderCurrent, EndTransferCurrent,
     PebActivedNowCurrent, MarkValidCurrent, DeleteOldCurrent, DeleteItemCurrent
<1> QED BY <1>1, <1>2

-----------------------------------------------------------------------------
(* CopyInv. *)
LEMMA CopySubset ==
    ASSUME CopyInv, Current' \subseteq Current
    PROVE  CopyInv'
BY DEF CopyInv

PlainLabels == FinalLabels \ (WritingLabels \cup {"delete_old", "migrate", "copied"})
LEMMA ViewPlain ==
    pc \in PlainLabels => View = Current /\ Pending = {}
BY FinalFacts DEF View, Pending, PlainLabels, AtWriting

LEMMA WritingPairs ==
    WritingLabels \subseteq PairLabels /\ PlainLabels \subseteq PairLabels
    /\ {"migrate", "copied"} \subseteq PairLabels
BY FinalFacts DEF PairLabels, WritingLabels, PlainLabels, CollectLabels

LEMMA OldUnique ==
    ASSUME Whole, AtWriting
    PROVE  /\ NoPairs
           /\ \A c \in Current : /\ c.index = w.index <=> c.key = req.key
                                 /\ c.index = w.index => ~w.append /\ IsOld(c)
                                 /\ c.seq < wseq
           /\ \A c, d \in Current : IsOld(c) /\ IsOld(d) => c = d
<1> USE WholeParts
<1>1. NoPairs BY WritingPairs DEF PairInv, AtWriting
<1>2. \A c, d \in Current : IsOld(c) /\ IsOld(d) => c = d BY CurrentFields DEF IsOld
<1> QED BY <1>1, <1>2 DEF WriteInv, Replaces

LEMMA CopyAdded ==
    ASSUME Whole, AtWriting, Current' = Current \cup {NewCopy}
    PROVE  CopyInv'
<1> USE WholeParts
<1>1. NewCopy.index = w.index /\ NewCopy.key = req.key /\ NewCopy.seq = wseq
  BY DEF NewCopy
<1>2. \A c \in Current : c.seq # wseq
  <2> TAKE c \in Current
  <2>1. c.seq \in Nat /\ c.seq < wseq /\ wseq \in Nat BY OldUnique, CurrentFields DEF TypeOK
  <2> QED BY <2>1
<1>3. \A c \in Current : c.index = w.index <=> c.key = req.key BY OldUnique
<1>4. \A c, d \in Current' : c.index = d.index <=> c.key = d.key
  BY <1>1, <1>3 DEF CopyInv
<1>5. \A c, d \in Current' : c.index = d.index /\ c # d =>
         \/ c = NewCopy /\ d \in Current /\ IsOld(d)
         \/ d = NewCopy /\ c \in Current /\ IsOld(c)
  BY <1>1, OldUnique DEF NoPairs
<1>6. \A c, d \in Current' : c.index = d.index /\ c # d => c.seq # d.seq
  BY <1>1, <1>2, <1>5
<1>7. \A c, d, x, y \in Current' :
          c.index = d.index /\ c # d /\ x.index = y.index /\ x # y => c \in {x, y}
  BY <1>5, OldUnique
<1> QED BY <1>4, <1>6, <1>7 DEF CopyInv

\* Every copy the table stands for at the end of a transfer is one of before, or moved.
LEMMA MovedFrom ==
    ASSUME Whole, EndTransfer
    PROVE  /\ \A c \in View : \E d \in Current : Alike(c, d)
           /\ \A d \in Current : \E c \in View : Alike(c, d)
           /\ \A c, d \in View : c.index = d.index => c = d
<1> USE WholeParts
<1>1. pc = "migrate" BY DEF EndTransfer, AfterSources
<1>2. View = {c \in Stored : c.peb = gc.dst \/ (Live(c.peb) /\ ~Passed(c))}
  BY <1>1 DEF View, AtWriting, WritingLabels
<1>3. /\ \A c \in Stored : Passed(c) => \E d \in Stored : d.peb = gc.dst /\ Alike(c, d)
      /\ \A d \in Stored : d.peb = gc.dst => \E c \in Stored : Passed(c) /\ Alike(c, d)
  BY <1>1 DEF MoveInv, AtMigrate
<1>4. \A c \in Stored : Passed(c) => Live(c.peb)
  <2>1. AllReclaiming(Sources) /\ Apart(Sources \cup {gc.dst}) /\ NotReserved(Sources)
        /\ Status(gc.dst) = PebTransfering
    BY <1>1, StatusFacts DEF BlockInv, TransferInv
  <2>2. Sources \subseteq Pebs BY SourcesType
  <2>3. \A q \in Pebs : Status(q) # PebTransfered
    BY <2>1, StatusFacts DEF Apart, AllReclaiming
  <2>4. \A p \in Sources : Live(p) BY <2>1, <2>3 DEF Live, Status, AllReclaiming
  <2> QED BY <2>4, EndTransferCurrent
<1>5. ASSUME NEW c \in View PROVE \E d \in Current : Alike(c, d)
  <2>1. CASE c.peb = gc.dst
    <3>1. PICK d \in Stored : Passed(d) /\ Alike(d, c) BY <1>2, <1>3, <2>1
    <3>2. d \in Current BY <1>4, <3>1, CurrentIs
    <3> QED BY <3>1, <3>2 DEF Alike
  <2>2. CASE c.peb # gc.dst BY <1>2, <2>2, CurrentIs DEF Alike
  <2> QED BY <2>1, <2>2
<1>6. ASSUME NEW d \in Current PROVE \E c \in View : Alike(c, d)
  <2>1. d \in Stored /\ Live(d.peb) BY CurrentIs
  <2>2. CASE Passed(d)
    <3>1. PICK c \in Stored : c.peb = gc.dst /\ Alike(d, c) BY <1>3, <2>1, <2>2
    <3> QED BY <1>2, <3>1 DEF Alike
  <2>3. CASE ~Passed(d) BY <1>2, <2>1, <2>3 DEF Alike
  <2> QED BY <2>2, <2>3
<1>7. \A c, d \in View : c.index = d.index => c = d
  <2>1. \A c \in View : items[c.index] = Header(c)
    <3>1. pc \in FinalLabels BY <1>1, FinalFacts DEF CollectLabels
    <3> QED BY <3>1 DEF TableInv, Mirrors
  <2> SUFFICES ASSUME NEW c \in View, NEW d \in View, c.index = d.index PROVE c = d
    OBVIOUS
  <2>2. Header(c) = Header(d) BY <2>1
  <2>3. c.peb = d.peb /\ c.off = d.off BY <2>2 DEF Header
  <2> QED BY <1>2, <2>3, StoredFields
<1> QED BY <1>5, <1>6, <1>7

LEMMA CopyMoved ==
    ASSUME Whole, EndTransfer
    PROVE  CopyInv' /\ NoPairs'
<1> USE WholeParts
<1>1. Current' = View BY EndTransferCurrent
<1>2. \A c, d \in View : c.index = d.index <=> c.key = d.key
  <2> SUFFICES ASSUME NEW c \in View, NEW d \in View
               PROVE  c.index = d.index <=> c.key = d.key
    OBVIOUS
  <2>1. PICK c0 \in Current : Alike(c, c0) BY MovedFrom
  <2>2. PICK d0 \in Current : Alike(d, d0) BY MovedFrom
  <2> QED BY <2>1, <2>2 DEF Alike, CopyInv
<1>3. \A c, d \in View : c.index = d.index => c = d BY MovedFrom
<1> QED BY <1>1, <1>2, <1>3 DEF CopyInv, NoPairs

LEMMA CopyStep ==
    ASSUME Whole, TypeOK', [Next]_vars
    PROVE  CopyInv'
<1> USE WholeParts
<1>1. CASE UNCHANGED vars
  <2>1. Current' = Current BY <1>1, SameFlash DEF vars, flash
  <2> QED BY <2>1, CopySubset
<1>2. CASE Next
  <2>1. CASE MarkValid \/ PebActivedNow
    <3>1. AtWriting BY <2>1 DEF MarkValid, PebActivedNow, AtWriting, WritingLabels
    <3>2. Current' = Current \/ Current' = Current \cup {NewCopy}
      BY <2>1, MarkValidCurrent, PebActivedNowCurrent
    <3> QED BY <3>1, <3>2, CopySubset, CopyAdded
  <2>2. CASE EndTransfer BY <2>2, CopyMoved
  <2>3. CASE ~(MarkValid \/ PebActivedNow \/ EndTransfer)
    <3>1. Current' \subseteq Current
      BY <1>2, <2>3, Groups, CurrentSame, ScanNewerCurrent, ScanOlderCurrent, DeleteOldCurrent,
         DeleteItemCurrent
    <3> QED BY <3>1, CopySubset
  <2> QED BY <2>1, <2>2, <2>3
<1> QED BY <1>1, <1>2

-----------------------------------------------------------------------------
(* What the scan of the items has seen. *)
ScannedCopy == Copy(log[scan.peb], scan.peb, scan.pos)

LEMMA ScanView ==
    ASSUME pc = "item_scan"
    PROVE  View = {c \in Current : Scanned(c)} /\ Pending = {}
BY DEF View, Pending, AtWriting, WritingLabels

LEMMA ScannedFacts ==
    ASSUME Whole, ScanningItems, HasItem
    PROVE  /\ scan.peb \in Pebs /\ Live(scan.peb) /\ log[scan.peb] \in Seq(Items)
           /\ Laid(log[scan.peb]) /\ scan.pos \in DOMAIN log[scan.peb]
           /\ ScannedItem \in Items /\ ScannedItem.off = scan.dirty + scan.valid
<1> USE WholeParts
<1>1. scan.peb \in Pebs /\ Live(scan.peb) BY ScanningLive
<1>2. log[scan.peb] \in Seq(Items) /\ Laid(log[scan.peb]) BY <1>1, Shapes DEF LogInv
<1>3. scan.pos \in Nat \ {0} BY LocalFields
<1>4. scan.pos \in DOMAIN log[scan.peb] BY <1>2, <1>3 DEF HasItem
<1>5. scan.dirty + scan.valid = Place(log[scan.peb], scan.pos)
  BY <1>1 DEF FreeInv, ScanSpace, ScanningItems
<1>6. ScannedItem \in Items /\ ScannedItem.off = Place(log[scan.peb], scan.pos)
  BY <1>2, <1>4, Placed DEF ScannedItem
<1> QED BY <1>1, <1>2, <1>4, <1>5, <1>6

\* The valid item under the scan is a current copy the table does not know yet.
LEMMA ScannedValid ==
    ASSUME Whole, ScanningValid
    PROVE  /\ ScannedCopy \in Current /\ ~Scanned(ScannedCopy)
           /\ ScannedCopy.index = ScannedItem.index /\ ScannedCopy.seq = ScannedItem.seq
           /\ ScannedCopy.peb = scan.peb /\ ScannedCopy.off = ScannedItem.off
           /\ ScannedCopy.val = ScannedItem.val
           /\ Header(ScannedCopy) = HeaderOf(ScannedItem, scan.peb)
<1> USE WholeParts
<1>1. ScanningItems /\ HasItem /\ ScannedItem.status = ItemValid BY DEF ScanningValid
<1>2. /\ scan.peb \in Pebs /\ Live(scan.peb) /\ scan.pos \in DOMAIN log[scan.peb]
      /\ ScannedItem \in Items /\ ScannedItem.off = scan.dirty + scan.valid
  BY <1>1, ScannedFacts
<1>3. /\ ScannedCopy.index = ScannedItem.index /\ ScannedCopy.seq = ScannedItem.seq
      /\ ScannedCopy.peb = scan.peb /\ ScannedCopy.off = ScannedItem.off
      /\ ScannedCopy.val = ScannedItem.val
  BY DEF ScannedCopy, Copy, ScannedItem
<1>4. ScannedCopy \in CopiesIn(log[scan.peb], scan.peb)
  BY <1>1, <1>2 DEF ScannedCopy, CopiesIn, ScannedItem
<1>5. ScannedCopy \in Current BY <1>2, <1>3, <1>4, StoredMember, CurrentIs
<1>6. ~Scanned(ScannedCopy)
  <2>1. scan.peb \in Nat /\ ScannedItem.off \in Int BY <1>2, PebFacts, ItemFields
  <2> QED BY <1>2, <1>3, <2>1 DEF Scanned
<1>7. Header(ScannedCopy) = HeaderOf(ScannedItem, scan.peb)
  BY <1>3 DEF Header, HeaderOf
<1> QED BY <1>3, <1>5, <1>6, <1>7

\* A header in use stands for a copy scanned before.
LEMMA ScannedHeader ==
    ASSUME Whole, pc = "item_scan", NEW i \in Indexes, items[i].seq # NoSeq
    PROVE  \E c \in Current : Scanned(c) /\ c.index = i /\ Header(c) = items[i]
<1> USE WholeParts
<1>1. View = {c \in Current : Scanned(c)} /\ Pending = {} BY ScanView
<1>2. /\ \A c \in View : items[c.index] = Header(c)
      /\ \E c \in View : c.index = i
  BY <1>1 DEF TableInv, Mirrors
<1> QED BY <1>1, <1>2

LEMMA AllScanned ==
    ASSUME Whole, ItemScanDone
    PROVE  View = Current /\ Pending = {}
<1> USE WholeParts
<1>1. \A c \in Current : Scanned(c)
  <2> TAKE c \in Current
  <2>1. c.peb \in Pebs BY CurrentFields
  <2> QED BY <2>1, PebFacts DEF Scanned, ItemScanDone
<1> QED BY <1>1, ScanView DEF ItemScanDone

LEMMA TableNoPairs ==
    ASSUME Whole, pc \in FinalLabels \cup {"item_scan"}, View = Current
    PROVE  NoPairs
<1> USE WholeParts
<1> SUFFICES ASSUME NEW c \in Current, NEW d \in Current, c.index = d.index PROVE c = d
  BY DEF NoPairs
<1>1. Header(c) = Header(d) BY DEF TableInv, Mirrors
<1>2. c.peb = d.peb /\ c.off = d.off BY <1>1 DEF Header
<1> QED BY <1>2, CurrentFields

-----------------------------------------------------------------------------
(* PairInv. *)
LEMMA OneOfPair ==
    ASSUME CopyInv, NEW c \in Current, NEW d \in Current, c.index = d.index, c # d,
           NEW S, S \subseteq Current, c \notin S
    PROVE  \A x, y \in S : x.index = y.index => x = y
BY DEF CopyInv

LEMMA PairScanned ==
    ASSUME Whole, ScanNewerCopy \/ ScanOlderCopy
    PROVE  NoPairs'
<1> USE WholeParts
<1>1. ScanningValid /\ pc = "item_scan" /\ items[ScannedItem.index].seq # NoSeq
  BY DEF ScanNewerCopy, ScanOlderCopy, ScanningValid, ScanningItems
<1>2. ScannedItem.index \in Indexes
  BY <1>1, ScannedFacts, ItemFields DEF ScanningValid
<1>3. PICK c \in Current : /\ Scanned(c) /\ c.index = ScannedItem.index
                           /\ Header(c) = items[ScannedItem.index]
  BY <1>1, <1>2, ScannedHeader
<1>4. /\ ScannedCopy \in Current /\ ~Scanned(ScannedCopy)
      /\ ScannedCopy.index = ScannedItem.index
      /\ ScannedCopy.peb = scan.peb /\ ScannedCopy.off = ScannedItem.off
  BY <1>1, ScannedValid
<1>5. c # ScannedCopy BY <1>3, <1>4
<1>6. CASE ScanNewerCopy
  <2>1. Current' = {x \in Current : ~(x.peb = c.peb /\ x.off = c.off)}
    BY <1>3, <1>6, ScanNewerCurrent DEF Header
  <2>2. c \notin Current' /\ Current' \subseteq Current BY <2>1
  <2> QED BY <1>3, <1>4, <1>5, <2>2, OneOfPair DEF NoPairs
<1>7. CASE ScanOlderCopy
  <2>1. Current' = {x \in Current : ~(x.peb = scan.peb /\ x.off = ScannedItem.off)}
    BY <1>7, ScanOlderCurrent
  <2>2. ScannedCopy \notin Current' /\ Current' \subseteq Current BY <1>4, <2>1
  <2> QED BY <1>3, <1>4, <1>5, <2>2, OneOfPair DEF NoPairs
<1> QED BY <1>6, <1>7

LEMMA PairDeleteOld ==
    ASSUME Whole, DeleteOld
    PROVE  NoPairs'
<1> USE WholeParts
<1>1. pc = "delete_old" BY DEF DeleteOld
<1>2. PICK c \in Current, d \in Current :
        c.index = w.index /\ IsOld(d) /\ d.index = w.index /\ d.seq < c.seq
  BY <1>1 DEF WriteInv
<1>3. d # c BY <1>2, CurrentFields
<1>4. Current' = {x \in Current : ~IsOld(x)} BY DeleteOldCurrent
<1> QED BY <1>2, <1>3, <1>4, OneOfPair DEF NoPairs

LEMMA PairAdded ==
    ASSUME Whole, AtWriting, w.append, Current' = Current \cup {NewCopy}
    PROVE  NoPairs'
<1>1. NoPairs /\ \A c \in Current : c.index # w.index BY OldUnique
<1> QED BY <1>1 DEF NoPairs, NewCopy

LEMMA PairKept ==
    ASSUME Whole, pc \in PairLabels, Current' \subseteq Current
    PROVE  PairInv'
BY WholeParts DEF PairInv, NoPairs

LEMMA PairLabelFacts ==
    /\ PairLabels \cap {"off", "peb_scan", "peb_empty", "peb_count", "item_scan", "assert",
                        "delete_old"} = {}
    /\ {"init", "idle", "alloc", "write", "held", "delete", "written", "relocate", "mark",
        "transfering", "migrate", "copied", "reclaim", "erase", "empty", "actived", "writing",
        "valid", "peb_actived"} = PairLabels
BY DEF PairLabels, FinalLabels, SettledLabels, WritingLabels, CollectLabels

LEMMA ClassifyEnds ==
    ASSUME Whole, Classify
    PROVE  /\ pc \in {"peb_scan", "peb_empty", "peb_count"}
           /\ pc' \in {"peb_scan", "peb_empty", "peb_count", "item_scan", "assert"}
           /\ UNCHANGED <<items, sum, wseq>>
           /\ pc' = "item_scan" => AllFormatted
BY DEF Classify, ScanActiving, ScanActivingEmpty, ScanTransfering, ScanTransfered, ScanReclaiming,
   ScanActived, ScanEmpty, ScanUnknown, ScanMean, FormatUnknown, AllFormatted, Scanning, ScanKnown,
   Check, ram

LEMMA LookFacts ==
    ASSUME Whole, ScanLook
    PROVE  /\ pc = "item_scan" /\ pc' \in {"item_scan", "assert"}
           /\ scan'.abnormal = scan.abnormal
BY WholeParts, LocalFields DEF Scans, ScanLook, SkipPeb, ScanEndOfLog, ScanTornItem, ScanDeletedItem, ScanFirstCopy, ScanningValid,
   ScanningItems, NextPeb, Check

LEMMA PairStep ==
    ASSUME Whole, TypeOK', [Next]_vars
    PROVE  PairInv'
<1> USE WholeParts
<1>1. CASE UNCHANGED vars
  <2>1. Current' = Current BY <1>1, SameFlash DEF vars, flash
  <2>2. pc' = pc /\ scan' = scan BY <1>1 DEF vars
  <2> QED BY <2>1, <2>2 DEF PairInv, NoPairs
<1>2. CASE Classify
  <2>1. pc' = "item_scan" => ~scan'.abnormal BY <1>2, ClassifyEnds DEF AllFormatted, BootInv
  <2> QED BY <1>2, <2>1, ClassifyEnds, PairLabelFacts DEF PairInv
<1>3. CASE ScanLook
  <2>1. Current' = Current BY <1>3, ScanLookCurrent
  <2> QED BY <1>3, <2>1, LookFacts, PairLabelFacts DEF PairInv, NoPairs
<1>4. CASE ScanNewerCopy \/ ScanOlderCopy BY <1>4, PairScanned DEF PairInv
<1>5. CASE Still
  <2>1. Current' = Current BY <1>5, StillCurrent
  <2>2. CASE ItemScanDone BY <2>1, <2>2, AllScanned, TableNoPairs DEF PairInv, NoPairs, ItemScanDone
  <2>3. CASE ~ItemScanDone
    <3>1. pc \in PairLabels
      BY <1>5, <2>3, PairLabelFacts DEF Still, RecoverTransfering, RecoverTransfered, RecoverNothing, InitDone,
         GarbageCollect, RelocateEmpty, RelocateValid, SourceDone, SkipDeleted, Reclaimed,
         WriteRefused, WriteAccepted, AllocateTooMany, WriteDone, DeleteDone, Request, RequestWrite,
         RequestDelete, Migrating, AtSource, AfterSources, Allocating
    <3> QED BY <2>1, <3>1, PairKept
  <2> QED BY <2>2, <2>3
<1>6. CASE CalmMarks \/ CopyItem \/ CommitCopy \/ WriteItem \/ Erase \/ MarkEmpty \/ Allocate
  <2>1. pc \in PairLabels
    BY <1>6, PairLabelFacts DEF CalmMarks, MarkReclaiming, StartTransfer, Reclaim, TargetActived, PickTarget,
       CopyItem, CommitCopy, WriteItem, Erase, MarkEmpty, Allocate, Migrating, AtSource,
       AfterSources, Allocating
  <2> QED BY <1>6, <2>1, CurrentSame, PairKept
<1>7. CASE EndTransfer BY <1>7, CopyMoved DEF PairInv
<1>8. CASE PebActivedNow \/ MarkValid
  <2>1. AtWriting /\ pc \in PairLabels
    BY <1>8, PairLabelFacts DEF PebActivedNow, MarkValid, AtWriting, WritingLabels
  <2>2. Current' = Current \/ Current' = Current \cup {NewCopy}
    BY <1>8, PebActivedNowCurrent, MarkValidCurrent
  <2>3. CASE Current' = Current BY <2>1, <2>3, PairKept
  <2>4. CASE Current' = Current \cup {NewCopy} /\ w.append BY <2>1, <2>4, PairAdded DEF PairInv
  <2>5. CASE Current' # Current /\ ~w.append
    <3>1. pc' = "delete_old"
      BY <1>8, <2>5, MarkValidCurrent DEF PebActivedNow, MarkValid, ItemCommitted
    <3> QED BY <3>1, PairLabelFacts DEF PairInv
  <2> QED BY <2>2, <2>3, <2>4, <2>5
<1>9. CASE DeleteOld BY <1>9, PairDeleteOld DEF PairInv
<1>10. CASE DeleteItem
  <2>1. Current' \subseteq Current BY <1>10, DeleteItemCurrent
  <2>2. pc \in PairLabels BY <1>10, PairLabelFacts DEF DeleteItem
  <2> QED BY <2>1, <2>2, PairKept
<1>11. CASE PowerOn \/ PowerLoss
  <2>1. pc' \in {"peb_scan", "off"} BY <1>11 DEF PowerOn, PowerLoss
  <2> QED BY <2>1, PairLabelFacts DEF PairInv
<1> QED BY <1>1, <1>2, <1>3, <1>4, <1>5, <1>6, <1>7, <1>8, <1>9, <1>10, <1>11, Groups

-----------------------------------------------------------------------------
(* BootInv. *)
LEMMA BootVoid ==
    ASSUME pc' \notin {"off", "peb_scan", "peb_empty", "peb_count"}
    PROVE  BootInv'
BY DEF BootInv

LEMMA BootClassify ==
    ASSUME Whole, Classify
    PROVE  BootInv'
<1> USE WholeParts
<1>1. /\ pc \in {"peb_scan", "peb_empty", "peb_count"} /\ UNCHANGED <<items, sum, wseq>>
  BY ClassifyEnds
<1>2. \A p \in Pebs : info'[p].free = info[p].free /\ info'[p].dirty = info[p].dirty
  <2>1. info \in [Pebs -> Infos] BY Shapes
  <2>2. CASE ScanActiving \/ FormatUnknown BY <2>1, <2>2 DEF ScanActiving, FormatUnknown, Infos
  <2>3. CASE ScanActivingEmpty \/ ScanUnknown BY <2>1, <2>3 DEF ScanActivingEmpty, ScanUnknown, Infos
  <2>4. CASE ScanEmpty BY <2>1, <2>4 DEF ScanEmpty, Infos
  <2>5. CASE ScanTransfering \/ ScanTransfered \/ ScanReclaiming \/ ScanActived
    <3>1. ScanKnown(TRUE, scan.peb) \/ ScanKnown(scan.transfering = NoPeb, scan.peb)
          \/ ScanKnown(scan.transfered = NoPeb, scan.peb)
      BY <2>5 DEF ScanTransfering, ScanTransfered, ScanReclaiming, ScanActived
    <3>2. info' = [info EXCEPT ![scan.peb].count = hdr[scan.peb].count] BY <3>1 DEF ScanKnown
    <3> QED BY <2>1, <3>2 DEF Infos
  <2>6. CASE ScanMean \/ AllFormatted BY <2>6 DEF ScanMean, AllFormatted, ram
  <2> QED BY <2>2, <2>3, <2>4, <2>5, <2>6 DEF Classify
<1>3. /\ scan'.pos = scan.pos /\ scan'.dirty = scan.dirty /\ scan'.valid = scan.valid
      /\ scan'.abnormal = scan.abnormal
  BY LocalFields
     DEF Classify, ScanActiving, ScanActivingEmpty, ScanTransfering, ScanTransfered,
         ScanReclaiming, ScanActived, ScanEmpty, ScanUnknown, ScanMean, FormatUnknown, AllFormatted,
         ScanStep, Scans
<1> QED BY <1>1, <1>2, <1>3 DEF BootInv

LEMMA BootStep ==
    ASSUME Whole, [Next]_vars
    PROVE  BootInv'
<1> USE WholeParts
<1>1. CASE UNCHANGED vars BY <1>1 DEF BootInv, vars, ram
<1>2. CASE Classify BY <1>2, BootClassify
<1>3. CASE PowerOn BY <1>3 DEF PowerOn, BootInv, ram
<1>4. CASE PowerLoss BY <1>4 DEF PowerLoss, BootInv, NoInfo, NoScan
<1>5. CASE Next /\ ~(Classify \/ PowerOn \/ PowerLoss)
  <2>1. pc' \notin {"off", "peb_scan", "peb_empty", "peb_count"}
    <3>1. CASE Still BY <3>1, StillFacts
    <3>2. CASE ScanLook BY <3>2, LookFacts
    <3>3. CASE ScanNewerCopy \/ ScanOlderCopy
      BY <3>3 DEF ScanNewerCopy, ScanOlderCopy, SecondCopyOk, Check
    <3>4. CASE CalmMarks \/ EndTransfer \/ PebActivedNow
      BY <3>4 DEF CalmMarks, MarkReclaiming, StartTransfer, Reclaim, TargetActived, PickTarget,
         EndTransfer, PebActivedNow, ItemCommitted, Caller, Check, AtSource, AfterSources
    <3>5. CASE CopyItem \/ CommitCopy \/ WriteItem \/ MarkValid \/ DeleteOld \/ DeleteItem
               \/ Erase \/ MarkEmpty \/ Allocate
      BY <3>5 DEF CopyItem, CommitCopy, WriteItem, MarkValid, DeleteOld, DeleteItem, Erase,
         MarkEmpty, Allocate, ItemCommitted, Check
    <3> QED BY <1>5, <3>1, <3>2, <3>3, <3>4, <3>5, Groups
  <2> QED BY <2>1, BootVoid
<1> QED BY <1>1, <1>2, <1>3, <1>4, <1>5

-----------------------------------------------------------------------------
(* The table of headers. *)
LEMMA IndexFacts ==
    /\ IsFiniteSet(Indexes) /\ Cardinality(Indexes) = MaxItems /\ MaxItems \in Nat
    /\ \A t : IsFiniteSet(Present(t)) /\ Present(t) \subseteq Indexes
    /\ \A t : Cardinality(Present(t)) \in Nat
<1>1. MaxItems \in Nat \ {0} BY StoreAssumption
<1>2. IsFiniteSet(Indexes) /\ Cardinality(Indexes) = MaxItems
  BY <1>1, FS_Interval DEF Indexes
<1>3. \A t : Present(t) \subseteq Indexes BY DEF Present
<1>4. \A t : IsFiniteSet(Present(t)) BY <1>2, <1>3, FS_Subset
<1> QED BY <1>1, <1>2, <1>3, <1>4, FS_CardinalityType

\* Table u is table t with header h at index i.
SetAt(u, t, i, h) == u[i] = h /\ \A j \in Indexes \ {i} : u[j] = t[j]
LEMMA PresentSet ==
    ASSUME NEW t, NEW u, NEW i \in Indexes, NEW h, SetAt(u, t, i, h)
    PROVE  /\ h.size # 0 => Present(u) = Present(t) \cup {i}
           /\ h.size = 0 => Present(u) = Present(t) \ {i}
BY DEF Present, SetAt

LEMMA ItemsSetAt ==
    ASSUME TypeOK, NEW i \in Indexes, NEW h, items' = [items EXCEPT ![i] = h]
    PROVE  SetAt(items', items, i, h)
BY Shapes DEF SetAt

LEMMA PresentCount ==
    ASSUME NEW t, NEW i \in Indexes
    PROVE  /\ i \notin Present(t) =>
                 Cardinality(Present(t) \cup {i}) = Cardinality(Present(t)) + 1
           /\ i \in Present(t) => /\ Cardinality(Present(t) \ {i}) = Cardinality(Present(t)) - 1
                                  /\ Present(t) \cup {i} = Present(t)
<1>1. IsFiniteSet(Present(t)) BY IndexFacts
<1>2. i \notin Present(t) => Cardinality(Present(t) \cup {i}) = Cardinality(Present(t)) + 1
  BY <1>1, FS_AddElement
<1>3. i \in Present(t) => Cardinality(Present(t) \ {i}) = Cardinality(Present(t)) - 1
  BY <1>1, FS_RemoveElement
<1> QED BY <1>2, <1>3

Indexed(V) == \A c \in V : c.index \in Indexes /\ c.seq \in Nat \ {0} /\ c.val \in Values
LEMMA MirrorsLater ==
    ASSUME NEW V, NEW t, NEW P, NEW n \in Nat, NEW m \in Nat, n <= m, Indexed(V),
           Mirrors(V, t, n, P)
    PROVE  Mirrors(V, t, m, P)
BY DEF Mirrors, Indexed

LEMMA MirrorsChange ==
    ASSUME NEW V, NEW t, NEW u, NEW n, NEW P, NEW Q, NEW i \in Indexes, NEW h, Indexed(V),
           SetAt(u, t, i, h), Mirrors(V, t, n, P),
           h.size = 0 <=> h.seq = NoSeq, h.size # 0 => i \in Q, P \ {i} \subseteq Q
    PROVE  Mirrors({c \in V : c.index # i}, u, n, Q)
<1> DEFINE W == {c \in V : c.index # i}
<1>1. \A j \in Indexes : u[j] = IF j = i THEN h ELSE t[j] BY DEF SetAt
<1>2. \A c \in W : u[c.index] = Header(c) /\ c.seq <= n BY <1>1 DEF Mirrors, Indexed
<1>3. \A j \in Indexes : u[j].size # 0 => j \in Q \/ \E c \in W : c.index = j
  <2> SUFFICES ASSUME NEW j \in Indexes, u[j].size # 0, j \notin Q
               PROVE  \E c \in W : c.index = j
    OBVIOUS
  <2>1. j # i BY <1>1
  <2>2. t[j].size # 0 /\ j \notin P BY <1>1, <2>1
  <2>3. PICK c \in V : c.index = j BY <2>2 DEF Mirrors
  <2> QED BY <2>1, <2>3
<1>4. \A j \in Indexes : u[j].size = 0 <=> u[j].seq = NoSeq BY <1>1 DEF Mirrors
<1> QED BY <1>2, <1>3, <1>4 DEF Mirrors

LEMMA MirrorsKnown ==
    ASSUME NEW V, NEW t, NEW n, NEW P, NEW Q, NEW d, Mirrors(V, t, n, P),
           t[d.index] = Header(d), d.seq <= n, P \ {d.index} \subseteq Q
    PROVE  Mirrors(V \cup {d}, t, n, Q)
<1>1. \A c \in V \cup {d} : t[c.index] = Header(c) /\ c.seq <= n BY DEF Mirrors
<1>2. \A i \in Indexes : t[i].size # 0 => i \in Q \/ \E c \in V \cup {d} : c.index = i
  BY DEF Mirrors
<1> QED BY <1>1, <1>2 DEF Mirrors

LEMMA ViewIndexed ==
    ASSUME Whole, pc \in FinalLabels \cup {"item_scan"}
    PROVE  /\ View \subseteq Stored /\ Indexed(View) /\ Indexed(Current)
           /\ \A c, d \in View : c.index = d.index => c = d
<1> USE WholeParts
<1>1. View \subseteq Stored BY CurrentIs DEF View
<1>2. Indexed(View) /\ Indexed(Current) BY <1>1, StoredFields, CurrentIs DEF Indexed
<1>3. ASSUME NEW c \in View, NEW d \in View, c.index = d.index PROVE c = d
  <2>1. Header(c) = Header(d) BY <1>3 DEF TableInv, Mirrors
  <2>2. c.peb = d.peb /\ c.off = d.off BY <2>1 DEF Header
  <2> QED BY <1>1, <2>2, StoredFields
<1> QED BY <1>1, <1>2, <1>3

LEMMA TableIs ==
    ASSUME Whole, pc \in FinalLabels \cup {"item_scan"}
    PROVE  Mirrors(View, items, wseq, Pending) /\ sum = Cardinality(Present(items))
BY WholeParts DEF TableInv

LEMMA TableFrame ==
    ASSUME Whole, pc \in FinalLabels \cup {"item_scan"}, UNCHANGED <<items, sum, wseq>>,
           View' = View, Pending' = Pending
    PROVE  TableInv'
BY TableIs DEF TableInv

LEMMA PlainFrame ==
    ASSUME Whole, pc \in PlainLabels \/ ItemScanDone, UNCHANGED <<items, sum, wseq>>,
           Current' = Current, pc' \in PlainLabels
    PROVE  TableInv'
<1>1. View = Current /\ Pending = {} BY ViewPlain, AllScanned
<1>2. View' = Current' /\ Pending' = {} BY FinalFacts DEF View, Pending, PlainLabels, AtWriting
<1>3. pc \in FinalLabels \cup {"item_scan"} BY DEF PlainLabels, ItemScanDone
<1> QED BY <1>1, <1>2, <1>3, TableFrame

LEMMA ItemsShape ==
    ASSUME TypeOK
    PROVE  DOMAIN items = Indexes /\ items = [i \in Indexes |-> items[i]]
BY Shapes

LEMMA TableVoid ==
    ASSUME pc' \notin FinalLabels \cup {"item_scan"}
    PROVE  TableInv'
BY DEF TableInv

-----------------------------------------------------------------------------
(* The scan of the items rebuilds the table. *)
LEMMA NoneBelowZero ==
    ASSUME TypeOK, LogInv
    PROVE  \A c \in Stored : ~(c.off < 0) /\ ~(c.peb < 0) /\ c.off < End(log[c.peb])
<1> TAKE c \in Stored
<1>1. c.peb \in Pebs /\ c \in CopiesIn(log[c.peb], c.peb) BY StoredMember
<1>2. log[c.peb] \in Seq(Items) /\ Laid(log[c.peb]) BY <1>1, Shapes DEF LogInv
<1>3. PICK j \in DOMAIN log[c.peb] : c = Copy(log[c.peb], c.peb, j) BY <1>1, <1>2, CopyFields
<1>4. c.off = log[c.peb][j].off BY <1>3 DEF Copy
<1>5. ~(c.peb < 0)
  <2>1. c.peb \in Nat BY <1>1, PebFacts
  <2> QED BY <2>1
<1>6. ~(c.off < 0) /\ c.off < End(log[c.peb]) BY <1>2, <1>4, WithinLog
<1> QED BY <1>5, <1>6

ScannedTo(c, p, n) == c.peb < p \/ (c.peb = p /\ c.off < n)
LEMMA ViewScan ==
    ASSUME pc' = "item_scan"
    PROVE  /\ View' = {c \in Current' : ScannedTo(c, scan'.peb, scan'.dirty + scan'.valid)}
           /\ Pending' = {}
BY DEF View, Pending, AtWriting, WritingLabels, Scanned, ScannedTo

LEMMA TableFormatted ==
    ASSUME Whole, TypeOK', AllFormatted
    PROVE  TableInv'
<1> USE WholeParts
<1>1. pc = "peb_count" /\ scan' = scan /\ items' = items /\ sum' = sum /\ wseq' = wseq
  BY DEF AllFormatted, ram
<1>2. scan.peb = 0 BY <1>1 DEF HeaderInv, RoomInv
<1>3. /\ \A i \in Indexes : items[i] = NoItem
      /\ sum = 0 /\ wseq = 0 /\ scan.dirty = 0 /\ scan.valid = 0
  BY <1>1 DEF BootInv
<1>4. Current' = Current BY CurrentSame DEF Classify
<1>5. View' = {} /\ Pending' = {}
  <2>1. View' = {c \in Current : ScannedTo(c, 0, 0 + 0)} /\ Pending' = {}
    BY <1>1, <1>2, <1>3, <1>4, ViewScan DEF AllFormatted
  <2>2. \A c \in Current : ~ScannedTo(c, 0, 0 + 0) BY NoneBelowZero, CurrentIs DEF ScannedTo
  <2> QED BY <2>1, <2>2
<1>6. \A i \in Indexes : items[i].size = 0 /\ items[i].seq = NoSeq BY <1>3 DEF NoItem
<1>7. Present(items') = {} BY <1>1, <1>6 DEF Present
<1>8. Mirrors(View', items', wseq', Pending') BY <1>1, <1>5, <1>6 DEF Mirrors
<1>9. sum' = Cardinality(Present(items')) BY <1>1, <1>3, <1>7, FS_EmptySet
<1> QED BY <1>8, <1>9 DEF TableInv

\* Which copies the scan has seen once it has passed an item.
LEMMA ScanPassed ==
    ASSUME Whole, ScanningItems, HasItem
    PROVE  \A c \in Current :
              ScannedTo(c, scan.peb, scan.dirty + scan.valid + Footprint(ScannedItem.val)) <=>
                 Scanned(c) \/ (c = ScannedCopy /\ ScannedItem.status = ItemValid)
<1> USE WholeParts
<1>1. /\ scan.peb \in Pebs /\ log[scan.peb] \in Seq(Items)
      /\ Laid(log[scan.peb]) /\ scan.pos \in DOMAIN log[scan.peb]
      /\ ScannedItem.off = scan.dirty + scan.valid
  BY ScannedFacts
<1> TAKE c \in Current
<1>2. CASE c.peb # scan.peb
  <2>1. c # ScannedCopy BY <1>2 DEF ScannedCopy, Copy
  <2> QED BY <1>2, <2>1 DEF Scanned, ScannedTo
<1>3. CASE c.peb = scan.peb
  <2>1. c \in CopiesIn(log[scan.peb], scan.peb) BY <1>3, CurrentIs, StoredMember
  <2>2. PICK j \in DOMAIN log[scan.peb] :
           log[scan.peb][j].status = ItemValid /\ c = Copy(log[scan.peb], scan.peb, j)
    BY <1>1, <2>1, CopyFields
  <2>3. c.off = log[scan.peb][j].off BY <2>2 DEF Copy
  <2>4. /\ Place(log[scan.peb], scan.pos + 1) = ScannedItem.off + Footprint(ScannedItem.val)
        /\ log[scan.peb][j].off < Place(log[scan.peb], scan.pos + 1)
              <=> log[scan.peb][j].off < ScannedItem.off \/ j = scan.pos
    BY <1>1, NextPlace DEF ScannedItem
  <2>5. c.off < scan.dirty + scan.valid + Footprint(ScannedItem.val)
           <=> c.off < scan.dirty + scan.valid \/ j = scan.pos
    BY <1>1, <2>3, <2>4
  <2>6. ~(scan.peb < scan.peb)
    <3>1. scan.peb \in Nat BY <1>1, PebFacts
    <3> QED BY <3>1
  <2>7. j = scan.pos => c = ScannedCopy /\ ScannedItem.status = ItemValid
    BY <2>2 DEF ScannedCopy, ScannedItem
  <2>8. c = ScannedCopy => j = scan.pos
    <3> SUFFICES ASSUME c = ScannedCopy PROVE j = scan.pos OBVIOUS
    <3>1. log[scan.peb][j].off = log[scan.peb][scan.pos].off BY <2>3 DEF ScannedCopy, Copy
    <3> QED BY <1>1, <3>1, OffsetsDiffer
  <2> QED BY <1>3, <2>5, <2>6, <2>7, <2>8 DEF Scanned, ScannedTo
<1> QED BY <1>2, <1>3

\* Once the last copy of a block is seen, the next block follows.
LEMMA ScanNextBlock ==
    ASSUME Whole, pc = "item_scan", scan.peb \in Pebs,
           \A c \in Current : c.peb = scan.peb => Scanned(c), scan' = NextPeb,
           Current' = Current, pc' = "item_scan"
    PROVE  View' = View /\ Pending' = Pending
<1> USE WholeParts
<1>1. scan'.peb = scan.peb + 1 /\ scan'.dirty = 0 /\ scan'.valid = 0
  BY LocalFields DEF NextPeb, Scans
<1>2. \A c \in Current : ScannedTo(c, scan.peb + 1, 0 + 0) <=> Scanned(c)
  <2> TAKE c \in Current
  <2>1. c.peb \in Pebs /\ ~(c.off < 0) BY CurrentFields, NoneBelowZero, CurrentIs
  <2>2. c.peb \in Nat /\ scan.peb \in Nat BY <2>1, PebFacts
  <2> QED BY <2>1, <2>2 DEF ScannedTo, Scanned
<1> QED BY <1>1, <1>2, ViewScan, ScanView

LEMMA TableBlock ==
    ASSUME Whole, SkipPeb \/ ScanEndOfLog \/ ScanTornItem
    PROVE  TableInv'
<1> USE WholeParts
<1>1. /\ pc = "item_scan" /\ pc' = "item_scan" /\ scan' = NextPeb
      /\ UNCHANGED <<items, sum, wseq>> /\ scan.peb < PebCount
  BY DEF SkipPeb, ScanEndOfLog, ScanTornItem, ScanningItems
<1>2. scan.peb \in Pebs BY <1>1, NextPebType
<1>3. Current' = Current BY ScanLookCurrent DEF ScanLook
<1>4. \A c \in Current : c.peb = scan.peb => Scanned(c)
  <2>1. CASE SkipPeb BY <2>1, SkippedNotLive, CurrentIs
  <2>2. CASE ScanEndOfLog
    <3>1. ScanningItems /\ ~HasItem BY <2>2 DEF ScanEndOfLog
    <3>2. scan.peb \in Pebs /\ Live(scan.peb) BY <3>1, ScanningLive
    <3>3. scan.pos <= Len(log[scan.peb]) + 1
          /\ scan.dirty + scan.valid = Place(log[scan.peb], scan.pos)
      BY <1>1, <3>2 DEF FreeInv, ScanSpace
    <3>4. Len(log[scan.peb]) \in Nat /\ scan.pos \in Nat BY <3>2, Shapes, LocalFields, Placed
    <3>5. scan.pos = Len(log[scan.peb]) + 1 BY <3>1, <3>3, <3>4 DEF HasItem
    <3>6. scan.dirty + scan.valid = End(log[scan.peb]) BY <3>3, <3>5 DEF End
    <3> QED BY <3>6, NoneBelowZero, CurrentIs DEF Scanned
  <2>3. CASE ScanTornItem
    <3>1. ScanningItems /\ HasItem /\ ScannedItem.status = ItemWriting BY <2>3 DEF ScanTornItem
    <3>2. /\ scan.peb \in Pebs /\ log[scan.peb] \in Seq(Items)
          /\ Laid(log[scan.peb]) /\ scan.pos \in DOMAIN log[scan.peb]
      BY <3>1, ScannedFacts
    <3>3. scan.pos = Len(log[scan.peb]) BY <3>1, <3>2 DEF Laid, OnlyLastTorn, ScannedItem
    <3>4. /\ Place(log[scan.peb], scan.pos + 1) = ScannedItem.off + Footprint(ScannedItem.val)
          /\ ScannedItem.off = scan.dirty + scan.valid
      BY <3>1, <3>2, NextPlace, ScannedFacts DEF ScannedItem
    <3>5. End(log[scan.peb]) = scan.dirty + scan.valid + Footprint(ScannedItem.val)
      BY <3>3, <3>4 DEF End
    <3>6. \A c \in Current : c.peb = scan.peb =>
             ScannedTo(c, scan.peb, scan.dirty + scan.valid + Footprint(ScannedItem.val))
      BY <3>5, NoneBelowZero, CurrentIs DEF ScannedTo
    <3> QED BY <3>1, <3>6, ScanPassed, ItemCodes
  <2> QED BY <2>1, <2>2, <2>3
<1>5. View' = View /\ Pending' = Pending BY <1>1, <1>2, <1>3, <1>4, ScanNextBlock
<1> QED BY <1>1, <1>5, TableFrame

LEMMA MaxSeqSeen ==
    ASSUME Whole, ScanningValid
    PROVE  /\ wseq' \in Nat /\ wseq \in Nat /\ wseq <= wseq' /\ ScannedItem.seq <= wseq'
           /\ ScannedItem.seq \in Nat
<1> USE WholeParts
<1>1. ScannedItem.seq \in Nat BY ScannedFacts, ItemFields DEF ScanningValid
<1>2. wseq \in Nat BY DEF TypeOK
<1>3. wseq' = IF wseq < ScannedItem.seq THEN ScannedItem.seq ELSE wseq BY DEF ScanningValid
<1> QED BY <1>1, <1>2, <1>3

LEMMA TableDeleted ==
    ASSUME Whole, ScanDeletedItem
    PROVE  TableInv'
<1> USE WholeParts
<1>1. /\ ScanningItems /\ HasItem /\ ScannedItem.status = ItemDelete /\ pc = "item_scan"
      /\ pc' = "item_scan" /\ UNCHANGED <<items, sum, wseq>>
  BY DEF ScanDeletedItem, ScanningItems
<1>2. /\ scan'.peb = scan.peb /\ scan'.valid = scan.valid
      /\ scan'.dirty = scan.dirty + Footprint(ScannedItem.val)
  BY LocalFields DEF ScanDeletedItem, Scans
<1>3. Current' = Current BY ScanLookCurrent DEF ScanLook
<1>4. Footprint(ScannedItem.val) \in Nat /\ scan.dirty \in Int /\ scan.valid \in Int
  BY <1>1, ScannedFacts, ItemFields, ValueTypes, LocalFields
<1>5. scan'.dirty + scan'.valid = scan.dirty + scan.valid + Footprint(ScannedItem.val)
  BY <1>2, <1>4
<1>6. View' = {c \in Current :
                 ScannedTo(c, scan.peb, scan.dirty + scan.valid + Footprint(ScannedItem.val))}
      /\ Pending' = {}
  BY <1>1, <1>2, <1>3, <1>5, ViewScan
<1>7. View' = View /\ Pending' = Pending BY <1>1, <1>6, ScanPassed, ScanView, ItemCodes
<1> QED BY <1>1, <1>7, TableFrame

LEMMA PassedView ==
    ASSUME Whole, ScanningValid, pc' = "item_scan", scan'.peb = scan.peb,
           scan'.dirty + scan'.valid = scan.dirty + scan.valid + Footprint(ScannedItem.val),
           Current' \subseteq Current
    PROVE  /\ View' = {c \in Current' : Scanned(c) \/ c = ScannedCopy} /\ Pending' = {}
<1>1. ScanningItems /\ HasItem /\ ScannedItem.status = ItemValid BY DEF ScanningValid
<1>2. View' = {c \in Current' :
                 ScannedTo(c, scan.peb, scan.dirty + scan.valid + Footprint(ScannedItem.val))}
      /\ Pending' = {}
  BY ViewScan
<1> QED BY <1>1, <1>2, ScanPassed

\* The table after the copy under the scan is entered.
LEMMA Entered ==
    ASSUME Whole, ScanningValid, Indexed(View), ScannedItem.index \in Indexes,
           items' = [items EXCEPT ![ScannedItem.index] = HeaderOf(ScannedItem, scan.peb)],
           View' = {c \in View : c.index # ScannedItem.index} \cup {ScannedCopy}, Pending' = {}
    PROVE  Mirrors(View', items', wseq', Pending')
<1> USE WholeParts
<1>1. pc = "item_scan" BY DEF ScanningValid, ScanningItems
<1>2. Mirrors(View, items, wseq, Pending) BY <1>1, TableIs
<1>3. Pending = {} BY <1>1, ScanView
<1>4. wseq \in Nat /\ wseq' \in Nat /\ wseq <= wseq' /\ ScannedItem.seq <= wseq' BY MaxSeqSeen
<1>5. Mirrors(View, items, wseq', {}) BY <1>2, <1>3, <1>4, MirrorsLater
<1>6. PICK i \in Indexes : i = ScannedItem.index OBVIOUS
<1>7. PICK h : h = HeaderOf(ScannedItem, scan.peb) OBVIOUS
<1>8. ScannedCopy.seq = ScannedItem.seq /\ Header(ScannedCopy) = h /\ ScannedCopy.index = i
      /\ ScannedCopy \in Current
  BY <1>6, <1>7, ScannedValid
<1>9. h.size # 0 /\ h.seq # NoSeq
  <2>1. ScannedCopy.val \in Values /\ ScannedCopy.seq \in Nat \ {0} BY <1>8, CurrentFields
  <2> QED BY <1>8, <2>1, ValueTypes DEF Header
<1>10. items' = [items EXCEPT ![i] = h] BY <1>6, <1>7
<1>11. Mirrors({c \in View : c.index # i}, items', wseq', {i})
  <2>1. SetAt(items', items, i, h) BY <1>10, ItemsSetAt
  <2> QED BY <1>5, <1>9, <2>1, MirrorsChange
<1>12. items'[i] = h BY <1>10, ItemsShape
<1>13. Mirrors({c \in View : c.index # i} \cup {ScannedCopy}, items', wseq', {})
  BY <1>4, <1>8, <1>11, <1>12, MirrorsKnown
<1> QED BY <1>6, <1>13

LEMMA TableFirst ==
    ASSUME Whole, ScanFirstCopy
    PROVE  TableInv'
<1> USE WholeParts
<1>1. /\ ScanningValid /\ pc = "item_scan" /\ items[ScannedItem.index].seq = NoSeq
      /\ items' = [items EXCEPT ![ScannedItem.index] = HeaderOf(ScannedItem, scan.peb)]
      /\ sum' = sum + 1 /\ ScanningItems /\ HasItem
  BY DEF ScanFirstCopy, ScanningValid, ScanningItems
<1>2. CASE pc' # "item_scan"
  <2>1. pc' = "assert" BY <1>2 DEF ScanFirstCopy, Check
  <2> QED BY <2>1, TableVoid, FinalFacts
<1>3. CASE pc' = "item_scan"
  <2>1. scan'.peb = scan.peb /\ scan'.dirty = scan.dirty
        /\ scan'.valid = scan.valid + Footprint(ScannedItem.val)
    BY LocalFields DEF ScanFirstCopy, Scans
  <2>2. Footprint(ScannedItem.val) \in Nat /\ scan.dirty \in Int /\ scan.valid \in Int
    BY <1>1, ScannedFacts, ItemFields, ValueTypes, LocalFields
  <2>3. scan'.dirty + scan'.valid = scan.dirty + scan.valid + Footprint(ScannedItem.val)
    BY <2>1, <2>2
  <2>4. Current' = Current BY ScanLookCurrent DEF ScanLook
  <2>5. View' = {c \in Current' : Scanned(c) \/ c = ScannedCopy} /\ Pending' = {}
    BY <1>1, <1>3, <2>1, <2>3, <2>4, PassedView
  <2>6. View = {c \in Current : Scanned(c)} BY <1>1, ScanView
  <2>7. ScannedItem.index \in Indexes BY <1>1, ScannedFacts, ItemFields
  <2>8. Indexed(View) /\ Mirrors(View, items, wseq, Pending) /\ sum = Cardinality(Present(items))
    BY <1>1, ViewIndexed, TableIs
  <2>9. \A c \in View : c.index # ScannedItem.index
    <3> SUFFICES ASSUME NEW c \in View, c.index = ScannedItem.index PROVE FALSE OBVIOUS
    <3>1. items[ScannedItem.index] = Header(c) BY <2>8 DEF Mirrors
    <3>2. Header(c).seq # NoSeq BY <2>8, ValueTypes DEF Indexed, Header
    <3> QED BY <1>1, <3>1, <3>2
  <2>10. View' = {c \in View : c.index # ScannedItem.index} \cup {ScannedCopy}
    BY <1>1, <2>4, <2>5, <2>6, <2>9, ScannedValid
  <2>11. Mirrors(View', items', wseq', Pending')
    BY <1>1, <2>5, <2>7, <2>8, <2>10, Entered
  <2>a. PICK i \in Indexes : i = ScannedItem.index BY <2>7
  <2>12. PICK h : i = ScannedItem.index /\ h = HeaderOf(ScannedItem, scan.peb) BY <2>a
  <2>13. items' = [items EXCEPT ![i] = h] BY <1>1, <2>12
  <2>14. h.size # 0
    <3>1. ScannedItem.val \in Values BY <1>1, ScannedFacts, ItemFields
    <3> QED BY <2>12, <3>1, ValueTypes DEF HeaderOf
  <2>15. i \notin Present(items) BY <1>1, <2>8, <2>12 DEF Mirrors, Present
  <2>16. Present(items') = Present(items) \cup {i}
    <3>1. SetAt(items', items, i, h) BY <2>13, ItemsSetAt
    <3> QED BY <2>14, <3>1, PresentSet
  <2>17. sum' = Cardinality(Present(items')) BY <1>1, <2>8, <2>15, <2>16, PresentCount
  <2> QED BY <2>11, <2>17 DEF TableInv
<1> QED BY <1>2, <1>3

LEMMA TableNewer ==
    ASSUME Whole, TypeOK', ScanNewerCopy
    PROVE  TableInv'
<1> USE WholeParts
<1>1. /\ ScanningValid /\ pc = "item_scan" /\ items[ScannedItem.index].seq # NoSeq
      /\ items' = [items EXCEPT ![ScannedItem.index] = HeaderOf(ScannedItem, scan.peb)]
      /\ sum' = sum /\ ScanningItems /\ HasItem
  BY DEF ScanNewerCopy, ScanningValid, ScanningItems
<1>2. CASE pc' # "item_scan"
  <2>1. pc' = "assert" BY <1>2 DEF ScanNewerCopy, SecondCopyOk, Check
  <2> QED BY <2>1, TableVoid, FinalFacts
<1>3. CASE pc' = "item_scan"
  <2>1. PICK x : x = (IF items[ScannedItem.index].peb = scan.peb
                      THEN Footprint(items[ScannedItem.index].size) ELSE 0)
    OBVIOUS
  <2>2. scan'.peb = scan.peb /\ scan'.dirty = scan.dirty + x
        /\ scan'.valid = scan.valid + Footprint(ScannedItem.val) - x
    BY <2>1, LocalFields DEF ScanNewerCopy, Scans
  <2>3. ScannedItem.index \in Indexes /\ Footprint(ScannedItem.val) \in Nat
    BY <1>1, ScannedFacts, ItemFields, ValueTypes
  <2>4. x \in Int BY <2>1, <2>3, OldSizeType
  <2>5. scan'.dirty + scan'.valid = scan.dirty + scan.valid + Footprint(ScannedItem.val)
    BY <2>2, <2>3, <2>4, LocalFields
  <2>6. PICK d \in Current : /\ Scanned(d) /\ d.index = ScannedItem.index
                             /\ Header(d) = items[ScannedItem.index]
    BY <1>1, <2>3, ScannedHeader
  <2>7. Current' = {c \in Current : ~(c.peb = d.peb /\ c.off = d.off)}
    BY <2>6, ScanNewerCurrent DEF Header
  <2>8. Current' = Current \ {d} BY <2>6, <2>7, CurrentFields
  <2>9. View' = {c \in Current' : Scanned(c) \/ c = ScannedCopy} /\ Pending' = {}
    BY <1>1, <1>3, <2>2, <2>5, <2>8, PassedView
  <2>10. View = {c \in Current : Scanned(c)} BY <1>1, ScanView
  <2>11. /\ Indexed(View) /\ Mirrors(View, items, wseq, Pending)
         /\ sum = Cardinality(Present(items))
         /\ \A c, e \in View : c.index = e.index => c = e
    BY <1>1, ViewIndexed, TableIs
  <2>12. \A c \in View : c.index = ScannedItem.index <=> c = d BY <2>6, <2>10, <2>11
  <2>13. ScannedCopy \in Current /\ ScannedCopy # d BY <1>1, <2>6, ScannedValid
  <2>14. View' = {c \in View : c.index # ScannedItem.index} \cup {ScannedCopy}
    BY <2>8, <2>9, <2>10, <2>12, <2>13
  <2>15. Mirrors(View', items', wseq', Pending')
    BY <1>1, <2>3, <2>9, <2>11, <2>14, Entered
  <2>a. PICK i \in Indexes : i = ScannedItem.index BY <2>3
  <2>16. PICK h : i = ScannedItem.index /\ h = HeaderOf(ScannedItem, scan.peb) BY <2>a
  <2>17. items' = [items EXCEPT ![i] = h] BY <1>1, <2>16
  <2>18. h.size # 0
    <3>1. ScannedItem.val \in Values BY <1>1, ScannedFacts, ItemFields
    <3> QED BY <2>16, <3>1, ValueTypes DEF HeaderOf
  <2>19. i \in Present(items) BY <1>1, <2>11, <2>16 DEF Mirrors, Present
  <2>20. Present(items') = Present(items) \cup {i}
    <3>1. SetAt(items', items, i, h) BY <2>17, ItemsSetAt
    <3> QED BY <2>18, <3>1, PresentSet
  <2>21. sum' = Cardinality(Present(items')) BY <1>1, <2>11, <2>19, <2>20, PresentCount
  <2> QED BY <2>15, <2>21 DEF TableInv
<1> QED BY <1>2, <1>3

LEMMA TableOlder ==
    ASSUME Whole, TypeOK', ScanOlderCopy
    PROVE  TableInv'
<1> USE WholeParts
<1>1. /\ ScanningValid /\ pc = "item_scan" /\ UNCHANGED <<items, sum>>
      /\ ScanningItems /\ HasItem
  BY DEF ScanOlderCopy, ScanningValid, ScanningItems
<1>2. CASE pc' # "item_scan"
  <2>1. pc' = "assert" BY <1>2 DEF ScanOlderCopy, SecondCopyOk, Check
  <2> QED BY <2>1, TableVoid, FinalFacts
<1>3. CASE pc' = "item_scan"
  <2>1. scan'.peb = scan.peb /\ scan'.valid = scan.valid
        /\ scan'.dirty = scan.dirty + Footprint(ScannedItem.val)
    BY LocalFields DEF ScanOlderCopy, Scans
  <2>2. Footprint(ScannedItem.val) \in Nat /\ scan.dirty \in Int /\ scan.valid \in Int
    BY <1>1, ScannedFacts, ItemFields, ValueTypes, LocalFields
  <2>3. scan'.dirty + scan'.valid = scan.dirty + scan.valid + Footprint(ScannedItem.val)
    BY <2>1, <2>2
  <2>4. /\ ScannedCopy \in Current /\ ~Scanned(ScannedCopy)
        /\ ScannedCopy.peb = scan.peb /\ ScannedCopy.off = ScannedItem.off
    BY <1>1, ScannedValid
  <2>5. Current' = {c \in Current : ~(c.peb = scan.peb /\ c.off = ScannedItem.off)}
    BY ScanOlderCurrent
  <2>6. Current' = Current \ {ScannedCopy} BY <2>4, <2>5, CurrentFields
  <2>7. View' = {c \in Current' : Scanned(c) \/ c = ScannedCopy} /\ Pending' = {}
    BY <1>1, <1>3, <2>1, <2>3, <2>6, PassedView
  <2>8. View = {c \in Current : Scanned(c)} /\ Pending = {} BY <1>1, ScanView
  <2>9. View' = View /\ Pending' = Pending BY <2>4, <2>6, <2>7, <2>8
  <2>10. Indexed(View) /\ Mirrors(View, items, wseq, Pending) /\ sum = Cardinality(Present(items))
    BY <1>1, ViewIndexed, TableIs
  <2>11. wseq \in Nat /\ wseq' \in Nat /\ wseq <= wseq' BY <1>1, MaxSeqSeen
  <2>12. Mirrors(View, items, wseq', Pending) BY <2>10, <2>11, MirrorsLater
  <2> QED BY <1>1, <2>9, <2>10, <2>12 DEF TableInv
<1> QED BY <1>2, <1>3

-----------------------------------------------------------------------------
(* The transfer moves the headers along. *)

-----------------------------------------------------------------------------
(* The transfer moves the headers along. *)
SourceCopy == Copy(log[Source], Source, gc.pos)
PassedAt(c, n, place) ==
    \E i \in DOMAIN gc.src : c.peb = gc.src[i] /\ (i < n \/ (i = n /\ c.off < place))

LEMMA PassedPrime ==
    ASSUME gc'.src = gc.src, NEW n, NEW m, gc'.cur = n,
           n \in DOMAIN gc.src => Place(log'[gc.src[n]], gc'.pos) = m
    PROVE  \A c : Passed(c)' <=> PassedAt(c, n, m)
BY DEF Passed, PassedAt, Source

LEMMA PassedNow ==
    \A c : Passed(c) <=> PassedAt(c, gc.cur, Place(log[Source], gc.pos))
BY DEF Passed, PassedAt

LEMMA TransferPlace ==
    ASSUME Whole, pc \in {"migrate", "copied"}
    PROVE  /\ gc.dst \in Pebs /\ ~Live(gc.dst) /\ gc.dst \notin Sources
           /\ \A p \in Sources : p \in Pebs /\ Live(p)
           /\ gc.src \in Seq(Pebs) /\ gc.cur \in Nat \ {0} /\ gc.pos \in Nat \ {0}
           /\ DOMAIN gc.src = 1 .. Len(gc.src) /\ Len(gc.src) \in Nat
           /\ \A i \in DOMAIN gc.src : gc.src[i] \in Sources
<1> USE WholeParts
<1>1. AllReclaiming(Sources) /\ gc.dst \in Pebs /\ Status(gc.dst) = PebTransfering
      /\ Apart(Sources \cup {gc.dst})
  BY StatusFacts DEF BlockInv, TransferInv
<1>2. Sources \subseteq Pebs /\ \A i \in DOMAIN gc.src : gc.src[i] \in Sources BY SourcesType
<1>3. \A q \in Pebs : Status(q) # PebTransfered
  BY <1>1, StatusFacts DEF Apart, AllReclaiming
<1>4. \A p \in Sources : Live(p) BY <1>1, <1>2, <1>3 DEF Live, Status, AllReclaiming
<1>5. ~Live(gc.dst) BY <1>1, NotLive, StatusFacts
<1> QED BY <1>1, <1>2, <1>4, <1>5, LocalFields

LEMMA ViewMigrate ==
    /\ pc = "migrate" =>
          View = {c \in Stored : c.peb = gc.dst \/ (Live(c.peb) /\ ~Passed(c))} /\ Pending = {}
    /\ pc = "copied" =>
          /\ View = {c \in Stored : c.peb = gc.dst \/ (Live(c.peb) /\ ~Passed(c) /\ ~Aside(c))}
          /\ Pending = {SourceItem.index}
BY DEF View, Pending, AtWriting, WritingLabels

LEMMA ViewMigrateNext ==
    /\ pc' = "migrate" =>
          /\ View' = {c \in Stored' : c.peb = gc'.dst \/ (Live(c.peb)' /\ ~Passed(c)')}
          /\ Pending' = {}
    /\ pc' = "copied" =>
          /\ View' = {c \in Stored' : \/ c.peb = gc'.dst
                                      \/ Live(c.peb)' /\ ~Passed(c)' /\ ~Aside(c)'}
          /\ Pending' = {SourceItem'.index}
BY DEF View, Pending, AtWriting, WritingLabels

\* The item under the transfer, and what passing it means.
LEMMA PassedItem ==
    ASSUME Whole, pc \in {"migrate", "copied"}, gc.cur \in DOMAIN gc.src,
           gc.pos \in DOMAIN log[Source]
    PROVE  /\ \A c \in Stored :
                 /\ PassedAt(c, gc.cur, Place(log[Source], gc.pos + 1)) <=>
                       Passed(c) \/ (c = SourceCopy /\ SourceItem.status = ItemValid)
                 /\ SourceItem.status = ItemValid => (Aside(c) <=> c = SourceCopy)
           /\ SourceItem.status = ItemValid => SourceCopy \in Stored
           /\ ~Passed(SourceCopy) \/ ~Injective(gc.src)
           /\ SourceCopy.peb = Source /\ SourceCopy.off = SourceItem.off
<1> USE WholeParts
<1>1. Source \in Pebs BY SourceInDomain
<1>2. log[Source] \in Seq(Items) /\ Laid(log[Source]) BY <1>1, Shapes DEF LogInv
<1>3. SourceCopy.peb = Source /\ SourceCopy.off = SourceItem.off
  BY DEF SourceCopy, Copy, SourceItem
<1>4. SourceItem.status = ItemValid => SourceCopy \in Stored
  BY <1>1, <1>3, StoredMember DEF SourceCopy, CopiesIn, SourceItem
<1>5. SourceItem.status = ItemValid => \A c \in Stored : Aside(c) <=> c = SourceCopy
  BY <1>3, <1>4, StoredFields DEF Aside
<1>6. /\ Place(log[Source], gc.pos) = SourceItem.off
      /\ \A j \in DOMAIN log[Source] :
            log[Source][j].off < Place(log[Source], gc.pos + 1) <=>
               log[Source][j].off < SourceItem.off \/ j = gc.pos
  BY <1>2, NextPlace DEF SourceItem
<1>7. ASSUME NEW c \in Stored, c.peb = Source
      PROVE  c.off < Place(log[Source], gc.pos + 1) <=>
                c.off < Place(log[Source], gc.pos)
                \/ (c = SourceCopy /\ SourceItem.status = ItemValid)
  <2>1. c \in CopiesIn(log[Source], Source) BY <1>7, StoredMember
  <2>2. PICK j \in DOMAIN log[Source] :
           log[Source][j].status = ItemValid /\ c = Copy(log[Source], Source, j)
    BY <1>2, <2>1, CopyFields
  <2>3. c.off = log[Source][j].off BY <2>2 DEF Copy
  <2>4. j = gc.pos => c = SourceCopy /\ SourceItem.status = ItemValid
    BY <2>2 DEF SourceCopy, SourceItem
  <2>5. c = SourceCopy => j = gc.pos
    <3> SUFFICES ASSUME c = SourceCopy PROVE j = gc.pos OBVIOUS
    <3>1. log[Source][j].off = log[Source][gc.pos].off BY <2>3 DEF SourceCopy, Copy
    <3> QED BY <1>2, <3>1, OffsetsDiffer
  <2> QED BY <1>6, <2>3, <2>4, <2>5
<1>8. ASSUME NEW c \in Stored
      PROVE  PassedAt(c, gc.cur, Place(log[Source], gc.pos + 1)) <=>
                Passed(c) \/ (c = SourceCopy /\ SourceItem.status = ItemValid)
  <2>1. c = SourceCopy => c.peb = gc.src[gc.cur] BY <1>3 DEF Source
  <2> QED BY <1>7, <2>1, PassedNow DEF PassedAt, Source
<1>9. Injective(gc.src) => ~Passed(SourceCopy)
  <2> SUFFICES ASSUME Injective(gc.src), Passed(SourceCopy) PROVE FALSE OBVIOUS
  <2>1. PICK i \in DOMAIN gc.src :
           /\ gc.src[gc.cur] = gc.src[i]
           /\ i < gc.cur \/ (i = gc.cur /\ SourceItem.off < Place(log[Source], gc.pos))
    BY <1>3 DEF Passed, Source
  <2>2. i = gc.cur BY <2>1 DEF Injective
  <2>3. gc.cur \in Nat /\ SourceItem.off \in Int BY <1>2, LocalFields, Placed DEF SourceItem
  <2> QED BY <1>6, <2>1, <2>2, <2>3
<1> QED BY <1>3, <1>4, <1>5, <1>8, <1>9

\* No copy is passed at the start, and none is in the target.
LEMMA StartNone ==
    ASSUME Whole, StartTransfer
    PROVE  /\ pc = "transfering" /\ pc' = "migrate" /\ UNCHANGED <<log, info, items, sum, wseq, gc>>
           /\ Stored' = Stored /\ log[gc.dst] = <<>> /\ gc.cur = 1 /\ gc.pos = 1
           /\ \A c \in Stored : ~Passed(c)' /\ c.peb # gc.dst
<1> USE WholeParts
<1>1. /\ pc = "transfering" /\ pc' = "migrate" /\ UNCHANGED <<info, items, sum, wseq, gc>>
  BY DEF StartTransfer, ram
<1>2. log[gc.dst] = <<>> /\ gc.cur = 1 /\ gc.pos = 1 BY <1>1 DEF MoveInv
<1>3. log' = log BY DEF StartTransfer, SetPebStatus
<1>4. Stored' = Stored BY <1>3, LogSame
<1>5. \A c \in Stored : ~Passed(c)'
  <2>1. 1 \in DOMAIN gc.src => Place(log'[gc.src[1]], gc'.pos) = 0
    <3> SUFFICES ASSUME 1 \in DOMAIN gc.src PROVE Place(log[gc.src[1]], 1) = 0 BY <1>1, <1>2, <1>3
    <3>1. gc.src[1] \in Pebs BY SourcesType
    <3> QED BY <3>1 DEF LogInv, Laid, Contiguous
  <2>2. \A c : Passed(c)' <=> PassedAt(c, 1, 0) BY <1>1, <1>2, <2>1, PassedPrime
  <2>3. DOMAIN gc.src = 1 .. Len(gc.src) /\ Len(gc.src) \in Nat BY LocalFields
  <2> QED BY <2>2, <2>3, NoneBelowZero DEF PassedAt
<1>6. \A c \in Stored : c.peb # gc.dst BY <1>2, StoredMember, LaidEmpty
<1> QED BY <1>1, <1>2, <1>3, <1>4, <1>5, <1>6

LEMMA TableStart ==
    ASSUME Whole, TypeOK', StartTransfer
    PROVE  TableInv'
<1> USE WholeParts
<1>1. /\ pc = "transfering" /\ pc' = "migrate" /\ UNCHANGED <<items, sum, wseq, gc>>
      /\ Stored' = Stored
  BY StartNone
<1>2. Current' = Current BY StartTransferCurrent
<1>3. \A c \in Stored : ~Passed(c)' /\ c.peb # gc.dst BY StartNone
<1>4. View' = {c \in Stored' : c.peb = gc'.dst \/ (Live(c.peb)' /\ ~Passed(c)')} /\ Pending' = {}
  BY <1>1, ViewMigrateNext
<1>5. View' = Current'
  <2>1. Current' = {c \in Stored' : Live(c.peb)'} BY DEF Current
  <2> QED BY <1>1, <1>3, <1>4, <2>1
<1>6. View = Current /\ Pending = {} BY <1>1, ViewPlain DEF PlainLabels, FinalLabels, CollectLabels,
      WritingLabels
<1> QED BY <1>1, <1>2, <1>4, <1>5, <1>6, TableFrame DEF FinalLabels, CollectLabels

LEMMA TableSkip ==
    ASSUME Whole, SourceDone \/ SkipDeleted
    PROVE  /\ \A c \in Stored : Passed(c)' <=> Passed(c)
           /\ TableInv'
<1> USE WholeParts
<1>1. /\ pc = "migrate" /\ pc' = "migrate" /\ UNCHANGED <<items, sum, wseq, hdr, log>>
      /\ Migrating /\ gc.cur \in DOMAIN gc.src /\ Source \in Pebs
  BY SourceType DEF SourceDone, SkipDeleted, Migrating, AtSource, ram, flash
<1>2. log[Source] \in Seq(Items) /\ Laid(log[Source]) BY <1>1, Shapes DEF LogInv
<1>3. gc'.src = gc.src /\ gc'.dst = gc.dst
  BY LocalFields DEF SourceDone, SkipDeleted, NextSource, Gcs
<1>4. \A c \in Stored : Passed(c)' <=> Passed(c)
  <2>1. CASE SourceDone
    <3>1. gc'.cur = gc.cur + 1 /\ gc'.pos = 1
      BY <2>1, LocalFields DEF SourceDone, NextSource, Gcs
    <3>2. gc.cur + 1 \in DOMAIN gc.src => Place(log'[gc.src[gc.cur + 1]], gc'.pos) = 0
      <4> SUFFICES ASSUME gc.cur + 1 \in DOMAIN gc.src
                   PROVE  Place(log[gc.src[gc.cur + 1]], 1) = 0
        BY <1>1, <3>1
      <4>1. gc.src[gc.cur + 1] \in Pebs BY SourcesType
      <4> QED BY <4>1 DEF LogInv, Laid, Contiguous
    <3>3. \A c : Passed(c)' <=> PassedAt(c, gc.cur + 1, 0) BY <1>3, <3>1, <3>2, PassedPrime
    <3>4. gc.pos <= Len(log[Source]) + 1 /\ gc.pos \in Nat \ {0} /\ Len(log[Source]) \in Nat
      BY <1>1, <1>2, LocalFields, Placed DEF MoveInv, AtMigrate
    <3>5. ASSUME NEW c \in Stored, c.peb = Source PROVE c.off < Place(log[Source], gc.pos)
      <4>1. c \in CopiesIn(log[Source], Source) /\ c.off < End(log[Source])
        BY <3>5, StoredMember, NoneBelowZero
      <4>2. CASE ~SourceHasItem
        <5>1. gc.pos = Len(log[Source]) + 1 BY <3>4, <4>2 DEF SourceHasItem
        <5> QED BY <4>1, <5>1 DEF End
      <4>3. CASE SourceHasItem
        <5>1. gc.pos \in DOMAIN log[Source] /\ SourceItem.status = ItemWriting
          BY <1>2, <2>1, <3>4, <4>3, Placed DEF SourceDone, SourceHasItem
        <5>2. gc.pos = Len(log[Source]) BY <1>2, <5>1 DEF Laid, OnlyLastTorn, SourceItem
        <5>3. PICK j \in DOMAIN log[Source] :
                 log[Source][j].status = ItemValid /\ c = Copy(log[Source], Source, j)
          BY <1>2, <4>1, CopyFields
        <5>4. j # gc.pos BY <5>1, <5>3, ItemCodes DEF SourceItem
        <5>5. c.off = log[Source][j].off BY <5>3 DEF Copy
        <5>6. /\ Place(log[Source], gc.pos) = log[Source][gc.pos].off
              /\ log[Source][j].off < Place(log[Source], gc.pos + 1)
                    <=> log[Source][j].off < log[Source][gc.pos].off \/ j = gc.pos
          BY <1>2, <5>1, NextPlace
        <5>7. c.off < Place(log[Source], gc.pos + 1) BY <4>1, <5>2 DEF End
        <5> QED BY <5>4, <5>5, <5>6, <5>7
      <4> QED BY <4>2, <4>3
    <3>6. DOMAIN gc.src = 1 .. Len(gc.src) /\ Len(gc.src) \in Nat /\ gc.cur \in Nat BY LocalFields
    <3>7. ASSUME NEW c \in Stored PROVE PassedAt(c, gc.cur + 1, 0) <=> Passed(c)
      <4>1. ~(c.off < 0) BY NoneBelowZero
      <4>2. \A i \in DOMAIN gc.src : i < gc.cur + 1 <=> i < gc.cur \/ i = gc.cur BY <3>6
      <4> QED BY <3>5, <4>1, <4>2, PassedNow DEF PassedAt, Source
    <3> QED BY <3>3, <3>7
  <2>2. CASE SkipDeleted
    <3>1. gc'.cur = gc.cur /\ gc'.pos = gc.pos + 1
      BY <2>2, LocalFields DEF SkipDeleted, Gcs
    <3>2. SourceHasItem /\ SourceItem.status = ItemDelete BY <2>2 DEF SkipDeleted
    <3>3. gc.pos \in DOMAIN log[Source] BY <1>1, <3>2, SourceItemFacts
    <3>4. \A c : Passed(c)' <=> PassedAt(c, gc.cur, Place(log[Source], gc.pos + 1))
      BY <1>1, <1>3, <3>1, PassedPrime DEF Source
    <3> QED BY <1>1, <3>2, <3>3, <3>4, PassedItem, ItemCodes
  <2> QED BY <2>1, <2>2
<1>5. Stored' = Stored /\ \A p \in Pebs : Live(p)' <=> Live(p)
  <2>1. MarksNone BY <1>1 DEF MarksNone
  <2> QED BY <1>1, <2>1, LiveSame, LogSame
<1>6. View' = View /\ Pending' = Pending
  BY <1>1, <1>3, <1>4, <1>5, ViewMigrate, ViewMigrateNext, StoredFields
<1> QED BY <1>1, <1>4, <1>6, TableFrame DEF FinalLabels, CollectLabels

LEMMA SamePresent ==
    ASSUME TypeOK, NEW i \in Indexes, NEW h, SetAt(items', items, i, h), h.size = items[i].size
    PROVE  Present(items') = Present(items)
BY DEF SetAt, Present

\* The copy an item is moved from stays what it is while its header is redirected.
LEMMA CopyRedirects ==
    ASSUME Whole, CopyItem
    PROVE  /\ pc = "migrate" /\ UNCHANGED <<info, sum, wseq, gc>>
           /\ gc.cur \in DOMAIN gc.src /\ Source \in Pebs /\ Live(Source) /\ Source # gc.dst
           /\ SourceItem \in Items /\ SourceItem.status = ItemValid /\ gc.pos \in DOMAIN log[Source]
           /\ Source' = Source /\ SourceItem' = SourceItem /\ log'[Source] = log[Source]
           /\ \A c : (Passed(c)' <=> Passed(c)) /\ (Aside(c)' <=> Aside(c))
           /\ \A p \in Pebs : Live(p)' <=> Live(p)
           /\ SourceCopy \in View /\ SourceCopy.index = SourceItem.index
           /\ SourceCopy.seq = SourceItem.seq /\ SourceCopy.val = SourceItem.val
           /\ \A c \in Stored : Aside(c) <=> c = SourceCopy
<1> USE WholeParts
<1>1. /\ Migrating /\ SourceHasItem /\ pc = "migrate" /\ SourceItem.status = ItemValid
      /\ UNCHANGED <<info, sum, wseq, gc>>
  BY DEF CopyItem, Migrating, AtSource
<1>2. gc.cur \in DOMAIN gc.src /\ gc.pos \in DOMAIN log[Source] /\ SourceItem \in Items
  BY <1>1, SourceItemFacts
<1>3. hdr' = hdr /\ \A p \in Pebs \ {gc.dst} : log'[p] = log[p] BY CopyItemCurrent
<1>4. Source \in Sources /\ gc.dst \notin Sources /\ Source \in Pebs /\ Live(Source)
  BY <1>1, <1>2, TransferPlace DEF Source
<1>5. \A p \in Pebs : Live(p)' <=> Live(p)
  <2>1. MarksNone BY <1>3 DEF MarksNone
  <2> QED BY <2>1, LiveSame
<1>6. log'[Source] = log[Source] /\ Source # gc.dst BY <1>3, <1>4
<1>7. Source' = Source BY <1>1 DEF Source
<1>8. SourceItem' = SourceItem
  <2>1. SourceItem' = log'[Source'][gc'.pos] BY DEF SourceItem
  <2> QED BY <1>1, <1>6, <1>7, <2>1 DEF SourceItem
<1>9. \A c : Passed(c)' <=> Passed(c)
  <2>1. gc.cur \in DOMAIN gc.src =>
           Place(log'[gc.src[gc.cur]], gc'.pos) = Place(log[Source], gc.pos)
    BY <1>1, <1>6 DEF Source
  <2>2. \A c : Passed(c)' <=> PassedAt(c, gc.cur, Place(log[Source], gc.pos))
    BY <1>1, <2>1, PassedPrime
  <2> QED BY <2>2, PassedNow
<1>10. \A c : Aside(c)' <=> Aside(c)
  <2>1. \A c : Aside(c)' <=> c.peb = Source' /\ c.off = SourceItem'.off BY DEF Aside
  <2> QED BY <1>7, <1>8, <2>1 DEF Aside
<1>11. /\ SourceCopy \in Stored /\ ~Passed(SourceCopy) /\ SourceCopy.peb = Source
       /\ \A c \in Stored : Aside(c) <=> c = SourceCopy
  <2>1. Injective(gc.src) BY <1>1 DEF SourceInv, CollectLabels
  <2> QED BY <1>1, <1>2, <2>1, PassedItem
<1>12. SourceCopy \in View BY <1>1, <1>4, <1>11, ViewMigrate
<1>13. SourceCopy.index = SourceItem.index /\ SourceCopy.seq = SourceItem.seq
       /\ SourceCopy.val = SourceItem.val
  BY DEF SourceCopy, Copy, SourceItem
<1>14. \A c : (Passed(c)' <=> Passed(c)) /\ (Aside(c)' <=> Aside(c)) BY <1>9, <1>10
<1> QED BY <1>1, <1>2, <1>4, <1>5, <1>6, <1>7, <1>8, <1>11, <1>12, <1>13, <1>14

LEMMA TableCopy ==
    ASSUME Whole, CopyItem
    PROVE  TableInv'
<1> USE WholeParts
<1>1. pc = "migrate" /\ UNCHANGED <<sum, wseq, gc>> BY CopyRedirects
<1>2. CASE pc' # "copied"
  <2>1. pc' = "assert" BY <1>2 DEF CopyItem, Check
  <2> QED BY <2>1, TableVoid, FinalFacts
<1>3. CASE pc' = "copied"
  <2>1. /\ SourceItem \in Items /\ Source # gc.dst /\ SourceItem' = SourceItem
        /\ \A c : (Passed(c)' <=> Passed(c)) /\ (Aside(c)' <=> Aside(c))
        /\ \A p \in Pebs : Live(p)' <=> Live(p)
        /\ SourceCopy \in View /\ SourceCopy.index = SourceItem.index
        /\ \A c \in Stored : Aside(c) <=> c = SourceCopy
    BY CopyRedirects
  <2>2. Stored' = Stored BY CopyItemCurrent
  <2>10. PICK i \in Indexes : i = SourceItem.index BY <2>1, ItemFields
  <2>11. /\ View = {c \in Stored : c.peb = gc.dst \/ (Live(c.peb) /\ ~Passed(c))}
         /\ Pending = {}
    BY <1>1, ViewMigrate
  <2>12. /\ View' = {c \in Stored : c.peb = gc.dst \/ (Live(c.peb) /\ ~Passed(c) /\ ~Aside(c))}
         /\ Pending' = {i}
    BY <1>1, <1>3, <2>1, <2>2, <2>10, ViewMigrateNext, StoredFields
  <2>16. /\ Indexed(View) /\ Mirrors(View, items, wseq, Pending)
         /\ sum = Cardinality(Present(items))
         /\ \A c, d \in View : c.index = d.index => c = d
    BY <1>1, ViewIndexed, TableIs DEF FinalLabels, CollectLabels
  <2>17. View' = {c \in View : c.index # i}
    <3>1. \A c \in View : c.index = i <=> c = SourceCopy BY <2>1, <2>10, <2>16
    <3>2. SourceCopy.peb # gc.dst BY <2>1 DEF SourceCopy, Copy
    <3>3. \A c : c \in View' <=> c \in View /\ c # SourceCopy BY <2>1, <2>11, <2>12, <3>2
    <3> QED BY <3>1, <3>3
  <2>18. PICK h : h = [items[i] EXCEPT !.peb = gc.dst, !.off = gc.off] OBVIOUS
  <2>19. items[i] \in ItemHeaders BY Shapes
  <2>20. h.size = items[i].size /\ h.seq = items[i].seq BY <2>18, <2>19 DEF ItemHeaders
  <2>21. SetAt(items', items, i, h)
    <3>1. items' = [items EXCEPT ![i].peb = gc.dst, ![i].off = gc.off] BY <2>10 DEF CopyItem
    <3> QED BY <2>18, <2>19, <3>1, Shapes DEF SetAt, ItemHeaders
  <2>22. Mirrors({c \in View : c.index # i}, items', wseq, {i})
    <3>1. h.size = 0 <=> h.seq = NoSeq BY <2>16, <2>20 DEF Mirrors
    <3> QED BY <2>11, <2>16, <2>21, <3>1, MirrorsChange
  <2>23. Present(items') = Present(items) BY <2>20, <2>21, SamePresent
  <2> QED BY <1>1, <2>12, <2>16, <2>17, <2>22, <2>23 DEF TableInv
<1> QED BY <1>2, <1>3

LEMMA CommitPassed ==
    ASSUME Whole, CommitCopy
    PROVE  /\ gc'.src = gc.src /\ gc'.dst = gc.dst /\ gc'.cur = gc.cur /\ gc'.pos = gc.pos + 1
           /\ gc'.off = gc.off + Footprint(SourceItem.val)
           /\ \A c \in Stored : Passed(c)' <=> Passed(c) \/ c = SourceCopy
           /\ \A c : c.peb = gc.dst => ~Passed(c)'
           /\ SourceCopy \in Stored /\ ~Passed(SourceCopy)
           /\ \A c \in Stored : Aside(c) <=> c = SourceCopy
           /\ SourceCopy.peb = Source /\ Source \in Sources /\ Alike(SourceCopy, Moved)
<1> USE WholeParts
<1>1. pc = "copied" BY DEF CommitCopy
<1>2. /\ gc.cur \in DOMAIN gc.src /\ Source \in Pebs /\ gc.pos \in DOMAIN log[Source]
      /\ SourceItem.status = ItemValid
  BY <1>1, CopiedFacts
<1>3. /\ gc'.src = gc.src /\ gc'.dst = gc.dst /\ gc'.cur = gc.cur /\ gc'.pos = gc.pos + 1
      /\ gc'.off = gc.off + Footprint(SourceItem.val)
  BY LocalFields DEF CommitCopy, Gcs
<1>4. /\ Source \in Sources /\ gc.dst \notin Sources
      /\ \A i \in DOMAIN gc.src : gc.src[i] \in Sources
  BY <1>1, <1>2, TransferPlace DEF Source
<1>5. log'[Source] = log[Source]
  <2>1. \A p \in Pebs \ {gc.dst} : log'[p] = log[p] BY CommitCopyCurrent
  <2> QED BY <1>2, <1>4, <2>1
<1>6. \A c : Passed(c)' <=> PassedAt(c, gc.cur, Place(log[Source], gc.pos + 1))
  <2>1. gc.cur \in DOMAIN gc.src =>
           Place(log'[gc.src[gc.cur]], gc'.pos) = Place(log[Source], gc.pos + 1)
    BY <1>3, <1>5 DEF Source
  <2> QED BY <1>3, <2>1, PassedPrime
<1>7. \A c \in Stored : Passed(c)' <=> Passed(c) \/ c = SourceCopy
  BY <1>1, <1>2, <1>6, PassedItem
<1>8. \A c : c.peb = gc.dst => ~Passed(c)' BY <1>4, <1>6 DEF PassedAt
<1>9. /\ SourceCopy \in Stored /\ \A c \in Stored : Aside(c) <=> c = SourceCopy
      /\ SourceCopy.peb = Source
  BY <1>1, <1>2, PassedItem
<1>10. ~Passed(SourceCopy)
  <2>1. Injective(gc.src) BY <1>1 DEF SourceInv, CollectLabels
  <2> QED BY <1>1, <1>2, <2>1, PassedItem
<1>11. Alike(SourceCopy, Moved) BY DEF Alike, SourceCopy, Copy, Moved, SourceItem
<1> QED BY <1>3, <1>4, <1>7, <1>8, <1>9, <1>10, <1>11

LEMMA TableCommit ==
    ASSUME Whole, CommitCopy
    PROVE  TableInv'
<1> USE WholeParts
<1>1. pc = "copied" /\ pc' = "migrate" /\ UNCHANGED <<items, sum, wseq>> BY DEF CommitCopy
<1>2. /\ gc'.dst = gc.dst
      /\ \A c \in Stored : Passed(c)' <=> Passed(c) \/ c = SourceCopy
      /\ \A c : c.peb = gc.dst => ~Passed(c)'
      /\ \A c \in Stored : Aside(c) <=> c = SourceCopy
  BY CommitPassed
<1>3. Stored' = Stored \cup {Moved} /\ hdr' = hdr BY CommitCopyCurrent
<1>4. \A p \in Pebs : Live(p)' <=> Live(p)
  <2>1. MarksNone BY <1>3 DEF MarksNone
  <2> QED BY <2>1, LiveSame
<1>5. /\ View' = {c \in Stored' : c.peb = gc.dst \/ (Live(c.peb)' /\ ~Passed(c)')}
      /\ Pending' = {}
  BY <1>1, <1>2, ViewMigrateNext
<1>6. /\ View = {c \in Stored : c.peb = gc.dst \/ (Live(c.peb) /\ ~Passed(c) /\ ~Aside(c))}
      /\ Pending = {SourceItem.index}
  BY <1>1, ViewMigrate
<1>7. Moved.peb = gc.dst /\ Moved.index = SourceItem.index /\ Moved.seq = SourceItem.seq BY DEF Moved
<1>8. View' = View \cup {Moved}
  <2>1. \A c \in Stored : c.peb \in Pebs BY StoredFields
  <2> QED BY <1>2, <1>3, <1>4, <1>5, <1>6, <1>7, <2>1
<1>9. Mirrors(View, items, wseq, Pending) /\ sum = Cardinality(Present(items))
  BY <1>1, TableIs DEF FinalLabels, CollectLabels
<1>10. items[Moved.index] = Header(Moved) /\ Moved.seq <= wseq
  BY <1>1, <1>7 DEF MoveInv, Moved, Header
<1>11. Mirrors(View \cup {Moved}, items, wseq, {})
  BY <1>6, <1>7, <1>9, <1>10, MirrorsKnown
<1> QED BY <1>1, <1>5, <1>8, <1>9, <1>11 DEF TableInv

LEMMA TableEnd ==
    ASSUME Whole, EndTransfer
    PROVE  TableInv'
<1> USE WholeParts
<1>1. pc = "migrate" /\ pc' = "reclaim" /\ UNCHANGED <<items, sum, wseq>>
  BY DEF EndTransfer, AfterSources, ram
<1>2. Current' = View BY EndTransferCurrent
<1>3. View' = Current' /\ Pending' = {} BY <1>1 DEF View, Pending, AtWriting, WritingLabels
<1>4. Pending = {} BY <1>1, ViewMigrate
<1> QED BY <1>1, <1>2, <1>3, <1>4, TableFrame DEF FinalLabels, CollectLabels

-----------------------------------------------------------------------------
(* A write changes the header of its index. *)
LEMMA ViewWriting ==
    /\ AtWriting => View = {c \in Current : c.index # w.index} /\ Pending = {w.index}
    /\ pc' \in WritingLabels =>
          View' = {c \in Current' : c.index # w'.index} /\ Pending' = {w'.index}
    /\ pc = "delete_old" => View = {c \in Current : ~IsOld(c)} /\ Pending = {}
    /\ pc' = "delete_old" /\ w' = w => View' = {c \in Current' : ~IsOld(c)} /\ Pending' = {}
    /\ pc' = "written" => View' = Current' /\ Pending' = {}
BY DEF View, Pending, AtWriting, WritingLabels, IsOld

LEMMA NotNoReq ==
    ASSUME TypeOK, Located, pc \in CallLabels
    PROVE  req # NoReq
BY ReqFacts, RequestAssumption

LEMMA TableAllocate ==
    ASSUME Whole, TypeOK', Allocate
    PROVE  TableInv'
<1> USE WholeParts
<1>1. /\ pc = "alloc" /\ pc' = "writing" /\ ~(w.append /\ sum >= MaxItems)
      /\ wseq' = wseq + 1 /\ sum' = IF w.append THEN sum + 1 ELSE sum
  BY DEF Allocate, Allocating
<1>2. pc \in CallLabels BY <1>1 DEF CallLabels
<1>3. req # NoReq /\ req.val \in Values BY <1>2, NotNoReq, ReqFacts
<1>4. PICK p \in Pebs : Allocated(p) /\ w'.index = w.index BY AllocateRoom
<1>5. PICK h : h = [size |-> req.val, peb |-> p, off |-> Capacity - info[p].free, seq |-> wseq + 1]
  OBVIOUS
<1>6. PICK i \in Indexes : i = w.index BY LocalFields
<1>7. SetAt(items', items, i, h)
  <2>1. items' = [items EXCEPT ![i] = h] BY <1>4, <1>5, <1>6 DEF Allocated
  <2> QED BY <2>1, ItemsSetAt
<1>8. wseq \in Nat /\ h.size # 0 /\ h.seq # NoSeq
  <2>1. wseq \in Nat BY DEF TypeOK
  <2> QED BY <1>3, <1>5, <2>1, ValueTypes
<1>9. View = Current /\ Pending = {} BY <1>1, ViewPlain DEF PlainLabels, FinalLabels, SettledLabels,
      WritingLabels
<1>10. Mirrors(View, items, wseq, Pending) /\ sum = Cardinality(Present(items)) /\ Indexed(View)
  BY <1>1, TableIs, ViewIndexed DEF FinalLabels, SettledLabels
<1>11. Current' = Current BY AllocateCurrent
<1>12. View' = {c \in View : c.index # i} /\ Pending' = {i}
  BY <1>1, <1>4, <1>6, <1>9, <1>11, ViewWriting DEF WritingLabels
<1>13. Mirrors(View, items, wseq', {})
  BY <1>1, <1>8, <1>9, <1>10, MirrorsLater
<1>14. Mirrors({c \in View : c.index # i}, items', wseq', {i})
  BY <1>7, <1>8, <1>10, <1>13, MirrorsChange
<1>15. Present(items') = Present(items) \cup {i} BY <1>7, <1>8, PresentSet
<1>16. CASE w.append
  <2>1. Present(items) # Indexes
    <3>1. sum \in Int /\ ~(sum >= MaxItems) BY <1>1, <1>16 DEF TypeOK
    <3> QED BY <1>10, <3>1, IndexFacts
  <2>2. items[i].size = 0 BY <1>1, <1>3, <1>6, <1>16, <2>1 DEF AimInv
  <2>3. i \notin Present(items) BY <2>2 DEF Present
  <2>4. sum' = Cardinality(Present(items')) BY <1>1, <1>10, <1>15, <1>16, <2>3, PresentCount
  <2> QED BY <1>12, <1>14, <2>4 DEF TableInv
<1>17. CASE ~w.append
  <2>1. items[i].size # 0 BY <1>1, <1>3, <1>6, <1>17 DEF AimInv
  <2>2. i \in Present(items) BY <2>1 DEF Present
  <2>3. sum' = Cardinality(Present(items')) BY <1>1, <1>10, <1>15, <1>17, <2>2, PresentCount
  <2> QED BY <1>12, <1>14, <2>3 DEF TableInv
<1> QED BY <1>16, <1>17

\* Nothing else lies where the new item does.
LEMMA NewApart ==
    ASSUME Whole, MarkValid \/ PebActivedNow
    PROVE  \A c \in Current : ~(c.peb = w.peb /\ c.off = w.off)
<1> USE WholeParts
<1> SUFFICES ASSUME NEW c \in Current, c.peb = w.peb, c.off = w.off PROVE FALSE OBVIOUS
<1>1. c \in Stored BY CurrentIs
<1>2. CASE PebActivedNow
  <2>1. NewCopy \notin Current /\ NewCopy \in Stored BY <1>2, PebActivedNowCurrent
  <2>2. NewCopy.peb = w.peb /\ NewCopy.off = w.off BY DEF NewCopy
  <2> QED BY <1>1, <2>1, <2>2, StoredFields
<1>3. CASE MarkValid
  <2>1. pc = "valid" BY <1>3 DEF MarkValid
  <2>2. /\ log[w.peb] \in Seq(Items) /\ Laid(log[w.peb])
        /\ Len(log[w.peb]) \in DOMAIN log[w.peb]
        /\ log[w.peb][Len(log[w.peb])] = NewItem(ItemWriting)
    BY <2>1, NewFacts
  <2>3. c \in CopiesIn(log[w.peb], w.peb) BY <1>1, StoredMember
  <2>4. PICK j \in DOMAIN log[w.peb] :
           log[w.peb][j].status = ItemValid /\ c = Copy(log[w.peb], w.peb, j)
    BY <2>2, <2>3, CopyFields
  <2>5. log[w.peb][j].off = w.off BY <2>4 DEF Copy
  <2>6. /\ log[w.peb][Len(log[w.peb])].off = w.off
        /\ log[w.peb][Len(log[w.peb])].status = ItemWriting
    BY <2>2 DEF NewItem
  <2>7. j = Len(log[w.peb]) BY <2>2, <2>5, <2>6, OffsetsDiffer
  <2> QED BY <2>4, <2>6, <2>7, ItemCodes
<1> QED BY <1>2, <1>3

LEMMA TableCommitted ==
    ASSUME Whole, AtWriting, Current' = Current \cup {NewCopy},
           \A c \in Current : ~(c.peb = w.peb /\ c.off = w.off),
           UNCHANGED <<items, sum, wseq, w>>, pc' = ItemCommitted
    PROVE  TableInv'
<1> USE WholeParts
<1>1. /\ \A c \in Current : /\ c.index = w.index => ~w.append /\ IsOld(c)
                            /\ c.seq < wseq
      /\ \A c, d \in Current : IsOld(c) /\ IsOld(d) => c = d
  BY OldUnique
<1>2. items[w.index] = NewHeader /\ (~w.append => \E c \in Current : c.index = w.index)
  BY DEF WriteInv, Replaces
<1>3. NewCopy.index = w.index /\ Header(NewCopy) = NewHeader /\ NewCopy.seq = wseq
  BY DEF NewCopy, Header, NewHeader
<1>4. View = {c \in Current : c.index # w.index} /\ Pending = {w.index} BY ViewWriting
<1>5. Mirrors(View, items, wseq, Pending) /\ sum = Cardinality(Present(items))
  BY TableIs DEF AtWriting, FinalLabels
<1>6. View' = View \cup {NewCopy} /\ Pending' = {}
  <2>1. CASE w.append
    <3>1. pc' = "written" BY <2>1 DEF ItemCommitted
    <3> QED BY <1>1, <1>4, <2>1, <3>1, ViewWriting
  <2>2. CASE ~w.append
    <3>1. pc' = "delete_old" BY <2>2 DEF ItemCommitted
    <3>2. View' = {c \in Current' : ~IsOld(c)} /\ Pending' = {} BY <3>1, ViewWriting
    <3>3. PICK d \in Current : d.index = w.index /\ IsOld(d) BY <1>1, <1>2, <2>2
    <3>4. \A c \in Current : IsOld(c) <=> c.index = w.index BY <1>1, <3>3
    <3>5. ~IsOld(NewCopy)
      <4> SUFFICES ASSUME IsOld(NewCopy) PROVE FALSE OBVIOUS
      <4>1. w.peb = d.peb /\ w.off = d.off BY <3>3 DEF IsOld, NewCopy
      <4> QED BY <4>1
    <3> QED BY <1>4, <3>2, <3>4, <3>5
  <2> QED BY <2>1, <2>2
<1>7. Mirrors(View \cup {NewCopy}, items, wseq, {})
  <2>1. NewCopy.seq <= wseq
    <3>1. wseq \in Nat BY DEF TypeOK
    <3> QED BY <1>3, <3>1
  <2> QED BY <1>2, <1>3, <1>4, <1>5, <2>1, MirrorsKnown
<1>8. pc' \in FinalLabels BY DEF ItemCommitted, FinalLabels, SettledLabels
<1> QED BY <1>5, <1>6, <1>7 DEF TableInv

LEMMA TableWriting ==
    ASSUME Whole, TypeOK', WriteItem \/ MarkValid \/ PebActivedNow
    PROVE  TableInv'
<1> USE WholeParts
<1>1. AtWriting /\ UNCHANGED <<items, sum, wseq, w>>
  BY DEF WriteItem, MarkValid, PebActivedNow, AtWriting, WritingLabels, ram
<1>2. LogInv' /\ (Current' = Current \/ Current' = Current \cup {NewCopy})
  BY WriteItemCurrent, MarkValidCurrent, PebActivedNowCurrent
<1>3. CASE pc' \in WritingLabels
  <2>1. Current' = Current
    BY <1>3, WriteItemCurrent, MarkValidCurrent
       DEF MarkValid, PebActivedNow, ItemCommitted, WritingLabels
  <2>2. View' = View /\ Pending' = Pending BY <1>1, <1>3, <2>1, ViewWriting
  <2> QED BY <1>1, <2>2, TableFrame DEF AtWriting, FinalLabels
<1>4. CASE pc' \notin WritingLabels /\ pc' = "assert" BY <1>4, TableVoid, FinalFacts
<1>5. CASE pc' \notin WritingLabels /\ pc' # "assert"
  <2>1. pc' = ItemCommitted
    BY <1>5 DEF WriteItem, MarkValid, PebActivedNow, Check, WritingLabels
  <2>2. Current' = Current \cup {NewCopy}
    BY <1>5, MarkValidCurrent, PebActivedNowCurrent
       DEF WriteItem, MarkValid, Check, WritingLabels
  <2>3. MarkValid \/ PebActivedNow BY <1>5 DEF WriteItem, Check, WritingLabels
  <2>4. \A c \in Current : ~(c.peb = w.peb /\ c.off = w.off) BY <2>3, NewApart
  <2> QED BY <1>1, <2>1, <2>2, <2>4, TableCommitted
<1> QED BY <1>3, <1>4, <1>5

LEMMA TableDeleteOld ==
    ASSUME Whole, DeleteOld
    PROVE  TableInv'
<1> USE WholeParts
<1>1. pc = "delete_old" /\ UNCHANGED <<items, sum, wseq>> /\ pc' \in {"written", "assert"}
  BY DEF DeleteOld, Check
<1>2. Current' = {c \in Current : ~IsOld(c)} BY DeleteOldCurrent
<1>3. CASE pc' = "written"
  <2>1. View' = View /\ Pending' = Pending BY <1>1, <1>2, <1>3, ViewWriting
  <2> QED BY <1>1, <2>1, TableFrame DEF FinalLabels, SettledLabels
<1>4. CASE pc' = "assert" BY <1>4, TableVoid, FinalFacts
<1> QED BY <1>1, <1>3, <1>4

LEMMA TableDelete ==
    ASSUME Whole, DeleteItem
    PROVE  TableInv'
<1> USE WholeParts
<1>1. pc = "delete" /\ wseq' = wseq /\ sum' = sum - 1 /\ pc' \in {"delete", "assert"}
  BY DEF DeleteItem, Check
<1>2. CASE pc' = "assert" BY <1>2, TableVoid, FinalFacts
<1>3. CASE pc' = "delete"
  <2>1. PICK i \in Indexes :
           /\ i \in Found(req.keys)
           /\ Current' = {c \in Current : ~(c.peb = items[i].peb /\ c.off = items[i].off)}
           /\ items' = [items EXCEPT ![i] = NoItem]
    BY DeleteItemCurrent
  <2>2. items[i].size # 0 BY <2>1 DEF Found, Named
  <2>3. View = Current /\ Pending = {}
    BY <1>1, ViewPlain DEF PlainLabels, FinalLabels, SettledLabels, WritingLabels
  <2>4. /\ Mirrors(View, items, wseq, Pending) /\ sum = Cardinality(Present(items))
        /\ Indexed(View) /\ \A c, d \in View : c.index = d.index => c = d
    BY <1>1, TableIs, ViewIndexed DEF FinalLabels, SettledLabels
  <2>5. PICK d \in Current : d.index = i BY <2>2, <2>3, <2>4 DEF Mirrors
  <2>6. items[i] = Header(d) BY <2>3, <2>4, <2>5 DEF Mirrors
  <2>7. Current' = Current \ {d} BY <2>1, <2>6, CurrentFields DEF Header
  <2>8. View' = {c \in View : c.index # i} /\ Pending' = {}
    <3>1. View' = Current' /\ Pending' = {} BY <1>3 DEF View, Pending, AtWriting, WritingLabels
    <3>2. \A c \in View : c.index = i <=> c = d BY <2>3, <2>4, <2>5
    <3> QED BY <2>3, <2>7, <3>1, <3>2
  <2>9. SetAt(items', items, i, NoItem) BY <2>1, ItemsSetAt
  <2>10. NoItem.size = 0 /\ NoItem.seq = NoSeq BY DEF NoItem
  <2>11. Mirrors({c \in View : c.index # i}, items', wseq, {})
    BY <2>3, <2>4, <2>9, <2>10, MirrorsChange
  <2>12. Present(items') = Present(items) \ {i} BY <2>9, <2>10, PresentSet
  <2>13. i \in Present(items) BY <2>2 DEF Present
  <2>14. sum' = Cardinality(Present(items')) BY <1>1, <2>4, <2>12, <2>13, PresentCount
  <2> QED BY <1>1, <2>8, <2>11, <2>14 DEF TableInv
<1> QED BY <1>1, <1>2, <1>3

-----------------------------------------------------------------------------
LEMMA TableStill ==
    ASSUME Whole, Still
    PROVE  TableInv'
<1> USE WholeParts
<1>1. CASE SourceDone \/ SkipDeleted BY <1>1, TableSkip
<1>2. CASE ~(SourceDone \/ SkipDeleted)
  <2>1. UNCHANGED <<items, sum, wseq>> /\ Current' = Current BY StillFacts, StillCurrent
  <2>2. ItemScanDone \/ pc \in PlainLabels
    BY <1>2 DEF Still, RecoverTransfering, RecoverTransfered, RecoverNothing, InitDone,
       GarbageCollect, RelocateEmpty, RelocateValid, Reclaimed, AfterSources,
       WriteRefused, WriteAccepted, AllocateTooMany, WriteDone, DeleteDone, Request, RequestWrite,
       RequestDelete, Allocating, PlainLabels, FinalLabels, SettledLabels, CollectLabels,
       WritingLabels
  <2>3. pc' \in PlainLabels \cup {"assert"}
    <3>1. pc' # "migrate"
      <4>1. pc = "reclaim" => gc.then # "migrate" BY LocalFields DEF Thens
      <4> QED
        BY <1>2, <4>1 DEF Still, RecoverTransfering, RecoverTransfered, RecoverNothing, InitDone,
           GarbageCollect, RelocateEmpty, RelocateValid, Reclaimed, AfterSources, Recovery, Check,
           WriteRefused, WriteAccepted, AllocateTooMany, WriteDone, DeleteDone, Request,
           RequestWrite, RequestDelete, Return
    <3> QED BY <3>1, StillFacts
            DEF PlainLabels, FinalLabels, SettledLabels, CollectLabels, WritingLabels
  <2> QED BY <2>1, <2>2, <2>3, PlainFrame, TableVoid, FinalFacts
<1> QED BY <1>1, <1>2

LEMMA TableCalm ==
    ASSUME Whole, TypeOK', CalmMarks \/ Erase \/ MarkEmpty
    PROVE  TableInv'
<1> USE WholeParts
<1>1. CASE StartTransfer BY <1>1, TableStart
<1>2. CASE ~StartTransfer
  <2>1. UNCHANGED <<items, sum, wseq>>
    BY <1>2 DEF CalmMarks, MarkReclaiming, Reclaim, TargetActived, PickTarget, Erase, MarkEmpty, ram
  <2>2. Current' = Current BY CurrentSame
  <2>3. pc \in PlainLabels
    BY <1>2 DEF CalmMarks, MarkReclaiming, Reclaim, TargetActived, PickTarget, Erase, MarkEmpty,
       AtSource, AfterSources, PlainLabels, FinalLabels, SettledLabels, CollectLabels, WritingLabels
  <2>4. pc' \in PlainLabels \cup {"assert"}
    BY <1>2 DEF CalmMarks, MarkReclaiming, Reclaim, TargetActived, PickTarget, Erase, MarkEmpty,
       AtSource, AfterSources, Caller, Check, PlainLabels, FinalLabels, SettledLabels,
       CollectLabels, WritingLabels
  <2> QED BY <2>1, <2>2, <2>3, <2>4, PlainFrame, TableVoid, FinalFacts
<1> QED BY <1>1, <1>2

LEMMA TableStep ==
    ASSUME Whole, TypeOK', [Next]_vars
    PROVE  TableInv'
<1> USE WholeParts
<1>1. CASE UNCHANGED vars
  <2>1. Stored' = Stored /\ Current' = Current BY <1>1, SameFlash DEF vars, flash
  <2>2. UNCHANGED <<hdr, log, items, sum, wseq, pc, scan, gc, w>> BY <1>1 DEF vars, flash, ram
  <2>3. \A p : Live(p)' <=> Live(p) BY <2>2 DEF Live
  <2>4. \A c : (Passed(c)' <=> Passed(c)) /\ (Aside(c)' <=> Aside(c)) /\ (IsOld(c)' <=> IsOld(c))
                /\ (Scanned(c)' <=> Scanned(c))
    BY <2>2 DEF Passed, Aside, IsOld, Source, SourceItem, Scanned
  <2>5. SourceItem' = SourceItem /\ (AtWriting' <=> AtWriting)
    BY <2>2 DEF SourceItem, Source, AtWriting
  <2>6. View' = View /\ Pending' = Pending BY <2>1, <2>2, <2>3, <2>4, <2>5 DEF View, Pending
  <2> QED BY <2>2, <2>6 DEF TableInv
<1>2. CASE Classify
  <2>1. CASE AllFormatted BY <2>1, TableFormatted
  <2>2. CASE ~AllFormatted BY <1>2, <2>2, ClassifyEnds, TableVoid, FinalFacts
  <2> QED BY <2>1, <2>2
<1>3. CASE ScanLook BY <1>3, TableBlock, TableDeleted, TableFirst DEF ScanLook
<1>4. CASE PowerOn \/ PowerLoss
  <2>1. pc' \in {"peb_scan", "off"} BY <1>4 DEF PowerOn, PowerLoss
  <2> QED BY <2>1, TableVoid, FinalFacts
<1> QED BY <1>1, <1>2, <1>3, <1>4, Groups, TableNewer, TableOlder, TableStill, TableCalm, TableEnd,
           TableWriting, TableCopy, TableCommit, TableDeleteOld, TableDelete, TableAllocate

-----------------------------------------------------------------------------
(* A name search finds the copies. *)
LEMMA FoundIs ==
    ASSUME Whole, pc \in PlainLabels, NEW K
    PROVE  \A i : i \in Found(K) <=>
                     i \in Indexes /\ \E c \in Current : c.index = i /\ c.key \in K
<1> USE WholeParts
<1>1. View = Current /\ Pending = {} BY ViewPlain
<1>2. Mirrors(Current, items, wseq, {}) BY <1>1, TableIs DEF PlainLabels
<1>3. ASSUME NEW c \in Current
      PROVE  Named(c.index, K) <=> c.key \in K
  <2>1. c.peb \in Pebs /\ c \in CopiesIn(log[c.peb], c.peb) BY CurrentIs, StoredMember
  <2>2. log[c.peb] \in Seq(Items) /\ Laid(log[c.peb]) BY <2>1, Shapes DEF LogInv
  <2>3. PICK j \in DOMAIN log[c.peb] : c = Copy(log[c.peb], c.peb, j) BY <2>1, <2>2, CopyFields
  <2>4. c.off = log[c.peb][j].off /\ c.key = log[c.peb][j].key BY <2>3 DEF Copy
  <2>5. \A k \in DOMAIN log[c.peb] : log[c.peb][k].off = c.off <=> k = j
    BY <2>2, <2>4, OffsetsDiffer
  <2>6. items[c.index] = Header(c) BY <1>2 DEF Mirrors
  <2>7. items[c.index].peb = c.peb /\ items[c.index].off = c.off /\ items[c.index].size = c.val
    BY <2>6 DEF Header
  <2>8. c.val # 0 BY CurrentFields, ValueTypes
  <2>9. ItemsAt(log[c.peb], c.off) = {j} BY <2>5 DEF ItemsAt
  <2> QED BY <2>4, <2>7, <2>8, <2>9 DEF Named
<1>4. ASSUME NEW i \in Indexes, Named(i, K) PROVE \E c \in Current : c.index = i
  BY <1>2, <1>4 DEF Mirrors, Named
<1>5. \A c \in Current : c.index \in Indexes BY CurrentFields
<1> QED BY <1>3, <1>4, <1>5 DEF Found

AimLabels == {"alloc"} \cup CollectLabels
LEMMA AimVoid ==
    ASSUME pc' \notin AimLabels \/ req' = NoReq
    PROVE  AimInv'
BY DEF AimInv, AimLabels

LEMMA AimFrame ==
    ASSUME Whole, pc \in AimLabels, w' = w, req' = req,
           \A i \in Indexes : items'[i].size = items[i].size,
           \A c \in Current' : \E d \in Current : Alike(c, d)
    PROVE  AimInv'
<1> USE WholeParts
<1>1. CASE req = NoReq BY <1>1, AimVoid
<1>2. CASE req # NoReq
  <2>1. w.index \in Indexes BY LocalFields
  <2>2. Present(items') = Present(items) BY DEF Present
  <2>3. CASE w.append
    <3>1. /\ \A c \in Current : c.key # req.key
          /\ Present(items) # Indexes => items[w.index].size = 0
      BY <1>2, <2>3 DEF AimInv, AimLabels
    <3>2. \A c \in Current' : c.key # req.key BY <3>1 DEF Alike
    <3> QED BY <2>1, <2>2, <2>3, <3>1, <3>2 DEF AimInv
  <2>4. CASE ~w.append
    <3>1. /\ \A c \in Current : c.index = w.index <=> c.key = req.key
          /\ items[w.index].size # 0
      BY <1>2, <2>4 DEF AimInv, AimLabels
    <3>2. \A c \in Current' : c.index = w.index <=> c.key = req.key BY <3>1 DEF Alike
    <3> QED BY <2>1, <2>4, <3>1, <3>2 DEF AimInv
  <2> QED BY <2>3, <2>4
<1> QED BY <1>1, <1>2

LEMMA AimAccepted ==
    ASSUME Whole, WriteAccepted
    PROVE  AimInv'
<1> USE WholeParts
<1>1. /\ pc = "write" /\ req' = req /\ items' = items BY DEF WriteAccepted, ram, call
<1>2. Current' = Current BY StillCurrent DEF Still
<1>3. \A i : i \in Holder <=>
                i \in Indexes /\ \E c \in Current : c.index = i /\ c.key \in {req.key}
  BY <1>1, FoundIs DEF Holder, PlainLabels, FinalLabels, SettledLabels, WritingLabels
<1>4. \A c \in Current : c.index \in Indexes BY CurrentFields
<1>5. w' = [NoWrite EXCEPT
                !.append = (Holder = {}),
                !.index = IF Holder # {} THEN Lowest(Holder)
                          ELSE IF EmptyIndexes # {} THEN Lowest(EmptyIndexes) ELSE 0]
  BY DEF WriteAccepted
<1>6. /\ w'.append <=> Holder = {}
      /\ w'.index = IF Holder # {} THEN Lowest(Holder)
                    ELSE IF EmptyIndexes # {} THEN Lowest(EmptyIndexes) ELSE 0
  BY <1>5 DEF NoWrite
<1>7. CASE Holder = {}
  <2>1. \A c \in Current : c.key # req.key BY <1>3, <1>4, <1>7
  <2>2. Present(items) # Indexes => items[w'.index].size = 0
    <3> SUFFICES ASSUME Present(items) # Indexes PROVE items[w'.index].size = 0 OBVIOUS
    <3>1. EmptyIndexes # {} BY DEF Present, EmptyIndexes
    <3>2. EmptyIndexes \in SUBSET Nat BY ValueTypes DEF EmptyIndexes
    <3>3. w'.index \in EmptyIndexes BY <1>6, <1>7, <3>1, <3>2, LowestMember
    <3> QED BY <3>3 DEF EmptyIndexes
  <2> QED BY <1>1, <1>2, <1>6, <1>7, <2>1, <2>2 DEF AimInv
<1>8. CASE Holder # {}
  <2>1. Holder \in SUBSET Nat BY ValueTypes DEF Holder, Found
  <2>2. w'.index \in Holder BY <1>6, <1>8, <2>1, LowestMember
  <2>3. PICK d \in Current : d.index = w'.index /\ d.key = req.key BY <1>3, <2>2
  <2>4. \A c \in Current : c.index = w'.index <=> c.key = req.key BY <2>3 DEF CopyInv
  <2>5. items[w'.index].size # 0 BY <2>2 DEF Holder, Found, Named
  <2> QED BY <1>1, <1>2, <1>6, <1>8, <2>4, <2>5 DEF AimInv
<1> QED BY <1>7, <1>8

LEMMA AlikeSelf == \A c : Alike(c, c)
BY DEF Alike

LEMMA AimStep ==
    ASSUME Whole, TypeOK', [Next]_vars
    PROVE  AimInv'
<1> USE WholeParts
<1>1. CASE UNCHANGED vars
  <2>1. Current' = Current BY <1>1, SameFlash DEF vars, flash
  <2>2. UNCHANGED <<items, pc, w, req>> BY <1>1 DEF vars, ram, call
  <2> QED BY <2>1, <2>2 DEF AimInv
<1>2. CASE pc' \notin AimLabels BY <1>2, AimVoid
<1>3. CASE Next /\ pc' \in AimLabels
  <2>1. CASE WriteAccepted BY <2>1, AimAccepted
  <2>2. CASE RecoverTransfering \/ RecoverTransfered \/ RecoverNothing
    <3>1. req = NoReq /\ req' = req
      BY <2>2 DEF RecoverTransfering, RecoverTransfered, RecoverNothing, Recovery, ItemScanDone,
         Located, BootLabels, call
    <3> QED BY <3>1, AimVoid
  <2>3. CASE GarbageCollect \/ RelocateEmpty \/ RelocateValid \/ SourceDone \/ SkipDeleted
             \/ Reclaimed \/ CalmMarks \/ CopyItem \/ CommitCopy \/ EndTransfer \/ Erase \/ MarkEmpty
    <3>1. pc \in AimLabels /\ w' = w /\ req' = req
      BY <2>3 DEF GarbageCollect, RelocateEmpty, RelocateValid, SourceDone, SkipDeleted, Migrating,
         AtSource, AfterSources, Reclaimed, CalmMarks, MarkReclaiming, StartTransfer, Reclaim,
         TargetActived, PickTarget, CopyItem, CommitCopy, EndTransfer, Erase, MarkEmpty, AimLabels,
         CollectLabels, call
    <3>2. CASE EndTransfer
      <4>1. items' = items BY <3>2 DEF EndTransfer, ram
      <4>2. Current' = View BY <3>2, EndTransferCurrent
      <4> QED BY <3>1, <3>2, <4>1, <4>2, MovedFrom, AimFrame
    <3>3. CASE CopyItem
      <4>1. Current' = Current BY <3>3, CopyItemCurrent
      <4>2. SourceItem.index \in Indexes
        BY <3>3, SourceItemFacts, ItemFields DEF CopyItem
      <4>3. \A i \in Indexes : items'[i].size = items[i].size
        <5>1. PICK k \in Indexes : k = SourceItem.index BY <4>2
        <5>2. items' = [items EXCEPT ![k].peb = gc.dst, ![k].off = gc.off] BY <3>3, <5>1 DEF CopyItem
        <5> QED BY <5>2, Shapes DEF ItemHeaders
      <4> QED BY <3>1, <4>1, <4>3, AlikeSelf, AimFrame
    <3>4. CASE ~EndTransfer /\ ~CopyItem
      <4>1. items' = items
        BY <2>3, <3>4 DEF GarbageCollect, RelocateEmpty, RelocateValid, SourceDone, SkipDeleted,
         Reclaimed, CalmMarks, MarkReclaiming, StartTransfer, Reclaim,
         TargetActived, PickTarget, CommitCopy, Erase, MarkEmpty, ram
      <4>2. Current' = Current BY <2>3, <3>4, CurrentSame DEF Still
      <4> QED BY <3>1, <4>1, <4>2, AlikeSelf, AimFrame
    <3> QED BY <3>2, <3>3, <3>4
  <2>4. CASE InitDone \/ WriteRefused \/ AllocateTooMany \/ WriteDone \/ DeleteDone \/ Request
    BY <1>3, <2>4 DEF InitDone, WriteRefused, AllocateTooMany, WriteDone, DeleteDone, Request,
       RequestWrite, RequestDelete, Return, AimLabels, CollectLabels
  <2>5. CASE Classify \/ ScanLook \/ ScanNewerCopy \/ ScanOlderCopy
    <3>1. pc' \in {"peb_scan", "peb_empty", "peb_count", "item_scan", "assert"}
      BY <2>5, ClassifyEnds, LookFacts DEF ScanNewerCopy, ScanOlderCopy, SecondCopyOk, Check
    <3> QED BY <1>3, <3>1 DEF AimLabels, CollectLabels
  <2>6. CASE PebActivedNow \/ WriteItem \/ MarkValid \/ DeleteOld \/ DeleteItem
             \/ Allocate \/ PowerOn \/ PowerLoss
    BY <1>3, <2>6 DEF PebActivedNow, WriteItem, MarkValid, DeleteOld, DeleteItem, Allocate,
       PowerOn, PowerLoss, ItemCommitted, Check, AimLabels, CollectLabels
  <2> QED BY <1>3, <2>1, <2>2, <2>3, <2>4, <2>5, <2>6, Groups DEF Still
<1> QED BY <1>1, <1>2, <1>3

-----------------------------------------------------------------------------
(* The item being written. *)
LEMMA WriteVoid ==
    ASSUME pc' \notin WritingLabels \cup {"delete_old"}
    PROVE  WriteInv'
BY DEF WriteInv, AtWriting, WritingLabels

LEMMA WriteAllocate ==
    ASSUME Whole, TypeOK', Allocate
    PROVE  WriteInv'
<1> USE WholeParts
<1>1. /\ pc = "alloc" /\ pc' = "writing" /\ ~(w.append /\ sum >= MaxItems)
      /\ wseq' = wseq + 1 /\ req' = req
  BY DEF Allocate, Allocating, call
<1>2. pc \in CallLabels BY <1>1 DEF CallLabels
<1>3. req # NoReq /\ req.val \in Values /\ Footprint(req.val) \in Nat
  BY <1>2, NotNoReq, ReqFacts
<1>4. PICK p \in Pebs :
              /\ Allocated(p)
              /\ w'.peb = p /\ w'.off = Capacity - info[p].free /\ w'.fresh = Fresh(p)
              /\ w'.oldPeb = items[w.index].peb /\ w'.oldOff = items[w.index].off
              /\ w'.index = w.index /\ w'.append = w.append
              /\ log' = log /\ w'.off = End(log[p]) /\ ~Torn(log[p])
              /\ Fresh(p) => log[p] = <<>>
  BY AllocateRoom
<1>5. PICK i \in Indexes : i = w.index BY LocalFields
<1>6. items'[i] = [size |-> req.val, peb |-> p, off |-> w'.off, seq |-> wseq']
  BY <1>1, <1>4, <1>5, Shapes DEF Allocated
<1>7. info'[p].free = info[p].free - Footprint(req.val)
  BY <1>4, Shapes DEF Allocated, Infos
<1>8. Current' = Current /\ Stored' = Stored BY AllocateCurrent
<1>9. View = Current /\ Pending = {}
  BY <1>1, ViewPlain DEF PlainLabels, FinalLabels, SettledLabels, WritingLabels
<1>10. Mirrors(Current, items, wseq, {}) /\ sum = Cardinality(Present(items)) /\ Indexed(Current)
  BY <1>1, <1>9, TableIs, ViewIndexed DEF FinalLabels, SettledLabels
<1>11. wseq \in Nat /\ wseq' # NoSeq
  <2>1. wseq \in Nat BY DEF TypeOK
  <2> QED BY <1>1, <2>1, ValueTypes
<1>12. \A c \in Current : /\ c.seq < wseq'
                          /\ c.index = i => c.peb = w'.oldPeb /\ c.off = w'.oldOff
                          /\ c.index = i => items[i].size # 0
  <2> TAKE c \in Current
  <2>1. c.seq <= wseq /\ c.seq \in Nat /\ items[c.index] = Header(c) /\ c.val \in Values
    BY <1>10 DEF Mirrors, Indexed
  <2>2. c.seq < wseq' BY <1>1, <1>11, <2>1
  <2> QED BY <1>4, <1>5, <2>1, <2>2, ValueTypes DEF Header
<1>13. \A c \in Current : /\ c.index = i <=> c.key = req.key
                          /\ c.index = i => ~w.append
  <2>1. CASE w.append
    <3>1. Present(items) # Indexes
      <4>1. sum \in Int /\ ~(sum >= MaxItems) BY <1>1, <2>1 DEF TypeOK
      <4> QED BY <1>10, <4>1, IndexFacts
    <3>2. items[i].size = 0 /\ \A c \in Current : c.key # req.key
      BY <1>1, <1>3, <1>5, <2>1, <3>1 DEF AimInv
    <3> QED BY <1>12, <3>2
  <2>2. CASE ~w.append BY <1>1, <1>3, <1>5, <2>2 DEF AimInv
  <2> QED BY <2>1, <2>2
<1>14. ~w.append => \E c \in Current : c.index = i
  BY <1>1, <1>3, <1>5, <1>10 DEF AimInv, Mirrors
<1>15. info'[p].free = Capacity - w'.off - Footprint(req.val)
  <2>1. info[p].free \in Int /\ Capacity \in Int BY Fields, ValueTypes
  <2> QED BY <1>3, <1>4, <1>7, <2>1
<1>16. w'.fresh => \A c \in Stored : c.peb = p => c.off = w'.off
  BY <1>4, StoredMember, LaidEmpty
<1>17. Replaces'
  BY <1>1, <1>4, <1>5, <1>6, <1>8, <1>11, <1>12, <1>13, <1>14, <1>15, <1>16
     DEF Replaces, NewHeader, IsOld
<1> QED BY <1>1, <1>4, <1>17 DEF WriteInv, AtWriting

\* The facts of a write in progress that a step of it leaves alone.
LEMMA ReplacesKept ==
    ASSUME Whole, AtWriting, UNCHANGED <<items, wseq, info, w, req>>, Current' = Current,
           Stored' = Stored \/ Stored' = Stored \cup {NewCopy}
    PROVE  Replaces'
<1> USE WholeParts
<1>1. Replaces BY DEF WriteInv
<1>2. NewCopy.off = w.off BY DEF NewCopy
<1>3. w.fresh => \A c \in Stored' : c.peb = w.peb => c.off = w.off
  BY <1>1, <1>2 DEF Replaces
<1> QED BY <1>1, <1>3 DEF Replaces, NewHeader, IsOld

LEMMA WriteWritten ==
    ASSUME Whole, WriteItem
    PROVE  WriteInv'
<1> USE WholeParts
<1>1. /\ pc = "writing" /\ AtWriting /\ UNCHANGED <<items, wseq, info, w, req>>
      /\ pc' \in {"valid", "assert"}
  BY DEF WriteItem, AtWriting, WritingLabels, ram, call, Check
<1>2. /\ Stored' = Stored /\ Current' = Current
      /\ log'[w.peb] = Append(log[w.peb], NewItem(ItemWriting))
  BY WriteItemCurrent
<1>3. Replaces' BY <1>1, <1>2, ReplacesKept
<1>4. w.peb \in Pebs /\ log[w.peb] \in Seq(Items) BY <1>1, WrittenTo, Shapes DEF HeaderInv, WritingLabels
<1>5. log'[w.peb] # <<>> /\ log'[w.peb][Len(log'[w.peb])] = NewItem(ItemWriting)
  BY <1>2, <1>4
<1>6. NewItem(ItemWriting)' = NewItem(ItemWriting) BY <1>1 DEF NewItem
<1>7. pc' = "valid" => WriteInv' BY <1>1, <1>3, <1>5, <1>6 DEF WriteInv
<1> QED BY <1>1, <1>7, WriteVoid DEF WritingLabels

\* The new copy and the old one, once both count.
LEMMA WriteBoth ==
    ASSUME Whole, AtWriting, UNCHANGED <<items, wseq, w, req>>,
           Current' = Current \cup {NewCopy}, pc' = ItemCommitted
    PROVE  WriteInv'
<1> USE WholeParts
<1>1. Replaces BY DEF WriteInv
<1>2. CASE w.append BY <1>2, WriteVoid DEF ItemCommitted, WritingLabels
<1>3. CASE ~w.append
  <2>1. pc' = "delete_old" BY <1>3 DEF ItemCommitted
  <2>2. PICK d \in Current : d.index = w.index /\ IsOld(d) /\ d.seq < wseq
    BY <1>1, <1>3 DEF Replaces
  <2>3. NewCopy.key = req.key /\ NewCopy.index = w.index /\ Header(NewCopy) = NewHeader
        /\ NewCopy.seq = wseq
    BY DEF NewCopy, Header, NewHeader
  <2>4. PICK n : n = NewCopy OBVIOUS
  <2>5. n \in Current' /\ d \in Current' BY <2>4
  <2>6. NewHeader' = NewHeader BY DEF NewHeader
  <2>7. IsOld(d)' BY <2>2 DEF IsOld
  <2>8. items[w.index] = NewHeader BY <1>1 DEF Replaces
  <2> QED BY <2>1, <2>2, <2>3, <2>4, <2>5, <2>6, <2>7, <2>8 DEF WriteInv, AtWriting, WritingLabels
<1> QED BY <1>2, <1>3

LEMMA WriteMarked ==
    ASSUME Whole, MarkValid \/ PebActivedNow
    PROVE  WriteInv'
<1> USE WholeParts
<1>1. /\ AtWriting /\ UNCHANGED <<items, wseq, info, w, req>>
  BY DEF MarkValid, PebActivedNow, AtWriting, WritingLabels, ram, call
<1>2. CASE Current' = Current \cup {NewCopy} /\ pc' = ItemCommitted
  BY <1>1, <1>2, WriteBoth
<1>3. CASE MarkValid /\ w.fresh
  <2>1. pc = "valid" /\ pc' = "peb_actived" BY <1>3 DEF MarkValid
  <2>2. /\ Stored' = Stored \cup {NewCopy} /\ Current' = Current
        /\ log'[w.peb] = Validated(log[w.peb], w.off)
    BY <1>3, MarkValidCurrent
  <2>3. Replaces' BY <1>1, <2>2, ReplacesKept
  <2>4. /\ log[w.peb] \in Seq(Items) /\ Len(log[w.peb]) \in DOMAIN log[w.peb]
        /\ log[w.peb][Len(log[w.peb])] = NewItem(ItemWriting)
    BY <2>1, NewFacts
  <2>5. PICK m : m = Validated(log[w.peb], w.off) OBVIOUS
  <2>6. /\ m \in Seq(Items) /\ DOMAIN m = DOMAIN log[w.peb] /\ Len(m) = Len(log[w.peb])
        /\ \A j \in DOMAIN log[w.peb] : log[w.peb][j].off = w.off =>
              m[j] = [log[w.peb][j] EXCEPT !.status = ItemValid]
    BY <2>4, <2>5, Validates DEF Alined
  <2>7. NewItem(ItemWriting).off = w.off BY DEF NewItem
  <2>8. m[Len(m)] = [NewItem(ItemWriting) EXCEPT !.status = ItemValid] BY <2>4, <2>6, <2>7
  <2>9. m[Len(m)] = NewItem(ItemValid) BY <2>8 DEF NewItem
  <2>10. m # <<>> BY <2>4, <2>6
  <2>11. NewItem(ItemValid)' = NewItem(ItemValid) BY <1>1 DEF NewItem
  <2> QED BY <1>1, <2>1, <2>2, <2>3, <2>5, <2>9, <2>10, <2>11 DEF WriteInv
<1>4. CASE PebActivedNow
  <2>1. Current' = Current \cup {NewCopy} BY <1>4, PebActivedNowCurrent
  <2> QED BY <1>2, <1>4, <2>1 DEF PebActivedNow
<1>5. CASE MarkValid /\ ~w.fresh
  <2>1. Current' = Current \cup {NewCopy} BY <1>5, MarkValidCurrent
  <2> QED BY <1>2, <1>5, <2>1 DEF MarkValid
<1> QED BY <1>3, <1>4, <1>5

LEMMA WriteStep ==
    ASSUME Whole, TypeOK', [Next]_vars
    PROVE  WriteInv'
<1> USE WholeParts
<1>1. CASE UNCHANGED vars
  <2>1. Stored' = Stored /\ Current' = Current BY <1>1, SameFlash DEF vars, flash
  <2>2. UNCHANGED <<log, items, wseq, info, pc, w, req>> BY <1>1 DEF vars, flash, ram, call
  <2> QED BY <2>1, <2>2
          DEF WriteInv, AtWriting, Replaces, NewHeader, IsOld, NewItem
<1>2. CASE WriteItem \/ MarkValid \/ PebActivedNow \/ Allocate
  BY <1>2, WriteWritten, WriteMarked, WriteAllocate
<1>3. CASE Next /\ ~(WriteItem \/ MarkValid \/ PebActivedNow \/ Allocate)
  <2>1. pc' \notin WritingLabels \cup {"delete_old"}
    <3>1. CASE Still BY <3>1, StillFacts DEF WritingLabels
    <3>2. CASE ScanLook \/ Classify BY <3>2, LookFacts, ClassifyEnds DEF WritingLabels
    <3>3. CASE ScanNewerCopy \/ ScanOlderCopy
      BY <3>3 DEF ScanNewerCopy, ScanOlderCopy, SecondCopyOk, Check, WritingLabels
    <3>4. CASE CalmMarks \/ EndTransfer
      BY <3>4 DEF CalmMarks, MarkReclaiming, StartTransfer, Reclaim, TargetActived, PickTarget,
         EndTransfer, Caller, Check, AtSource, AfterSources, WritingLabels
    <3>5. CASE CopyItem \/ CommitCopy \/ DeleteOld \/ DeleteItem
               \/ Erase \/ MarkEmpty \/ PowerOn \/ PowerLoss
      BY <3>5 DEF CopyItem, CommitCopy, DeleteOld, DeleteItem, Erase,
         MarkEmpty, PowerOn, PowerLoss, Check, WritingLabels
    <3> QED BY <1>3, <3>1, <3>2, <3>3, <3>4, <3>5, Groups
  <2> QED BY <2>1, WriteVoid
<1> QED BY <1>1, <1>2, <1>3

-----------------------------------------------------------------------------
(* The transfer. *)
LEMMA MoveVoid ==
    ASSUME pc' \notin {"transfering", "migrate", "copied"}
    PROVE  MoveInv'
BY DEF MoveInv, AtMigrate

LEMMA MovePick ==
    ASSUME Whole, TypeOK', PickTarget
    PROVE  MoveInv'
<1> USE WholeParts
<1>1. pc = "mark" /\ pc' \in {"transfering", "assert"} BY DEF PickTarget, AfterSources, Check
<1>2. CASE pc' = "assert" BY <1>2, MoveVoid
<1>3. CASE pc' = "transfering"
  <2>1. PICK p \in Reserved : Picked(p) BY <1>3, PicksReserved DEF PickTarget, Check
  <2>2. p \in Pebs /\ info[p].reserved BY <2>1 DEF Reserved
  <2>3. Status(p) = PebEmpty
    BY <1>1, <2>2 DEF BlockInv, MarkInv, Apart, NotReserved
  <2>4. log[p] = <<>> BY <2>2, <2>3 DEF HeaderInv, HeadersSound, Sound, Status
  <2>5. info[p].free = Capacity BY <1>1, <2>2, KnownFinal, FinalFacts DEF HeaderInv, RoomInv, CollectLabels
  <2>6. gc'.dst = p /\ gc'.off = 0 /\ gc'.cur = 1 /\ gc'.pos = 1
    BY <2>1, LocalFields DEF Picked, Gcs
  <2>7. info'[p].free = info[p].free BY <2>1, <2>2, Shapes DEF Picked, Infos
  <2>8. log' = log BY <2>1 DEF Picked, Activate
  <2> QED BY <1>3, <2>4, <2>5, <2>6, <2>7, <2>8 DEF MoveInv, AtMigrate
<1> QED BY <1>1, <1>2, <1>3

LEMMA MoveStart ==
    ASSUME Whole, TypeOK', StartTransfer
    PROVE  MoveInv'
<1> USE WholeParts
<1>1. /\ pc = "transfering" /\ pc' = "migrate" /\ UNCHANGED <<log, info, gc>> /\ Stored' = Stored
      /\ log[gc.dst] = <<>> /\ gc.cur = 1 /\ gc.pos = 1
      /\ \A c \in Stored : ~Passed(c)' /\ c.peb # gc.dst
  BY StartNone
<1>2. gc.off = 0 /\ info[gc.dst].free = Capacity BY <1>1 DEF MoveInv
<1>3. gc.cur \in DOMAIN gc.src => gc.pos <= Len(log[Source]) + 1
  <2> SUFFICES ASSUME gc.cur \in DOMAIN gc.src PROVE 1 <= Len(log[Source]) + 1 BY <1>1
  <2>1. log[Source] \in Seq(Items) BY SourceInDomain, Shapes
  <2>2. Len(log[Source]) \in Nat BY <2>1
  <2> QED BY <2>2
<1>4. Source' = Source BY <1>1 DEF Source
<1>5. info'[gc'.dst].free = Capacity - gc'.off BY <1>1, <1>2, ValueTypes
<1> QED BY <1>1, <1>2, <1>3, <1>4, <1>5, LaidEmpty DEF MoveInv, AtMigrate

LEMMA MoveSkip ==
    ASSUME Whole, TypeOK', SourceDone \/ SkipDeleted
    PROVE  MoveInv'
<1> USE WholeParts
<1>1. /\ pc = "migrate" /\ pc' = "migrate" /\ UNCHANGED <<hdr, log, info>>
      /\ Migrating /\ gc.cur \in DOMAIN gc.src /\ Source \in Pebs
  BY SourceType DEF SourceDone, SkipDeleted, Migrating, AtSource, ram, flash
<1>2. \A c \in Stored : Passed(c)' <=> Passed(c) BY TableSkip
<1>3. Stored' = Stored BY <1>1, LogSame
<1>4. gc'.src = gc.src /\ gc'.dst = gc.dst /\ gc'.off = gc.off
  BY LocalFields DEF SourceDone, SkipDeleted, NextSource, Gcs
<1>5. \A p \in Pebs : Len(log[p]) \in Nat BY Shapes
<1>6. /\ gc'.cur \in DOMAIN gc'.src => gc'.pos <= Len(log[gc'.src[gc'.cur]]) + 1
      /\ gc'.cur \notin DOMAIN gc'.src => gc'.pos = 1
  <2>1. CASE SourceDone
    <3>1. gc'.pos = 1 BY <2>1, LocalFields DEF SourceDone, NextSource, Gcs
    <3>2. gc'.cur \in DOMAIN gc'.src => gc'.src[gc'.cur] \in Pebs BY <1>4, SourcesType
    <3> QED BY <1>5, <3>1, <3>2
  <2>2. CASE SkipDeleted
    <3>1. gc'.cur = gc.cur /\ gc'.pos = gc.pos + 1 BY <2>2, LocalFields DEF SkipDeleted, Gcs
    <3>2. gc.pos <= Len(log[Source]) BY <2>2 DEF SkipDeleted, SourceHasItem
    <3>3. gc.pos \in Nat BY LocalFields
    <3> QED BY <1>1, <1>4, <1>5, <3>1, <3>2, <3>3 DEF Source
  <2> QED BY <2>1, <2>2
<1>7. Source' = gc'.src[gc'.cur] BY DEF Source
<1>8. AtMigrate BY <1>1 DEF AtMigrate
<1> QED BY <1>1, <1>2, <1>3, <1>4, <1>6, <1>7, <1>8 DEF MoveInv, AtMigrate

LEMMA MoveCopy ==
    ASSUME Whole, TypeOK', CopyItem
    PROVE  MoveInv'
<1> USE WholeParts
<1>1. pc = "migrate" /\ UNCHANGED <<info, sum, wseq, gc>> BY CopyRedirects
<1>2. CASE pc' # "copied"
  <2>1. pc' = "assert" BY <1>2 DEF CopyItem, Check
  <2> QED BY <2>1, MoveVoid
<1>3. CASE pc' = "copied"
  <2>1. /\ SourceItem \in Items /\ SourceItem.status = ItemValid /\ Source \in Pebs
        /\ gc.pos \in DOMAIN log[Source] /\ gc.cur \in DOMAIN gc.src
        /\ Source' = Source /\ SourceItem' = SourceItem /\ log'[Source] = log[Source]
        /\ \A c : (Passed(c)' <=> Passed(c)) /\ (Aside(c)' <=> Aside(c))
        /\ SourceCopy \in View /\ SourceCopy.index = SourceItem.index
        /\ SourceCopy.seq = SourceItem.seq /\ SourceCopy.val = SourceItem.val
    BY CopyRedirects
  <2>2. /\ Stored' = Stored /\ log'[gc.dst]
             = Append(log[gc.dst], [SourceItem EXCEPT !.status = ItemWriting, !.off = gc.off])
    BY CopyItemCurrent
  <2>3. AtMigrate BY <1>1 DEF AtMigrate
  <2>4. /\ \A c \in Stored : Passed(c) => \E d \in Stored : d.peb = gc.dst /\ Alike(c, d)
        /\ \A d \in Stored : d.peb = gc.dst => \E c \in Stored : Passed(c) /\ Alike(c, d)
        /\ info[gc.dst].free = Capacity - gc.off
    BY <2>3 DEF MoveInv
  <2>5. gc.dst \in Pebs /\ log[gc.dst] \in Seq(Items) BY <1>1, TransferPlace, Shapes
  <2>6. PICK it : it = [SourceItem EXCEPT !.status = ItemWriting, !.off = gc.off] OBVIOUS
  <2>7. log'[gc.dst] # <<>> /\ log'[gc.dst][Len(log'[gc.dst])] = it
    BY <2>2, <2>5, <2>6
  <2>8. Mirrors(View, items, wseq, Pending) BY <1>1, TableIs DEF FinalLabels, CollectLabels
  <2>9. items[SourceItem.index] = Header(SourceCopy) /\ SourceItem.seq <= wseq
    BY <2>1, <2>8 DEF Mirrors
  <2>10. items'[SourceItem.index] = [size |-> SourceItem.val, peb |-> gc.dst, off |-> gc.off,
                                     seq |-> SourceItem.seq]
    <3>1. PICK i \in Indexes : i = SourceItem.index BY <2>1, ItemFields
    <3>2. /\ items'[i].size = items[i].size /\ items'[i].peb = gc.dst
          /\ items'[i].off = gc.off /\ items'[i].seq = items[i].seq
      BY <3>1, Shapes DEF CopyItem, ItemHeaders
    <3>3. items[i].size = SourceItem.val /\ items[i].seq = SourceItem.seq
      BY <2>1, <2>9, <3>1 DEF Header
    <3>4. items'[i] \in ItemHeaders BY <3>1 DEF TypeOK
    <3>5. items'[i] = [size |-> items'[i].size, peb |-> items'[i].peb, off |-> items'[i].off,
                       seq |-> items'[i].seq]
      BY <3>4 DEF ItemHeaders
    <3> QED BY <3>1, <3>2, <3>3, <3>5
  <2>11. gc.pos <= Len(log[Source]) + 1
    <3>1. log[Source] \in Seq(Items) BY <2>1, Shapes
    <3> QED BY <2>1, <3>1
  <2> QED BY <1>1, <1>3, <2>1, <2>2, <2>4, <2>6, <2>7, <2>9, <2>10, <2>11 DEF MoveInv, AtMigrate
<1> QED BY <1>2, <1>3

LEMMA MoveCommit ==
    ASSUME Whole, TypeOK', CommitCopy
    PROVE  MoveInv'
<1> USE WholeParts
<1>1. pc = "copied" /\ pc' = "migrate" /\ AtMigrate BY DEF CommitCopy, AtMigrate
<1>2. /\ gc'.src = gc.src /\ gc'.dst = gc.dst /\ gc'.cur = gc.cur /\ gc'.pos = gc.pos + 1
      /\ gc'.off = gc.off + Footprint(SourceItem.val)
      /\ \A c \in Stored : Passed(c)' <=> Passed(c) \/ c = SourceCopy
      /\ \A c : c.peb = gc.dst => ~Passed(c)'
      /\ SourceCopy \in Stored
      /\ SourceCopy.peb = Source /\ Source \in Sources /\ Alike(SourceCopy, Moved)
  BY CommitPassed
<1>3. /\ Stored' = Stored \cup {Moved} /\ End(log'[gc.dst]) = gc.off + Footprint(SourceItem.val)
      /\ ~Torn(log'[gc.dst]) /\ \A p \in Pebs \ {gc.dst} : log'[p] = log[p]
  BY CommitCopyCurrent
<1>4. PICK m : m = Moved OBVIOUS
<1>5. PICK s : s = SourceCopy OBVIOUS
<1>6. m.peb = gc.dst BY <1>4 DEF Moved
<1>7. /\ \A c \in Stored : Passed(c) => \E d \in Stored : d.peb = gc.dst /\ Alike(c, d)
      /\ \A d \in Stored : d.peb = gc.dst => \E c \in Stored : Passed(c) /\ Alike(c, d)
      /\ info[gc.dst].free = Capacity - gc.off
  BY <1>1 DEF MoveInv
<1>8. Stored' = Stored \cup {m} /\ s \in Stored /\ Alike(s, m) BY <1>2, <1>3, <1>4, <1>5
<1>9. \A c \in Stored : Passed(c)' <=> Passed(c) \/ c = s BY <1>2, <1>5
<1>10. ~Passed(m)' BY <1>2, <1>6
<1>11. \A c \in Stored' : Passed(c)' => \E d \in Stored' : d.peb = gc'.dst /\ Alike(c, d)
  BY <1>2, <1>6, <1>7, <1>8, <1>9, <1>10
<1>12. \A d \in Stored' : d.peb = gc'.dst => \E c \in Stored' : Passed(c)' /\ Alike(c, d)
  BY <1>2, <1>7, <1>8, <1>9
<1>13. info'[gc.dst].free = info[gc.dst].free - Footprint(SourceItem.val)
  <2>1. gc.dst \in Pebs BY <1>1, CopiedFacts
  <2> QED BY <2>1, Shapes DEF CommitCopy, Infos
<1>14. /\ gc.cur \in DOMAIN gc.src /\ Source \in Pebs /\ gc.pos \in DOMAIN log[Source]
       /\ gc.dst \in Pebs /\ SourceItem \in Items
  BY <1>1, CopiedFacts
<1>15. info'[gc.dst].free = Capacity - gc'.off
  <2>1. gc.off \in Int /\ Capacity \in Int /\ Footprint(SourceItem.val) \in Int
    <3>1. SourceItem.val \in Values BY <1>14, ItemFields
    <3>2. Footprint(SourceItem.val) \in Nat \ {0} BY <3>1, ValueTypes
    <3> QED BY <3>2, LocalFields, ValueTypes
  <2> QED BY <1>2, <1>7, <1>13, <2>1
<1>16. gc'.pos <= Len(log'[gc'.src[gc'.cur]]) + 1
  <2>1. Source # gc.dst
    <3>1. gc.dst \notin Sources BY <1>1, TransferPlace
    <3> QED BY <1>2, <3>1
  <2>2. log'[Source] = log[Source] BY <1>3, <1>14, <2>1
  <2>3. log[Source] \in Seq(Items) BY <1>14, Shapes
  <2> QED BY <1>2, <1>14, <2>2, <2>3 DEF Source
<1>17. Source' = gc'.src[gc'.cur] BY DEF Source
<1> QED BY <1>1, <1>2, <1>3, <1>11, <1>12, <1>14, <1>15, <1>16, <1>17 DEF MoveInv, AtMigrate

LEMMA MoveStep ==
    ASSUME Whole, TypeOK', [Next]_vars
    PROVE  MoveInv'
<1> USE WholeParts
<1>1. CASE UNCHANGED vars
  <2>1. Stored' = Stored BY <1>1, SameFlash DEF vars, flash
  <2>2. UNCHANGED <<log, items, wseq, info, pc, gc>> BY <1>1 DEF vars, flash, ram, call
  <2> QED BY <2>1, <2>2 DEF MoveInv, AtMigrate, Passed, Source, SourceItem, Alike
<1>2. CASE PickTarget \/ StartTransfer \/ SourceDone \/ SkipDeleted \/ CopyItem \/ CommitCopy
  BY <1>2, MovePick, MoveStart, MoveSkip, MoveCopy, MoveCommit
<1>3. CASE /\ Next
           /\ ~(PickTarget \/ StartTransfer \/ SourceDone \/ SkipDeleted \/ CopyItem \/ CommitCopy)
  <2>1. pc' \notin {"transfering", "migrate", "copied"}
    <3>1. CASE Still
      BY <1>3, <3>1, LocalFields
         DEF Still, RecoverTransfering, RecoverTransfered, RecoverNothing, InitDone, Recovery,
             GarbageCollect, RelocateEmpty, RelocateValid, Reclaimed, WriteRefused, WriteAccepted,
             AllocateTooMany, WriteDone, DeleteDone, Request, RequestWrite, RequestDelete,
             Return, Check, Thens
    <3>2. CASE ScanLook \/ Classify BY <3>2, LookFacts, ClassifyEnds
    <3>3. CASE ScanNewerCopy \/ ScanOlderCopy
      BY <3>3 DEF ScanNewerCopy, ScanOlderCopy, SecondCopyOk, Check
    <3>4. CASE CalmMarks \/ EndTransfer
      BY <1>3, <3>4 DEF CalmMarks, MarkReclaiming, Reclaim, TargetActived,
         EndTransfer, Caller, Check, AtSource, AfterSources
    <3>5. CASE WriteItem \/ MarkValid \/ PebActivedNow \/ Allocate \/ DeleteOld \/ DeleteItem
               \/ Erase \/ MarkEmpty \/ PowerOn \/ PowerLoss
      BY <3>5 DEF WriteItem, MarkValid, PebActivedNow, Allocate, DeleteOld, DeleteItem, Erase,
         MarkEmpty, PowerOn, PowerLoss, Check, ItemCommitted
    <3> QED BY <1>3, <3>1, <3>2, <3>3, <3>4, <3>5, Groups
  <2> QED BY <2>1, MoveVoid
<1> QED BY <1>1, <1>2, <1>3

-----------------------------------------------------------------------------
(* The sources of a collection. *)
LEMMA FootFacts ==
    ASSUME NEW l \in Seq(Items), NEW S \in SUBSET DOMAIN l
    PROVE  /\ IsFiniteSet(S) /\ \A j \in S : Foot(l)[j] \in Nat \ {0}
           /\ SumOver(S, Foot(l)) \in Nat /\ \A j \in S : Foot(l)[j] <= SumOver(S, Foot(l))
<1>1. IsFiniteSet(S) BY Sizes, FS_Subset
<1>2. \A j \in S : Foot(l)[j] \in Nat \ {0}
  <2> SUFFICES ASSUME NEW j \in S PROVE Foot(l)[j] \in Nat \ {0} OBVIOUS
  <2>1. Footprint(l[j].val) \in Nat \ {0} BY Placed
  <2> QED BY <2>1 DEF Foot
<1>3. \A j \in S : Foot(l)[j] \in Nat BY <1>2
<1> QED BY <1>1, <1>2, <1>3, SumBound

ValidsOf(l) == {j \in DOMAIN l : l[j].status = ItemValid}
LEMMA ValidBytesIs ==
    \A p : ValidBytes(p) = SumOver(ValidsOf(log[p]), Foot(log[p]))
BY DEF ValidBytes, ValidsOf, Foot

LEMMA NoValidBytes ==
    ASSUME TypeOK, NEW p \in Pebs
    PROVE  /\ ValidBytes(p) \in Nat
           /\ ValidBytes(p) = 0 => CopiesIn(log[p], p) = {}
<1>1. log[p] \in Seq(Items) BY Shapes
<1>2. /\ SumOver(ValidsOf(log[p]), Foot(log[p])) \in Nat
      /\ \A j \in ValidsOf(log[p]) :
            /\ Foot(log[p])[j] \in Nat \ {0}
            /\ Foot(log[p])[j] <= SumOver(ValidsOf(log[p]), Foot(log[p]))
  BY <1>1, FootFacts DEF ValidsOf
<1>3. ValidBytes(p) = 0 => ValidsOf(log[p]) = {}
  <2> SUFFICES ASSUME ValidBytes(p) = 0, NEW j \in ValidsOf(log[p]) PROVE FALSE OBVIOUS
  <2>1. PICK n : n = Foot(log[p])[j] OBVIOUS
  <2>2. n \in Nat \ {0} /\ n <= 0 BY <1>2, <2>1, ValidBytesIs
  <2> QED BY <2>2
<1> QED BY <1>2, <1>3, ValidBytesIs DEF CopiesIn, ValidsOf

\* Before the transfer the sources are live.
LEMMA SourcesLive ==
    ASSUME Whole, pc \in {"relocate", "mark"}
    PROVE  \A p \in Sources : p \in Pebs /\ Live(p)
<1> USE WholeParts
<1>1. /\ Apart(Sources) /\ Sources \subseteq Pebs
      /\ \A p \in Sources : Status(p) \in {PebActived, PebReclaiming}
  BY SourcesType DEF BlockInv, MarkInv
<1>2. \A q \in Pebs : Status(q) # PebTransfered BY <1>1, StatusFacts DEF Apart
<1> QED BY <1>1, <1>2 DEF Live, Status

LEMMA SourcesEmpty ==
    ASSUME Whole, RelocateEmpty
    PROVE  \A c \in Current : c.peb \notin Sources
<1> USE WholeParts
<1>1. pc = "relocate" /\ Valid(gc.src) = 0 BY DEF RelocateEmpty
<1>2. \A p \in Sources : p \in Pebs /\ Live(p) BY <1>1, SourcesLive
<1>3. \A p \in Sources : ValidIn(p) = ValidBytes(p) /\ ValidBytes(p) \in Nat
  <2> SUFFICES ASSUME NEW p \in Sources
               PROVE  ValidIn(p) = ValidBytes(p) /\ ValidBytes(p) \in Nat
    OBVIOUS
  <2>1. p \in Pebs /\ Live(p) BY <1>2
  <2>2. Known(p) /\ Tracked(p) BY <1>1, <2>1, KnownFinal DEF Tracked, FinalLabels, CollectLabels
  <2>3. ValidBytes(p) \in Nat BY <2>1, NoValidBytes
  <2>4. ValidIn(p) = ValidBytes(p) + 0 BY <1>1, <2>1, <2>2 DEF ValidInv, ValidExact, InFlight
  <2> QED BY <2>3, <2>4
<1>4. PICK f : f = [i \in DOMAIN gc.src |-> ValidIn(gc.src[i])] OBVIOUS
<1>5. \A i \in DOMAIN gc.src : gc.src[i] \in Sources /\ f[i] = ValidIn(gc.src[i])
  BY <1>4, SourcesType
<1>6. SumOver(DOMAIN gc.src, f) = 0 BY <1>1, <1>4 DEF Valid
<1>7. IsFiniteSet(DOMAIN gc.src)
  <2>1. gc.src \in Seq(Pebs) BY LocalFields
  <2>2. DOMAIN gc.src = 1 .. Len(gc.src) /\ Len(gc.src) \in Nat BY <2>1
  <2> QED BY <2>2, FS_Interval
<1>8. \A i \in DOMAIN gc.src : f[i] \in Nat BY <1>3, <1>5
<1>9. \A i \in DOMAIN gc.src : f[i] <= 0 BY <1>6, <1>7, <1>8, SumBound
<1>10. \A i \in DOMAIN gc.src : f[i] = 0 BY <1>8, <1>9
<1>11. \A p \in Sources : ValidBytes(p) = 0 BY <1>3, <1>5, <1>10 DEF Sources, Blocks
<1> QED BY <1>2, <1>11, NoValidBytes, StoredMember, CurrentIs

\* A list as long as it names blocks names each of them once.
LEMMA DistinctInjective ==
    ASSUME NEW s \in Seq(Pebs), Cardinality(Blocks(s)) = Len(s)
    PROVE  Injective(s)
<1>1. DOMAIN s = 1 .. Len(s) /\ Len(s) \in Nat /\ s \in [DOMAIN s -> Pebs] OBVIOUS
<1>2. IsFiniteSet(DOMAIN s) /\ Cardinality(DOMAIN s) = Len(s)
  BY <1>1, FS_Interval
<1>3. s \in Surjection(DOMAIN s, Blocks(s)) BY <1>1, Zenon DEF Surjection, Blocks
<1>4. s \in Injection(DOMAIN s, Blocks(s)) BY <1>2, <1>3, FS_Surjection
<1> QED BY <1>4 DEF Injection, IsInjective, Injective

LEMMA VictimsDistinct ==
    ASSUME TypeOK, GarbageCollect
    PROVE  Injective(gc'.src)
<1>1. PICK n \in 1 .. MaxMerge : \E s \in [1 .. n -> Candidates] :
          /\ VictimList(s, Candidates) /\ gc' = [NoGc EXCEPT !.src = s]
  BY DEF GarbageCollect
<1>2. PICK s \in [1 .. n -> Candidates] :
          /\ VictimList(s, Candidates) /\ gc' = [NoGc EXCEPT !.src = s]
  BY <1>1
<1>3. gc'.src = s BY <1>2 DEF NoGc
<1>4. Candidates \subseteq Pebs BY DEF Candidates
<1>5. s \in Seq(Pebs)
  <2>1. n \in Nat BY <1>1 DEF MaxMerge
  <2>2. s \in [1 .. n -> Pebs] BY <1>4
  <2> QED BY <2>1, <2>2
<1> QED BY <1>2, <1>3, <1>5, DistinctInjective DEF VictimList

LEMMA SourceVoid ==
    ASSUME SourceInv, pc' \notin CollectLabels, scan'.reclaiming = scan.reclaiming
    PROVE  SourceInv'
<1>1. ReclaimLabels \subseteq CollectLabels BY DEF ReclaimLabels, CollectLabels
<1> QED BY <1>1 DEF SourceInv

\* A step of a collection that keeps its sources.
LEMMA SourceKept ==
    ASSUME Whole, pc \in CollectLabels, gc'.src = gc.src, scan'.reclaiming = scan.reclaiming,
           \/ pc' \notin ReclaimLabels
           \/ gc'.then \notin {"alloc", "init"}
           \/ pc \in ReclaimLabels /\ gc'.then = gc.then /\ Current' = Current
           \/ RelocateEmpty /\ Current' = Current
    PROVE  SourceInv'
<1> USE WholeParts
<1>1. Injective(gc.src) /\ Injective(scan.reclaiming) BY DEF SourceInv
<1>2. pc' \in ReclaimLabels /\ gc'.then \in {"alloc", "init"} =>
         Current' = Current /\ \A c \in Current : c.peb \notin Sources
  BY SourcesEmpty DEF SourceInv
<1>3. Sources' = Sources BY DEF Sources
<1> QED BY <1>1, <1>2, <1>3 DEF SourceInv

LEMMA SourceClassify ==
    ASSUME Whole, Classify
    PROVE  SourceInv'
<1> USE WholeParts
<1>1. pc' \notin CollectLabels BY ClassifyEnds DEF CollectLabels
<1>2. CASE ScanReclaiming
  <2>1. PICK r : r = scan.reclaiming OBVIOUS
  <2>2. r \in Seq(Pebs) /\ Injective(r) BY <2>1, LocalFields DEF SourceInv
  <2>3. scan'.reclaiming = Append(r, scan.peb)
    BY <1>2, <2>1, LocalFields DEF ScanReclaiming, ScanStep, Scans
  <2>4. scan.peb \in Pebs /\ scan.peb \notin Blocks(r)
    <3>1. pc = "peb_scan" /\ scan.peb < PebCount BY <1>2 DEF ScanReclaiming, Scanning
    <3>2. scan.peb \in Pebs BY <3>1, NextPebType
    <3>3. Classified(scan.peb) BY <3>1 DEF BlockInv, ScanInv
    <3>4. ~(scan.peb < scan.peb)
      <4>1. scan.peb \in Nat BY <3>2, PebFacts
      <4> QED BY <4>1
    <3> QED BY <2>1, <3>2, <3>3, <3>4 DEF Classified
  <2>5. Injective(Append(r, scan.peb))
    <3>1. \A i \in 1 .. Len(r) : r[i] # scan.peb BY <2>2, <2>4 DEF Blocks
    <3>2. \A i, j \in 1 .. Len(r) : r[i] = r[j] => i = j BY <2>2 DEF Injective
    <3> QED BY <2>2, <3>1, <3>2 DEF Injective
  <2> QED BY <1>1, <2>3, <2>5 DEF SourceInv, ReclaimLabels, CollectLabels
<1>3. CASE Classify /\ ~ScanReclaiming
  <2>1. scan'.reclaiming = scan.reclaiming
    BY <1>3, LocalFields
       DEF Classify, ScanActiving, ScanActivingEmpty, ScanTransfering, ScanTransfered, ScanActived,
           ScanEmpty, ScanUnknown, ScanMean, FormatUnknown, AllFormatted, ScanStep, Scans
  <2> QED BY <1>1, <2>1, SourceVoid
<1> QED BY <1>2, <1>3

LEMMA NoScanInjective == Injective(NoScan.reclaiming) /\ Injective(NoGc.src)
BY DEF NoScan, NoGc, Injective

LEMMA SourceStill ==
    ASSUME Whole, Still
    PROVE  SourceInv'
<1> USE WholeParts
<1>1. Current' = Current BY StillCurrent
<1>2. CASE InitDone
  BY <1>2, NoScanInjective DEF InitDone, SourceInv, CollectLabels, ReclaimLabels
<1>3. CASE RecoverTransfering \/ RecoverTransfered \/ RecoverNothing
  <2>1. scan' = scan BY <1>3 DEF RecoverTransfering, RecoverTransfered, RecoverNothing, Recovery
  <2>2. Injective(gc'.src)
    <3>1. gc'.src \in {<<scan.transfering>>, scan.reclaiming, <<>>}
      BY <1>3 DEF RecoverTransfering, RecoverTransfered, RecoverNothing, Recovery, NoGc
    <3>2. \A x : Injective(<<x>>) /\ Injective(<<>>) BY DEF Injective
    <3> QED BY <3>1, <3>2 DEF SourceInv
  <2>3. pc' \in ReclaimLabels => gc'.then \notin {"alloc", "init"}
    BY <1>3 DEF RecoverTransfering, RecoverTransfered, RecoverNothing, Recovery, NoGc, Check,
                ReclaimLabels
  <2> QED BY <2>1, <2>2, <2>3 DEF SourceInv
<1>4. CASE GarbageCollect
  BY <1>4, VictimsDistinct DEF GarbageCollect, SourceInv, ReclaimLabels
<1>5. CASE RelocateEmpty
  <2>1. pc \in CollectLabels /\ UNCHANGED <<scan, gc>> BY <1>5 DEF RelocateEmpty, CollectLabels
  <2> QED BY <1>1, <1>5, <2>1, SourceKept
<1>6. CASE RelocateValid \/ SourceDone \/ SkipDeleted
  <2>1. /\ pc \in CollectLabels /\ gc'.src = gc.src /\ scan' = scan
        /\ pc' \notin ReclaimLabels
    BY <1>6, LocalFields DEF RelocateValid, SourceDone, SkipDeleted, NextSource, AtSource, Gcs,
       Migrating, CollectLabels, ReclaimLabels
  <2> QED BY <2>1, SourceKept
<1>7. CASE Reclaimed
  <2>1. pc \in CollectLabels /\ scan' = scan BY <1>7 DEF Reclaimed, AfterSources, CollectLabels
  <2>2. pc' \notin ReclaimLabels BY <1>7, LocalFields DEF Reclaimed, ReclaimLabels, Thens
  <2>3. Injective(gc'.src) BY <1>7, <2>1, LocalFields DEF Reclaimed, SourceInv, NoGc
  <2> QED BY <2>1, <2>2, <2>3 DEF SourceInv
<1>8. CASE WriteRefused \/ WriteAccepted \/ AllocateTooMany \/ WriteDone \/ DeleteDone \/ Request
  <2>1. pc' \notin CollectLabels /\ scan' = scan
    BY <1>8 DEF WriteRefused, WriteAccepted, AllocateTooMany, WriteDone, DeleteDone, Request,
       RequestWrite, RequestDelete, Return, CollectLabels
  <2> QED BY <2>1, SourceVoid
<1> QED BY <1>2, <1>3, <1>4, <1>5, <1>6, <1>7, <1>8 DEF Still

LEMMA SourceStep ==
    ASSUME Whole, TypeOK', [Next]_vars
    PROVE  SourceInv'
<1> USE WholeParts
<1>1. CASE UNCHANGED vars
  <2>1. Current' = Current BY <1>1, SameFlash DEF vars, flash
  <2>2. UNCHANGED <<pc, gc, scan>> BY <1>1 DEF vars
  <2> QED BY <2>1, <2>2 DEF SourceInv, Sources
<1>2. CASE Classify \/ Still BY <1>2, SourceClassify, SourceStill
<1>3. CASE ScanLook \/ ScanNewerCopy \/ ScanOlderCopy
  <2>1. pc' \notin CollectLabels
    BY <1>3, LookFacts DEF ScanNewerCopy, ScanOlderCopy, SecondCopyOk, Check, CollectLabels
  <2>2. scan'.reclaiming = scan.reclaiming
    <3>1. ScanLogs BY <1>3 DEF ScanLook, ScanLogs
    <3> QED BY <3>1, LogsKeep DEF KeepsBlocks
  <2> QED BY <2>1, <2>2, SourceVoid
<1>4. CASE CalmMarks \/ Erase \/ MarkEmpty
  <2>1. Current' = Current BY <1>4, CurrentSame
  <2>2. CASE TargetActived
    BY <2>2, SourceVoid DEF TargetActived, Caller, CollectLabels
  <2>3. CASE MarkReclaiming \/ StartTransfer \/ Reclaim \/ PickTarget \/ Erase \/ MarkEmpty
    <3>1. pc \in CollectLabels /\ scan' = scan
      BY <2>3 DEF MarkReclaiming, StartTransfer, Reclaim, PickTarget, Erase, MarkEmpty, AtSource,
         AfterSources, CollectLabels
    <3>2. gc'.src = gc.src /\ gc'.then = gc.then
      <4>1. CASE PickTarget
        BY <4>1, PicksReserved, LocalFields, Zenon DEF Picked, Gcs
      <4>2. CASE ~PickTarget
        BY <2>3, <4>2, LocalFields
           DEF MarkReclaiming, StartTransfer, Reclaim, Erase, MarkEmpty, NextSource, Gcs
      <4> QED BY <4>1, <4>2
    <3>3. pc' \notin ReclaimLabels \/ pc \in ReclaimLabels
      BY <2>3 DEF MarkReclaiming, StartTransfer, Reclaim, PickTarget, Erase, MarkEmpty, AtSource,
         AfterSources, ReclaimLabels, Check
    <3> QED BY <2>1, <3>1, <3>2, <3>3, SourceKept
  <2> QED BY <1>4, <2>2, <2>3 DEF CalmMarks
<1>5. CASE EndTransfer \/ CopyItem \/ CommitCopy
  <2>1. pc \in CollectLabels /\ scan' = scan
    BY <1>5 DEF EndTransfer, CopyItem, CommitCopy, AfterSources, Migrating, AtSource, CollectLabels
  <2>2. gc'.src = gc.src BY <1>5, LocalFields DEF EndTransfer, CopyItem, CommitCopy, Gcs
  <2>3. pc' \notin ReclaimLabels \/ gc'.then \notin {"alloc", "init"}
    BY <1>5, LocalFields DEF EndTransfer, CopyItem, CommitCopy, Gcs, ReclaimLabels, Check
  <2> QED BY <2>1, <2>2, <2>3, SourceKept
<1>6. CASE PebActivedNow \/ WriteItem \/ MarkValid \/ DeleteOld \/ DeleteItem \/ Allocate \/ PowerOn
  <2>1. pc' \notin CollectLabels /\ scan' = scan
    BY <1>6 DEF PebActivedNow, WriteItem, MarkValid, DeleteOld, DeleteItem, Allocate, PowerOn,
       ItemCommitted, Check, CollectLabels
  <2> QED BY <2>1, SourceVoid
<1>7. CASE PowerLoss
  BY <1>7, NoScanInjective DEF PowerLoss, SourceInv, CollectLabels, ReclaimLabels
<1> QED BY <1>1, <1>2, <1>3, <1>4, <1>5, <1>6, <1>7, Groups

-----------------------------------------------------------------------------
(* Free space. *)
LEMMA FreeVoid ==
    ASSUME pc' \notin FinalLabels \cup {"item_scan"}
    PROVE  FreeInv'
BY DEF FreeInv, RoomAtEnd, SpareClean, ScanSpace, Known

\* The room of block p is what it was.
SameRoom(p) ==
    /\ info'[p].free = info[p].free
    /\ End(log'[p]) = End(log[p]) /\ (Torn(log'[p]) => Torn(log[p]))
    /\ Live(p)' => Live(p)
SameSpare(p) ==
    info'[p].reserved => info'[p].dirty = 0 \/ (info[p].reserved /\ info'[p].dirty = info[p].dirty)

LEMMA OpenKept ==
    ASSUME NEW p, SameRoom(p), OpenAt(p)
    PROVE  OpenAt(p)'
BY DEF SameRoom, OpenAt, Closed, Clean

\* After the scan of the items: a step that leaves the room of all blocks but x alone.
LEMMA FreeFinal ==
    ASSUME Whole, \A p \in Pebs : Known(p), pc' \in FinalLabels, NEW x,
           \A p \in Pebs : p # x =>
              SameRoom(p) /\ ~(BeingWritten(p) /\ ~BeingWritten(p)'),
           \A p \in Pebs : p = x => ~Live(p)' \/ BeingWritten(p)' \/ OpenAt(p)',
           \A p \in Pebs : SameSpare(p)
    PROVE  FreeInv'
<1> USE WholeParts
<1>1. RoomAtEnd'
  <2> SUFFICES ASSUME NEW p \in Pebs, Live(p)', ~BeingWritten(p)' PROVE OpenAt(p)' BY DEF RoomAtEnd
  <2>1. CASE p = x BY <2>1
  <2>2. CASE p # x
    <3>1. SameRoom(p) /\ ~BeingWritten(p) /\ Live(p) BY <2>2 DEF SameRoom
    <3>2. OpenAt(p) BY <3>1 DEF FreeInv, RoomAtEnd
    <3> QED BY <3>1, <3>2, OpenKept
  <2> QED BY <2>1, <2>2
<1>2. SpareClean'
  <2> SUFFICES ASSUME NEW p \in Pebs, info'[p].reserved PROVE info'[p].dirty = 0 BY DEF SpareClean
  <2>1. info[p].reserved => info[p].dirty = 0 BY DEF FreeInv, SpareClean
  <2> QED BY <2>1 DEF SameSpare
<1>3. ScanSpace' BY FinalFacts DEF ScanSpace
<1> QED BY <1>1, <1>2, <1>3 DEF FreeInv

LEMMA NotBeingWritten ==
    ASSUME pc \in SettledLabels \cup CollectLabels \/ ItemScanDone
    PROVE  \A p : ~BeingWritten(p)
BY DEF BeingWritten, AtWriting, SettledLabels, CollectLabels, WritingLabels, ItemScanDone

LEMMA FreeSame ==
    ASSUME Whole, \A p \in Pebs : Known(p), \A p : ~BeingWritten(p), pc' \in FinalLabels,
           log' = log, \A p \in Pebs : Live(p)' => Live(p),
           \A p \in Pebs : info'[p].free = info[p].free /\ SameSpare(p)
    PROVE  FreeInv'
<1>1. \A p \in Pebs : SameRoom(p) BY DEF SameRoom
<1>2. PICK x : \A p \in Pebs : p # x BY PebFacts
<1>3. \A p \in Pebs : p # x => SameRoom(p) /\ ~(BeingWritten(p) /\ ~BeingWritten(p)') BY <1>1
<1>4. \A p \in Pebs : p = x => ~Live(p)' \/ BeingWritten(p)' \/ OpenAt(p)' BY <1>2
<1> QED BY <1>3, <1>4, FreeFinal

LEMMA FreeStill ==
    ASSUME Whole, Still
    PROVE  FreeInv'
<1> USE WholeParts
<1>1. UNCHANGED <<hdr, log, info>> /\ (pc \in (SettledLabels \cup CollectLabels) \/ ItemScanDone)
  BY StillFacts
<1>2. CASE pc' \notin FinalLabels
  <2>1. pc' # "item_scan" BY StillFacts
  <2> QED BY <1>2, <2>1, FreeVoid
<1>3. CASE pc' \in FinalLabels
  <2>1. \A p \in Pebs : Known(p) BY <1>1, KnownFinal, FinalFacts
  <2>2. \A p : ~BeingWritten(p) BY <1>1, NotBeingWritten
  <2>3. \A p \in Pebs : Live(p)' <=> Live(p)
    <3>1. MarksNone BY <1>1 DEF MarksNone
    <3> QED BY <3>1, LiveSame
  <2>4. \A p \in Pebs : SameSpare(p) BY <1>1 DEF SameSpare
  <2> QED BY <1>1, <1>3, <2>1, <2>2, <2>3, <2>4, FreeSame
<1> QED BY <1>2, <1>3

\* The steps of a collection.
LEMMA CollectKnown ==
    ASSUME pc \in CollectLabels
    PROVE  (\A p \in Pebs : Known(p)) /\ \A p : ~BeingWritten(p)
BY KnownFinal, FinalFacts, NotBeingWritten

LEMMA CollectSteps ==
    ASSUME CalmMarks \/ Erase \/ MarkEmpty \/ EndTransfer \/ CopyItem \/ CommitCopy
    PROVE  pc \in CollectLabels /\ pc' \in FinalLabels \cup {"assert"}
BY DEF CalmMarks, MarkReclaiming, StartTransfer, Reclaim, TargetActived, PickTarget, Erase,
       MarkEmpty, EndTransfer, CopyItem, CommitCopy, Migrating, AtSource, AfterSources, Caller, Check,
       FinalLabels, SettledLabels, CollectLabels

LEMMA FreeCalm ==
    ASSUME Whole, TypeOK', CalmMarks
    PROVE  FreeInv'
<1> USE WholeParts
<1>1. pc \in CollectLabels /\ pc' \in FinalLabels \cup {"assert"} BY CollectSteps
<1>2. CASE pc' = "assert" BY <1>2, FreeVoid, FinalFacts
<1>3. CASE pc' \in FinalLabels
  <2>1. log' = log /\ \A p \in Pebs : Live(p)' => Live(p) BY CalmCurrent
  <2>2. \A p \in Pebs : info'[p].free = info[p].free /\ SameSpare(p)
    <3>1. CASE PickTarget
      <4>1. CASE info' = info BY <4>1 DEF SameSpare
      <4>2. CASE info' # info
        <5>1. PICK x \in Pebs : info' = [info EXCEPT ![x].reserved = FALSE]
          BY <3>1, <4>2, PicksReserved, Zenon DEF Picked, Reserved
        <5> QED BY <5>1, Shapes DEF SameSpare, Infos
      <4> QED BY <4>1, <4>2
    <3>2. CASE ~PickTarget
      <4>1. info' = info
        BY <3>2 DEF CalmMarks, MarkReclaiming, StartTransfer, Reclaim, TargetActived, ram
      <4> QED BY <4>1 DEF SameSpare
    <3> QED BY <3>1, <3>2
  <2> QED BY <1>1, <1>3, <2>1, <2>2, CollectKnown, FreeSame
<1> QED BY <1>1, <1>2, <1>3

LEMMA FreeErased ==
    ASSUME Whole, TypeOK', Erase \/ MarkEmpty
    PROVE  FreeInv'
<1> USE WholeParts
<1>1. pc \in CollectLabels /\ pc \in {"erase", "empty"} /\ pc' \in FinalLabels
  BY DEF Erase, MarkEmpty, CollectLabels, FinalLabels
<1>2. PICK x \in Pebs : x = Source BY <1>1, SourceInDomain DEF Located
<1>3. ~Live(x) /\ \A p \in Pebs : Live(p)' => Live(p) BY <1>2, ErasedCurrent
<1>4. \A p \in Pebs \ {x} : log'[p] = log[p]
  BY <1>2, Shapes DEF Erase, MarkEmpty, EraseAndFormat, SetPebStatus
<1>5. \A p \in Pebs \ {x} : info'[p].free = info[p].free
  BY <1>2, Shapes DEF Erase, MarkEmpty, Infos
<1>6. \A p \in Pebs : SameSpare(p)
  <2>1. CASE Erase BY <1>2, <2>1, Shapes DEF Erase, Infos, SameSpare
  <2>2. CASE MarkEmpty BY <1>2, <2>2, Shapes DEF MarkEmpty, Infos, SameSpare
  <2> QED BY <2>1, <2>2
<1>7. \A p \in Pebs : p # x => SameRoom(p) BY <1>3, <1>4, <1>5 DEF SameRoom
<1>8. \A p \in Pebs : p = x => ~Live(p)' BY <1>3
<1> QED BY <1>1, <1>6, <1>7, <1>8, CollectKnown, FreeFinal

LEMMA FreeTransferred ==
    ASSUME Whole, EndTransfer
    PROVE  FreeInv'
<1> USE WholeParts
<1>1. pc \in CollectLabels /\ pc = "migrate" /\ pc' \in FinalLabels /\ info' = info
  BY DEF EndTransfer, AfterSources, CollectLabels, FinalLabels, ram
<1>2. log' = log BY DEF EndTransfer, SetPebStatus
<1>3. \A p \in Pebs : Live(p)' <=> p = gc.dst \/ (Live(p) /\ p \notin Sources)
  BY EndTransferCurrent
<1>4. OpenAt(gc.dst)
  <2>1. /\ info[gc.dst].free = Capacity - gc.off
        /\ gc.off = End(log[gc.dst]) /\ ~Torn(log[gc.dst])
    BY <1>1 DEF MoveInv, AtMigrate
  <2> QED BY <2>1 DEF OpenAt, Clean
<1>5. \A p \in Pebs : p # gc.dst => SameRoom(p) BY <1>1, <1>2, <1>3 DEF SameRoom
<1>6. \A p \in Pebs : p = gc.dst => OpenAt(p)' BY <1>1, <1>2, <1>4 DEF OpenAt, Closed, Clean
<1>7. \A p \in Pebs : SameSpare(p) BY <1>1 DEF SameSpare
<1> QED BY <1>1, <1>5, <1>6, <1>7, CollectKnown, FreeFinal

LEMMA FreeCopied ==
    ASSUME Whole, CopyItem \/ CommitCopy
    PROVE  FreeInv'
<1> USE WholeParts
<1>1. pc \in CollectLabels /\ pc' \in FinalLabels \cup {"assert"} /\ pc \in {"migrate", "copied"}
  BY CollectSteps DEF CopyItem, CommitCopy, Migrating, AtSource
<1>2. CASE pc' = "assert" BY <1>2, FreeVoid, FinalFacts
<1>3. CASE pc' \in FinalLabels
  <2>1. gc.dst \in Pebs /\ ~Live(gc.dst) BY <1>1, TransferPlace
  <2>2. hdr' = hdr /\ \A p \in Pebs \ {gc.dst} : log'[p] = log[p]
    BY CopyItemCurrent, CommitCopyCurrent
  <2>3. \A p \in Pebs : Live(p)' <=> Live(p)
    <3>1. MarksNone BY <2>2 DEF MarksNone
    <3> QED BY <3>1, LiveSame
  <2>4. /\ \A p \in Pebs \ {gc.dst} : info'[p].free = info[p].free
        /\ \A p \in Pebs : /\ info'[p].reserved <=> info[p].reserved
                           /\ info'[p].dirty = info[p].dirty
    <3>1. CASE CopyItem BY <3>1 DEF CopyItem
    <3>2. CASE CommitCopy BY <2>1, <3>2, Shapes DEF CommitCopy, Infos
    <3> QED BY <3>1, <3>2
  <2>5. \A p \in Pebs : SameSpare(p) BY <2>4 DEF SameSpare
  <2>6. \A p \in Pebs : p # gc.dst => SameRoom(p) BY <2>2, <2>3, <2>4 DEF SameRoom
  <2>7. \A p \in Pebs : p = gc.dst => ~Live(p)' BY <2>1, <2>3
  <2> QED BY <1>1, <1>3, <2>5, <2>6, <2>7, CollectKnown, FreeFinal
<1> QED BY <1>1, <1>2, <1>3

LEMMA FreeAllocate ==
    ASSUME Whole, TypeOK', Allocate
    PROVE  FreeInv'
<1> USE WholeParts
<1>1. pc = "alloc" /\ pc' = "writing" BY DEF Allocate, Allocating
<1>2. PICK x \in Pebs :
              /\ Allocated(x) /\ w'.peb = x /\ log' = log
              /\ IF Fresh(x) THEN Activate(x) ELSE hdr' = hdr
              /\ Status(x) = IF info[x].reserved THEN PebEmpty ELSE PebActived
  BY AllocateRoom
<1>3. pc \in SettledLabels /\ pc \in FinalLabels /\ pc' \in FinalLabels
  BY <1>1 DEF SettledLabels, FinalLabels, WritingLabels
<1>4. (\A p \in Pebs : Known(p)) /\ \A p : ~BeingWritten(p) BY <1>3, KnownFinal, NotBeingWritten
<1>5. BeingWritten(x)' BY <1>1, <1>2 DEF BeingWritten, AtWriting, WritingLabels
<1>6. \A p \in Pebs : p # x => (Live(p)' <=> Live(p))
  <2>1. CASE Fresh(x)
    <3>1. Marks(x, PebActiving) BY <1>2, <2>1, MarkFacts
    <3> QED BY <1>2, <3>1, StatusFacts, LiveMarks
  <2>2. CASE ~Fresh(x)
    <3>1. MarksNone BY <1>2, <2>2 DEF MarksNone
    <3> QED BY <3>1, LiveSame
  <2> QED BY <2>1, <2>2
<1>7. \A p \in Pebs : p # x => info'[p] = info[p] BY <1>2, Shapes DEF Allocated
<1>8. (info'[x].reserved => info[x].reserved) /\ info'[x].dirty = info[x].dirty
  BY <1>2, Shapes DEF Allocated, Infos
<1>9. \A p \in Pebs : SameSpare(p) BY <1>7, <1>8 DEF SameSpare
<1>10. \A p \in Pebs : p # x => SameRoom(p) BY <1>2, <1>6, <1>7 DEF SameRoom
<1> QED BY <1>3, <1>4, <1>5, <1>9, <1>10, FreeFinal

LEMMA FreeWriting ==
    ASSUME Whole, TypeOK', WriteItem \/ MarkValid \/ PebActivedNow
    PROVE  FreeInv'
<1> USE WholeParts
<1>1. /\ pc \in WritingLabels /\ AtWriting /\ UNCHANGED <<info, w, req>>
      /\ pc' \in FinalLabels \cup {"assert"}
  BY DEF WriteItem, MarkValid, PebActivedNow, AtWriting, WritingLabels, ItemCommitted, Check,
         ram, call, FinalLabels, SettledLabels
<1>2. CASE pc' = "assert" BY <1>2, FreeVoid, FinalFacts
<1>3. CASE pc' \in FinalLabels
  <2>1. \A p \in Pebs : Known(p) BY <1>1, KnownFinal, FinalFacts
  <2>2. w.peb \in Pebs BY <1>1, WrittenTo DEF HeaderInv
  <2>3. \A p \in Pebs : p # w.peb => log'[p] = log[p] /\ (Live(p)' <=> Live(p))
    <3>1. CASE WriteItem \/ MarkValid
      <4>1. hdr' = hdr /\ \A p \in Pebs \ {w.peb} : log'[p] = log[p]
        BY <3>1, WriteItemCurrent, MarkValidCurrent
      <4>2. MarksNone BY <4>1 DEF MarksNone
      <4> QED BY <4>1, <4>2, LiveSame
    <3>2. CASE PebActivedNow BY <3>2, PebActivedNowCurrent
    <3> QED BY <3>1, <3>2
  <2>4. \A p \in Pebs : p # w.peb => SameRoom(p) /\ ~BeingWritten(p)
    BY <1>1, <2>3 DEF SameRoom, BeingWritten
  <2>5. \A p \in Pebs : SameSpare(p) BY <1>1 DEF SameSpare
  <2>6. BeingWritten(w.peb)' \/ OpenAt(w.peb)'
    <3>1. CASE pc' \in WritingLabels BY <1>1, <3>1 DEF BeingWritten, AtWriting
    <3>2. CASE pc' \notin WritingLabels
      <4>1. pc \in {"valid", "peb_actived"} /\ (MarkValid \/ PebActivedNow)
        BY <1>2, <1>3, <3>2, FinalFacts
           DEF WriteItem, MarkValid, PebActivedNow, Check, WritingLabels
      <4>2. End(log'[w.peb]) = w.off + Footprint(req.val) /\ ~Torn(log'[w.peb])
        <5>1. CASE MarkValid BY <5>1, MarkValidCurrent
        <5>2. CASE PebActivedNow
          <6>1. log' = log /\ pc = "peb_actived" BY <5>2, PebActivedNowCurrent DEF PebActivedNow
          <6>2. PICK l : l = log[w.peb] OBVIOUS
          <6>3. /\ l \in Seq(Items) /\ Laid(l) /\ Len(l) \in DOMAIN l
                /\ l[Len(l)] = NewItem(ItemValid) /\ End(l) = w.off + Footprint(req.val)
            BY <4>1, <6>1, <6>2, NewFacts
          <6>4. l[Len(l)].status # ItemWriting BY <6>3, ItemCodes DEF NewItem
          <6>5. ~Torn(l) BY <6>3, <6>4 DEF Torn, Laid, OnlyLastTorn
          <6> QED BY <6>1, <6>2, <6>3, <6>5
        <5> QED BY <4>1, <5>1, <5>2
      <4>3. info[w.peb].free = Capacity - w.off - Footprint(req.val)
        BY <1>1 DEF WriteInv, Replaces
      <4>4. w.off \in Int /\ Footprint(req.val) \in Int /\ Capacity \in Int
        <5>1. req.val \in Values BY <4>1, NewFacts
        <5>2. Footprint(req.val) \in Nat \ {0} BY <5>1, ValueTypes
        <5> QED BY <5>2, LocalFields, ValueTypes
      <4>5. info'[w.peb].free = Capacity - End(log'[w.peb]) BY <1>1, <4>2, <4>3, <4>4
      <4>6. PICK x : x = w.peb OBVIOUS
      <4>7. info'[x].free = Capacity - End(log'[x]) /\ ~Torn(log'[x]) BY <4>2, <4>5, <4>6
      <4>8. OpenAt(x)' BY <4>7 DEF OpenAt, Clean
      <4>9. w' = w BY <1>1
      <4> QED BY <4>6, <4>8, <4>9
    <3> QED BY <3>1, <3>2
  <2>7. PICK x : x = w.peb OBVIOUS
  <2>8. BeingWritten(x)' \/ OpenAt(x)' BY <1>1, <2>6, <2>7
  <2>9. \A p \in Pebs : p # x => SameRoom(p) /\ ~(BeingWritten(p) /\ ~BeingWritten(p)')
    BY <2>4, <2>7
  <2> QED BY <1>3, <2>1, <2>5, <2>8, <2>9, FreeFinal
<1> QED BY <1>1, <1>2, <1>3

\* A block with a current copy is not in reserve.
LEMMA LiveUsed ==
    ASSUME Whole, pc \in SettledLabels \cup {"item_scan"}
    PROVE  \A p \in Pebs : Live(p) => ~info[p].reserved
<1> USE WholeParts
<1>1. \A p \in Pebs : info[p].reserved => Status(p) \in {PebVirgin, PebEmpty}
  <2>1. CASE pc \in SettledLabels BY <2>1 DEF BlockInv, CallInv, Apart
  <2>2. CASE pc = "item_scan" BY <2>2 DEF BlockInv, ScanInv, Classified
  <2> QED BY <2>1, <2>2
<1> QED BY <1>1, StatusFacts, NotLive

\* The copy a call deletes.
LEMMA DeletedCopy ==
    ASSUME Whole, DeleteItem
    PROVE  \E d \in Current :
              /\ d.key \in req.keys /\ items[d.index] = Header(d) /\ d.index \in Indexes
              /\ d.peb \in Pebs /\ Discard(d.peb, d.off) /\ hdr' = hdr
              /\ Stored' = Stored \ {d} /\ Current' = Current \ {d}
              /\ \A p \in Pebs : Live(p)' <=> Live(p)
              /\ items' = [items EXCEPT ![d.index] = NoItem]
              /\ info' = [info EXCEPT ![d.peb].dirty = @ + Footprint(d.val)]
              /\ vsize' = vsize - Footprint(d.val)
              /\ pc' = Check(Writable(hdr[d.peb]) /\ vsize >= Footprint(d.val), "delete")
<1> USE WholeParts
<1>1. pc = "delete" BY DEF DeleteItem
<1>2. PICK i \in Indexes :
              /\ i \in Found(req.keys) /\ items[i].peb \in Pebs /\ LogInv' /\ hdr' = hdr
              /\ Discard(items[i].peb, items[i].off)
              /\ Stored' = {c \in Stored : ~(c.peb = items[i].peb /\ c.off = items[i].off)}
              /\ Current' = {c \in Current : ~(c.peb = items[i].peb /\ c.off = items[i].off)}
              /\ \A p \in Pebs : Live(p)' <=> Live(p)
              /\ items' = [items EXCEPT ![i] = NoItem]
              /\ info' = [info EXCEPT ![items[i].peb].dirty = @ + Footprint(items[i].size)]
              /\ vsize' = vsize - Footprint(items[i].size)
              /\ pc' = Check(/\ Writable(hdr[items[i].peb])
                             /\ vsize >= Footprint(items[i].size), "delete")
  BY DeleteItemCurrent
<1>3. PICK d \in Current : d.index = i /\ d.key \in req.keys
  BY <1>1, <1>2, FoundIs DEF PlainLabels, FinalLabels, SettledLabels, WritingLabels
<1>4. View = Current
  BY <1>1, ViewPlain DEF PlainLabels, FinalLabels, SettledLabels, WritingLabels
<1>5. items[i] = Header(d) BY <1>1, <1>3, <1>4, TableIs DEF Mirrors, FinalLabels, SettledLabels
<1>6. items[i].peb = d.peb /\ items[i].off = d.off /\ items[i].size = d.val BY <1>5 DEF Header
<1>7. \A c \in Stored : c.peb = d.peb /\ c.off = d.off <=> c = d
  BY <1>3, CurrentIs, StoredFields
<1>8. Stored' = Stored \ {d} /\ Current' = Current \ {d} BY <1>2, <1>6, <1>7, CurrentIs
<1> QED BY <1>2, <1>3, <1>5, <1>6, <1>8

\* The copy a write replaces.
LEMMA ReplacedCopy ==
    ASSUME Whole, DeleteOld
    PROVE  \E d \in Current :
              /\ d.index = w.index /\ IsOld(d) /\ d.peb = w.oldPeb /\ d.peb \in Pebs
              /\ Discard(d.peb, d.off) /\ hdr' = hdr
              /\ Stored' = Stored \ {d} /\ Current' = Current \ {d}
              /\ \A p \in Pebs : Live(p)' <=> Live(p)
              /\ info' = [info EXCEPT ![d.peb].dirty = @ + Footprint(d.val)]
              /\ \E c \in Current : /\ c.index = w.index /\ c.key = req.key /\ c # d
                                    /\ d.seq < c.seq /\ Header(c) = NewHeader
<1> USE WholeParts
<1>1. pc = "delete_old" BY DEF DeleteOld
<1>2. PICK c \in Current, d \in Current :
         /\ c.key = req.key /\ c.index = w.index /\ Header(c) = NewHeader
         /\ IsOld(d) /\ d.index = w.index /\ d.seq < c.seq
  BY <1>1 DEF WriteInv
<1>3. d.peb = w.oldPeb /\ d.off = w.oldOff /\ d.peb \in Pebs /\ d \in Stored
  BY <1>2, CurrentIs, StoredFields DEF IsOld
<1>4. c # d
  <2>1. c.seq \in Nat /\ d.seq \in Nat BY CurrentFields
  <2> QED BY <1>2, <2>1
<1>5. \A x \in Stored : IsOld(x) <=> x = d BY <1>2, <1>3, StoredFields DEF IsOld
<1>6. /\ Stored' = Stored \ {d} /\ Current' = Current \ {d} /\ hdr' = hdr
      /\ \A p \in Pebs : Live(p)' <=> Live(p)
  <2>1. /\ Stored' = {x \in Stored : ~IsOld(x)} /\ hdr' = hdr
        /\ Current' = {x \in Current : ~IsOld(x)}
        /\ \A p \in Pebs : Live(p)' <=> Live(p)
    BY DeleteOldCurrent
  <2> QED BY <1>5, <2>1, CurrentIs
<1>7. PICK l : l = log[d.peb] OBVIOUS
<1>8. l \in Seq(Items) /\ Laid(l) BY <1>3, <1>7, Shapes DEF LogInv
<1>9. d \in CopiesIn(l, d.peb) BY <1>3, <1>7, StoredMember
<1>10. PICK j \in DOMAIN l : l[j].status = ItemValid /\ d = Copy(l, d.peb, j)
  BY <1>8, <1>9, CopyFields
<1>11. l[j].off = d.off /\ l[j].val = d.val BY <1>10 DEF Copy
<1>12. \A i \in ItemsAt(l, d.off) : i = j BY <1>8, <1>11, OffsetsDiffer DEF ItemsAt
<1>13. info' = [info EXCEPT ![d.peb].dirty = @ + Footprint(d.val)]
  <2>1. PICK i \in ItemsAt(l, d.off) :
           info' = [info EXCEPT ![d.peb].dirty = @ + Footprint(l[i].val)]
    BY <1>3, <1>7 DEF DeleteOld
  <2>2. i = j BY <1>12, <2>1
  <2> QED BY <1>11, <2>1, <2>2
<1>14. Discard(d.peb, d.off) BY <1>3 DEF DeleteOld
<1> QED BY <1>2, <1>3, <1>4, <1>6, <1>13, <1>14

LEMMA FreeDiscards ==
    ASSUME Whole, TypeOK', DeleteOld \/ DeleteItem
    PROVE  FreeInv'
<1> USE WholeParts
<1>1. pc \in SettledLabels /\ pc' \in FinalLabels \cup {"assert"}
  BY DEF DeleteOld, DeleteItem, Check, SettledLabels, FinalLabels
<1>2. CASE pc' = "assert" BY <1>2, FreeVoid, FinalFacts
<1>3. CASE pc' \in FinalLabels
  <2>1. PICK d \in Current :
           /\ d.peb \in Pebs /\ Discard(d.peb, d.off) /\ \A p \in Pebs : Live(p)' <=> Live(p)
           /\ info' = [info EXCEPT ![d.peb].dirty = @ + Footprint(d.val)]
    BY DeletedCopy, ReplacedCopy
  <2>2. PICK x \in Pebs : x = d.peb BY <2>1
  <2>3. /\ \A p \in Pebs \ {x} : log'[p] = log[p]
        /\ End(log'[x]) = End(log[x]) /\ (Torn(log'[x]) => Torn(log[x]))
    BY <2>1, <2>2, LogDiscarded
  <2>4. /\ \A p \in Pebs : info'[p].free = info[p].free /\ (info'[p].reserved <=> info[p].reserved)
        /\ \A p \in Pebs \ {x} : info'[p].dirty = info[p].dirty
    BY <2>1, <2>2, Shapes DEF Infos
  <2>5. \A p \in Pebs : SameRoom(p) BY <2>1, <2>3, <2>4 DEF SameRoom
  <2>6. ~info[x].reserved BY <1>1, <2>2, CurrentIs, LiveUsed
  <2>7. \A p \in Pebs : SameSpare(p) BY <2>4, <2>6 DEF SameSpare
  <2>8. (\A p \in Pebs : Known(p)) /\ \A p : ~BeingWritten(p)
    BY <1>1, KnownFinal, FinalFacts, NotBeingWritten
  <2>9. PICK y : \A p \in Pebs : p # y BY PebFacts
  <2> QED BY <1>3, <2>5, <2>7, <2>8, <2>9, FreeFinal
<1> QED BY <1>1, <1>2, <1>3

\* Free space while the items are scanned.
LEMMA FreeScan ==
    ASSUME pc' = "item_scan", ScanSpace',
           \A p \in Pebs : p < scan'.peb /\ Live(p)' => OpenAt(p)',
           \A p \in Pebs : p < scan'.peb /\ info'[p].reserved => info'[p].dirty = 0
    PROVE  FreeInv'
<1>1. \A p \in Pebs : Known(p)' => p < scan'.peb BY FinalFacts DEF Known
<1> QED BY <1>1 DEF FreeInv, RoomAtEnd, SpareClean

\* The scan is at the start of a block.
LEMMA ScanSpaceStart ==
    ASSUME TypeOK', LogInv', pc' = "item_scan",
           scan'.pos = 1, scan'.dirty = 0, scan'.valid = 0,
           \A p \in Pebs : p >= scan'.peb => info'[p].free = 0 /\ info'[p].dirty = 0
    PROVE  ScanSpace'
<1>1. scan'.peb \in 0 .. PebCount BY DEF TypeOK, Scans
<1>2. \A p \in Pebs : p > scan'.peb => p >= scan'.peb BY <1>1, PebFacts
<1>3. \A p \in Pebs : p = scan'.peb => p >= scan'.peb
  <2>1. Pebs \subseteq Nat BY PebFacts
  <2>2. \A n \in Nat : n >= n OBVIOUS
  <2> QED BY <2>1, <2>2
<1>4. ASSUME NEW p \in Pebs
      PROVE  /\ 1 <= Len(log'[p]) + 1 /\ Place(log'[p], 1) = 0
             /\ \A j \in DOMAIN log'[p] : j >= 1
  <2>1. log'[p] \in Seq(Items) BY DEF TypeOK
  <2>2. Laid(log'[p]) BY DEF LogInv
  <2> QED BY <2>1, <2>2 DEF Laid, Contiguous
<1>5. PICK x : x = scan'.peb OBVIOUS
<1> QED BY <1>2, <1>3, <1>4, <1>5 DEF ScanSpace

LEMMA FreeFormatted ==
    ASSUME Whole, TypeOK', AllFormatted
    PROVE  FreeInv'
<1> USE WholeParts
<1>1. pc = "peb_count" /\ pc' = "item_scan" /\ scan' = scan /\ info' = info
  BY DEF AllFormatted, ram
<1>2. scan.peb = 0 BY <1>1 DEF HeaderInv, RoomInv
<1>3. /\ scan.pos = 1 /\ scan.dirty = 0 /\ scan.valid = 0
      /\ \A p \in Pebs : info[p].free = 0 /\ info[p].dirty = 0
  BY <1>1 DEF BootInv
<1>4. AllFormatted => Classify BY DEF Classify
<1>5. LogInv' BY <1>4, ClassifyCurrent
<1>6. ScanSpace' BY <1>1, <1>3, <1>5, ScanSpaceStart
<1>7. \A p \in Pebs : ~(p < scan'.peb) BY <1>1, <1>2, PebFacts
<1> QED BY <1>1, <1>6, <1>7, FreeScan

\* A log whose items lie where they did, none torn that was not.
Spaced(l, m) ==
    /\ Len(m) = Len(l) /\ DOMAIN m = DOMAIN l /\ End(m) = End(l)
    /\ \A n \in 1 .. Len(l) + 1 : Place(m, n) = Place(l, n)
    /\ \A j \in DOMAIN l : m[j].status = ItemWriting => l[j].status = ItemWriting
LEMMA SpacedSame == \A l : Spaced(l, l)
BY DEF Spaced
LEMMA SpacedDiscarded ==
    ASSUME NEW l \in Seq(Items), NEW off
    PROVE  Spaced(l, Discarded(l, off))
<1>1. /\ Discarded(l, off) \in Seq(Items) /\ DOMAIN Discarded(l, off) = DOMAIN l
      /\ Alined(l, Discarded(l, off))
      /\ \A j \in DOMAIN l : l[j].off # off => Discarded(l, off)[j] = l[j]
      /\ \A j \in DOMAIN l : l[j].off = off => Discarded(l, off)[j].status = ItemDelete
  BY Discards
<1>2. \A j \in DOMAIN l : Discarded(l, off)[j].status = ItemWriting => l[j].status = ItemWriting
  BY <1>1, ItemCodes
<1>3. /\ \A n \in 1 .. Len(l) + 1 : Place(Discarded(l, off), n) = Place(l, n)
      /\ End(Discarded(l, off)) = End(l)
  BY <1>1, AlinedPlaces
<1> QED BY <1>1, <1>2, <1>3 DEF Spaced, Alined
LEMMA SpacedDiscard ==
    ASSUME TypeOK, NEW x \in Pebs, NEW off, Discard(x, off)
    PROVE  hdr' = hdr /\ \A p \in Pebs : Spaced(log[p], log'[p])
<1>1. log \in [Pebs -> Seq(Items)] BY Shapes
<1>2. hdr' = hdr /\ log' = [log EXCEPT ![x] = Discarded(log[x], off)] BY DEF Discard
<1>3. log'[x] = Discarded(log[x], off) /\ \A p \in Pebs : p # x => log'[p] = log[p]
  BY <1>1, <1>2
<1>4. log[x] \in Seq(Items) BY <1>1
<1> QED BY <1>2, <1>3, <1>4, SpacedSame, SpacedDiscarded

\* The blocks the scan is through with keep their room.
LEMMA OpenSpaced ==
    ASSUME Whole, pc = "item_scan", hdr' = hdr, NEW p \in Pebs, p < scan.peb,
           Spaced(log[p], log'[p]), info'[p].free = info[p].free, Live(p)'
    PROVE  OpenAt(p)'
<1> USE WholeParts
<1>1. MarksNone BY DEF MarksNone
<1>2. Live(p) BY <1>1, LiveSame
<1>3. Known(p) /\ ~BeingWritten(p) BY DEF Known, BeingWritten, AtWriting, WritingLabels
<1>4. OpenAt(p) BY <1>2, <1>3 DEF FreeInv, RoomAtEnd
<1>5. End(log'[p]) = End(log[p]) /\ (Torn(log'[p]) => Torn(log[p])) BY DEF Spaced, Torn
<1> QED BY <1>4, <1>5 DEF OpenAt, Closed, Clean

\* The scan leaves a block: what it found there is all the block holds.
LEMMA FreeBlock ==
    ASSUME Whole, TypeOK', SkipPeb \/ ScanEndOfLog \/ ScanTornItem
    PROVE  FreeInv'
<1> USE WholeParts
<1>1. /\ pc = "item_scan" /\ pc' = "item_scan" /\ scan.peb < PebCount /\ scan' = NextPeb
      /\ hdr' = hdr /\ log' = log
  BY DEF SkipPeb, ScanEndOfLog, ScanTornItem, ScanningItems, flash
<1>2. scan.peb \in Pebs BY <1>1, NextPebType
<1>3. PICK x \in Pebs : x = scan.peb BY <1>2
<1>4. /\ scan'.peb = x + 1 /\ scan'.pos = 1 /\ scan'.dirty = 0 /\ scan'.valid = 0
  BY <1>1, <1>3, LocalFields DEF NextPeb, Scans
<1>5. \A p \in Pebs : /\ p < scan'.peb <=> p < x \/ p = x
                      /\ p >= scan'.peb => p > x
                      /\ ~(p > x /\ p = x) /\ ~(p < x /\ p = x)
  BY <1>4, PebFacts
<1>6. \A p \in Pebs : p # x => info'[p] = info[p]
  BY <1>3, Shapes DEF SkipPeb, ScanEndOfLog, ScanTornItem
<1>7. /\ \A p \in Pebs : p > x => info[p].free = 0 /\ info[p].dirty = 0
      /\ info[x].free = 0 /\ info[x].dirty = scan.dirty
  BY <1>1, <1>3 DEF FreeInv, ScanSpace
<1>8. ScanSpace'
  <2>1. LogInv' BY <1>1 DEF LogInv
  <2> QED BY <1>1, <1>4, <1>5, <1>6, <1>7, <2>1, ScanSpaceStart
<1>9. Live(x)' <=> Live(x)
  <2>1. MarksNone BY <1>1 DEF MarksNone
  <2> QED BY <2>1, LiveSame
<1>10. (Live(x)' => OpenAt(x)') /\ (info'[x].reserved => info'[x].dirty = 0)
  <2>1. CASE SkipPeb
    <3>1. ~Live(x) BY <1>3, <2>1, SkippedNotLive
    <3>2. scan.dirty = 0 BY <1>1, <1>3, <3>1 DEF FreeInv, ScanSpace
    <3>3. info'[x].dirty = info[x].dirty BY <1>3, <2>1, Shapes DEF SkipPeb, Infos
    <3> QED BY <1>7, <1>9, <3>1, <3>2, <3>3
  <2>2. CASE ScanEndOfLog \/ ScanTornItem
    <3>1. ~info[x].reserved /\ Live(x) /\ ScanningItems
      BY <1>3, <2>2, ScanningLive DEF ScanEndOfLog, ScanTornItem, ScanningItems
    <3>2. info'[x].reserved <=> info[x].reserved
      <4>1. CASE ScanEndOfLog BY <1>3, <4>1, Shapes DEF ScanEndOfLog, Infos
      <4>2. CASE ScanTornItem BY <1>3, <4>2, Shapes DEF ScanTornItem, Infos
      <4> QED BY <2>2, <4>1, <4>2
    <3>3. CASE ScanTornItem
      <4>1. info'[x].free = info[x].free BY <1>3, <3>3, Shapes DEF ScanTornItem, Infos
      <4> QED BY <1>7, <3>1, <3>2, <4>1 DEF OpenAt, Closed
    <3>4. CASE ScanEndOfLog
      <4>1. PICK l : l = log[x] OBVIOUS
      <4>2. l \in Seq(Items) BY <4>1, Shapes
      <4>3. /\ scan.pos <= Len(l) + 1 /\ \A j \in DOMAIN l : l[j].status = ItemWriting => j >= scan.pos
            /\ scan.dirty + scan.valid = Place(l, scan.pos)
        BY <1>1, <1>3, <3>1, <4>1 DEF FreeInv, ScanSpace
      <4>4. scan.pos = Len(l) + 1
        <5>1. ~(scan.pos <= Len(l)) BY <1>3, <3>4, <4>1 DEF ScanEndOfLog, HasItem
        <5>2. Len(l) \in Nat BY <4>2
        <5> QED BY <4>3, <5>1, <5>2, LocalFields
      <4>5. ~Torn(l) BY <4>2, <4>3, <4>4 DEF Torn
      <4>6. info'[x].free = info[x].free + Capacity - scan.dirty - scan.valid
        BY <1>3, <3>4, Shapes DEF ScanEndOfLog, Infos
      <4>7. info'[x].free = Capacity - End(l)
        <5>1. /\ scan.dirty \in Int /\ scan.valid \in Int /\ Capacity \in Int
              /\ info[x].free = 0 /\ End(l) = scan.dirty + scan.valid
          BY <1>7, <4>3, <4>4, LocalFields, ValueTypes DEF End
        <5> QED BY <4>6, <5>1
      <4> QED BY <1>1, <3>1, <3>2, <4>1, <4>5, <4>7 DEF OpenAt, Clean
    <3> QED BY <2>2, <3>3, <3>4
  <2> QED BY <2>1, <2>2
<1>11. \A p \in Pebs : p < x /\ Live(p)' => OpenAt(p)'
  BY <1>1, <1>3, <1>5, <1>6, SpacedSame, OpenSpaced
<1>12. \A p \in Pebs : p < x /\ info'[p].reserved => info'[p].dirty = 0
  BY <1>1, <1>3, <1>5, <1>6 DEF FreeInv, SpareClean, Known
<1> QED BY <1>1, <1>5, <1>8, <1>10, <1>11, <1>12, FreeScan

\* The scan passes an item.
Passes ==
    /\ ScanningItems /\ HasItem /\ ScannedItem.status # ItemWriting
    /\ hdr' = hdr /\ \A p \in Pebs : Spaced(log[p], log'[p])
    /\ scan'.peb = scan.peb /\ scan'.pos = scan.pos + 1
    /\ scan'.dirty + scan'.valid = scan.dirty + scan.valid + Footprint(ScannedItem.val)
    /\ info'[scan.peb].dirty = scan'.dirty
    /\ \A p \in Pebs : /\ info'[p].free = info[p].free
                       /\ info'[p].reserved <=> info[p].reserved
                       /\ info[p].reserved \/ p > scan.peb => info'[p].dirty = info[p].dirty
LEMMA FreePasses ==
    ASSUME Whole, TypeOK', Passes, pc' = "item_scan"
    PROVE  FreeInv'
<1> USE WholeParts
<1>1. pc = "item_scan" /\ hdr' = hdr BY DEF Passes, ScanningItems
<1>2. PICK x \in Pebs : x = scan.peb /\ Live(x) BY ScanningLive DEF Passes
<1>3. scan'.peb = x /\ scan'.pos = scan.pos + 1 BY <1>2 DEF Passes
<1>4. \A p \in Pebs : Live(p)' <=> Live(p)
  <2>1. MarksNone BY <1>1 DEF MarksNone
  <2> QED BY <2>1, LiveSame
<1>5. PICK l : l = log[x] OBVIOUS
<1>6. PICK m : m = log'[x] OBVIOUS
<1>7. l \in Seq(Items) /\ Laid(l) /\ Spaced(l, m) BY <1>2, <1>5, <1>6, Shapes DEF LogInv, Passes
<1>8. /\ scan.pos \in DOMAIN l /\ ScannedItem = l[scan.pos]
      /\ ScannedItem.off = scan.dirty + scan.valid
  BY <1>2, <1>5, ScannedFacts DEF Passes, ScannedItem
<1>9. \A j \in DOMAIN l : l[j].status = ItemWriting => j >= scan.pos
  BY <1>1, <1>2, <1>5 DEF FreeInv, ScanSpace
<1>10. /\ scan.pos + 1 \in 1 .. Len(l) + 1
       /\ Place(l, scan.pos + 1) = ScannedItem.off + Footprint(ScannedItem.val)
  BY <1>7, <1>8, NextPlace
<1>11. scan.pos + 1 <= Len(m) + 1 /\ Place(m, scan.pos + 1) = scan'.dirty + scan'.valid
  <2>1. Len(m) = Len(l) /\ Place(m, scan.pos + 1) = Place(l, scan.pos + 1)
    BY <1>7, <1>10 DEF Spaced
  <2>2. scan'.dirty + scan'.valid = scan.dirty + scan.valid + Footprint(ScannedItem.val)
    BY DEF Passes
  <2>3. Len(l) \in Nat BY <1>7
  <2> QED BY <1>8, <1>10, <2>1, <2>2, <2>3
<1>12. \A j \in DOMAIN m : m[j].status = ItemWriting => j >= scan.pos + 1
  <2> SUFFICES ASSUME NEW j \in DOMAIN m, m[j].status = ItemWriting PROVE j >= scan.pos + 1
    OBVIOUS
  <2>1. j \in DOMAIN l /\ l[j].status = ItemWriting BY <1>7 DEF Spaced
  <2>2. j >= scan.pos BY <1>9, <2>1
  <2>3. j # scan.pos BY <1>8, <2>1 DEF Passes
  <2>4. j \in Nat /\ scan.pos \in Nat BY <1>7, <2>1, LocalFields
  <2> QED BY <2>2, <2>3, <2>4
<1>13. \A p \in Pebs : p > x => info'[p].free = 0 /\ info'[p].dirty = 0
  <2>1. \A p \in Pebs : p > x => info[p].free = 0 /\ info[p].dirty = 0
    BY <1>1, <1>2 DEF FreeInv, ScanSpace
  <2> QED BY <1>2, <2>1 DEF Passes
<1>14. info'[x].free = 0 /\ info'[x].dirty = scan'.dirty
  <2>1. info[x].free = 0 BY <1>1, <1>2 DEF FreeInv, ScanSpace
  <2> QED BY <1>2, <2>1 DEF Passes
<1>15. ScanSpace'
  BY <1>2, <1>3, <1>4, <1>6, <1>11, <1>12, <1>13, <1>14 DEF ScanSpace
<1>16. \A p \in Pebs : p < x /\ Live(p)' => OpenAt(p)'
  BY <1>1, <1>2, OpenSpaced DEF Passes
<1>17. \A p \in Pebs : p < x /\ info'[p].reserved => info'[p].dirty = 0
  BY <1>1, <1>2 DEF FreeInv, SpareClean, Known, Passes
<1> QED BY <1>3, <1>15, <1>16, <1>17, FreeScan

LEMMA PassesSeen ==
    ASSUME Whole, ScanDeletedItem \/ ScanFirstCopy
    PROVE  Passes
<1> USE WholeParts
<1>1. PICK x \in Pebs : x = scan.peb /\ Live(x) /\ ~info[x].reserved
  BY ScanningLive DEF ScanDeletedItem, ScanFirstCopy, ScanningValid, ScanningItems
<1>2. pc = "item_scan" /\ ScanningItems /\ HasItem /\ ScannedItem.status # ItemWriting
  BY ItemCodes DEF ScanDeletedItem, ScanFirstCopy, ScanningValid, ScanningItems
<1>3. info[x].dirty = scan.dirty BY <1>1, <1>2 DEF FreeInv, ScanSpace
<1>4. scan.dirty \in Int /\ scan.valid \in Int /\ Footprint(ScannedItem.val) \in Int
  <2>1. ScannedItem.val \in Values BY <1>2, ScannedFacts, ItemFields
  <2>2. Footprint(ScannedItem.val) \in Nat \ {0} BY <2>1, ValueTypes
  <2> QED BY <2>2, LocalFields
<1>5. hdr' = hdr /\ log' = log BY DEF ScanDeletedItem, ScanFirstCopy, flash
<1>6. /\ scan'.peb = scan.peb /\ scan'.pos = scan.pos + 1
      /\ scan'.dirty + scan'.valid = scan.dirty + scan.valid + Footprint(ScannedItem.val)
      /\ info'[x].dirty = scan'.dirty /\ info'[x].free = info[x].free
      /\ info'[x].reserved <=> info[x].reserved
      /\ \A p \in Pebs : p # x => info'[p] = info[p]
  <2>1. CASE ScanDeletedItem
    <3>1. /\ info' = [info EXCEPT ![x].dirty = @ + Footprint(ScannedItem.val)]
          /\ scan' = [scan EXCEPT !.pos = @ + 1, !.dirty = @ + Footprint(ScannedItem.val)]
      BY <1>1, <2>1 DEF ScanDeletedItem
    <3>2. /\ scan'.peb = scan.peb /\ scan'.pos = scan.pos + 1 /\ scan'.valid = scan.valid
          /\ scan'.dirty = scan.dirty + Footprint(ScannedItem.val)
      BY <3>1, LocalFields DEF Scans
    <3>3. /\ info'[x].dirty = info[x].dirty + Footprint(ScannedItem.val)
          /\ info'[x].free = info[x].free /\ info'[x].reserved = info[x].reserved
          /\ \A p \in Pebs : p # x => info'[p] = info[p]
      BY <3>1, Shapes DEF Infos
    <3> QED BY <1>3, <1>4, <3>2, <3>3
  <2>2. CASE ScanFirstCopy
    <3>1. /\ info' = info
          /\ scan' = [scan EXCEPT !.pos = @ + 1, !.valid = @ + Footprint(ScannedItem.val)]
      BY <2>2 DEF ScanFirstCopy
    <3>2. /\ scan'.peb = scan.peb /\ scan'.pos = scan.pos + 1 /\ scan'.dirty = scan.dirty
          /\ scan'.valid = scan.valid + Footprint(ScannedItem.val)
      BY <3>1, LocalFields DEF Scans
    <3> QED BY <1>3, <1>4, <3>1, <3>2
  <2> QED BY <2>1, <2>2
<1>7. \A p \in Pebs : ~(p > x /\ p = x) BY PebFacts
<1> QED BY <1>1, <1>2, <1>5, <1>6, <1>7, SpacedSame DEF Passes

\* The copy a newer one replaces was scanned before.
LEMMA OlderSeen ==
    ASSUME Whole, ScanNewerCopy
    PROVE  \E c \in Current :
              /\ Scanned(c) /\ c.index = ScannedItem.index
              /\ items[ScannedItem.index] = Header(c) /\ c.peb \in Pebs
              /\ ~info[c.peb].reserved /\ ~(c.peb > scan.peb)
<1> USE WholeParts
<1>1. ScanningValid /\ items[ScannedItem.index].seq # NoSeq BY DEF ScanNewerCopy
<1>2. pc = "item_scan" BY <1>1 DEF ScanningValid, ScanningItems
<1>3. ScannedItem.index \in Indexes
  <2>1. ScannedItem \in Items BY <1>1, ScannedFacts DEF ScanningValid
  <2> QED BY <2>1, ItemFields
<1>4. PICK c \in Current :
        Scanned(c) /\ c.index = ScannedItem.index /\ Header(c) = items[ScannedItem.index]
  BY <1>1, <1>2, <1>3, ScannedHeader
<1>5. c.peb \in Pebs /\ Live(c.peb) BY CurrentIs, CurrentFields
<1>6. ~info[c.peb].reserved BY <1>2, <1>5, LiveUsed
<1>7. ~(c.peb > scan.peb)
  <2>1. c.peb \in Nat /\ scan.peb \in Nat
    <3>1. scan.peb \in 0 .. PebCount /\ PebCount \in Nat BY LocalFields, PebFacts
    <3>2. scan.peb \in Nat BY <3>1
    <3>3. c.peb \in Nat BY <1>5, PebFacts
    <3> QED BY <3>2, <3>3
  <2> QED BY <1>4, <2>1 DEF Scanned
<1> QED BY <1>4, <1>5, <1>6, <1>7

LEMMA PassesNewer ==
    ASSUME Whole, ScanNewerCopy
    PROVE  Passes
<1> USE WholeParts
<1>1. PICK x \in Pebs : x = scan.peb /\ Live(x) /\ ~info[x].reserved
  BY ScanningLive DEF ScanNewerCopy, ScanningValid, ScanningItems
<1>2. pc = "item_scan" /\ ScanningItems /\ HasItem /\ ScannedItem.status # ItemWriting
  BY ItemCodes DEF ScanNewerCopy, ScanningValid, ScanningItems
<1>3. info[x].dirty = scan.dirty BY <1>1, <1>2 DEF FreeInv, ScanSpace
<1>4. PICK c \in Current :
         /\ items[ScannedItem.index] = Header(c) /\ c.peb \in Pebs
         /\ ~info[c.peb].reserved /\ ~(c.peb > scan.peb)
  BY OlderSeen
<1>5. PICK y \in Pebs : y = c.peb BY <1>4
<1>6. PICK v \in Nat : v = Footprint(c.val)
  <2>1. c.val \in Values BY CurrentFields
  <2> QED BY <2>1, ValueTypes
<1>7. PICK u \in Nat : u = IF y = x THEN v ELSE 0 BY <1>6
<1>8. /\ Discard(y, c.off) /\ info' = [info EXCEPT ![y].dirty = @ + v]
      /\ scan' = [scan EXCEPT !.pos = @ + 1, !.abnormal = TRUE,
                              !.valid = @ + Footprint(ScannedItem.val) - u, !.dirty = @ + u]
  <2>1. /\ items[ScannedItem.index].peb = y /\ items[ScannedItem.index].off = c.off
        /\ items[ScannedItem.index].size = c.val
    BY <1>4, <1>5 DEF Header
  <2> QED BY <1>1, <1>6, <1>7, <2>1 DEF ScanNewerCopy
<1>9. hdr' = hdr /\ \A p \in Pebs : Spaced(log[p], log'[p]) BY <1>8, SpacedDiscard
<1>10. /\ scan'.peb = scan.peb /\ scan'.pos = scan.pos + 1 /\ scan'.dirty = scan.dirty + u
       /\ scan'.valid = scan.valid + Footprint(ScannedItem.val) - u
  BY <1>8, LocalFields DEF Scans
<1>11. scan.dirty \in Int /\ scan.valid \in Int /\ Footprint(ScannedItem.val) \in Int
  <2>1. ScannedItem.val \in Values BY <1>2, ScannedFacts, ItemFields
  <2>2. Footprint(ScannedItem.val) \in Nat \ {0} BY <2>1, ValueTypes
  <2> QED BY <2>2, LocalFields
<1>12. scan'.dirty + scan'.valid = scan.dirty + scan.valid + Footprint(ScannedItem.val)
  BY <1>10, <1>11
<1>13. /\ info'[y].dirty = info[y].dirty + v
       /\ \A p \in Pebs : /\ info'[p].free = info[p].free
                          /\ info'[p].reserved <=> info[p].reserved
                          /\ p # y => info'[p].dirty = info[p].dirty
  BY <1>8, Shapes DEF Infos
<1>14. info'[x].dirty = scan'.dirty
  <2>1. CASE y = x BY <1>3, <1>7, <1>10, <1>13, <2>1
  <2>2. CASE y # x BY <1>3, <1>7, <1>10, <1>11, <1>13, <2>2
  <2> QED BY <2>1, <2>2
<1>15. \A p \in Pebs : info[p].reserved \/ p > scan.peb => p # y BY <1>4, <1>5
<1> QED BY <1>1, <1>2, <1>9, <1>10, <1>12, <1>13, <1>14, <1>15 DEF Passes

LEMMA PassesOlder ==
    ASSUME Whole, ScanOlderCopy
    PROVE  Passes
<1> USE WholeParts
<1>1. PICK x \in Pebs : x = scan.peb /\ Live(x) /\ ~info[x].reserved
  BY ScanningLive DEF ScanOlderCopy, ScanningValid, ScanningItems
<1>2. pc = "item_scan" /\ ScanningItems /\ HasItem /\ ScannedItem.status # ItemWriting
  BY ItemCodes DEF ScanOlderCopy, ScanningValid, ScanningItems
<1>3. info[x].dirty = scan.dirty BY <1>1, <1>2 DEF FreeInv, ScanSpace
<1>4. PICK v \in Nat : v = Footprint(ScannedItem.val)
  <2>1. ScannedItem.val \in Values BY <1>2, ScannedFacts, ItemFields
  <2> QED BY <2>1, ValueTypes
<1>5. /\ Discard(x, ScannedItem.off) /\ info' = [info EXCEPT ![x].dirty = @ + v]
      /\ scan' = [scan EXCEPT !.pos = @ + 1, !.abnormal = TRUE, !.dirty = @ + v]
  BY <1>1, <1>4 DEF ScanOlderCopy
<1>6. hdr' = hdr /\ \A p \in Pebs : Spaced(log[p], log'[p]) BY <1>5, SpacedDiscard
<1>7. /\ scan'.peb = scan.peb /\ scan'.pos = scan.pos + 1 /\ scan'.dirty = scan.dirty + v
      /\ scan'.valid = scan.valid
  BY <1>5, LocalFields DEF Scans
<1>8. scan'.dirty + scan'.valid = scan.dirty + scan.valid + v BY <1>7, LocalFields
<1>9. /\ info'[x].dirty = info[x].dirty + v
      /\ \A p \in Pebs : /\ info'[p].free = info[p].free
                         /\ info'[p].reserved <=> info[p].reserved
                         /\ p # x => info'[p].dirty = info[p].dirty
  BY <1>5, Shapes DEF Infos
<1>10. \A p \in Pebs : ~(p > x /\ p = x) BY PebFacts
<1> QED BY <1>1, <1>2, <1>3, <1>4, <1>6, <1>7, <1>8, <1>9, <1>10 DEF Passes

LEMMA FreeSeen ==
    ASSUME Whole, TypeOK', ScanDeletedItem \/ ScanFirstCopy \/ ScanNewerCopy \/ ScanOlderCopy
    PROVE  FreeInv'
<1>1. pc' \in {"item_scan", "assert"}
  BY DEF ScanDeletedItem, ScanFirstCopy, ScanNewerCopy, ScanOlderCopy, ScanningItems, Check,
         SecondCopyOk
<1>2. Passes BY PassesSeen, PassesNewer, PassesOlder
<1>3. CASE pc' = "assert" BY <1>3, FreeVoid, FinalFacts
<1>4. CASE pc' = "item_scan" BY <1>2, <1>4, FreePasses
<1> QED BY <1>1, <1>3, <1>4

LEMMA FreeClassify ==
    ASSUME Whole, TypeOK', Classify
    PROVE  FreeInv'
<1>1. CASE pc' = "item_scan" BY <1>1, ClassifyEnds, FreeFormatted
<1>2. CASE pc' # "item_scan" BY <1>2, ClassifyEnds, FreeVoid, FinalFacts
<1> QED BY <1>1, <1>2

LEMMA FreeStep ==
    ASSUME Whole, TypeOK', [Next]_vars
    PROVE  FreeInv'
<1> USE WholeParts
<1>1. CASE UNCHANGED vars
  <2>1. UNCHANGED <<hdr, log, info, pc, scan, w>> BY <1>1 DEF vars, flash, ram, call
  <2>2. \A p \in Pebs : Live(p)' <=> Live(p)
    <3>1. MarksNone BY <2>1 DEF MarksNone
    <3> QED BY <3>1, LiveSame
  <2> QED BY <2>1, <2>2 DEF FreeInv, RoomAtEnd, SpareClean, ScanSpace, Known, BeingWritten,
                            AtWriting, OpenAt, Closed, Clean
<1>2. CASE Next
  <2>1. CASE Classify BY <2>1, FreeClassify
  <2>2. CASE ScanLook BY <2>2, FreeBlock, FreeSeen DEF ScanLook
  <2>3. CASE ScanNewerCopy \/ ScanOlderCopy BY <2>3, FreeSeen
  <2>4. CASE Still BY <2>4, FreeStill
  <2>5. CASE CalmMarks BY <2>5, FreeCalm
  <2>6. CASE EndTransfer BY <2>6, FreeTransferred
  <2>7. CASE CopyItem \/ CommitCopy BY <2>7, FreeCopied
  <2>8. CASE WriteItem \/ MarkValid \/ PebActivedNow BY <2>8, FreeWriting
  <2>9. CASE DeleteOld \/ DeleteItem BY <2>9, FreeDiscards
  <2>10. CASE Erase \/ MarkEmpty BY <2>10, FreeErased
  <2>11. CASE Allocate BY <2>11, FreeAllocate
  <2>12. CASE PowerOn \/ PowerLoss
    <3>1. pc' \in {"peb_scan", "off"} BY <2>12 DEF PowerOn, PowerLoss
    <3> QED BY <3>1, FreeVoid, FinalFacts
  <2> QED BY <1>2, <2>1, <2>2, <2>3, <2>4, <2>5, <2>6, <2>7, <2>8, <2>9, <2>10, <2>11, <2>12,
             Groups
<1> QED BY <1>1, <1>2

-----------------------------------------------------------------------------
(* The bytes of the valid items of a log. *)
ValidsBelow(l, n) == {j \in DOMAIN l : j < n /\ l[j].status = ItemValid}
LEMMA BelowIs ==
    \A l, n : ValidBelow(l, n) = SumOver(ValidsBelow(l, n), Foot(l))
BY DEF ValidBelow, ValidsBelow
LEMMA FootInt ==
    ASSUME NEW l \in Seq(Items), NEW S \in SUBSET DOMAIN l
    PROVE  IsFiniteSet(S) /\ IntOn(S, Foot(l))
<1>1. IsFiniteSet(S) /\ \A j \in S : Foot(l)[j] \in Nat \ {0} BY FootFacts
<1>2. \A j \in S : Foot(l)[j] \in Int BY <1>1
<1> QED BY <1>1, <1>2 DEF IntOn
LEMMA BelowTypes ==
    ASSUME NEW l \in Seq(Items), NEW n
    PROVE  /\ ValidsBelow(l, n) \in SUBSET DOMAIN l /\ IsFiniteSet(ValidsBelow(l, n))
           /\ IntOn(ValidsBelow(l, n), Foot(l)) /\ ValidBelow(l, n) \in Nat
<1>1. ValidsBelow(l, n) \in SUBSET DOMAIN l BY DEF ValidsBelow
<1>2. /\ IsFiniteSet(ValidsBelow(l, n))
      /\ \A j \in ValidsBelow(l, n) : Foot(l)[j] \in Nat \ {0}
      /\ SumOver(ValidsBelow(l, n), Foot(l)) \in Nat
  BY <1>1, FootFacts
<1> QED BY <1>1, <1>2, BelowIs DEF IntOn

LEMMA BelowEnd ==
    ASSUME TypeOK, NEW p \in Pebs
    PROVE  ValidBytes(p) = ValidBelow(log[p], Len(log[p]) + 1)
<1>1. PICK l : l = log[p] OBVIOUS
<1>2. l \in Seq(Items) BY <1>1, Shapes
<1>3. ValidsOf(l) = ValidsBelow(l, Len(l) + 1) BY <1>2 DEF ValidsOf, ValidsBelow
<1> QED BY <1>1, <1>3, BelowIs, ValidBytesIs

LEMMA BelowStart ==
    ASSUME NEW l \in Seq(Items)
    PROVE  ValidBelow(l, 1) = 0
<1>1. ValidsBelow(l, 1) = {} BY DEF ValidsBelow
<1> QED BY <1>1, BelowIs, SumEmpty

LEMMA BelowItem ==
    ASSUME NEW l \in Seq(Items), NEW n \in DOMAIN l
    PROVE  ValidBelow(l, n + 1)
              = ValidBelow(l, n) + IF l[n].status = ItemValid THEN Footprint(l[n].val) ELSE 0
<1>1. ValidBelow(l, n) \in Nat BY BelowTypes
<1>2. CASE l[n].status # ItemValid
  <2>1. ValidsBelow(l, n + 1) = ValidsBelow(l, n) BY <1>2 DEF ValidsBelow
  <2> QED BY <1>1, <1>2, <2>1, BelowIs
<1>3. CASE l[n].status = ItemValid
  <2>1. ValidsBelow(l, n + 1) = ValidsBelow(l, n) \cup {n} /\ n \notin ValidsBelow(l, n)
    BY <1>3 DEF ValidsBelow
  <2>2. IsFiniteSet(ValidsBelow(l, n)) /\ IntOn(ValidsBelow(l, n), Foot(l)) BY BelowTypes
  <2>3. Foot(l)[n] = Footprint(l[n].val) /\ Foot(l)[n] \in Int
    <3>1. Foot(l)[n] \in Nat \ {0} BY FootFacts
    <3> QED BY <3>1 DEF Foot
  <2>4. SumOver(ValidsBelow(l, n) \cup {n}, Foot(l)) = Foot(l)[n] + SumOver(ValidsBelow(l, n), Foot(l))
    BY <2>1, <2>2, <2>3, SumAdd
  <2>5. ValidBelow(l, n + 1) = Foot(l)[n] + ValidBelow(l, n) BY <2>1, <2>4, BelowIs
  <2> QED BY <1>1, <1>3, <2>3, <2>5
<1> QED BY <1>2, <1>3

\* The values of two alined logs have the same sizes.
LEMMA AlinedFoot ==
    ASSUME NEW l \in Seq(Items), NEW m \in Seq(Items), DOMAIN m = DOMAIN l, Alined(l, m),
           NEW S \in SUBSET DOMAIN l
    PROVE  SumOver(S, Foot(m)) = SumOver(S, Foot(l))
<1>1. IsFiniteSet(S) /\ IntOn(S, Foot(l)) BY FootInt
<1>2. \A j \in S : Foot(m)[j] = Foot(l)[j] BY DEF Foot, Alined
<1> QED BY <1>1, <1>2, SumSame

LEMMA BelowDiscarded ==
    ASSUME NEW l \in Seq(Items), Laid(l), NEW k \in DOMAIN l, l[k].status = ItemValid, NEW n
    PROVE  /\ k < n => ValidBelow(Discarded(l, l[k].off), n) = ValidBelow(l, n) - Footprint(l[k].val)
           /\ ~(k < n) => ValidBelow(Discarded(l, l[k].off), n) = ValidBelow(l, n)
<1>1. PICK m : m = Discarded(l, l[k].off) OBVIOUS
<1>2. /\ m \in Seq(Items) /\ DOMAIN m = DOMAIN l /\ Alined(l, m)
      /\ \A j \in DOMAIN l : l[j].off # l[k].off => m[j] = l[j]
      /\ \A j \in DOMAIN l : l[j].off = l[k].off => m[j].status = ItemDelete
  BY <1>1, Discards
<1>3. \A j \in DOMAIN l : m[j].status = ItemValid <=> j # k /\ l[j].status = ItemValid
  BY <1>2, OffsetsDiffer, ItemCodes
<1>4. ValidsBelow(m, n) = ValidsBelow(l, n) \ {k} BY <1>2, <1>3 DEF ValidsBelow
<1>5. ValidBelow(m, n) = SumOver(ValidsBelow(l, n) \ {k}, Foot(l))
  <2>1. ValidsBelow(l, n) \ {k} \in SUBSET DOMAIN l BY DEF ValidsBelow
  <2> QED BY <1>2, <1>4, <2>1, AlinedFoot, BelowIs
<1>6. CASE ~(k < n)
  <2>1. ValidsBelow(l, n) \ {k} = ValidsBelow(l, n) BY <1>6 DEF ValidsBelow
  <2> QED BY <1>1, <1>5, <1>6, <2>1, BelowIs
<1>7. CASE k < n
  <2>1. k \in ValidsBelow(l, n) BY <1>7 DEF ValidsBelow
  <2>2. /\ IsFiniteSet(ValidsBelow(l, n)) /\ IntOn(ValidsBelow(l, n), Foot(l))
        /\ ValidBelow(l, n) \in Nat
    BY BelowTypes
  <2>3. SumOver(ValidsBelow(l, n), Foot(l)) = Foot(l)[k] + SumOver(ValidsBelow(l, n) \ {k}, Foot(l))
    BY <2>1, <2>2, SumTake
  <2>4. Foot(l)[k] = Footprint(l[k].val) /\ Foot(l)[k] \in Int
    <3>1. Foot(l)[k] \in Nat \ {0} BY FootFacts
    <3> QED BY <3>1 DEF Foot
  <2>5. SumOver(ValidsBelow(l, n) \ {k}, Foot(l)) \in Nat
    <3>1. ValidsBelow(l, n) \ {k} \in SUBSET DOMAIN l BY DEF ValidsBelow
    <3> QED BY <3>1, FootFacts
  <2>6. ValidBelow(l, n) = Footprint(l[k].val) + ValidBelow(m, n) BY <1>5, <2>3, <2>4, BelowIs
  <2> QED BY <1>1, <1>5, <1>7, <2>2, <2>4, <2>5, <2>6
<1> QED BY <1>6, <1>7

LEMMA BelowValidated ==
    ASSUME NEW l \in Seq(Items), Laid(l), NEW k \in DOMAIN l, l[k].status = ItemWriting
    PROVE  ValidBelow(Validated(l, l[k].off), Len(l) + 1)
              = ValidBelow(l, Len(l) + 1) + Footprint(l[k].val)
<1>1. PICK m : m = Validated(l, l[k].off) OBVIOUS
<1>2. PICK n : n = Len(l) + 1 OBVIOUS
<1>3. /\ m \in Seq(Items) /\ DOMAIN m = DOMAIN l /\ Alined(l, m)
      /\ \A j \in DOMAIN l : l[j].off # l[k].off => m[j] = l[j]
      /\ \A j \in DOMAIN l : l[j].off = l[k].off => m[j] = [l[j] EXCEPT !.status = ItemValid]
  BY <1>1, Validates
<1>4. \A j \in DOMAIN l : m[j].status = ItemValid <=> j = k \/ l[j].status = ItemValid
  <2>1. l[k] \in Items BY Placed
  <2>2. m[k].status = ItemValid BY <1>3, <2>1 DEF Items
  <2> QED BY <1>3, <2>2, OffsetsDiffer
<1>5. /\ ValidsBelow(m, n) = ValidsBelow(l, n) \cup {k} /\ k \notin ValidsBelow(l, n)
  BY <1>2, <1>3, <1>4, ItemCodes DEF ValidsBelow
<1>6. /\ IsFiniteSet(ValidsBelow(l, n)) /\ IntOn(ValidsBelow(l, n), Foot(l))
      /\ ValidBelow(l, n) \in Nat
  BY BelowTypes
<1>7. Foot(l)[k] = Footprint(l[k].val) /\ Foot(l)[k] \in Int
  <2>1. Foot(l)[k] \in Nat \ {0} BY FootFacts
  <2> QED BY <2>1 DEF Foot
<1>8. SumOver(ValidsBelow(l, n) \cup {k}, Foot(l)) = Foot(l)[k] + SumOver(ValidsBelow(l, n), Foot(l))
  BY <1>5, <1>6, <1>7, SumAdd
<1>9. ValidBelow(m, n) = SumOver(ValidsBelow(l, n) \cup {k}, Foot(l))
  <2>1. ValidsBelow(l, n) \cup {k} \in SUBSET DOMAIN l BY DEF ValidsBelow
  <2> QED BY <1>3, <1>5, <2>1, AlinedFoot, BelowIs
<1>10. ValidBelow(m, n) = Footprint(l[k].val) + ValidBelow(l, n) BY <1>7, <1>8, <1>9, BelowIs
<1> QED BY <1>1, <1>2, <1>6, <1>7, <1>10

LEMMA BelowAppended ==
    ASSUME NEW l \in Seq(Items), NEW item \in Items, item.status = ItemWriting
    PROVE  ValidBelow(Append(l, item), Len(Append(l, item)) + 1) = ValidBelow(l, Len(l) + 1)
<1>1. PICK m : m = Append(l, item) OBVIOUS
<1>2. /\ m \in Seq(Items) /\ Len(m) = Len(l) + 1 /\ \A j \in DOMAIN l : m[j] = l[j]
      /\ m[Len(l) + 1] = item /\ DOMAIN m = 1 .. Len(l) + 1 /\ DOMAIN l = 1 .. Len(l)
      /\ Len(l) \in Nat
  BY <1>1
<1>3. item.status # ItemValid BY ItemCodes
<1>4. ValidsBelow(m, Len(m) + 1) = ValidsBelow(l, Len(l) + 1)
  BY <1>2, <1>3 DEF ValidsBelow
<1>5. PICK S \in SUBSET DOMAIN l : S = ValidsBelow(l, Len(l) + 1) BY DEF ValidsBelow
<1>6. IsFiniteSet(S) /\ IntOn(S, Foot(l)) BY FootInt
<1>7. \A j \in S : Foot(m)[j] = Foot(l)[j] BY <1>2 DEF Foot
<1>8. SumOver(S, Foot(m)) = SumOver(S, Foot(l)) BY <1>6, <1>7, SumSame
<1> QED BY <1>1, <1>4, <1>5, <1>8, BelowIs

-----------------------------------------------------------------------------
(* ValidInv. *)
LEMMA ValidVoid ==
    ASSUME pc' \notin FinalLabels \cup {"item_scan"}
    PROVE  ValidInv'
BY DEF ValidInv, ValidExact, ValidSoFar, Known

Exact(p) == ValidIn(p) = ValidBytes(p) + InFlight(p)
\* What the accounting says of block p is what it was.
SameValid(p) ==
    /\ ValidIn(p)' = ValidIn(p) /\ ValidBytes(p)' = ValidBytes(p)
    /\ InFlight(p)' = InFlight(p)
LEMMA ValidFinal ==
    ASSUME Whole, \A p \in Pebs : Known(p), pc' \in FinalLabels,
           \A p \in Pebs : Tracked(p)' => (Tracked(p) /\ SameValid(p)) \/ Exact(p)'
    PROVE  ValidInv'
<1> USE WholeParts
<1>1. \A p \in Pebs : Tracked(p) => Exact(p) BY DEF ValidInv, ValidExact, Exact
<1>2. \A p \in Pebs : Tracked(p)' => Exact(p)'
  <2> SUFFICES ASSUME NEW p \in Pebs, Tracked(p)' PROVE Exact(p)' OBVIOUS
  <2>1. CASE Exact(p)' BY <2>1
  <2>2. CASE Tracked(p) /\ SameValid(p) BY <1>1, <2>2 DEF Exact, SameValid
  <2> QED BY <2>1, <2>2
<1>3. pc' # "item_scan" BY FinalFacts
<1> QED BY <1>2, <1>3 DEF ValidInv, ValidExact, ValidSoFar, Exact

LEMMA SameValidIs ==
    ASSUME NEW p, info'[p].free = info[p].free, info'[p].dirty = info[p].dirty,
           log'[p] = log[p], InFlight(p)' = InFlight(p)
    PROVE  SameValid(p)
BY DEF SameValid, ValidIn, ValidBytes

InFlightLabels == {"writing", "valid"}
LEMMA NoneInFlight ==
    /\ pc \notin InFlightLabels => \A p : InFlight(p) = 0
    /\ pc' \notin InFlightLabels => \A p : InFlight(p)' = 0
    /\ InFlightLabels \cap (SettledLabels \cup CollectLabels \cup {"item_scan"}) = {}
BY DEF InFlight, InFlightLabels, SettledLabels, CollectLabels

LEMMA ValidStill ==
    ASSUME Whole, Still
    PROVE  ValidInv'
<1> USE WholeParts
<1>1. /\ UNCHANGED <<hdr, log, info>>
      /\ pc \in (SettledLabels \cup CollectLabels) \/ ItemScanDone
      /\ pc' \in {"reclaim", "relocate", "init", "idle", "mark", "migrate", "alloc",
                  "actived", "write", "delete", "held", "assert"}
  BY StillFacts
<1>2. CASE pc' = "assert" BY <1>2, ValidVoid, FinalFacts
<1>3. CASE pc' # "assert"
  <2>1. pc' \in FinalLabels /\ pc' \notin WritingLabels
    BY <1>1, <1>3 DEF FinalLabels, SettledLabels, CollectLabels, WritingLabels
  <2>2. \A p \in Pebs : Known(p) BY <1>1, KnownFinal, FinalFacts
  <2>3. \A p \in Pebs : SameValid(p)
    <3>1. pc \notin InFlightLabels /\ pc' \notin InFlightLabels
      BY <1>1, NoneInFlight DEF ItemScanDone, InFlightLabels
    <3> QED BY <1>1, <3>1, NoneInFlight, SameValidIs
  <2>4. \A p \in Pebs : Live(p)' <=> Live(p)
    <3>1. MarksNone BY <1>1 DEF MarksNone
    <3> QED BY <3>1, LiveSame
  <2>5. \A p \in Pebs : Tracked(p)' => Tracked(p)
    <3>1. \A p : ~BeingWritten(p)' BY <2>1 DEF BeingWritten, AtWriting
    <3>2. ASSUME pc' = "migrate" PROVE pc = "migrate" /\ gc'.dst = gc.dst
      <4>1. SourceDone \/ SkipDeleted
        BY <3>2 DEF Still, RecoverTransfering, RecoverTransfered, RecoverNothing, Recovery, InitDone,
                    GarbageCollect, RelocateEmpty, RelocateValid, Reclaimed, ReclaimInv,
                    WriteRefused, WriteAccepted, AllocateTooMany, WriteDone, DeleteDone, Request,
                    RequestWrite, RequestDelete, Return, Check, TypeOK, Gcs, ItemScanDone
      <4> QED BY <4>1, LocalFields DEF SourceDone, SkipDeleted, Migrating, AtSource, NextSource, Gcs
    <3> QED BY <1>1, <2>4, <3>1, <3>2 DEF Tracked
  <2> QED BY <2>1, <2>2, <2>3, <2>5, ValidFinal
<1> QED BY <1>2, <1>3

LEMMA ValidCalm ==
    ASSUME Whole, TypeOK', CalmMarks
    PROVE  ValidInv'
<1> USE WholeParts
<1>1. pc \in CollectLabels /\ pc' \in FinalLabels \cup {"assert"} BY CollectSteps
<1>2. CASE pc' = "assert" BY <1>2, ValidVoid, FinalFacts
<1>3. CASE pc' \in FinalLabels
  <2>1. log' = log /\ \A p \in Pebs : Live(p)' => Live(p) BY CalmCurrent
  <2>2. \A p \in Pebs : Known(p) BY <1>1, CollectKnown
  <2>3. /\ pc' \notin InFlightLabels /\ pc \notin InFlightLabels
        /\ \A p : ~BeingWritten(p)'
    BY <1>1, NoneInFlight
       DEF CalmMarks, MarkReclaiming, StartTransfer, Reclaim, TargetActived, PickTarget, Caller,
           Check, InFlightLabels, BeingWritten, AtWriting, WritingLabels, AtSource
  <2>4. CASE CalmMarks /\ ~PickTarget
    <3>1. info' = info
      BY <2>4 DEF CalmMarks, MarkReclaiming, StartTransfer, Reclaim, TargetActived, ram
    <3>2. \A p \in Pebs : SameValid(p) BY <2>1, <2>3, <3>1, NoneInFlight, SameValidIs
    <3>3. \A p \in Pebs : Tracked(p)' => Tracked(p)
      <4>1. ASSUME pc' \in {"transfering", "migrate", "copied"}
            PROVE  pc = "transfering" /\ gc'.dst = gc.dst
        BY <2>4, <4>1 DEF CalmMarks, MarkReclaiming, StartTransfer, Reclaim, TargetActived, Caller,
                          AtSource
      <4> QED BY <2>1, <2>3, <4>1 DEF Tracked
    <3> QED BY <1>3, <2>2, <3>2, <3>3, ValidFinal
  <2>5. CASE PickTarget
    <3>1. pc' = "transfering" /\ pc = "mark"
      BY <1>3, <2>5, FinalFacts DEF PickTarget, Check, AfterSources
    <3>2. PICK x \in Reserved : Picked(x)
      BY <1>3, <2>5, <3>1, PicksReserved DEF PickTarget, Check
    <3>3. x \in Pebs /\ info[x].reserved BY <3>2 DEF Reserved
    <3>4. gc'.dst = x BY <3>2, LocalFields DEF Picked, Gcs
    <3>5. /\ \A p \in Pebs : p # x => info'[p] = info[p]
          /\ info'[x].free = info[x].free /\ info'[x].dirty = info[x].dirty
      BY <3>2, <3>3, Shapes DEF Picked, Infos
    <3>6. info[x].free = Capacity /\ info[x].dirty = 0
      BY <2>2, <3>3 DEF HeaderInv, RoomInv, FreeInv, SpareClean
    <3>7. log[x] = <<>>
      <4>1. Reserved # {} /\ Apart(Sources) /\ NotReserved(Sources)
        BY <3>1 DEF BlockInv, MarkInv
      <4>2. Status(x) = PebEmpty BY <3>3, <4>1 DEF Apart, NotReserved
      <4> QED BY <3>3, <4>2 DEF HeaderInv, HeadersSound, Sound, Status
    <3>8. Exact(x)'
      <4>1. log'[x] = <<>> BY <2>1, <3>7
      <4>2. ValidsOf(log'[x]) = {} BY <4>1 DEF ValidsOf
      <4>3. ValidBytes(x)' = 0
        <5>1. ValidBytes(x)' = SumOver(ValidsOf(log'[x]), Foot(log'[x]))
          BY DEF ValidBytes, ValidsOf, Foot
        <5> QED BY <4>2, <5>1, SumEmpty
      <4>4. ValidIn(x)' = 0
        <5>1. Capacity \in Nat BY ValueTypes
        <5> QED BY <3>5, <3>6, <5>1 DEF ValidIn
      <4>5. InFlight(x)' = 0 BY <2>3, NoneInFlight
      <4> QED BY <4>3, <4>4, <4>5 DEF Exact
    <3>9. \A p \in Pebs : p # x => SameValid(p) /\ (Tracked(p)' => Tracked(p))
      <4>1. \A p \in Pebs : p # x => SameValid(p)
        BY <2>1, <2>3, <3>5, NoneInFlight, SameValidIs
      <4>2. \A p \in Pebs : p # x => (Tracked(p)' => Live(p)')
        BY <2>3, <3>4 DEF Tracked
      <4> QED BY <2>1, <4>1, <4>2 DEF Tracked
    <3> QED BY <1>3, <2>2, <3>8, <3>9, ValidFinal
  <2> QED BY <2>4, <2>5
<1> QED BY <1>1, <1>2, <1>3

LEMMA ValidErased ==
    ASSUME Whole, TypeOK', Erase \/ MarkEmpty
    PROVE  ValidInv'
<1> USE WholeParts
<1>1. /\ pc \in {"erase", "empty"} /\ pc' \in {"empty", "reclaim"} /\ gc.cur \in DOMAIN gc.src
  BY DEF Erase, MarkEmpty, Located
<1>2. pc \in FinalLabels /\ pc' \in FinalLabels BY <1>1 DEF FinalLabels, CollectLabels
<1>3. PICK x \in Pebs : x = Source BY <1>1, SourceInDomain
<1>4. ~Live(x)' /\ \A p \in Pebs : Live(p)' => Live(p)
  <2>1. \A p \in Pebs : Live(p)' => Live(p) BY ErasedCurrent
  <2>2. ~Live(Source) BY ErasedCurrent
  <2> QED BY <1>3, <2>1, <2>2
<1>5. \A p \in Pebs : p # x => info'[p] = info[p] /\ log'[p] = log[p]
  <2>1. log'[x] = log'[x] /\ \A p \in Pebs : p # x => log'[p] = log[p]
    BY <1>3, HeaderWrites DEF Erase, MarkEmpty
  <2> QED BY <1>3, <2>1, Shapes DEF Erase, MarkEmpty
<1>6. \A p \in Pebs : Tracked(p)' => p # x /\ Tracked(p)
  BY <1>1, <1>4 DEF Tracked, BeingWritten, AtWriting, WritingLabels
<1>7. pc \notin InFlightLabels /\ pc' \notin InFlightLabels BY <1>1 DEF InFlightLabels
<1>8. \A p \in Pebs : p # x => SameValid(p) BY <1>5, <1>7, NoneInFlight, SameValidIs
<1>9. \A p \in Pebs : Known(p) BY <1>2, KnownFinal
<1> QED BY <1>2, <1>6, <1>8, <1>9, ValidFinal

LEMMA ValidTransferred ==
    ASSUME Whole, EndTransfer
    PROVE  ValidInv'
<1> USE WholeParts
<1>1. pc = "migrate" /\ pc' = "reclaim" /\ info' = info BY DEF EndTransfer, AfterSources, ram
<1>2. pc \in FinalLabels /\ pc' \in FinalLabels BY <1>1 DEF FinalLabels, CollectLabels
<1>3. \A p \in Pebs : Live(p)' <=> p = gc.dst \/ (Live(p) /\ p \notin Sources)
  BY EndTransferCurrent
<1>4. gc.dst \in Pebs BY <1>1, TransferPlace
<1>5. log' = log BY <1>4, HeaderWrites DEF EndTransfer
<1>6. \A p \in Pebs : Tracked(p)' => Tracked(p)
  BY <1>1, <1>3 DEF Tracked, BeingWritten, AtWriting, WritingLabels
<1>7. pc \notin InFlightLabels /\ pc' \notin InFlightLabels BY <1>1 DEF InFlightLabels
<1>8. \A p \in Pebs : SameValid(p) BY <1>1, <1>5, <1>7, NoneInFlight, SameValidIs
<1>9. \A p \in Pebs : Known(p) BY <1>2, KnownFinal
<1> QED BY <1>2, <1>6, <1>8, <1>9, ValidFinal

\* A step that writes the log of one block.
LEMMA ValidOne ==
    ASSUME Whole, \A p \in Pebs : Known(p), pc' \in FinalLabels, NEW x \in Pebs, Exact(x)',
           \A p \in Pebs : p # x =>
              /\ log'[p] = log[p]
              /\ info'[p].free = info[p].free /\ info'[p].dirty = info[p].dirty
              /\ InFlight(p) = 0 /\ InFlight(p)' = 0
              /\ Tracked(p)' => Tracked(p)
    PROVE  ValidInv'
<1>1. \A p \in Pebs : p # x => SameValid(p) BY SameValidIs
<1> QED BY <1>1, ValidFinal

\* The bytes of the log of a block, before and after.
LEMMA BytesIs ==
    ASSUME TypeOK, NEW x \in Pebs, NEW m, m = log'[x]
    PROVE  /\ ValidBytes(x) = ValidBelow(log[x], Len(log[x]) + 1) /\ ValidBytes(x) \in Nat
           /\ m \in Seq(Items) => ValidBytes(x)' = ValidBelow(m, Len(m) + 1)
<1>1. ValidBytes(x) = ValidBelow(log[x], Len(log[x]) + 1) BY BelowEnd
<1>2. ValidBytes(x) \in Nat BY NoValidBytes
<1>3. ASSUME m \in Seq(Items) PROVE ValidBytes(x)' = ValidBelow(m, Len(m) + 1)
  <2>1. ValidsOf(m) = ValidsBelow(m, Len(m) + 1) BY <1>3 DEF ValidsOf, ValidsBelow
  <2>2. ValidBytes(x)' = SumOver(ValidsOf(m), Foot(m)) BY DEF ValidBytes, ValidsOf, Foot
  <2> QED BY <2>1, <2>2, BelowIs
<1> QED BY <1>1, <1>2, <1>3

LEMMA ValidCopied ==
    ASSUME Whole, TypeOK', CopyItem \/ CommitCopy
    PROVE  ValidInv'
<1> USE WholeParts
<1>1. pc \in CollectLabels /\ pc' \in FinalLabels \cup {"assert"} BY CollectSteps
<1>2. CASE pc' = "assert" BY <1>2, ValidVoid, FinalFacts
<1>3. CASE pc' \in FinalLabels
  <2>1. \A p \in Pebs : Known(p) BY <1>1, CollectKnown
  <2>2. /\ pc \in {"migrate", "copied"} /\ pc' \in {"migrate", "copied"} /\ gc.dst \in Pebs
    BY <1>3, CopiedTo, FinalFacts
  <2>3. PICK x \in Pebs : x = gc.dst BY <2>2
  <2>4. gc'.dst = x BY <2>3, LocalFields DEF CopyItem, CommitCopy, Gcs
  <2>5. hdr' = hdr /\ \A p \in Pebs \ {x} : log'[p] = log[p]
    BY <2>3, CopyItemCurrent, CommitCopyCurrent
  <2>6. \A p \in Pebs : Tracked(p)' => Tracked(p)
    <3>1. MarksNone BY <2>5 DEF MarksNone
    <3> QED BY <2>2, <2>3, <2>4, <3>1, LiveSame
         DEF Tracked, BeingWritten, AtWriting, WritingLabels
  <2>7. \A p : InFlight(p) = 0 /\ InFlight(p)' = 0 BY <2>2, NoneInFlight DEF InFlightLabels
  <2>8. Tracked(x) BY <2>2, <2>3 DEF Tracked
  <2>9. ValidIn(x) = ValidBytes(x)
    <3>1. ValidIn(x) = ValidBytes(x) + InFlight(x)
      BY <2>1, <2>8 DEF ValidInv, ValidExact
    <3> QED BY <2>7, <3>1, NoValidBytes
  <2>10. PICK l : l = log[x] OBVIOUS
  <2>11. PICK m : m = log'[x] OBVIOUS
  <2>12. l \in Seq(Items) /\ Laid(l) BY <2>10, Shapes DEF LogInv
  <2>13. /\ ValidBytes(x) = ValidBelow(l, Len(l) + 1) /\ ValidBytes(x) \in Nat
         /\ m \in Seq(Items) => ValidBytes(x)' = ValidBelow(m, Len(m) + 1)
    BY <2>10, <2>11, BytesIs
  <2>14. m \in Seq(Items) BY <2>11 DEF TypeOK
  <2>15. CASE CopyItem
    <3>1. PICK item : item = [SourceItem EXCEPT !.status = ItemWriting, !.off = gc.off] OBVIOUS
    <3>2. m = Append(l, item) BY <2>3, <2>10, <2>11, <2>15, <3>1, CopyItemCurrent
    <3>3. item \in Items /\ item.status = ItemWriting
      <4>1. SourceItem \in Items BY <2>15, CopyRedirects
      <4> QED BY <3>1, <4>1, CopyType, LocalFields, ItemCodes, Zenon DEF Items
    <3>4. ValidBelow(m, Len(m) + 1) = ValidBelow(l, Len(l) + 1)
      BY <2>12, <3>2, <3>3, BelowAppended
    <3>5. info' = info BY <2>15, CopyRedirects
    <3>6. ValidIn(x)' = ValidIn(x) BY <3>5 DEF ValidIn
    <3>7. Exact(x)'
      <4>1. ValidIn(x)' = ValidBytes(x)' BY <2>9, <2>13, <2>14, <3>4, <3>6
      <4>2. ValidBytes(x)' = ValidBytes(x) BY <2>13, <2>14, <3>4
      <4> QED BY <2>7, <2>13, <4>1, <4>2 DEF Exact
    <3> QED BY <1>3, <2>1, <2>5, <2>6, <2>7, <3>5, <3>7, ValidOne
  <2>16. CASE CommitCopy
    <3>1. PICK k \in DOMAIN l :
             /\ l[k].status = ItemWriting /\ l[k].off = gc.off /\ l[k].val = SourceItem.val
      <4>1. /\ Len(l) \in DOMAIN l /\ SourceItem \in Items
            /\ l[Len(l)] = [SourceItem EXCEPT !.status = ItemWriting, !.off = gc.off]
        BY <2>3, <2>10, <2>16, CopiedFacts DEF CommitCopy
      <4>2. /\ l[Len(l)].status = ItemWriting /\ l[Len(l)].off = gc.off
            /\ l[Len(l)].val = SourceItem.val
        BY <4>1 DEF Items
      <4> QED BY <4>1, <4>2
    <3>2. m = Validated(l, l[k].off) BY <2>3, <2>10, <2>11, <2>16, <3>1, CommitCopyCurrent
    <3>3. PICK f : f = Footprint(SourceItem.val) OBVIOUS
    <3>4. f \in Nat
      <4>1. f \in Nat \ {0} BY <2>12, <3>1, <3>3, Placed
      <4> QED BY <4>1
    <3>5. Len(m) = Len(l) BY <2>12, <3>2, LogTypes
    <3>6. ValidBelow(m, Len(m) + 1) = ValidBelow(l, Len(l) + 1) + f
      BY <2>12, <3>1, <3>2, <3>3, <3>5, BelowValidated
    <3>7. info' = [info EXCEPT ![x].free = @ - f]
      BY <2>3, <2>16, <3>3 DEF CommitCopy
    <3>8. /\ info'[x].free = info[x].free - f /\ info'[x].dirty = info[x].dirty
          /\ \A p \in Pebs : p # x => info'[p] = info[p]
      BY <3>7, Shapes DEF Infos
    <3>9. ValidIn(x)' = ValidIn(x) + f
      <4>1. info[x].free \in Int /\ info[x].dirty \in Int /\ Capacity \in Int
        BY Fields, ValueTypes
      <4> QED BY <3>4, <3>8, <4>1 DEF ValidIn
    <3>10. Exact(x)'
      <4>1. ValidBytes(x)' = ValidBytes(x) + f BY <2>13, <2>14, <3>6
      <4>2. InFlight(x)' = 0 BY <2>7
      <4>3. ValidIn(x)' = ValidBytes(x)' + 0 BY <2>9, <2>13, <3>4, <3>9, <4>1
      <4> QED BY <4>2, <4>3 DEF Exact
    <3> QED BY <1>3, <2>1, <2>5, <2>6, <2>7, <3>8, <3>10, ValidOne
  <2> QED BY <2>15, <2>16
<1> QED BY <1>1, <1>2, <1>3

LEMMA ValidAllocate ==
    ASSUME Whole, TypeOK', Allocate
    PROVE  ValidInv'
<1> USE WholeParts
<1>1. pc = "alloc" /\ pc' = "writing" BY DEF Allocate, Allocating
<1>2. PICK x \in Pebs :
              /\ Allocated(x) /\ w'.peb = x /\ log' = log
              /\ IF Fresh(x) THEN Activate(x) ELSE hdr' = hdr /\ Live(x)
              /\ (Fresh(x) => log[x] = <<>>) /\ (info[x].reserved => Fresh(x))
              /\ Status(x) = IF info[x].reserved THEN PebEmpty ELSE PebActived
  BY AllocateRoom
<1>3. pc \in SettledLabels /\ pc \in FinalLabels /\ pc' \in FinalLabels /\ pc \in CallLabels
  BY <1>1 DEF SettledLabels, FinalLabels, WritingLabels, CallLabels
<1>4. \A p \in Pebs : Known(p) BY <1>3, KnownFinal
<1>5. PICK f : f = Footprint(req.val) OBVIOUS
<1>6. f \in Nat /\ req' = req
  <2>1. f \in Nat \ {0} BY <1>3, <1>5, ReqFacts
  <2> QED BY <2>1 DEF Allocate, call
<1>7. /\ info'[x].free = info[x].free - f /\ info'[x].dirty = info[x].dirty
      /\ \A p \in Pebs : p # x => info'[p] = info[p]
  BY <1>2, <1>5, Shapes DEF Allocated, Infos
<1>8. /\ InFlight(x)' = f /\ \A p : p # x => InFlight(p)' = 0
      /\ \A p : InFlight(p) = 0
  BY <1>1, <1>2, <1>5, <1>6 DEF InFlight
<1>9. ValidIn(x) = ValidBytes(x) /\ ValidBytes(x) \in Nat
  <2>1. ValidBytes(x) \in Nat BY NoValidBytes
  <2>2. CASE info[x].reserved
    <3>1. info[x].free = Capacity /\ info[x].dirty = 0 /\ log[x] = <<>>
      BY <1>2, <1>4, <2>2 DEF HeaderInv, RoomInv, FreeInv, SpareClean
    <3>2. ValidsOf(log[x]) = {} BY <3>1 DEF ValidsOf
    <3>3. ValidBytes(x) = 0 BY <3>2, ValidBytesIs, SumEmpty
    <3>4. Capacity \in Nat BY ValueTypes
    <3> QED BY <2>1, <3>1, <3>3, <3>4 DEF ValidIn
  <2>3. CASE ~info[x].reserved
    <3>1. Live(x) BY <1>2, <2>3 DEF Live, Status
    <3>2. ValidIn(x) = ValidBytes(x) + InFlight(x)
      BY <1>4, <3>1 DEF ValidInv, ValidExact, Tracked
    <3> QED BY <1>8, <2>1, <3>2
  <2> QED BY <2>2, <2>3
<1>10. Exact(x)'
  <2>1. info[x].free \in Int /\ info[x].dirty \in Int /\ Capacity \in Int
    BY Fields, ValueTypes
  <2>2. ValidIn(x)' = ValidIn(x) + f BY <1>6, <1>7, <2>1 DEF ValidIn
  <2>3. ValidBytes(x)' = ValidBytes(x) BY <1>2 DEF ValidBytes
  <2> QED BY <1>8, <1>9, <2>2, <2>3 DEF Exact
<1>11. \A p \in Pebs : p # x => (Tracked(p)' => Tracked(p))
  <2>1. \A p \in Pebs : p # x => (Live(p)' <=> Live(p))
    <3>1. CASE Fresh(x)
      <4>1. Marks(x, PebActiving) BY <1>2, <3>1, MarkFacts
      <4> QED BY <1>2, <4>1, StatusFacts, LiveMarks
    <3>2. CASE ~Fresh(x)
      <4>1. MarksNone BY <1>2, <3>2 DEF MarksNone
      <4> QED BY <4>1, LiveSame
    <3> QED BY <3>1, <3>2
  <2>2. \A p \in Pebs : p # x => ~BeingWritten(p)' BY <1>2 DEF BeingWritten
  <2> QED BY <1>1, <2>1, <2>2 DEF Tracked
<1> QED BY <1>2, <1>3, <1>4, <1>7, <1>8, <1>10, <1>11, ValidOne

LEMMA ValidWriting ==
    ASSUME Whole, TypeOK', WriteItem \/ MarkValid \/ PebActivedNow
    PROVE  ValidInv'
<1> USE WholeParts
<1>1. /\ pc \in WritingLabels /\ AtWriting /\ UNCHANGED <<info, w, req, gc>>
      /\ pc' \in FinalLabels \cup {"assert"}
  BY DEF WriteItem, MarkValid, PebActivedNow, AtWriting, WritingLabels, ItemCommitted, Check,
         ram, call, FinalLabels, SettledLabels
<1>2. CASE pc' = "assert" BY <1>2, ValidVoid, FinalFacts
<1>3. CASE pc' \in FinalLabels
  <2>1. \A p \in Pebs : Known(p) BY <1>1, KnownFinal, FinalFacts
  <2>2. PICK x \in Pebs : x = w.peb BY <1>1, WrittenTo DEF HeaderInv
  <2>3. pc' \notin {"transfering", "migrate", "copied"} /\ pc' \notin {"writing"}
    BY DEF WriteItem, MarkValid, PebActivedNow, ItemCommitted, Check
  <2>4. \A p \in Pebs : p # x => log'[p] = log[p] /\ (Live(p)' <=> Live(p))
    <3>1. CASE WriteItem \/ MarkValid
      <4>1. hdr' = hdr /\ \A p \in Pebs \ {w.peb} : log'[p] = log[p]
        BY <3>1, WriteItemCurrent, MarkValidCurrent
      <4>2. MarksNone BY <4>1 DEF MarksNone
      <4> QED BY <2>2, <4>1, <4>2, LiveSame
    <3>2. CASE PebActivedNow BY <2>2, <3>2, PebActivedNowCurrent
    <3> QED BY <3>1, <3>2
  <2>5. \A p \in Pebs : p # x =>
           /\ InFlight(p) = 0 /\ InFlight(p)' = 0 /\ (Tracked(p)' => Tracked(p))
    BY <1>1, <2>2, <2>3, <2>4 DEF InFlight, Tracked, BeingWritten
  <2>6. PICK f : f = Footprint(req.val) OBVIOUS
  <2>7. f \in Nat
    <3>1. pc \in CallLabels BY <1>1 DEF CallLabels
    <3>2. f \in Nat \ {0} BY <2>6, <3>1, ReqFacts
    <3> QED BY <3>2
  <2>8. /\ InFlight(x) = IF pc \in {"writing", "valid"} THEN f ELSE 0
        /\ InFlight(x)' = IF pc' = "valid" THEN f ELSE 0
    BY <1>1, <2>2, <2>3, <2>6 DEF InFlight
  <2>9. ValidIn(x) = ValidBytes(x) + InFlight(x)
    BY <1>1, <2>1, <2>2 DEF ValidInv, ValidExact, Tracked, BeingWritten
  <2>10. PICK l : l = log[x] OBVIOUS
  <2>11. PICK m : m = log'[x] OBVIOUS
  <2>12. l \in Seq(Items) /\ Laid(l) /\ m \in Seq(Items)
    BY <2>10, <2>11, Shapes DEF LogInv, TypeOK
  <2>13. /\ ValidBytes(x) = ValidBelow(l, Len(l) + 1) /\ ValidBytes(x) \in Nat
         /\ ValidBytes(x)' = ValidBelow(m, Len(m) + 1)
    BY <2>10, <2>11, <2>12, BytesIs
  <2>14. ValidIn(x)' = ValidIn(x) BY <1>1 DEF ValidIn
  <2>15. Exact(x)'
    <3>1. CASE WriteItem
      <4>1. pc = "writing" /\ pc' = "valid"
        BY <1>3, <3>1, FinalFacts DEF WriteItem, Check
      <4>2. NewItem(ItemWriting) \in Items /\ NewItem(ItemWriting).status = ItemWriting
        <5>1. m = Append(l, NewItem(ItemWriting))
          BY <2>2, <2>10, <2>11, <3>1, WriteItemCurrent
        <5>2. m[Len(l) + 1] = NewItem(ItemWriting) /\ Len(l) + 1 \in DOMAIN m BY <2>12, <5>1
        <5>3. NewItem(ItemWriting) \in Items BY <2>12, <5>2
        <5> QED BY <5>3 DEF NewItem
      <4>3. ValidBelow(m, Len(m) + 1) = ValidBelow(l, Len(l) + 1)
        BY <2>2, <2>10, <2>11, <2>12, <3>1, <4>2, WriteItemCurrent, BelowAppended
      <4> QED BY <2>8, <2>9, <2>13, <2>14, <4>1, <4>3 DEF Exact
    <3>2. CASE MarkValid
      <4>1. pc = "valid" /\ pc' # "valid" BY <3>2 DEF MarkValid, ItemCommitted
      <4>2. /\ Len(l) \in DOMAIN l /\ l[Len(l)] = NewItem(ItemWriting)
            /\ m = Validated(l, w.off)
        BY <2>2, <2>10, <2>11, <3>2, <4>1, NewFacts, MarkValidCurrent
      <4>3. /\ l[Len(l)].status = ItemWriting /\ l[Len(l)].off = w.off
            /\ Footprint(l[Len(l)].val) = f
        BY <2>6, <4>2 DEF NewItem
      <4>4. Len(m) = Len(l) BY <2>12, <4>2, LogTypes
      <4>5. ValidBelow(m, Len(m) + 1) = ValidBelow(l, Len(l) + 1) + f
        BY <2>12, <4>2, <4>3, <4>4, BelowValidated
      <4> QED BY <2>7, <2>8, <2>9, <2>13, <2>14, <4>1, <4>5 DEF Exact
    <3>3. CASE PebActivedNow
      <4>1. pc = "peb_actived" /\ pc' # "valid" BY <3>3 DEF PebActivedNow, ItemCommitted
      <4>2. m = l BY <2>10, <2>11, <3>3, PebActivedNowCurrent
      <4> QED BY <2>8, <2>9, <2>13, <2>14, <4>1, <4>2 DEF Exact
    <3> QED BY <3>1, <3>2, <3>3
  <2> QED BY <1>1, <1>3, <2>1, <2>4, <2>5, <2>15, ValidOne
<1> QED BY <1>1, <1>2, <1>3

\* A copy is discarded, and its size turns dirty.
LEMMA BytesDiscarded ==
    ASSUME Whole, NEW d \in Current, NEW x \in Pebs, d.peb = x, Discard(x, d.off),
           info'[x].dirty = info[x].dirty + Footprint(d.val), info'[x].free = info[x].free
    PROVE  /\ Footprint(d.val) \in Nat
           /\ ValidBytes(x)' = ValidBytes(x) - Footprint(d.val)
           /\ ValidIn(x)' = ValidIn(x) - Footprint(d.val)
           /\ \A n : \E k \in DOMAIN log[x] :
                 /\ log[x][k].off = d.off
                 /\ k < n => ValidBelow(log'[x], n) = ValidBelow(log[x], n) - Footprint(d.val)
                 /\ ~(k < n) => ValidBelow(log'[x], n) = ValidBelow(log[x], n)
<1> USE WholeParts
<1>1. PICK f : f = Footprint(d.val) OBVIOUS
<1>2. f \in Nat
  <2>1. d.val \in Values BY CurrentFields
  <2>2. f \in Nat \ {0} BY <1>1, <2>1, ValueTypes
  <2> QED BY <2>2
<1>3. PICK l : l = log[x] OBVIOUS
<1>4. l \in Seq(Items) /\ Laid(l) BY <1>3, Shapes DEF LogInv
<1>5. PICK k \in DOMAIN l : l[k].status = ItemValid /\ l[k].off = d.off /\ l[k].val = d.val
  <2>1. d \in CopiesIn(l, x) BY <1>3, CurrentIs, StoredMember
  <2>2. PICK k \in DOMAIN l : l[k].status = ItemValid /\ d = Copy(l, x, k)
    BY <1>4, <2>1, CopyFields
  <2> QED BY <2>2 DEF Copy
<1>6. PICK m : m = log'[x] OBVIOUS
<1>7. m = Discarded(l, l[k].off) BY <1>3, <1>5, <1>6, LogDiscarded
<1>8. m \in Seq(Items) /\ Len(m) = Len(l) BY <1>4, <1>7, LogTypes
<1>9. \A n : /\ k < n => ValidBelow(m, n) = ValidBelow(l, n) - f
             /\ ~(k < n) => ValidBelow(m, n) = ValidBelow(l, n)
  BY <1>1, <1>4, <1>5, <1>7, BelowDiscarded
<1>10. ValidBytes(x)' = ValidBytes(x) - f
  <2>1. k < Len(l) + 1
    <3>1. Len(l) \in Nat /\ DOMAIN l = 1 .. Len(l) BY <1>4
    <3> QED BY <1>5, <3>1
  <2>2. ValidBelow(m, Len(l) + 1) = ValidBelow(l, Len(l) + 1) - f BY <1>9, <2>1
  <2> QED BY <1>3, <1>6, <1>8, <2>2, BytesIs
<1>11. ValidIn(x)' = ValidIn(x) - f
  <2>1. info[x].free \in Int /\ info[x].dirty \in Int /\ Capacity \in Int
    BY Fields, ValueTypes
  <2> QED BY <1>1, <1>2, <2>1 DEF ValidIn
<1> QED BY <1>1, <1>2, <1>3, <1>5, <1>6, <1>9, <1>10, <1>11

LEMMA ValidDiscards ==
    ASSUME Whole, TypeOK', DeleteOld \/ DeleteItem
    PROVE  ValidInv'
<1> USE WholeParts
<1>1. /\ pc \in SettledLabels /\ pc' \in FinalLabels \cup {"assert"}
      /\ pc' \notin InFlightLabels /\ pc' \notin WritingLabels
      /\ pc' \notin {"transfering", "migrate", "copied"}
  BY DEF DeleteOld, DeleteItem, Check, SettledLabels, FinalLabels, InFlightLabels, WritingLabels
<1>2. CASE pc' = "assert" BY <1>2, ValidVoid, FinalFacts
<1>3. CASE pc' \in FinalLabels
  <2>1. PICK d \in Current :
           /\ d.peb \in Pebs /\ Discard(d.peb, d.off) /\ \A p \in Pebs : Live(p)' <=> Live(p)
           /\ info' = [info EXCEPT ![d.peb].dirty = @ + Footprint(d.val)]
    BY DeletedCopy, ReplacedCopy
  <2>2. PICK x \in Pebs : x = d.peb BY <2>1
  <2>3. \A p \in Pebs : p # x => log'[p] = log[p] BY <2>1, <2>2, LogDiscarded
  <2>4. /\ \A p \in Pebs : info'[p].free = info[p].free
        /\ info'[x].dirty = info[x].dirty + Footprint(d.val)
        /\ \A p \in Pebs : p # x => info'[p].dirty = info[p].dirty
    BY <2>1, <2>2, Shapes DEF Infos
  <2>5. (\A p \in Pebs : Known(p)) /\ \A p : ~BeingWritten(p)'
    BY <1>1, KnownFinal, FinalFacts DEF BeingWritten, AtWriting
  <2>6. \A p : InFlight(p) = 0 /\ InFlight(p)' = 0 BY <1>1, NoneInFlight
  <2>7. \A p \in Pebs : Tracked(p)' => Tracked(p) BY <1>1, <2>1, <2>5 DEF Tracked
  <2>8. Exact(x)'
    <3>1. Live(x) BY <2>2, CurrentIs
    <3>2. ValidIn(x) = ValidBytes(x) + InFlight(x)
      BY <2>5, <3>1 DEF ValidInv, ValidExact, Tracked
    <3>3. /\ Footprint(d.val) \in Nat
          /\ ValidBytes(x)' = ValidBytes(x) - Footprint(d.val)
          /\ ValidIn(x)' = ValidIn(x) - Footprint(d.val)
      BY <2>1, <2>2, <2>4, BytesDiscarded
    <3>4. ValidBytes(x) \in Nat BY NoValidBytes
    <3> QED BY <2>6, <3>2, <3>3, <3>4 DEF Exact
  <2> QED BY <1>3, <2>3, <2>4, <2>5, <2>6, <2>7, <2>8, ValidOne
<1> QED BY <1>1, <1>2, <1>3

\* Valid sizes while the items are scanned.
LEMMA ValidScan ==
    ASSUME TypeOK', pc' = "item_scan", ValidSoFar',
           \A p \in Pebs : p < scan'.peb /\ Live(p)' => ValidIn(p)' = ValidBytes(p)'
    PROVE  ValidInv'
<1>1. \A p : InFlight(p)' = 0 /\ ~BeingWritten(p)'
  BY DEF InFlight, BeingWritten, AtWriting, WritingLabels
<1>2. \A p \in Pebs : Known(p)' => p < scan'.peb BY FinalFacts DEF Known
<1>3. \A p \in Pebs : Tracked(p)' => Live(p)' BY <1>1 DEF Tracked
<1>4. ASSUME NEW p \in Pebs PROVE ValidBytes(p)' \in Nat
  <2>1. PICK m : m = log'[p] OBVIOUS
  <2>2. m \in Seq(Items) BY <2>1 DEF TypeOK
  <2>3. ValidsOf(m) \in SUBSET DOMAIN m BY DEF ValidsOf
  <2>4. SumOver(ValidsOf(m), Foot(m)) \in Nat BY <2>2, <2>3, FootFacts
  <2> QED BY <2>1, <2>4 DEF ValidBytes, ValidsOf, Foot
<1> QED BY <1>1, <1>2, <1>3, <1>4 DEF ValidInv, ValidExact

LEMMA ValidFormatted ==
    ASSUME Whole, TypeOK', AllFormatted
    PROVE  ValidInv'
<1> USE WholeParts
<1>1. pc = "peb_count" /\ pc' = "item_scan" /\ scan' = scan BY DEF AllFormatted
<1>2. scan.peb = 0 /\ scan.pos = 1 /\ scan.valid = 0
  BY <1>1 DEF HeaderInv, RoomInv, BootInv
<1>3. \A p \in Pebs : ~(p < scan'.peb) BY <1>1, <1>2, PebFacts
<1>4. \A p \in Pebs : ValidBelow(log'[p], 1) = 0
  <2>1. \A p \in Pebs : log'[p] \in Seq(Items) BY DEF TypeOK
  <2> QED BY <2>1, BelowStart
<1>5. ValidSoFar' BY <1>1, <1>2, <1>4 DEF ValidSoFar
<1> QED BY <1>1, <1>3, <1>5, ValidScan

\* What the scan made of the blocks it is through with.
LEMMA ScannedExact ==
    ASSUME Whole, pc = "item_scan", hdr' = hdr, NEW p \in Pebs, p < scan.peb, Live(p)'
    PROVE  Live(p) /\ ValidIn(p) = ValidBytes(p) /\ ValidBytes(p) \in Nat
<1> USE WholeParts
<1>1. MarksNone BY DEF MarksNone
<1>2. Live(p) BY <1>1, LiveSame
<1>3. ValidIn(p) = ValidBytes(p) + InFlight(p)
  BY <1>2 DEF ValidInv, ValidExact, Known, Tracked
<1>4. InFlight(p) = 0 BY NoneInFlight
<1> QED BY <1>2, <1>3, <1>4, NoValidBytes

LEMMA ValidBlock ==
    ASSUME Whole, TypeOK', SkipPeb \/ ScanEndOfLog \/ ScanTornItem
    PROVE  ValidInv'
<1> USE WholeParts
<1>1. /\ pc = "item_scan" /\ pc' = "item_scan" /\ scan.peb < PebCount /\ scan' = NextPeb
      /\ hdr' = hdr /\ log' = log
  BY DEF SkipPeb, ScanEndOfLog, ScanTornItem, ScanningItems, flash
<1>2. PICK x \in Pebs : x = scan.peb BY <1>1, NextPebType
<1>3. scan'.peb = x + 1 /\ scan'.pos = 1 /\ scan'.valid = 0
  BY <1>1, <1>2, LocalFields DEF NextPeb, Scans
<1>4. \A p \in Pebs : (p < scan'.peb <=> p < x \/ p = x) /\ ~(p < x /\ p = x)
  BY <1>3, PebFacts
<1>5. \A p \in Pebs : p # x => info'[p] = info[p]
  BY <1>2, Shapes DEF SkipPeb, ScanEndOfLog, ScanTornItem
<1>6. ValidSoFar'
  <2>1. \A p \in Pebs : log'[p] \in Seq(Items) BY DEF TypeOK
  <2>2. \A p \in Pebs : ValidBelow(log'[p], 1) = 0 BY <2>1, BelowStart
  <2> QED BY <1>3, <2>2 DEF ValidSoFar
<1>7. \A p \in Pebs : p < x /\ Live(p)' => ValidIn(p)' = ValidBytes(p)'
  <2> SUFFICES ASSUME NEW p \in Pebs, p < x, Live(p)' PROVE ValidIn(p)' = ValidBytes(p)'
    OBVIOUS
  <2>1. ValidIn(p) = ValidBytes(p) BY <1>1, <1>2, ScannedExact
  <2>2. info'[p] = info[p] /\ log'[p] = log[p] BY <1>1, <1>4, <1>5
  <2> QED BY <2>1, <2>2 DEF ValidIn, ValidBytes
<1>8. Live(x)' => ValidIn(x)' = ValidBytes(x)'
  <2> SUFFICES ASSUME Live(x)' PROVE ValidIn(x)' = ValidBytes(x)' OBVIOUS
  <2>1. Live(x)
    <3>1. MarksNone BY <1>1 DEF MarksNone
    <3> QED BY <3>1, LiveSame
  <2>2. ScanEndOfLog \/ ScanTornItem BY <1>2, <2>1, SkippedNotLive
  <2>3. PICK l : l = log[x] OBVIOUS
  <2>4. l \in Seq(Items) /\ Laid(l) BY <2>3, Shapes DEF LogInv
  <2>5. /\ scan.pos <= Len(l) + 1 /\ info[x].free = 0 /\ info[x].dirty = scan.dirty
        /\ scan.valid = ValidBelow(l, scan.pos)
    BY <1>1, <1>2, <2>1, <2>3 DEF FreeInv, ScanSpace, ValidInv, ValidSoFar
  <2>6. scan.dirty \in Int /\ scan.valid \in Int /\ Capacity \in Int BY LocalFields, ValueTypes
  <2>7. Capacity - info'[x].dirty - info'[x].free = scan.valid
    <3>1. CASE ScanEndOfLog
      <4>1. /\ info'[x].free = info[x].free + Capacity - scan.dirty - scan.valid
            /\ info'[x].dirty = info[x].dirty
        BY <1>2, <3>1, Shapes DEF ScanEndOfLog, Infos
      <4> QED BY <2>5, <2>6, <4>1
    <3>2. CASE ScanTornItem
      <4>1. /\ info'[x].dirty = info[x].dirty + Capacity - scan.dirty - scan.valid
            /\ info'[x].free = info[x].free
        BY <1>2, <3>2, Shapes DEF ScanTornItem, Infos
      <4> QED BY <2>5, <2>6, <4>1
    <3> QED BY <2>2, <3>1, <3>2
  <2>8. ValidBelow(l, scan.pos) = ValidBelow(l, Len(l) + 1)
    <3>1. Len(l) \in Nat /\ DOMAIN l = 1 .. Len(l) BY <2>4
    <3>2. CASE ScanEndOfLog
      <4>1. ~(scan.pos <= Len(l)) BY <1>2, <2>3, <3>2 DEF ScanEndOfLog, HasItem
      <4>2. scan.pos = Len(l) + 1 BY <2>5, <3>1, <4>1, LocalFields
      <4> QED BY <4>2
    <3>3. CASE ScanTornItem
      <4>1. scan.pos \in DOMAIN l /\ l[scan.pos].status = ItemWriting
        BY <1>2, <2>3, <3>3, ScannedFacts DEF ScanTornItem, ScannedItem
      <4>2. scan.pos = Len(l) BY <2>4, <4>1 DEF Laid, OnlyLastTorn
      <4>3. ValidBelow(l, scan.pos + 1) = ValidBelow(l, scan.pos) + 0
        BY <2>4, <4>1, BelowItem, ItemCodes
      <4>4. ValidBelow(l, scan.pos) \in Nat BY <2>4, BelowTypes
      <4> QED BY <4>2, <4>3, <4>4
    <3> QED BY <2>2, <3>2, <3>3
  <2>9. ValidBytes(x)' = ValidBelow(l, Len(l) + 1)
    <3>1. ValidBytes(x)' = ValidBytes(x) BY <1>1 DEF ValidBytes
    <3> QED BY <2>3, <3>1, BelowEnd
  <2> QED BY <2>5, <2>7, <2>8, <2>9 DEF ValidIn
<1> QED BY <1>1, <1>4, <1>6, <1>7, <1>8, ValidScan

LEMMA ValidPasses ==
    ASSUME Whole, TypeOK', Passes, pc' = "item_scan",
           scan'.valid = ValidBelow(log'[scan.peb], scan.pos + 1),
           \A p \in Pebs : p < scan.peb /\ Live(p) =>
              \E f \in Nat : /\ ValidIn(p)' = ValidIn(p) - f
                             /\ ValidBytes(p)' = ValidBytes(p) - f
    PROVE  ValidInv'
<1>1. pc = "item_scan" /\ hdr' = hdr /\ scan'.peb = scan.peb /\ scan'.pos = scan.pos + 1
  BY DEF Passes, ScanningItems
<1>2. ValidSoFar' BY <1>1 DEF ValidSoFar
<1>3. \A p \in Pebs : p < scan'.peb /\ Live(p)' => ValidIn(p)' = ValidBytes(p)'
  BY <1>1, ScannedExact
<1> QED BY <1>2, <1>3, ValidScan

\* The valid bytes of the items the scan is about to have passed.
LEMMA BelowScanned ==
    ASSUME Whole, ScanningItems, HasItem
    PROVE  /\ scan.peb \in Pebs /\ scan.valid \in Int /\ Footprint(ScannedItem.val) \in Nat
           /\ ValidBelow(log[scan.peb], scan.pos + 1)
                = scan.valid + IF ScannedItem.status = ItemValid
                               THEN Footprint(ScannedItem.val) ELSE 0
<1> USE WholeParts
<1>1. pc = "item_scan" BY DEF ScanningItems
<1>2. PICK x \in Pebs : x = scan.peb /\ Live(x) BY ScannedFacts
<1>3. PICK l : l = log[x] OBVIOUS
<1>4. l \in Seq(Items) /\ scan.pos \in DOMAIN l /\ ScannedItem = l[scan.pos]
  BY <1>2, <1>3, ScannedFacts DEF ScannedItem
<1>5. scan.valid = ValidBelow(l, scan.pos) BY <1>1, <1>2, <1>3 DEF ValidInv, ValidSoFar
<1>6. Footprint(ScannedItem.val) \in Nat
  <2>1. Footprint(ScannedItem.val) \in Nat \ {0} BY <1>4, Placed
  <2> QED BY <2>1
<1> QED BY <1>2, <1>3, <1>4, <1>5, <1>6, BelowItem, LocalFields

LEMMA ValidSeen ==
    ASSUME Whole, TypeOK', ScanDeletedItem \/ ScanFirstCopy, pc' = "item_scan"
    PROVE  ValidInv'
<1> USE WholeParts
<1>1. ScanningItems /\ HasItem BY DEF ScanDeletedItem, ScanFirstCopy, ScanningValid
<1>2. PICK x \in Pebs : x = scan.peb BY <1>1, ScannedFacts
<1>3. log' = log BY DEF ScanDeletedItem, ScanFirstCopy, flash
<1>4. scan.valid \in Int /\ Footprint(ScannedItem.val) \in Nat BY <1>1, BelowScanned
<1>5. scan'.valid = ValidBelow(log'[scan.peb], scan.pos + 1)
  <2>1. CASE ScanDeletedItem
    <3>1. scan'.valid = scan.valid BY <2>1, LocalFields DEF ScanDeletedItem, Scans
    <3>2. ScannedItem.status # ItemValid BY <2>1, ItemCodes DEF ScanDeletedItem
    <3> QED BY <1>1, <1>3, <1>4, <3>1, <3>2, BelowScanned
  <2>2. CASE ScanFirstCopy
    <3>1. scan'.valid = scan.valid + Footprint(ScannedItem.val)
      BY <2>2, LocalFields DEF ScanFirstCopy, Scans
    <3>2. ScannedItem.status = ItemValid BY <2>2 DEF ScanFirstCopy, ScanningValid
    <3> QED BY <1>1, <1>3, <3>1, <3>2, BelowScanned
  <2> QED BY <2>1, <2>2
<1>6. \A p \in Pebs : p < x => info'[p] = info[p]
  <2>1. \A p \in Pebs : ~(p < x /\ p = x) BY PebFacts
  <2> QED BY <1>2, <2>1, Shapes DEF ScanDeletedItem, ScanFirstCopy
<1>7. \A p \in Pebs : p < x =>
         /\ ValidIn(p)' = ValidIn(p) /\ ValidBytes(p)' = ValidBytes(p)
         /\ ValidIn(p) \in Int /\ ValidBytes(p) \in Int
  <2>1. \A p \in Pebs : ValidIn(p) \in Int
    <3>1. \A p \in Pebs : info[p].free \in Int /\ info[p].dirty \in Int BY Fields
    <3> QED BY <3>1, ValueTypes DEF ValidIn
  <2>2. \A p \in Pebs : ValidBytes(p) \in Nat BY NoValidBytes
  <2>3. \A p \in Pebs : p < x => ValidIn(p)' = ValidIn(p) BY <1>6 DEF ValidIn
  <2>4. \A p \in Pebs : ValidBytes(p)' = ValidBytes(p) BY <1>3 DEF ValidBytes
  <2> QED BY <2>1, <2>2, <2>3, <2>4
<1>8. \A p \in Pebs : p < x =>
         /\ ValidIn(p)' = ValidIn(p) - 0 /\ ValidBytes(p)' = ValidBytes(p) - 0
  BY <1>7
<1> QED BY <1>2, <1>5, <1>8, PassesSeen, ValidPasses

\* Of two copies the scan discards one, in a block it has been to.
LEMMA ValidSecond ==
    ASSUME Whole, TypeOK', Passes, pc' = "item_scan", ScannedItem.status = ItemValid,
           NEW d \in Current, NEW y \in Pebs, d.peb = y, Discard(y, d.off),
           info' = [info EXCEPT ![y].dirty = @ + Footprint(d.val)],
           y = scan.peb => /\ ~(d.off > ScannedItem.off)
                           /\ scan'.valid = scan.valid + Footprint(ScannedItem.val) - Footprint(d.val),
           y # scan.peb => scan'.valid = scan.valid + Footprint(ScannedItem.val)
    PROVE  ValidInv'
<1> USE WholeParts
<1>1. ScanningItems /\ HasItem BY DEF Passes
<1>2. PICK x \in Pebs : x = scan.peb BY <1>1, ScannedFacts
<1>3. PICK l : l = log[x] OBVIOUS
<1>4. /\ l \in Seq(Items) /\ Laid(l) /\ scan.pos \in DOMAIN l /\ ScannedItem = l[scan.pos]
  BY <1>1, <1>2, <1>3, ScannedFacts DEF ScannedItem
<1>5. /\ scan.valid \in Int /\ Footprint(ScannedItem.val) \in Nat
      /\ ValidBelow(l, scan.pos + 1) = scan.valid + Footprint(ScannedItem.val)
  BY <1>1, <1>2, <1>3, BelowScanned
<1>6. /\ info'[y].dirty = info[y].dirty + Footprint(d.val) /\ info'[y].free = info[y].free
      /\ \A p \in Pebs : p # y => info'[p] = info[p]
  BY Shapes DEF Infos
<1>7. /\ Footprint(d.val) \in Nat
      /\ ValidBytes(y)' = ValidBytes(y) - Footprint(d.val)
      /\ ValidIn(y)' = ValidIn(y) - Footprint(d.val)
      /\ \A n : \E k \in DOMAIN log[y] :
            /\ log[y][k].off = d.off
            /\ k < n => ValidBelow(log'[y], n) = ValidBelow(log[y], n) - Footprint(d.val)
            /\ ~(k < n) => ValidBelow(log'[y], n) = ValidBelow(log[y], n)
  BY <1>6, BytesDiscarded
<1>8. \A p \in Pebs : p # y => log'[p] = log[p] BY LogDiscarded
<1>9. scan'.valid = ValidBelow(log'[scan.peb], scan.pos + 1)
  <2>1. CASE y # x BY <1>2, <1>3, <1>5, <1>8, <2>1
  <2>2. CASE y = x
    <3>1. PICK k \in DOMAIN l :
             /\ l[k].off = d.off
             /\ k < scan.pos + 1 =>
                   ValidBelow(log'[x], scan.pos + 1) = ValidBelow(l, scan.pos + 1) - Footprint(d.val)
      BY <1>3, <1>7, <2>2
    <3>2. k < scan.pos + 1
      <4>1. /\ DOMAIN l = 1 .. Len(l) /\ Len(l) \in Nat
            /\ l[k].off \in Int /\ l[scan.pos].off \in Int
            /\ Place(l, k) = l[k].off /\ Place(l, scan.pos) = l[scan.pos].off
        BY <1>4, <3>1, Placed
      <4>2. ~(l[k].off > l[scan.pos].off) BY <1>2, <1>4, <2>2, <3>1
      <4>3. scan.pos < k => Place(l, scan.pos) < Place(l, k)
        BY <1>4, <3>1, <4>1 DEF Laid, Rising
      <4> QED BY <1>4, <3>1, <4>1, <4>2, <4>3
    <3>3. Footprint(d.val) \in Nat
          /\ ValidBelow(log'[x], scan.pos + 1)
                = scan.valid + Footprint(ScannedItem.val) - Footprint(d.val)
      BY <1>5, <1>7, <3>1, <3>2
    <3>4. scan'.valid = scan.valid + Footprint(ScannedItem.val) - Footprint(d.val)
      BY <1>2, <2>2
    <3>5. scan'.valid = ValidBelow(log'[x], scan.pos + 1) BY <3>3, <3>4
    <3> QED BY <1>2, <3>5
  <2> QED BY <2>1, <2>2
<1>10. \A p \in Pebs : p # y =>
          /\ ValidIn(p)' = ValidIn(p) - 0 /\ ValidBytes(p)' = ValidBytes(p) - 0
  <2>1. \A p \in Pebs : ValidIn(p) \in Int
    <3>1. \A p \in Pebs : info[p].free \in Int /\ info[p].dirty \in Int BY Fields
    <3> QED BY <3>1, ValueTypes DEF ValidIn
  <2>2. \A p \in Pebs : ValidBytes(p) \in Nat BY NoValidBytes
  <2>3. \A p \in Pebs : p # y => ValidIn(p)' = ValidIn(p) BY <1>6 DEF ValidIn
  <2>4. \A p \in Pebs : p # y => ValidBytes(p)' = ValidBytes(p) BY <1>8 DEF ValidBytes
  <2> QED BY <2>1, <2>2, <2>3, <2>4
<1>11. \A p \in Pebs : \E f \in Nat : /\ ValidIn(p)' = ValidIn(p) - f
                                      /\ ValidBytes(p)' = ValidBytes(p) - f
  BY <1>7, <1>10
<1> QED BY <1>9, <1>11, ValidPasses

LEMMA ValidNewer ==
    ASSUME Whole, TypeOK', ScanNewerCopy, pc' = "item_scan"
    PROVE  ValidInv'
<1> USE WholeParts
<1>1. ScanningItems /\ HasItem /\ ScannedItem.status = ItemValid
  BY DEF ScanNewerCopy, ScanningValid
<1>2. PICK c \in Current :
         Scanned(c) /\ items[ScannedItem.index] = Header(c) /\ c.peb \in Pebs
  BY OlderSeen
<1>3. PICK y \in Pebs : y = c.peb BY <1>2
<1>4. /\ items[ScannedItem.index].peb = y /\ items[ScannedItem.index].off = c.off
      /\ items[ScannedItem.index].size = c.val
  BY <1>2, <1>3 DEF Header
<1>5. PICK u : u = IF y = scan.peb THEN Footprint(c.val) ELSE 0 OBVIOUS
<1>6. /\ Discard(y, c.off) /\ info' = [info EXCEPT ![y].dirty = @ + Footprint(c.val)]
      /\ scan' = [scan EXCEPT !.pos = @ + 1, !.abnormal = TRUE,
                              !.valid = @ + Footprint(ScannedItem.val) - u, !.dirty = @ + u]
  BY <1>4, <1>5 DEF ScanNewerCopy
<1>7. scan'.valid = scan.valid + Footprint(ScannedItem.val) - u BY <1>6, LocalFields DEF Scans
<1>8. scan.valid \in Int /\ Footprint(ScannedItem.val) \in Nat BY <1>1, BelowScanned
<1>9. y # scan.peb => scan'.valid = scan.valid + Footprint(ScannedItem.val)
  BY <1>5, <1>7, <1>8
<1>10. y = scan.peb => ~(c.off > ScannedItem.off)
  <2>1. ScannedItem.off = scan.dirty + scan.valid BY <1>1, ScannedFacts
  <2>2. c.off \in Int /\ scan.dirty + scan.valid \in Int BY CurrentFields, LocalFields
  <2>3. y = scan.peb => c.off < scan.dirty + scan.valid
    <3>1. \A n \in Nat : ~(n < n) OBVIOUS
    <3>2. y \in Nat BY PebFacts
    <3> QED BY <1>2, <1>3, <3>1, <3>2 DEF Scanned
  <2> QED BY <2>1, <2>2, <2>3
<1> QED BY <1>1, <1>3, <1>5, <1>6, <1>7, <1>9, <1>10, PassesNewer, ValidSecond

LEMMA ValidOlder ==
    ASSUME Whole, TypeOK', ScanOlderCopy, pc' = "item_scan"
    PROVE  ValidInv'
<1> USE WholeParts
<1>1. ScanningItems /\ HasItem /\ ScannedItem.status = ItemValid /\ ScanningValid
  BY DEF ScanOlderCopy, ScanningValid
<1>2. PICK d : d = ScannedCopy OBVIOUS
<1>3. /\ d \in Current /\ d.peb = scan.peb /\ d.off = ScannedItem.off
      /\ d.val = ScannedItem.val
  BY <1>1, <1>2, ScannedValid
<1>4. PICK y \in Pebs : y = scan.peb BY <1>1, ScannedFacts
<1>5. /\ Discard(y, d.off) /\ info' = [info EXCEPT ![y].dirty = @ + Footprint(d.val)]
      /\ scan'.valid = scan.valid
  BY <1>3, <1>4, LocalFields DEF ScanOlderCopy, Scans
<1>6. scan.valid \in Int /\ Footprint(ScannedItem.val) \in Nat BY <1>1, BelowScanned
<1>7. scan'.valid = scan.valid + Footprint(ScannedItem.val) - Footprint(d.val)
  BY <1>3, <1>5, <1>6
<1>8. ~(d.off > ScannedItem.off)
  <2>1. d.off \in Int BY <1>3, CurrentFields
  <2> QED BY <1>3, <2>1
<1> QED BY <1>1, <1>3, <1>4, <1>5, <1>7, <1>8, PassesOlder, ValidSecond

LEMMA ValidSeenAll ==
    ASSUME Whole, TypeOK', ScanDeletedItem \/ ScanFirstCopy \/ ScanNewerCopy \/ ScanOlderCopy
    PROVE  ValidInv'
<1>1. pc' \in {"item_scan", "assert"}
  BY DEF ScanDeletedItem, ScanFirstCopy, ScanNewerCopy, ScanOlderCopy, ScanningItems, Check,
         SecondCopyOk
<1>2. CASE pc' = "assert" BY <1>2, ValidVoid, FinalFacts
<1>3. CASE pc' = "item_scan" BY <1>3, ValidSeen, ValidNewer, ValidOlder
<1> QED BY <1>1, <1>2, <1>3

LEMMA ValidStep ==
    ASSUME Whole, TypeOK', [Next]_vars
    PROVE  ValidInv'
<1> USE WholeParts
<1>1. CASE UNCHANGED vars
  <2>1. UNCHANGED <<hdr, log, info, pc, scan, w, gc, req>> BY <1>1 DEF vars, flash, ram, call
  <2>2. \A p \in Pebs : Live(p)' <=> Live(p)
    <3>1. MarksNone BY <2>1 DEF MarksNone
    <3> QED BY <3>1, LiveSame
  <2>3. \A p \in Pebs : /\ Known(p)' <=> Known(p)
                        /\ Tracked(p)' <=> Tracked(p)
                        /\ ValidIn(p)' = ValidIn(p) /\ ValidBytes(p)' = ValidBytes(p)
                        /\ InFlight(p)' = InFlight(p)
    BY <2>1, <2>2 DEF Known, Tracked, BeingWritten, AtWriting, ValidIn, ValidBytes, InFlight
  <2>4. ValidExact' BY <2>3 DEF ValidInv, ValidExact
  <2>5. ValidSoFar' BY <2>1, <2>2 DEF ValidInv, ValidSoFar
  <2> QED BY <2>4, <2>5 DEF ValidInv
<1>2. CASE Next
  <2>1. CASE Classify
    <3>1. CASE pc' = "item_scan" BY <2>1, <3>1, ClassifyEnds, ValidFormatted
    <3>2. CASE pc' # "item_scan" BY <2>1, <3>2, ClassifyEnds, ValidVoid, FinalFacts
    <3> QED BY <3>1, <3>2
  <2>2. CASE ScanLook BY <2>2, ValidBlock, ValidSeenAll DEF ScanLook
  <2>3. CASE ScanNewerCopy \/ ScanOlderCopy BY <2>3, ValidSeenAll
  <2>4. CASE Still BY <2>4, ValidStill
  <2>5. CASE CalmMarks BY <2>5, ValidCalm
  <2>6. CASE EndTransfer BY <2>6, ValidTransferred
  <2>7. CASE CopyItem \/ CommitCopy BY <2>7, ValidCopied
  <2>8. CASE WriteItem \/ MarkValid \/ PebActivedNow BY <2>8, ValidWriting
  <2>9. CASE DeleteOld \/ DeleteItem BY <2>9, ValidDiscards
  <2>10. CASE Erase \/ MarkEmpty BY <2>10, ValidErased
  <2>11. CASE Allocate BY <2>11, ValidAllocate
  <2>12. CASE PowerOn \/ PowerLoss
    <3>1. pc' \in {"peb_scan", "off"} BY <2>12 DEF PowerOn, PowerLoss
    <3> QED BY <3>1, ValidVoid, FinalFacts
  <2> QED BY <1>2, <2>1, <2>2, <2>3, <2>4, <2>5, <2>6, <2>7, <2>8, <2>9, <2>10, <2>11, <2>12,
             Groups
<1> QED BY <1>1, <1>2

-----------------------------------------------------------------------------
(* The inductive invariant. *)
LEMMA InitFlash ==
    ASSUME Init
    PROVE  /\ LogInv /\ Stored = {} /\ Current = {} /\ HeadersSound
           /\ \A p \in Pebs : log[p] = <<>>
<1>1. \A p \in Pebs : log[p] = <<>> BY DEF Init
<1>2. LogInv /\ Stored = {} BY <1>1, LaidEmpty DEF LogInv, Stored
<1>3. Current = {} BY <1>2 DEF Current
<1>4. HeadersSound
  <2>1. PICK h \in InitialHeaders : hdr = h BY DEF Init
  <2>2. CASE h = [p \in Pebs |-> BlankHeader]
    <3>1. \A p \in Pebs : hdr[p].status = PebVirgin /\ hdr[p].reserved
      BY <2>1, <2>2 DEF BlankHeader
    <3> QED BY <1>1, <3>1, StatusRanges DEF HeadersSound, Sound
  <2>3. ASSUME NEW c \in [Pebs -> WornCounts],
               h = [p \in Pebs |-> [Formatted(c[p]) EXCEPT !.status = PebEmpty]]
        PROVE  HeadersSound
    <3>1. \A p \in Pebs : /\ hdr[p].status = PebEmpty /\ hdr[p].reserved
                          /\ hdr[p].count = c[p]
      BY <2>1, <2>3, Zenon DEF Formatted, BlankHeader
    <3>2. \A n \in WornCounts : n # NoCount
      <4>1. WornCounts \subseteq 0 .. EraseCap /\ EraseCap \in Nat BY FlashAssumption
      <4> QED BY <4>1 DEF NoCount
    <3>3. \A p \in Pebs : c[p] \in WornCounts OBVIOUS
    <3> QED BY <1>1, <3>1, <3>2, <3>3, StatusRanges DEF HeadersSound, Sound
  <2> QED BY <2>1, <2>2, <2>3 DEF InitialHeaders
<1> QED BY <1>1, <1>2, <1>3, <1>4

LEMMA DurInit == Init => DurInv
<1> SUFFICES ASSUME Init PROVE DurInv OBVIOUS
<1>1. /\ pc = "off" /\ scan = NoScan /\ info = [p \in Pebs |-> NoInfo]
      /\ items = [i \in Indexes |-> NoItem] /\ sum = 0 /\ wseq = 0 /\ req = NoReq
  BY DEF Init
<1>2. LogInv /\ Current = {} /\ HeadersSound BY InitFlash
<1>3. pc \notin FinalLabels /\ pc \notin {"item_scan", "peb_count", "peb_empty", "empty"}
  BY <1>1, FinalFacts
<1>4. \A p : ~Known(p) BY <1>3 DEF Known
<1>5. HeaderInv BY <1>2, <1>3, <1>4, FinalFacts DEF HeaderInv, Erased, RoomInv
<1>6. CopyInv BY <1>2 DEF CopyInv
<1>7. PairInv BY <1>2 DEF PairInv, NoPairs
<1>8. BootInv
  <2>1. \A p \in Pebs : info[p].free = 0 /\ info[p].dirty = 0 BY <1>1 DEF NoInfo
  <2>2. scan.pos = 1 /\ scan.dirty = 0 /\ scan.valid = 0 /\ ~scan.abnormal
    BY <1>1 DEF NoScan
  <2> QED BY <1>1, <2>1, <2>2 DEF BootInv
<1>9. TableInv BY <1>3 DEF TableInv
<1>10. AimInv BY <1>1 DEF AimInv
<1>11. WriteInv
  <2>1. pc \notin WritingLabels /\ pc \notin {"writing", "valid", "peb_actived", "delete_old"}
    BY <1>1 DEF WritingLabels
  <2> QED BY <2>1 DEF WriteInv, AtWriting
<1>12. MoveInv BY <1>1 DEF MoveInv, AtMigrate
<1>13. SourceInv
  <2>1. pc \notin ReclaimLabels /\ pc \notin CollectLabels
    BY <1>1 DEF ReclaimLabels, CollectLabels
  <2>2. Injective(scan.reclaiming) BY <1>1 DEF NoScan, Injective
  <2> QED BY <2>1, <2>2 DEF SourceInv
<1>14. FreeInv BY <1>3, <1>4 DEF FreeInv, RoomAtEnd, SpareClean, ScanSpace
<1>15. ValidInv BY <1>3, <1>4 DEF ValidInv, ValidExact, ValidSoFar
<1> QED BY <1>2, <1>5, <1>6, <1>7, <1>8, <1>9, <1>10, <1>11, <1>12, <1>13, <1>14, <1>15 DEF DurInv

LEMMA DurStep ==
    ASSUME Whole, TypeOK', [Next]_vars
    PROVE  DurInv'
<1>1. LogInv' /\ CopyInv' /\ PairInv' BY LogStep, CopyStep, PairStep
<1>2. HeaderInv' BY WholeParts, HeaderStep
<1>3. BootInv' /\ TableInv' /\ AimInv' BY BootStep, TableStep, AimStep
<1>4. WriteInv' /\ MoveInv' /\ SourceInv' BY WriteStep, MoveStep, SourceStep
<1>5. FreeInv' /\ ValidInv' BY FreeStep, ValidStep
<1> QED BY <1>1, <1>2, <1>3, <1>4, <1>5 DEF DurInv

LEMMA WholeHolds == Spec => []Whole
<1>1. Init => Whole
  BY TypeInit, LocatedInit, BlockInit, DurInit DEF Whole
<1>2. ASSUME Whole, [Next]_vars PROVE Whole'
  <2>1. TypeOK' /\ Located' /\ BlockInv'
    BY <1>2, WholeParts, TypeStep, LocatedStep, BlockStep
  <2>2. DurInv' BY <1>2, <2>1, DurStep
  <2> QED BY <2>1, <2>2 DEF Whole
<1> QED BY <1>1, <1>2, PTL DEF Spec

-----------------------------------------------------------------------------
(* What a restart would recover. *)

\* The newest copy of k.
Newest(c, k) == c.key = k /\ \A d \in Current : d.key = k => d.seq <= c.seq

LEMMA CopiesAre ==
    ASSUME TypeOK, LogInv, NEW k \in Keys
    PROVE  /\ \A c \in Current : c.key = k =>
                 \E x \in Copies(k) : x.seq = c.seq /\ x.val = c.val
           /\ \A x \in Copies(k) :
                 \E c \in Current : c.key = k /\ c.seq = x.seq /\ c.val = x.val
<1>1. ASSUME NEW c \in Current, c.key = k
      PROVE  \E x \in Copies(k) : x.seq = c.seq /\ x.val = c.val
  <2>1. c.peb \in Pebs /\ c \in CopiesIn(log[c.peb], c.peb) /\ Live(c.peb)
    BY CurrentIs, StoredMember
  <2>2. PICK p \in Pebs : p = c.peb BY <2>1
  <2>3. PICK j \in DOMAIN log[p] : log[p][j].status = ItemValid /\ c = Copy(log[p], p, j)
    BY <2>1, <2>2 DEF CopiesIn
  <2>4. c.key = log[p][j].key /\ c.seq = log[p][j].seq /\ c.val = log[p][j].val
    BY <2>3 DEF Copy
  <2>5. log[p][j] \in Copies(k) BY <1>1, <2>1, <2>2, <2>3, <2>4 DEF Copies
  <2> QED BY <2>4, <2>5
<1>2. ASSUME NEW x \in Copies(k)
      PROVE  \E c \in Current : c.key = k /\ c.seq = x.seq /\ c.val = x.val
  <2>1. PICK p \in Pebs : /\ Live(p)
                          /\ \E j \in DOMAIN log[p] : /\ log[p][j].key = k
                                                      /\ log[p][j].status = ItemValid
                                                      /\ x = log[p][j]
    BY DEF Copies
  <2>2. PICK j \in DOMAIN log[p] :
           log[p][j].key = k /\ log[p][j].status = ItemValid /\ x = log[p][j]
    BY <2>1
  <2>3. PICK c : c = Copy(log[p], p, j) OBVIOUS
  <2>4. c \in Stored BY <2>2, <2>3 DEF Stored, CopiesIn
  <2>5. c.peb = p /\ c.key = k /\ c.seq = x.seq /\ c.val = x.val BY <2>2, <2>3 DEF Copy
  <2>6. c \in Current BY <2>1, <2>4, <2>5 DEF Current
  <2> QED BY <2>5, <2>6
<1> QED BY <1>1, <1>2

LEMMA DurableNone ==
    ASSUME TypeOK, LogInv
    PROVE  \A k \in Keys : (\A c \in Current : c.key # k) => Durable(k) = Missing
<1> SUFFICES ASSUME NEW k \in Keys, \A c \in Current : c.key # k
             PROVE  Durable(k) = Missing
  OBVIOUS
<1>1. Copies(k) = {} BY CopiesAre
<1> QED BY <1>1 DEF Durable

LEMMA DurableNewest ==
    ASSUME TypeOK, LogInv, CopyInv
    PROVE  \A k \in Keys : \A c \in Current : Newest(c, k) => Durable(k) = c.val
<1> SUFFICES ASSUME NEW k \in Keys, NEW c \in Current, Newest(c, k)
             PROVE  Durable(k) = c.val
  OBVIOUS
<1>1. c.key = k BY DEF Newest
<1>2. PICK x \in Copies(k) : x.seq = c.seq /\ x.val = c.val BY <1>1, CopiesAre
<1>3. \A y \in Copies(k) : y.seq <= x.seq
  <2> SUFFICES ASSUME NEW y \in Copies(k) PROVE y.seq <= x.seq OBVIOUS
  <2>1. PICK d \in Current : d.key = k /\ d.seq = y.seq BY CopiesAre
  <2> QED BY <1>2, <2>1 DEF Newest
<1>4. PICK z : z = CHOOSE y \in Copies(k) : \A u \in Copies(k) : u.seq <= y.seq OBVIOUS
<1>5. z \in Copies(k) /\ x.seq <= z.seq BY <1>2, <1>3, <1>4
<1>6. PICK d \in Current : d.key = k /\ d.seq = z.seq /\ d.val = z.val BY <1>5, CopiesAre
<1>7. d.seq \in Nat /\ c.seq \in Nat BY CurrentFields
<1>8. d.seq <= c.seq BY <1>6 DEF Newest
<1>9. d.seq = c.seq BY <1>2, <1>5, <1>6, <1>7, <1>8
<1>10. d = c BY <1>1, <1>6, <1>9 DEF CopyInv
<1>11. Durable(k) = z.val BY <1>2, <1>4 DEF Durable
<1> QED BY <1>6, <1>10, <1>11

\* After any history of calls, collections and power failures a read returns
\* what a restart would recover: the RAM index and the flash never disagree.
THEOREM ReadsAreDurable == Spec => []ReadsDurable
<1>1. Whole => ReadsDurable
  <2> SUFFICES ASSUME Whole, pc = "idle", NEW k \in Keys
               PROVE  Read(k) = Durable(k)
    BY DEF ReadsDurable
  <2> USE WholeParts
  <2>1. pc \in PlainLabels /\ pc \in PairLabels
    BY DEF PlainLabels, PairLabels, FinalLabels, SettledLabels, WritingLabels
  <2>2. \A i : i \in Found({k}) <=>
                  i \in Indexes /\ \E c \in Current : c.index = i /\ c.key \in {k}
    BY <2>1, FoundIs
  <2>3. CASE Found({k}) = {}
    <3>1. \A c \in Current : c.key # k BY <2>2, <2>3, CurrentFields
    <3> QED BY <2>3, <3>1, DurableNone DEF Read
  <2>4. CASE Found({k}) # {}
    <3>1. Lowest(Found({k})) \in Found({k})
      <4>1. Found({k}) \in SUBSET Indexes BY DEF Found
      <4> QED BY <2>4, <4>1, LowestMember, ValueTypes
    <3>2. PICK c \in Current : c.index = Lowest(Found({k})) /\ c.key = k BY <2>2, <3>1
    <3>3. items[c.index] = Header(c) BY <2>1, FinalFacts, TableIs, ViewPlain DEF Mirrors, PlainLabels
    <3>4. Read(k) = c.val BY <2>4, <3>2, <3>3 DEF Read, Header
    <3>5. \A d \in Current : d.key = k => d = c
      BY <2>1, <3>2 DEF PairInv, NoPairs, CopyInv
    <3>6. c.seq \in Nat BY CurrentFields
    <3>7. c.seq <= c.seq BY <3>6
    <3>8. Newest(c, k) BY <3>2, <3>5, <3>7 DEF Newest
    <3> QED BY <3>4, <3>8, DurableNewest
  <2> QED BY <2>3, <2>4
<1> QED BY <1>1, WholeHolds, PTL

-----------------------------------------------------------------------------
(* Sums over parts, and over the same terms in another order. *)
LEMMA SumUnion ==
    ASSUME NEW S, IsFiniteSet(S), NEW f, IntOn(S, f), NEW A \in SUBSET S
    PROVE  \A B \in SUBSET S : A \cap B = {} =>
              SumOver(A \cup B, f) = SumOver(A, f) + SumOver(B, f)
<1> DEFINE Bad == {B \in SUBSET S : /\ A \cap B = {}
                                    /\ SumOver(A \cup B, f) # SumOver(A, f) + SumOver(B, f)}
<1>1. \A s \in SUBSET S : IsFiniteSet(s) /\ IntOn(s, f) /\ SumOver(s, f) \in Int
  <2> SUFFICES ASSUME NEW s \in SUBSET S
               PROVE  IsFiniteSet(s) /\ IntOn(s, f) /\ SumOver(s, f) \in Int
    OBVIOUS
  <2>1. IsFiniteSet(s) /\ IntOn(s, f) BY FS_Subset DEF IntOn
  <2> QED BY <2>1, SumInt
<1> SUFFICES ASSUME Bad # {} PROVE FALSE OBVIOUS
<1>2. PICK B \in Bad : \A u \in Bad : u \subseteq B => u = B
  <2>1. Bad \in SUBSET SUBSET S OBVIOUS
  <2> HIDE DEF Bad
  <2> QED BY <2>1, SmallestSet
<1>3. B # {}
  <2>1. A \cup {} = A /\ SumOver(A, f) \in Int /\ SumOver({}, f) = 0 BY <1>1, SumEmpty
  <2>2. SumOver(A \cup {}, f) = SumOver(A, f) + SumOver({}, f)
    <3>1. SumOver(A, f) = SumOver(A, f) + 0 BY <2>1
    <3> QED BY <2>1, <3>1
  <2> QED BY <1>2, <2>2
<1>4. PICK x \in B : TRUE BY <1>3
<1>5. PICK C : C = B \ {x} OBVIOUS
<1>6. C \in SUBSET S /\ C \notin Bad /\ A \cap C = {} BY <1>2, <1>4, <1>5
<1>7. SumOver(A \cup C, f) = SumOver(A, f) + SumOver(C, f) BY <1>6
<1>8. x \in A \cup B /\ A \cup B \in SUBSET S /\ (A \cup B) \ {x} = A \cup C
  BY <1>2, <1>4, <1>5
<1>9. SumOver(A \cup B, f) = f[x] + SumOver(A \cup C, f)
  <2>1. PICK D : D = A \cup B OBVIOUS
  <2>2. IsFiniteSet(D) /\ IntOn(D, f) /\ x \in D BY <1>1, <1>8, <2>1
  <2>3. SumOver(D, f) = f[x] + SumOver(D \ {x}, f) BY <2>2, SumTake
  <2> QED BY <1>8, <2>1, <2>3
<1>10. SumOver(B, f) = f[x] + SumOver(C, f)
  <2>1. IsFiniteSet(B) /\ IntOn(B, f) BY <1>1, <1>2
  <2> QED BY <1>4, <1>5, <2>1, SumTake
<1>11. /\ SumOver(A, f) \in Int /\ SumOver(C, f) \in Int /\ f[x] \in Int
  BY <1>1, <1>2, <1>4, <1>6 DEF IntOn
<1>12. SumOver(A \cup B, f) = SumOver(A, f) + SumOver(B, f)
  BY <1>7, <1>9, <1>10, <1>11
<1> QED BY <1>2, <1>12

LEMMA SumZero ==
    ASSUME NEW S, IsFiniteSet(S), NEW f, \A x \in S : f[x] = 0
    PROVE  SumOver(S, f) = 0
<1> DEFINE Bad == {s \in SUBSET S : SumOver(s, f) # 0}
<1> SUFFICES ASSUME Bad # {} PROVE FALSE OBVIOUS
<1>1. PICK s \in Bad : \A u \in Bad : u \subseteq s => u = s
  <2>1. Bad \in SUBSET SUBSET S OBVIOUS
  <2> HIDE DEF Bad
  <2> QED BY <2>1, SmallestSet
<1>2. s # {} BY SumEmpty
<1>3. PICK x \in s : TRUE BY <1>2
<1>4. IsFiniteSet(s) /\ IntOn(s, f) BY FS_Subset DEF IntOn
<1>5. SumOver(s, f) = f[x] + SumOver(s \ {x}, f) BY <1>4, SumTake
<1>6. s \ {x} \in SUBSET S /\ s \ {x} \notin Bad BY <1>1, <1>3
<1>7. SumOver(s \ {x}, f) = 0 BY <1>6
<1> QED BY <1>1, <1>3, <1>5, <1>7

\* Terms that are 0 do not count.
LEMMA SumPart ==
    ASSUME NEW S, IsFiniteSet(S), NEW f, IntOn(S, f), NEW T \in SUBSET S,
           \A x \in S \ T : f[x] = 0
    PROVE  SumOver(S, f) = SumOver(T, f)
<1>1. PICK U : U = S \ T OBVIOUS
<1>2. IsFiniteSet(U) /\ U \in SUBSET S /\ T \cap U = {} /\ T \cup U = S BY <1>1, FS_Subset
<1>3. SumOver(U, f) = 0 BY <1>1, <1>2, SumZero
<1>4. SumOver(T \cup U, f) = SumOver(T, f) + SumOver(U, f) BY <1>2, SumUnion
<1>5. SumOver(T, f) \in Int
  <2>1. IsFiniteSet(T) /\ IntOn(T, f) BY FS_Subset DEF IntOn
  <2> QED BY <2>1, SumInt
<1>6. SumOver(S, f) = SumOver(T, f) + 0 BY <1>2, <1>3, <1>4
<1> QED BY <1>5, <1>6

\* g over the image of S under a one-to-one h.
Image(h, S) == {h[x] : x \in S}
LEMMA SumImage ==
    ASSUME NEW S, IsFiniteSet(S), NEW h, NEW f, NEW g, IntOn(S, f),
           \A x, y \in S : h[x] = h[y] => x = y, \A x \in S : f[x] = g[h[x]]
    PROVE  SumOver(S, f) = SumOver(Image(h, S), g)
<1> DEFINE Bad == {s \in SUBSET S : SumOver(s, f) # SumOver(Image(h, s), g)}
<1> SUFFICES ASSUME Bad # {} PROVE FALSE OBVIOUS
<1>1. PICK s \in Bad : \A u \in Bad : u \subseteq s => u = s
  <2>1. Bad \in SUBSET SUBSET S OBVIOUS
  <2> HIDE DEF Bad
  <2> QED BY <2>1, SmallestSet
<1>2. s # {}
  <2>1. Image(h, {}) = {} BY DEF Image
  <2> QED BY <1>1, <2>1, SumEmpty
<1>3. PICK x \in s : TRUE BY <1>2
<1>4. IsFiniteSet(s) /\ IntOn(s, f) BY FS_Subset DEF IntOn
<1>5. SumOver(s, f) = f[x] + SumOver(s \ {x}, f) BY <1>3, <1>4, SumTake
<1>6. s \ {x} \in SUBSET S /\ s \ {x} \notin Bad BY <1>1, <1>3
<1>7. SumOver(s \ {x}, f) = SumOver(Image(h, s \ {x}), g) BY <1>6
<1>8. PICK T : T = Image(h, s) OBVIOUS
<1>9. IsFiniteSet(T)
  <2> DEFINE I == {h[y] : y \in s}
  <2>1. IsFiniteSet(I)
    <3> DEFINE k == [y \in s |-> h[y]]
    <3>1. k \in [s -> I] /\ k \in Surjection(s, I) BY DEF Surjection
    <3> QED BY <1>4, <3>1, FS_Surjection
  <2> QED BY <1>8, <2>1 DEF Image
<1>10. IntOn(T, g) BY <1>1, <1>8 DEF IntOn, Image
<1>11. h[x] \in T /\ T \ {h[x]} = Image(h, s \ {x})
  BY <1>1, <1>3, <1>8 DEF Image
<1>12. SumOver(T, g) = g[h[x]] + SumOver(T \ {h[x]}, g) BY <1>9, <1>10, <1>11, SumTake
<1>13. f[x] = g[h[x]] BY <1>1, <1>3
<1> QED BY <1>1, <1>5, <1>7, <1>8, <1>11, <1>12, <1>13

\* The sum over disjoint parts is the sum of their sums.
LEMMA SumParts ==
    ASSUME NEW P, IsFiniteSet(P), NEW S, IsFiniteSet(S), NEW f, IntOn(S, f),
           NEW B \in [P -> SUBSET S], \A p, q \in P : p # q => B[p] \cap B[q] = {},
           NEW F, \A p \in P : F[p] = SumOver(B[p], f)
    PROVE  SumOver(P, F) = SumOver(UNION {B[p] : p \in P}, f)
<1> DEFINE All(Q) == UNION {B[p] : p \in Q}
           Bad == {Q \in SUBSET P : SumOver(Q, F) # SumOver(All(Q), f)}
<1> SUFFICES ASSUME Bad # {} PROVE FALSE OBVIOUS
<1>1. PICK Q \in Bad : \A u \in Bad : u \subseteq Q => u = Q
  <2>1. Bad \in SUBSET SUBSET P OBVIOUS
  <2> HIDE DEF Bad
  <2> QED BY <2>1, SmallestSet
<1>2. Q # {}
  <2>1. All({}) = {} OBVIOUS
  <2> QED BY <1>1, <2>1, SumEmpty
<1>3. PICK x \in Q : TRUE BY <1>2
<1>4. IsFiniteSet(Q) BY FS_Subset
<1>5. IntOn(P, F)
  <2> SUFFICES ASSUME NEW p \in P PROVE F[p] \in Int BY DEF IntOn
  <2>1. PICK b : b = B[p] OBVIOUS
  <2>2. b \in SUBSET S BY <2>1
  <2>3. IsFiniteSet(b) /\ IntOn(b, f) BY <2>2, FS_Subset DEF IntOn
  <2> QED BY <2>1, <2>3, SumInt
<1>6. IntOn(Q, F) BY <1>5 DEF IntOn
<1>7. SumOver(Q, F) = F[x] + SumOver(Q \ {x}, F) BY <1>3, <1>4, <1>6, SumTake
<1>8. Q \ {x} \in SUBSET P /\ Q \ {x} \notin Bad BY <1>1, <1>3
<1>9. SumOver(Q \ {x}, F) = SumOver(All(Q \ {x}), f) BY <1>8
<1>10. PICK a : a = B[x] OBVIOUS
<1>11. PICK b : b = All(Q \ {x}) OBVIOUS
<1>12. x \in P /\ a \in SUBSET S /\ b \in SUBSET S BY <1>1, <1>3, <1>8, <1>10, <1>11
<1>13. a \cap b = {} BY <1>1, <1>3, <1>10, <1>11
<1>14. a \cup b = All(Q) BY <1>1, <1>3, <1>10, <1>11
<1>15. SumOver(a \cup b, f) = SumOver(a, f) + SumOver(b, f) BY <1>12, <1>13, SumUnion
<1>16. F[x] = SumOver(a, f) BY <1>10, <1>12
<1> QED BY <1>1, <1>7, <1>9, <1>11, <1>14, <1>15, <1>16

-----------------------------------------------------------------------------
(* The valid bytes of all blocks are those the table of headers stands for. *)
HeldIn(p) == {i \in Indexes : items[i].size # 0 /\ items[i].peb = p /\ Live(p)}

LEMMA TableBytesInt ==
    ASSUME TypeOK
    PROVE  IntOn(Indexes, TableBytes) /\ \A i \in Indexes : TableBytes[i] \in Nat
<1>1. \A i \in Indexes : items[i].size \in Values \cup {0} BY Fields
<1>2. \A i \in Indexes : TableBytes[i] \in Nat BY <1>1, ValueTypes DEF TableBytes
<1> QED BY <1>2 DEF IntOn

LEMMA HeldCopies ==
    ASSUME Whole, pc \in PlainLabels, NEW p \in Pebs, Live(p)
    PROVE  ValidBytes(p) = SumOver(HeldIn(p), TableBytes)
<1> USE WholeParts
<1>1. PICK l : l = log[p] OBVIOUS
<1>2. l \in Seq(Items) /\ Laid(l) BY <1>1, Shapes DEF LogInv
<1>3. PICK V : V = {j \in DOMAIN l : l[j].status = ItemValid} OBVIOUS
<1>4. V \in SUBSET DOMAIN l BY <1>3
<1>5. PICK f : f = Foot(l) OBVIOUS
<1>6. ValidBytes(p) = SumOver(V, f) BY <1>1, <1>3, <1>5 DEF ValidBytes, Foot
<1>7. IsFiniteSet(V) /\ IntOn(V, f) BY <1>2, <1>4, <1>5, FootInt
<1>8. PICK h : h = [j \in V |-> l[j].index] OBVIOUS
<1>9. \A j \in V : Copy(l, p, j) \in Current
  BY <1>1, <1>3 DEF Current, Stored, CopiesIn, Copy
<1>10. pc \in PairLabels /\ pc \in FinalLabels /\ View = Current /\ Pending = {}
  BY WritingPairs, ViewPlain DEF PlainLabels
<1>11. Mirrors(Current, items, wseq, {}) BY <1>10, TableIs
<1>12. \A j \in V : /\ h[j] = l[j].index /\ h[j] \in Indexes
                    /\ items[h[j]].size = l[j].val /\ items[h[j]].peb = p
                    /\ l[j].val \in Values /\ l[j].val # 0
  <2> SUFFICES ASSUME NEW j \in V
               PROVE  /\ h[j] = l[j].index /\ h[j] \in Indexes
                      /\ items[h[j]].size = l[j].val /\ items[h[j]].peb = p
                      /\ l[j].val \in Values /\ l[j].val # 0
    OBVIOUS
  <2>1. PICK c \in Current : c = Copy(l, p, j) BY <1>9
  <2>2. c.index = l[j].index /\ c.val = l[j].val /\ c.peb = p BY <2>1 DEF Copy
  <2>3. items[c.index] = Header(c) BY <1>11 DEF Mirrors
  <2>4. c.index \in Indexes /\ c.val \in Values BY CurrentFields
  <2>5. c.val # 0
    <3>1. Values \subseteq 1 .. MaxItemSize BY StoreAssumption
    <3>2. \A n \in 1 .. MaxItemSize : n # 0 OBVIOUS
    <3> QED BY <2>4, <3>1, <3>2
  <2> QED BY <1>8, <2>2, <2>3, <2>4, <2>5 DEF Header
<1>13. \A x, y \in V : h[x] = h[y] => x = y
  <2> SUFFICES ASSUME NEW x \in V, NEW y \in V, h[x] = h[y] PROVE x = y OBVIOUS
  <2>1. Copy(l, p, x).index = Copy(l, p, y).index BY <1>8 DEF Copy
  <2>2. Copy(l, p, x) = Copy(l, p, y) BY <1>9, <1>10, <2>1 DEF PairInv, NoPairs
  <2>3. l[x].off = l[y].off BY <2>2 DEF Copy
  <2> QED BY <1>2, <1>4, <2>3, OffsetsDiffer
<1>14. Image(h, V) = HeldIn(p)
  <2>1. ASSUME NEW i \in Image(h, V) PROVE i \in HeldIn(p)
    <3>1. PICK j \in V : i = h[j] BY DEF Image
    <3> QED BY <1>12, <3>1 DEF HeldIn
  <2>2. ASSUME NEW i \in HeldIn(p) PROVE i \in Image(h, V)
    <3>1. i \in Indexes /\ items[i].size # 0 /\ items[i].peb = p BY DEF HeldIn
    <3>2. PICK c \in Current : c.index = i BY <1>11, <3>1 DEF Mirrors
    <3>3. items[i] = Header(c) BY <1>11, <3>2 DEF Mirrors
    <3>4. c.peb = p BY <3>1, <3>3 DEF Header
    <3>5. c \in CopiesIn(l, p) BY <1>1, <3>4, CurrentIs, StoredMember
    <3>6. PICK j \in V : c = Copy(l, p, j) BY <1>3, <3>5 DEF CopiesIn
    <3>7. h[j] = i BY <1>8, <3>2, <3>6 DEF Copy
    <3> QED BY <3>7 DEF Image
  <2> QED BY <2>1, <2>2
<1>15. PICK g : g = TableBytes OBVIOUS
<1>16. \A x \in V : f[x] = g[h[x]]
  <2> SUFFICES ASSUME NEW x \in V PROVE f[x] = g[h[x]] OBVIOUS
  <2>1. g[h[x]] = Footprint(l[x].val) BY <1>12, <1>15 DEF TableBytes
  <2>2. f[x] = Footprint(l[x].val) BY <1>4, <1>5 DEF Foot
  <2> QED BY <2>1, <2>2
<1>17. SumOver(V, f) = SumOver(Image(h, V), g) BY <1>7, <1>13, <1>16, SumImage
<1> QED BY <1>6, <1>14, <1>15, <1>17

LEMMA TableTotal ==
    ASSUME Whole, pc \in SettledLabels \ {"delete_old"}
    PROVE  /\ \A p \in Pebs : ValidIn(p) = ValidBytes(p)
           /\ SumOver(Pebs, [p \in Pebs |-> ValidBytes(p)]) = SumOver(Indexes, TableBytes)
           /\ SumOver(Pebs, [p \in Pebs |-> ValidIn(p)]) = SumOver(Indexes, TableBytes)
<1> USE WholeParts
<1>1. pc \in PlainLabels /\ pc \in FinalLabels
  BY DEF PlainLabels, FinalLabels, SettledLabels, WritingLabels
<1>2. Apart({}) BY DEF BlockInv, CallInv
<1>3. \A p \in Pebs : Known(p) BY <1>1 DEF Known
<1>4. \A p \in Pebs : info[p].reserved => /\ ~Live(p) /\ log[p] = <<>>
                                          /\ info[p].free = Capacity /\ info[p].dirty = 0
  <2> SUFFICES ASSUME NEW p \in Pebs, info[p].reserved
               PROVE  /\ ~Live(p) /\ log[p] = <<>>
                      /\ info[p].free = Capacity /\ info[p].dirty = 0
    OBVIOUS
  <2>1. Status(p) = PebEmpty BY <1>2 DEF Apart
  <2>2. ~Live(p) BY <2>1, StatusFacts, NotLive
  <2>3. log[p] = <<>> BY <2>1 DEF HeaderInv, HeadersSound, Sound, Status
  <2>4. info[p].free = Capacity BY <1>3 DEF HeaderInv, RoomInv
  <2>5. info[p].dirty = 0 BY <1>3 DEF FreeInv, SpareClean
  <2> QED BY <2>2, <2>3, <2>4, <2>5
<1>5. \A p \in Pebs : ~info[p].reserved => Live(p)
  BY <1>2 DEF Apart, Live, Status
<1>6. \A p \in Pebs : ValidBytes(p) = SumOver(HeldIn(p), TableBytes)
  <2> SUFFICES ASSUME NEW p \in Pebs PROVE ValidBytes(p) = SumOver(HeldIn(p), TableBytes)
    OBVIOUS
  <2>1. CASE Live(p) BY <1>1, <2>1, HeldCopies
  <2>2. CASE ~Live(p)
    <3>1. HeldIn(p) = {} BY <2>2 DEF HeldIn
    <3>2. log[p] = <<>> BY <1>4, <1>5, <2>2
    <3>3. ValidBytes(p) = 0
      <4>1. {j \in DOMAIN log[p] : log[p][j].status = ItemValid} = {} BY <3>2
      <4> QED BY <4>1, SumEmpty DEF ValidBytes
    <3> QED BY <3>1, <3>3, SumEmpty
  <2> QED BY <2>1, <2>2
<1>7. \A p \in Pebs : ValidIn(p) = ValidBytes(p)
  <2> SUFFICES ASSUME NEW p \in Pebs PROVE ValidIn(p) = ValidBytes(p) OBVIOUS
  <2>1. CASE info[p].reserved
    <3>1. ValidIn(p) = 0
      <4>1. Capacity \in Nat BY FlashAssumption
      <4> QED BY <1>4, <2>1, <4>1 DEF ValidIn
    <3>2. ValidBytes(p) = 0
      <4>1. {j \in DOMAIN log[p] : log[p][j].status = ItemValid} = {} BY <1>4, <2>1
      <4> QED BY <4>1, SumEmpty DEF ValidBytes
    <3> QED BY <3>1, <3>2
  <2>2. CASE ~info[p].reserved
    <3>1. Tracked(p) BY <1>5, <2>2 DEF Tracked
    <3>2. InFlight(p) = 0
      <4>1. pc \notin InFlightLabels BY NoneInFlight
      <4> QED BY <4>1, NoneInFlight
    <3>3. ValidIn(p) = ValidBytes(p) + InFlight(p) BY <1>3, <3>1 DEF ValidInv, ValidExact
    <3>4. ValidBytes(p) \in Nat BY NoValidBytes
    <3> QED BY <3>2, <3>3, <3>4
  <2> QED BY <2>1, <2>2
<1>8. PICK F : F = [p \in Pebs |-> ValidBytes(p)] OBVIOUS
<1>9. PICK B : B = [p \in Pebs |-> HeldIn(p)] OBVIOUS
<1>10. B \in [Pebs -> SUBSET Indexes] BY <1>9 DEF HeldIn
<1>11. \A p, q \in Pebs : p # q => B[p] \cap B[q] = {} BY <1>9 DEF HeldIn
<1>12. \A p \in Pebs : F[p] = SumOver(B[p], TableBytes) BY <1>6, <1>8, <1>9
<1>13. PICK U : U = UNION {B[p] : p \in Pebs} OBVIOUS
<1>14. PICK g : g = TableBytes OBVIOUS
<1>15. IsFiniteSet(Pebs) /\ IsFiniteSet(Indexes) /\ IntOn(Indexes, g)
  BY <1>14, PebFacts, IndexFacts, TableBytesInt
<1>16. SumOver(Pebs, F) = SumOver(U, g)
  BY <1>10, <1>11, <1>12, <1>13, <1>14, <1>15, SumParts
<1>17. U \in SUBSET Indexes /\ \A i \in Indexes \ U : g[i] = 0
  <2>1. U \in SUBSET Indexes BY <1>10, <1>13
  <2> SUFFICES ASSUME NEW i \in Indexes, i \notin U PROVE g[i] = 0 BY <2>1
  <2>2. items[i].size = 0
    <3> SUFFICES ASSUME items[i].size # 0 PROVE FALSE OBVIOUS
    <3>1. Mirrors(Current, items, wseq, {}) BY <1>1, TableIs, ViewPlain
    <3>2. PICK c \in Current : c.index = i BY <3>1 DEF Mirrors
    <3>3. items[i] = Header(c) BY <3>1, <3>2 DEF Mirrors
    <3>4. c.peb \in Pebs /\ Live(c.peb) BY CurrentFields, CurrentIs
    <3>5. items[i].peb = c.peb BY <3>3 DEF Header
    <3>6. i \in HeldIn(c.peb) BY <3>4, <3>5 DEF HeldIn
    <3> QED BY <1>9, <1>13, <3>4, <3>6
  <2> QED BY <1>14, <2>2 DEF TableBytes
<1>18. SumOver(Indexes, g) = SumOver(U, g) BY <1>15, <1>17, SumPart
<1>19. SumOver(Pebs, F) = SumOver(Indexes, TableBytes) BY <1>14, <1>16, <1>18
<1>20. [p \in Pebs |-> ValidIn(p)] = F BY <1>7, <1>8
<1> QED BY <1>7, <1>8, <1>19, <1>20

\* Between calls the accounting in RAM is exact, block by block.
LEMMA FreeIs ==
    ASSUME Whole, pc \in SettledLabels
    PROVE  \A p \in Pebs : info[p].free \in {0, Capacity - LogSize(log[p])}
<1> USE WholeParts
<1> SUFFICES ASSUME NEW p \in Pebs PROVE info[p].free \in {0, Capacity - LogSize(log[p])}
  OBVIOUS
<1>1. pc \in FinalLabels /\ pc \notin WritingLabels
  BY DEF FinalLabels, SettledLabels, WritingLabels
<1>2. Known(p) BY <1>1 DEF Known
<1>3. LogSize(log[p]) = End(log[p]) BY DEF LogInv, Laid
<1>4. Status(p) = IF info[p].reserved THEN PebEmpty ELSE PebActived
  BY DEF BlockInv, CallInv, Apart
<1>5. CASE info[p].reserved
  <2>1. log[p] = <<>> BY <1>4, <1>5 DEF HeaderInv, HeadersSound, Sound, Status
  <2>2. End(log[p]) = 0 BY <2>1, LaidEmpty
  <2>3. info[p].free = Capacity /\ Capacity \in Nat
    BY <1>2, <1>5, FlashAssumption DEF HeaderInv, RoomInv
  <2>4. info[p].free = Capacity - LogSize(log[p]) BY <1>3, <2>2, <2>3
  <2> QED BY <2>4
<1>6. CASE ~info[p].reserved
  <2>1. Live(p) BY <1>4, <1>6 DEF Live, Status
  <2>2. OpenAt(p) BY <1>1, <1>2, <2>1 DEF FreeInv, RoomAtEnd, BeingWritten, AtWriting
  <2> QED BY <1>3, <2>2 DEF OpenAt, Closed, Clean
<1> QED BY <1>5, <1>6

-----------------------------------------------------------------------------
(* TotalInv. *)
Counts == pc \in FinalLabels \ {"init", "held"} /\ ~(pc \in CollectLabels /\ req = NoReq)
CountsNot == {"off", "peb_scan", "peb_empty", "peb_count", "item_scan", "assert", "init", "held"}
LEMMA CountsFacts ==
    /\ TotalInv <=> (Counts => vsize = SumOver(Indexes, TableBytes))
    /\ pc \in CountsNot => ~Counts
    /\ pc \in {"idle", "alloc", "write", "delete", "delete_old", "written"} \cup WritingLabels => Counts
    /\ pc \in CollectLabels => (Counts <=> req # NoReq)
BY DEF TotalInv, Counts, CountsNot, FinalLabels, SettledLabels, WritingLabels, CollectLabels
LEMMA CountsNext ==
    /\ TotalInv' <=> (Counts' => vsize' = SumOver(Indexes, TableBytes'))
    /\ pc' \in CountsNot => ~Counts'
    /\ pc' \in CollectLabels => (Counts' <=> req' # NoReq)
BY DEF TotalInv, Counts, CountsNot, FinalLabels, SettledLabels, WritingLabels, CollectLabels

SameSizes == \A i \in Indexes : items'[i].size = items[i].size
LEMMA TotalFrame ==
    ASSUME TotalInv, vsize' = vsize, SameSizes, Counts' => Counts
    PROVE  TotalInv'
<1>1. TableBytes' = TableBytes BY DEF SameSizes, TableBytes
<1> QED BY <1>1, CountsFacts, CountsNext

\* One header changes, and the size with it.
LEMMA TotalChange ==
    ASSUME TypeOK, TypeOK', TotalInv, Counts, NEW i \in Indexes, NEW h,
           SetAt(items', items, i, h), NEW b, NEW a,
           a = IF items[i].size = 0 THEN 0 ELSE Footprint(items[i].size),
           b = IF h.size = 0 THEN 0 ELSE Footprint(h.size),
           vsize' = vsize + b - a
    PROVE  TotalInv'
<1>1. PICK f : f = TableBytes OBVIOUS
<1>2. PICK g : g = TableBytes' OBVIOUS
<1>3. \A j \in Indexes : g[j] = IF items'[j].size = 0 THEN 0 ELSE Footprint(items'[j].size)
  BY <1>2 DEF TableBytes
<1>4. \A j \in Indexes : f[j] = IF items[j].size = 0 THEN 0 ELSE Footprint(items[j].size)
  BY <1>1 DEF TableBytes
<1>5. f[i] = a /\ g[i] = b /\ \A j \in Indexes \ {i} : g[j] = f[j]
  BY <1>3, <1>4 DEF SetAt
<1>6. IsFiniteSet(Indexes) /\ IntOn(Indexes, f) BY <1>1, IndexFacts, TableBytesInt
<1>7. b \in Int
  <2>1. items'[i].size \in Values \cup {0}
    <3>1. items' \in [Indexes -> ItemHeaders] BY DEF TypeOK
    <3> QED BY <3>1 DEF ItemHeaders
  <2>2. \A v \in Values : Footprint(v) \in Nat \ {0} BY ValueTypes
  <2>3. g[i] \in Int BY <1>3, <2>1, <2>2
  <2> QED BY <1>5, <2>3
<1>8. SumOver(Indexes, g) = SumOver(Indexes, f) + g[i] - f[i]
  BY <1>5, <1>6, <1>7, SumChange
<1>9. vsize = SumOver(Indexes, f) BY <1>1, CountsFacts
<1> QED BY <1>2, <1>5, <1>8, <1>9, CountsNext

LEMMA TotalInitDone ==
    ASSUME Whole, InitDone
    PROVE  TotalInv'
<1>1. pc = "init" /\ items' = items /\ vsize' = SumOver(Pebs, [p \in Pebs |-> ValidIn(p)])
  BY DEF InitDone
<1>2. vsize' = SumOver(Indexes, TableBytes) BY <1>1, TableTotal DEF SettledLabels
<1>3. TableBytes' = TableBytes BY <1>1 DEF TableBytes
<1> QED BY <1>2, <1>3, CountsNext

LEMMA TotalStill ==
    ASSUME Whole, TotalInv, Still
    PROVE  TotalInv'
<1> USE WholeParts
<1>0. items' = items BY StillFacts
<1>1. CASE RecoverTransfering \/ RecoverTransfered \/ RecoverNothing
  <2>1. /\ pc = "item_scan" /\ pc' \in {"reclaim", "relocate", "init", "assert"}
        /\ req' = req
    BY <1>1 DEF RecoverTransfering, RecoverTransfered, RecoverNothing, Recovery, ItemScanDone,
                Check, call
  <2>2. req = NoReq BY <2>1 DEF Located, BootLabels
  <2>3. ~Counts' BY <2>1, <2>2, CountsNext DEF CountsNot, CollectLabels
  <2> QED BY <2>3, CountsNext
<1>2. CASE InitDone BY <1>2, TotalInitDone
<1>3. CASE AllocateTooMany
  <2>1. pc' \in CountsNot BY <1>3 DEF AllocateTooMany, CountsNot
  <2> QED BY <2>1, CountsNext
<1>4. CASE \/ GarbageCollect \/ WriteRefused \/ WriteAccepted \/ WriteDone \/ DeleteDone \/ Request
  <2>1. pc \in {"idle", "alloc", "write", "delete", "delete_old", "written"} /\ vsize' = vsize
    BY <1>4 DEF GarbageCollect, WriteRefused, WriteAccepted, WriteDone, DeleteDone, Request,
                RequestWrite, RequestDelete, Return, ram
  <2>2. SameSizes BY <1>0 DEF SameSizes
  <2> QED BY <2>1, <2>2, CountsFacts, TotalFrame
<1>5. CASE RelocateEmpty \/ RelocateValid \/ SourceDone \/ SkipDeleted
  <2>1. pc \in CollectLabels /\ pc' \in CollectLabels /\ vsize' = vsize /\ req' = req
    BY <1>5 DEF RelocateEmpty, RelocateValid, SourceDone, SkipDeleted, Migrating, AtSource, ram,
                call, CollectLabels
  <2>2. SameSizes BY <1>0 DEF SameSizes
  <2>3. Counts' => Counts BY <2>1, CountsFacts, CountsNext
  <2> QED BY <2>1, <2>2, <2>3, TotalFrame
<1>6. CASE Reclaimed
  <2>1. /\ pc = "reclaim" /\ pc' = gc.then /\ vsize' = vsize /\ req' = req
        /\ gc.then \in {"alloc", "init", "relocate", "actived"}
    BY <1>6, LocalFields DEF Reclaimed, AfterSources, ram, call, Thens
  <2>2. gc.then = "alloc" => req # NoReq
    BY <2>1, RequestAssumption DEF Located, CollectLabels
  <2>3. Counts' => Counts
    <3>1. CASE gc.then = "init" BY <2>1, <3>1, CountsNext DEF CountsNot
    <3>2. CASE gc.then = "alloc" BY <2>1, <2>2, <3>2, CountsFacts DEF CollectLabels
    <3>3. CASE gc.then \in {"relocate", "actived"}
      BY <2>1, <3>3, CountsFacts, CountsNext DEF CollectLabels
    <3> QED BY <2>1, <3>1, <3>2, <3>3
  <2>4. SameSizes BY <1>0 DEF SameSizes
  <2> QED BY <2>1, <2>3, <2>4, TotalFrame
<1> QED BY <1>1, <1>2, <1>3, <1>4, <1>5, <1>6 DEF Still

LEMMA TotalCollect ==
    ASSUME Whole, TotalInv,
           CalmMarks \/ Erase \/ MarkEmpty \/ EndTransfer \/ CopyItem \/ CommitCopy
    PROVE  TotalInv'
<1> USE WholeParts
<1>1. vsize' = vsize /\ req' = req /\ pc \in CollectLabels /\ pc' \in CollectLabels \cup {"init", "alloc", "assert"}
  BY DEF CalmMarks, MarkReclaiming, StartTransfer, Reclaim, TargetActived, PickTarget, Erase,
         MarkEmpty, EndTransfer, CopyItem, CommitCopy, Migrating, AtSource, AfterSources, Check,
         Caller, ram, call, CollectLabels
<1>2. pc' = "alloc" => req # NoReq
  BY DEF CalmMarks, MarkReclaiming, StartTransfer, Reclaim, TargetActived, PickTarget, Erase,
         MarkEmpty, EndTransfer, CopyItem, CommitCopy, Migrating, AtSource, AfterSources, Check,
         Caller, CollectLabels
<1>3. Counts' => Counts
  BY <1>1, <1>2, CountsFacts, CountsNext DEF CountsNot
<1>4. SameSizes
  <2>1. CASE CopyItem
    <3>1. SourceItem.index \in Indexes
      <4>1. Migrating /\ SourceHasItem BY <2>1 DEF CopyItem
      <4> QED BY <4>1, SourceItemFacts, ItemFields
    <3>2. items' = [items EXCEPT ![SourceItem.index].peb = gc.dst,
                                 ![SourceItem.index].off = gc.off]
      BY <2>1 DEF CopyItem
    <3> QED BY <3>1, <3>2, Shapes DEF SameSizes, ItemHeaders
  <2>2. CASE ~CopyItem
    <3>1. items' = items
      BY <2>2 DEF CalmMarks, MarkReclaiming, StartTransfer, Reclaim, TargetActived, PickTarget,
                  Erase, MarkEmpty, EndTransfer, CommitCopy, ram
    <3> QED BY <3>1 DEF SameSizes
  <2> QED BY <2>1, <2>2
<1> QED BY <1>1, <1>3, <1>4, TotalFrame

\* A write adds to the valid size what its header adds to the table.
LEMMA TotalAllocate ==
    ASSUME Whole, TotalInv, TypeOK', Allocate
    PROVE  TotalInv'
<1> USE WholeParts
<1>1. /\ pc = "alloc" /\ ~(w.append /\ sum >= MaxItems) /\ vsize' = vsize + AddedSize
  BY DEF Allocate, Allocating
<1>2. pc \in CallLabels /\ pc \in PlainLabels /\ pc \in FinalLabels
  BY <1>1 DEF CallLabels, PlainLabels, FinalLabels, SettledLabels, WritingLabels
<1>3. req # NoReq /\ req.val \in Values /\ req.key \in Keys BY <1>2, NotNoReq, ReqFacts
<1>4. PICK p \in Pebs : Allocated(p) /\ w'.index = w.index BY AllocateRoom
<1>5. PICK h : h = [size |-> req.val, peb |-> p, off |-> Capacity - info[p].free, seq |-> wseq + 1]
  OBVIOUS
<1>6. PICK i \in Indexes : i = w.index BY LocalFields
<1>7. SetAt(items', items, i, h)
  <2>1. items' = [items EXCEPT ![i] = h] BY <1>4, <1>5, <1>6 DEF Allocated
  <2> QED BY <2>1, ItemsSetAt
<1>8. h.size = req.val /\ req.val # 0
  <2>1. Values \subseteq 1 .. MaxItemSize BY StoreAssumption
  <2>2. \A n \in 1 .. MaxItemSize : n # 0 OBVIOUS
  <2> QED BY <1>3, <1>5, <2>1, <2>2
<1>9. PICK b : b = Footprint(req.val) OBVIOUS
<1>10. PICK a : a = IF items[i].size = 0 THEN 0 ELSE Footprint(items[i].size) OBVIOUS
<1>11. /\ Mirrors(Current, items, wseq, {}) /\ sum = Cardinality(Present(items))
  BY <1>2, TableIs, ViewPlain
<1>12. \A j : j \in Found({req.key}) <=>
                j \in Indexes /\ \E c \in Current : c.index = j /\ c.key \in {req.key}
  BY <1>2, FoundIs
<1>13. vsize' = vsize + b - a
  <2>1. vsize \in Int
    <3>1. vsize = SumOver(Indexes, TableBytes) BY <1>1, CountsFacts
    <3> QED BY <3>1, IndexFacts, TableBytesInt, SumInt
  <2>2. b \in Int
    <3>1. Footprint(req.val) \in Nat \ {0} BY <1>3, ValueTypes
    <3> QED BY <1>9, <3>1
  <2>3. CASE w.append
    <3>1. Present(items) # Indexes
      <4>1. sum \in Int /\ ~(sum >= MaxItems) BY <1>1, <2>3 DEF TypeOK
      <4> QED BY <1>11, <4>1, IndexFacts
    <3>2. items[i].size = 0 /\ \A c \in Current : c.key # req.key
      BY <1>1, <1>3, <1>6, <2>3, <3>1 DEF AimInv
    <3>3. Holder = {} BY <1>12, <3>2 DEF Holder
    <3>4. AddedSize = b /\ a = 0 BY <1>9, <1>10, <3>2, <3>3 DEF AddedSize
    <3> QED BY <1>1, <2>1, <2>2, <3>4
  <2>4. CASE ~w.append
    <3>1. /\ \A c \in Current : c.index = i <=> c.key = req.key
          /\ items[i].size # 0
      BY <1>1, <1>3, <1>6, <2>4 DEF AimInv
    <3>2. PICK c \in Current : c.index = i BY <1>11, <3>1 DEF Mirrors
    <3>3. Found({req.key}) = {i}
      <4>1. \A j \in Found({req.key}) : j = i BY <1>12, <3>1
      <4>2. i \in Found({req.key}) BY <1>12, <3>1, <3>2
      <4> QED BY <4>1, <4>2
    <3>4. Lowest({i}) = i
      <4>1. {i} \in SUBSET Nat BY ValueTypes
      <4> QED BY <4>1, LowestMember
    <3>5. AddedSize = req.val - items[i].size BY <3>3, <3>4 DEF AddedSize, Holder
    <3>6. a = Footprint(items[i].size) BY <1>10, <3>1
    <3>7. /\ req.val \in Int /\ items[i].size \in Int /\ Overhead \in Int
      <4>1. \A v \in Values : v \in Int
        <5>1. Values \subseteq 1 .. MaxItemSize BY StoreAssumption
        <5> QED BY <5>1
      <4>2. items[i].size \in Values BY <3>1, Fields
      <4>3. Overhead \in Int BY FlashAssumption
      <4> QED BY <1>3, <4>1, <4>2, <4>3
    <3>8. AddedSize = b - a BY <1>9, <3>5, <3>6, <3>7 DEF Footprint
    <3>9. a \in Int BY <3>6, <3>7 DEF Footprint
    <3> QED BY <1>1, <2>1, <2>2, <3>8, <3>9
  <2> QED BY <2>3, <2>4
<1>14. b = IF h.size = 0 THEN 0 ELSE Footprint(h.size) BY <1>8, <1>9
<1> QED BY <1>1, <1>7, <1>10, <1>13, <1>14, CountsFacts, TotalChange

\* A header in use takes no more than the valid size.
LEMMA EachCounts ==
    ASSUME Whole, TotalInv, Counts, NEW i \in Indexes, items[i].size # 0
    PROVE  vsize \in Int /\ Footprint(items[i].size) \in Int /\ vsize >= Footprint(items[i].size)
<1> USE WholeParts
<1>1. PICK f : f = TableBytes OBVIOUS
<1>2. IsFiniteSet(Indexes) /\ \A j \in Indexes : f[j] \in Nat
  BY <1>1, IndexFacts, TableBytesInt
<1>3. SumOver(Indexes, f) \in Nat /\ f[i] <= SumOver(Indexes, f) BY <1>2, SumBound
<1>4. vsize = SumOver(Indexes, f) BY <1>1, CountsFacts
<1>5. f[i] = Footprint(items[i].size) BY <1>1 DEF TableBytes
<1>6. f[i] \in Nat BY <1>2
<1> QED BY <1>3, <1>4, <1>5, <1>6

LEMMA TotalDelete ==
    ASSUME Whole, TotalInv, TypeOK', DeleteItem
    PROVE  TotalInv'
<1> USE WholeParts
<1>1. PICK d \in Current :
        /\ items[d.index] = Header(d) /\ d.index \in Indexes
        /\ items' = [items EXCEPT ![d.index] = NoItem]
        /\ vsize' = vsize - Footprint(d.val)
  BY DeletedCopy
<1>2. PICK i \in Indexes : i = d.index BY <1>1
<1>3. SetAt(items', items, i, NoItem) BY <1>1, <1>2, ItemsSetAt
<1>4. Counts
  <2>1. pc = "delete" BY DEF DeleteItem
  <2> QED BY <2>1, CountsFacts
<1>5. items[i].size = d.val /\ d.val # 0 /\ d.val \in Values
  <2>1. d.val \in Values BY CurrentFields
  <2>2. Values \subseteq 1 .. MaxItemSize BY StoreAssumption
  <2>3. \A n \in 1 .. MaxItemSize : n # 0 OBVIOUS
  <2> QED BY <1>1, <1>2, <2>1, <2>2, <2>3 DEF Header
<1>6. PICK a : a = IF items[i].size = 0 THEN 0 ELSE Footprint(items[i].size) OBVIOUS
<1>7. vsize' = vsize + 0 - a
  <2>1. a = Footprint(d.val) BY <1>5, <1>6
  <2>2. vsize \in Int /\ Footprint(d.val) \in Int BY <1>4, <1>5, EachCounts
  <2> QED BY <1>1, <2>1, <2>2
<1>8. 0 = IF NoItem.size = 0 THEN 0 ELSE Footprint(NoItem.size) BY DEF NoItem
<1> QED BY <1>3, <1>4, <1>6, <1>7, <1>8, TotalChange

LEMMA TotalStep ==
    ASSUME Whole, TotalInv, TypeOK', [Next]_vars
    PROVE  TotalInv'
<1> USE WholeParts
<1>1. CASE Still BY <1>1, TotalStill
<1>2. CASE CalmMarks \/ Erase \/ MarkEmpty \/ EndTransfer \/ CopyItem \/ CommitCopy
  BY <1>2, TotalCollect
<1>3. CASE Allocate BY <1>3, TotalAllocate
<1>4. CASE DeleteItem BY <1>4, TotalDelete
<1>5. CASE Classify
  <2>1. pc' \in CountsNot BY <1>5, ClassifyEnds DEF CountsNot
  <2> QED BY <2>1, CountsNext
<1>6. CASE ScanLook \/ ScanNewerCopy \/ ScanOlderCopy
  <2>1. pc' \in CountsNot
    <3>1. ScanLook => pc' \in {"item_scan", "assert"} BY LookFacts
    <3>2. ScanNewerCopy \/ ScanOlderCopy => pc' \in {"item_scan", "assert"}
      BY DEF ScanNewerCopy, ScanOlderCopy, SecondCopyOk, Check
    <3> QED BY <1>6, <3>1, <3>2 DEF CountsNot
  <2> QED BY <2>1, CountsNext
<1>7. CASE PowerOn \/ PowerLoss
  <2>1. pc' \in CountsNot BY <1>7 DEF PowerOn, PowerLoss, CountsNot
  <2> QED BY <2>1, CountsNext
<1>8. CASE WriteItem \/ MarkValid \/ PebActivedNow \/ DeleteOld
  <2>1. pc \in WritingLabels \cup {"delete_old"} /\ vsize' = vsize /\ items' = items
    BY <1>8 DEF WriteItem, MarkValid, PebActivedNow, DeleteOld, WritingLabels, ram
  <2>2. Counts BY <2>1, CountsFacts
  <2>3. SameSizes BY <2>1 DEF SameSizes
  <2> QED BY <2>1, <2>2, <2>3, TotalFrame
<1>9. CASE UNCHANGED vars
  <2>1. vsize' = vsize /\ SameSizes /\ (Counts' => Counts)
    BY <1>9 DEF vars, ram, call, SameSizes, Counts
  <2> QED BY <2>1, TotalFrame
<1> QED BY <1>1, <1>2, <1>3, <1>4, <1>5, <1>6, <1>7, <1>8, <1>9, Groups

-----------------------------------------------------------------------------
(* DoneInv: only a delete call has something to report before it ends. *)
LEMMA DoneStep ==
    ASSUME Whole, DoneInv, [Next]_vars
    PROVE  DoneInv'
<1>1. CASE Classify
  BY <1>1 DEF DoneInv, Classify, ScanActiving, ScanActivingEmpty, ScanTransfering, ScanTransfered,
              ScanReclaiming, ScanActived, ScanEmpty, ScanUnknown, ScanMean, FormatUnknown,
              AllFormatted, Scanning, ScanKnown, Check, call
<1>2. CASE ScanLogs
  BY <1>2 DEF DoneInv, ScanLogs, SkipPeb, ScanEndOfLog, ScanTornItem, ScanDeletedItem,
              ScanFirstCopy, ScanNewerCopy, ScanOlderCopy, ScanningValid, ScanningItems, call
<1>3. CASE Recover
  BY <1>3 DEF DoneInv, Recover, RecoverTransfering, RecoverTransfered, RecoverNothing, Recovery,
              ItemScanDone, InitDone, call
<1>4. CASE Transfer
  BY <1>4 DEF DoneInv, Transfer, GarbageCollect, RelocateEmpty, RelocateValid, MarkReclaiming,
              PickTarget, StartTransfer, SourceDone, SkipDeleted, CopyItem, CommitCopy,
              EndTransfer, Migrating, AtSource, AfterSources, call
<1>5. CASE ReclaimPebs
  BY <1>5 DEF DoneInv, ReclaimPebs, Reclaim, Erase, MarkEmpty, Reclaimed, TargetActived, AtSource,
              AfterSources, call
<1>6. CASE Write
  BY <1>6 DEF DoneInv, Write, WriteRefused, WriteAccepted, AllocateTooMany, Allocate, WriteItem,
              MarkValid, PebActivedNow, DeleteOld, WriteDone, Return, Allocating, call
<1>7. CASE Delete \/ Request
  BY <1>7 DEF DoneInv, Delete, DeleteItem, DeleteDone, Return, Request, RequestWrite,
              RequestDelete, Check
<1>8. CASE PowerOn \/ PowerLoss \/ UNCHANGED vars
  BY <1>8 DEF DoneInv, PowerOn, PowerLoss, vars, call
<1> QED BY <1>1, <1>2, <1>3, <1>4, <1>5, <1>6, <1>7, <1>8 DEF Next, Run, Boot, Collect

-----------------------------------------------------------------------------
(* No error log is reached. *)
LEMMA UsedWritable ==
    ASSUME HeadersSound
    PROVE  \A p \in Pebs : /\ Status(p) \in InUse => Writable(hdr[p])
                           /\ Status(p) = PebEmpty => EmptyHeaderOk(hdr[p])
<1>1. PebVirgin \notin InUse /\ PebEmpty # PebVirgin BY StatusRanges, StatusFacts
<1> QED BY <1>1 DEF HeadersSound, Sound, Writable, EmptyHeaderOk, Status

LEMMA LiveWritable ==
    ASSUME Whole
    PROVE  \A c \in Current : Writable(hdr[c.peb])
<1> USE WholeParts
<1>1. \A c \in Current : c.peb \in Pebs /\ Live(c.peb) BY CurrentFields, CurrentIs
<1>2. \A c \in Current : Status(c.peb) \in InUse BY <1>1, StatusRanges DEF Live, Status
<1> QED BY <1>1, <1>2, UsedWritable DEF HeaderInv

LEMMA ClassifyPasses ==
    ASSUME Whole, Classify, pc # "assert"
    PROVE  pc' # "assert"
<1> USE WholeParts
<1>1. HeadersSound BY DEF HeaderInv
<1>2. ASSUME NEW s, Scanning(s)
      PROVE  /\ scan.peb \in Pebs /\ Classified(scan.peb)
             /\ hdr[scan.peb].status \in s
    BY <1>2, NextPebType DEF Scanning, BlockInv, ScanInv
<1>3. scan.peb \in Nat BY LocalFields, FlashAssumption
<1>4. CASE ScanTransfering
  <2>1. Scanning({PebTransfering}) BY <1>4 DEF ScanTransfering
  <2>2. PICK x \in Pebs : x = scan.peb BY <1>2, <2>1
  <2>3. Status(x) = PebTransfering /\ Classified(x) BY <1>2, <2>1, <2>2 DEF Status
  <2>4. scan.transfering = NoPeb
    <3> SUFFICES ASSUME scan.transfering # NoPeb PROVE FALSE OBVIOUS
    <3>1. PICK y \in Pebs : y = scan.transfering BY LocalFields
    <3>2. y < x /\ Status(y) = PebTransfering BY <2>3, <3>1 DEF Classified
    <3>3. y = x BY <2>3, <3>2 DEF BlockInv, FlashInv, Target
    <3>4. x \in Nat BY PebFacts
    <3> QED BY <3>2, <3>3, <3>4
  <2>5. Writable(hdr[x]) BY <1>1, <2>3, UsedWritable, StatusRanges
  <2> QED BY <1>4, <2>2, <2>4, <2>5 DEF ScanTransfering, ScanKnown, Check
<1>5. CASE ScanTransfered
  <2>1. Scanning({PebTransfered}) BY <1>5 DEF ScanTransfered
  <2>2. PICK x \in Pebs : x = scan.peb BY <1>2, <2>1
  <2>3. Status(x) = PebTransfered /\ Classified(x) BY <1>2, <2>1, <2>2 DEF Status
  <2>4. scan.transfered = NoPeb
    <3> SUFFICES ASSUME scan.transfered # NoPeb PROVE FALSE OBVIOUS
    <3>1. PICK y \in Pebs : y = scan.transfered BY LocalFields
    <3>2. y < x /\ Status(y) = PebTransfered BY <2>3, <3>1 DEF Classified
    <3>3. y = x BY <2>3, <3>2 DEF BlockInv, FlashInv, Target
    <3>4. x \in Nat BY PebFacts
    <3> QED BY <3>2, <3>3, <3>4
  <2>5. Writable(hdr[x]) BY <1>1, <2>3, UsedWritable, StatusRanges
  <2> QED BY <1>5, <2>2, <2>4, <2>5 DEF ScanTransfered, ScanKnown, Check
<1>6. CASE ScanReclaiming \/ ScanActived
  <2>1. Scanning({PebReclaiming, PebActived})
    BY <1>6 DEF ScanReclaiming, ScanActived, Scanning
  <2>2. PICK x \in Pebs : x = scan.peb BY <1>2, <2>1
  <2>3. Status(x) \in {PebReclaiming, PebActived} BY <1>2, <2>1, <2>2 DEF Status
  <2>4. Writable(hdr[x]) BY <1>1, <2>3, UsedWritable, StatusRanges
  <2> QED BY <1>6, <2>2, <2>4 DEF ScanReclaiming, ScanActived, ScanKnown, Check
<1>7. CASE ScanEmpty
  <2>1. Scanning({PebEmpty}) BY <1>7 DEF ScanEmpty
  <2>2. PICK x \in Pebs : x = scan.peb BY <1>2, <2>1
  <2>3. Status(x) = PebEmpty BY <1>2, <2>1, <2>2 DEF Status
  <2>4. EmptyHeaderOk(hdr[x]) BY <1>1, <2>3, UsedWritable
  <2> QED BY <1>7, <2>2, <2>4 DEF ScanEmpty, Check
<1>8. CASE \/ ScanActiving \/ ScanActivingEmpty \/ ScanUnknown \/ ScanMean \/ FormatUnknown
           \/ AllFormatted
  BY <1>8 DEF ScanActiving, ScanActivingEmpty, ScanUnknown, ScanMean, FormatUnknown, AllFormatted
<1> QED BY <1>4, <1>5, <1>6, <1>7, <1>8 DEF Classify

LEMMA ScanPasses ==
    ASSUME Whole, ScanLogs \/ Recover, pc # "assert"
    PROVE  pc' # "assert"
<1> USE WholeParts
<1>1. CASE ScanFirstCopy
  <2>1. ScanningItems /\ HasItem /\ items[ScannedItem.index].seq = NoSeq /\ pc = "item_scan"
    BY <1>1 DEF ScanFirstCopy, ScanningValid, ScanningItems
  <2>2. PICK i \in Indexes : i = ScannedItem.index BY <2>1, ScannedFacts, ItemFields
  <2>3. Mirrors(View, items, wseq, Pending) /\ sum = Cardinality(Present(items))
    BY <2>1, TableIs
  <2>4. items[i].size = 0 BY <2>1, <2>2, <2>3 DEF Mirrors
  <2>5. i \notin Present(items) BY <2>4 DEF Present
  <2>6. Cardinality(Present(items)) < MaxItems
    <3>1. PICK S : S = Present(items) OBVIOUS
    <3>2. S \in SUBSET Indexes /\ S # Indexes BY <2>2, <2>5, <3>1, IndexFacts
    <3>3. IsFiniteSet(Indexes) /\ Cardinality(Indexes) = MaxItems BY IndexFacts
    <3>4. Cardinality(S) <= MaxItems /\ (Cardinality(S) = MaxItems => S = Indexes)
      BY <3>2, <3>3, FS_Subset
    <3>5. Cardinality(S) \in Nat /\ MaxItems \in Nat BY <3>1, IndexFacts
    <3> QED BY <3>1, <3>2, <3>4, <3>5
  <2> QED BY <1>1, <2>3, <2>6 DEF ScanFirstCopy, Check
<1>2. CASE ScanNewerCopy \/ ScanOlderCopy
  <2>1. ScanningValid /\ ScanningItems /\ HasItem /\ pc = "item_scan"
        /\ items[ScannedItem.index].seq # NoSeq
    BY <1>2 DEF ScanNewerCopy, ScanOlderCopy, ScanningValid, ScanningItems
  <2>2. PICK i \in Indexes : i = ScannedItem.index BY <2>1, ScannedFacts, ItemFields
  <2>3. PICK c \in Current : Scanned(c) /\ c.index = i /\ Header(c) = items[i]
    BY <2>1, <2>2, ScannedHeader
  <2>4. PICK d \in Current : d = ScannedCopy BY <2>1, ScannedValid
  <2>5. ~Scanned(d) /\ d.index = i /\ d.seq = ScannedItem.seq
    BY <2>1, <2>2, <2>4, ScannedValid
  <2>6. c # d BY <2>3, <2>5
  <2>7. ~scan.abnormal BY <2>1, <2>3, <2>5, <2>6 DEF PairInv, NoPairs
  <2>8. c.seq # d.seq BY <2>3, <2>5, <2>6 DEF CopyInv
  <2>9. items[i].seq = c.seq BY <2>3 DEF Header
  <2> QED BY <1>2, <2>2, <2>5, <2>7, <2>8, <2>9
          DEF ScanNewerCopy, ScanOlderCopy, SecondCopyOk, Check
<1>3. CASE RecoverNothing
  <2>1. pc = "item_scan" /\ scan.reclaiming = <<>> BY <1>3 DEF RecoverNothing, ItemScanDone
  <2>2. Classified(PebCount) BY <2>1 DEF BlockInv, ScanInv
  <2>3. scan.transfering = NoPeb
    <3> SUFFICES ASSUME scan.transfering # NoPeb PROVE FALSE OBVIOUS
    <3>1. PICK x \in Pebs : x = scan.transfering BY LocalFields
    <3>2. Status(x) = PebTransfering BY <2>2, <3>1 DEF Classified
    <3>3. PICK y \in Pebs : Status(y) = PebReclaiming BY <3>2 DEF BlockInv, FlashInv
    <3>4. y < PebCount BY PebFacts
    <3>5. y \in Blocks(scan.reclaiming) BY <2>2, <3>3, <3>4 DEF Classified
    <3> QED BY <2>1, <3>5 DEF Blocks
  <2> QED BY <1>3, <2>3 DEF RecoverNothing, Recovery, Check
<1>4. CASE \/ SkipPeb \/ ScanEndOfLog \/ ScanTornItem \/ ScanDeletedItem \/ RecoverTransfering
           \/ RecoverTransfered \/ InitDone
  BY <1>4 DEF SkipPeb, ScanEndOfLog, ScanTornItem, ScanDeletedItem, RecoverTransfering,
              RecoverTransfered, InitDone, Recovery
<1> QED BY <1>1, <1>2, <1>3, <1>4 DEF ScanLogs, Recover

LEMMA CollectPasses ==
    ASSUME Whole, Collect, pc # "assert"
    PROVE  pc' # "assert"
<1> USE WholeParts
<1>1. CASE PickTarget
  <2>1. Reserved # {} BY <1>1 DEF PickTarget, AfterSources, BlockInv, MarkInv
  <2> QED BY <1>1, <2>1 DEF PickTarget, Check
<1>2. CASE CopyItem
  <2>1. /\ SourceCopy \in View /\ SourceCopy.index = SourceItem.index
        /\ SourceCopy.seq = SourceItem.seq /\ pc = "migrate"
    BY <1>2, CopyRedirects
  <2>2. Mirrors(View, items, wseq, Pending)
    BY <2>1, TableIs, FinalFacts DEF CollectLabels
  <2>3. PICK c \in View : c = SourceCopy BY <2>1
  <2>4. items[c.index] = Header(c) BY <2>2 DEF Mirrors
  <2>5. items[SourceItem.index].seq = SourceItem.seq BY <2>1, <2>3, <2>4 DEF Header
  <2>6. gc.dst \in Pebs /\ Status(gc.dst) \in InUse BY <1>2, CopiedTo, StatusRanges
  <2>7. Writable(hdr[gc.dst]) BY <2>6, UsedWritable DEF HeaderInv
  <2> QED BY <1>2, <2>5, <2>7 DEF CopyItem, Check
<1>3. CASE Reclaimed
  BY <1>3, LocalFields DEF Reclaimed, AfterSources, Thens
<1>4. CASE \/ GarbageCollect \/ RelocateEmpty \/ RelocateValid \/ MarkReclaiming \/ StartTransfer
           \/ SourceDone \/ SkipDeleted \/ CommitCopy \/ EndTransfer \/ Reclaim \/ Erase
           \/ MarkEmpty \/ TargetActived
  BY <1>4 DEF GarbageCollect, RelocateEmpty, RelocateValid, MarkReclaiming, StartTransfer,
              SourceDone, SkipDeleted, CommitCopy, EndTransfer, Reclaim, Erase, MarkEmpty,
              TargetActived, Caller, Migrating, AtSource, AfterSources
<1> QED BY <1>1, <1>2, <1>3, <1>4 DEF Collect, Transfer, ReclaimPebs

LEMMA CallPasses ==
    ASSUME Whole, TotalInv, Write \/ Delete \/ Request, pc # "assert"
    PROVE  pc' # "assert"
<1> USE WholeParts
<1>1. CASE WriteItem
  <2>1. pc \in WritingLabels BY <1>1 DEF WriteItem, WritingLabels
  <2>2. w.peb \in Pebs /\ Status(w.peb) \in InUse BY <2>1, WrittenTo DEF HeaderInv
  <2>3. Writable(hdr[w.peb]) BY <2>2, UsedWritable DEF HeaderInv
  <2> QED BY <1>1, <2>3 DEF WriteItem, Check
<1>2. CASE DeleteOld
  <2>1. PICK d \in Current : d.peb = w.oldPeb BY <1>2, ReplacedCopy
  <2>2. Writable(hdr[w.oldPeb]) BY <2>1, LiveWritable
  <2> QED BY <1>2, <2>2 DEF DeleteOld, Check
<1>3. CASE DeleteItem
  <2>1. PICK d \in Current :
          /\ items[d.index] = Header(d) /\ d.index \in Indexes
          /\ pc' = Check(Writable(hdr[d.peb]) /\ vsize >= Footprint(d.val), "delete")
    BY <1>3, DeletedCopy
  <2>2. Writable(hdr[d.peb]) BY LiveWritable
  <2>3. vsize >= Footprint(d.val)
    <3>1. Counts
      <4>1. pc = "delete" BY <1>3 DEF DeleteItem
      <4> QED BY <4>1, CountsFacts
    <3>2. PICK i \in Indexes : i = d.index BY <2>1
    <3>3. d.val # 0
      <4>1. Values \subseteq 1 .. MaxItemSize BY StoreAssumption
      <4>2. \A n \in 1 .. MaxItemSize : n # 0 OBVIOUS
      <4> QED BY <4>1, <4>2, CurrentFields
    <3>4. items[i].size = d.val BY <2>1, <3>2 DEF Header
    <3> QED BY <3>1, <3>3, <3>4, EachCounts
  <2> QED BY <2>1, <2>2, <2>3 DEF Check
<1>4. CASE \/ WriteRefused \/ WriteAccepted \/ AllocateTooMany \/ Allocate \/ MarkValid
           \/ PebActivedNow \/ WriteDone \/ DeleteDone \/ Request
  BY <1>4 DEF WriteRefused, WriteAccepted, AllocateTooMany, Allocate, MarkValid, PebActivedNow,
              WriteDone, DeleteDone, Request, RequestWrite, RequestDelete, Return, ItemCommitted
<1> QED BY <1>1, <1>2, <1>3, <1>4 DEF Write, Delete

LEMMA AssertStep ==
    ASSUME Whole, TotalInv, NoAssert, [Next]_vars
    PROVE  NoAssert'
<1>1. CASE Classify BY <1>1, ClassifyPasses DEF NoAssert
<1>2. CASE ScanLogs \/ Recover BY <1>2, ScanPasses DEF NoAssert
<1>3. CASE Collect BY <1>3, CollectPasses DEF NoAssert
<1>4. CASE Write \/ Delete \/ Request BY <1>4, CallPasses DEF NoAssert
<1>5. CASE PowerOn \/ PowerLoss BY <1>5 DEF PowerOn, PowerLoss, NoAssert
<1>6. CASE UNCHANGED vars BY <1>6 DEF vars, NoAssert
<1> QED BY <1>1, <1>2, <1>3, <1>4, <1>5, <1>6 DEF Next, Run, Boot

\* The inductive invariant with what rests on it.
Entire == Whole /\ TotalInv /\ DoneInv /\ NoAssert

LEMMA EntireHolds == Spec => []Entire
<1>1. Init => Entire
  <2> SUFFICES ASSUME Init PROVE Entire OBVIOUS
  <2>1. Whole BY TypeInit, LocatedInit, BlockInit, DurInit DEF Whole
  <2>2. pc = "off" /\ ~deleted BY DEF Init
  <2>3. ~Counts BY <2>2, CountsFacts DEF CountsNot
  <2> QED BY <2>1, <2>2, <2>3, CountsFacts DEF Entire, DoneInv, NoAssert
<1>2. ASSUME Entire, [Next]_vars PROVE Entire'
  <2>1. Whole /\ TotalInv /\ DoneInv /\ NoAssert BY <1>2 DEF Entire
  <2>2. TypeOK' /\ Located' /\ BlockInv'
    BY <1>2, <2>1, WholeParts, TypeStep, LocatedStep, BlockStep
  <2>3. Whole' BY <1>2, <2>1, <2>2, DurStep DEF Whole
  <2>4. TotalInv' /\ DoneInv' /\ NoAssert'
    BY <1>2, <2>1, <2>2, TotalStep, DoneStep, AssertStep
  <2> QED BY <2>3, <2>4 DEF Entire
<1> QED BY <1>1, <1>2, PTL DEF Spec

\* No error log of the recovery, collection, write or delete code is reached.
THEOREM NeverAsserts == Spec => []NoAssert
<1>1. Entire => NoAssert BY DEF Entire
<1> QED BY <1>1, EntireHolds, PTL

\* Between calls g_valid_data_size and each peb_info_t say exactly what the logs hold.
THEOREM AccountingIsExact == Spec => []AccountingExact
<1>1. Entire => AccountingExact
  <2> SUFFICES ASSUME Whole, TotalInv, pc = "idle"
               PROVE  /\ \A p \in Pebs : ValidIn(p) = ValidBytes(p)
                      /\ \A p \in Pebs : info[p].free \in {0, Capacity - LogSize(log[p])}
                      /\ vsize = SumOver(Pebs, [p \in Pebs |-> ValidBytes(p)])
    BY DEF AccountingExact, Entire
  <2>1. pc \in SettledLabels /\ pc \in SettledLabels \ {"delete_old"} BY DEF SettledLabels
  <2>2. Counts BY CountsFacts
  <2>3. vsize = SumOver(Indexes, TableBytes) BY <2>2, CountsFacts
  <2> QED BY <2>1, <2>3, TableTotal, FreeIs
<1> QED BY <1>1, EntireHolds, PTL

-----------------------------------------------------------------------------
(* The abstract store: what each step does to what a restart would recover. *)
NoneMissing == \A k \in Keys : (\A c \in Current : c.key # k) => Durable(k) = Missing
NewestHeld == \A k \in Keys : \A c \in Current : Newest(c, k) => Durable(k) = c.val

LEMMA Recovered == Whole => NoneMissing /\ NewestHeld
<1> SUFFICES ASSUME Whole PROVE NoneMissing /\ NewestHeld OBVIOUS
<1>1. TypeOK /\ LogInv /\ CopyInv BY WholeParts
<1> QED BY <1>1, DurableNone, DurableNewest DEF NoneMissing, NewestHeld

LEMMA RecoveredNext ==
    ASSUME Whole'
    PROVE  /\ \A k \in Keys : (\A c \in Current' : c.key # k) => Durable(k)' = Missing
           /\ \A k \in Keys : \A c \in Current' :
                 c.key = k /\ (\A d \in Current' : d.key = k => d.seq <= c.seq)
                    => Durable(k)' = c.val
<1>1. Whole' => NoneMissing' /\ NewestHeld' BY Recovered, PTL
<1>2. NoneMissing' /\ NewestHeld' BY <1>1
<1> QED BY <1>2 DEF NoneMissing, NewestHeld, Newest

\* Of the copies of a key one is the newest.
LEMMA NewestExists ==
    ASSUME Whole, NEW k \in Keys, NEW c \in Current, c.key = k
    PROVE  \E d \in Current : Newest(d, k)
<1> USE WholeParts
<1>1. \A d \in Current : d.seq \in Nat BY CurrentFields
<1>2. CASE \A d \in Current : d.key = k => d = c
  <2>1. c.seq <= c.seq BY <1>1
  <2> QED BY <1>2, <2>1 DEF Newest
<1>3. ASSUME NEW d \in Current, d.key = k, d # c
      PROVE  \E e \in Current : Newest(e, k)
  <2>1. c.index = d.index BY <1>3 DEF CopyInv
  <2>2. \A e \in Current : e.key = k => e \in {c, d}
    <3> SUFFICES ASSUME NEW e \in Current, e.key = k, e # c PROVE e = d OBVIOUS
    <3>1. e.index = c.index BY DEF CopyInv
    <3>2. e \in {c, d} BY <1>3, <2>1, <3>1 DEF CopyInv
    <3> QED BY <3>2
  <2>3. CASE d.seq <= c.seq
    <3>1. c.seq <= c.seq BY <1>1
    <3> QED BY <2>2, <2>3, <3>1 DEF Newest
  <2>4. CASE c.seq <= d.seq
    <3>1. d.seq <= d.seq BY <1>1
    <3> QED BY <1>3, <2>2, <2>4, <3>1 DEF Newest
  <2>5. c.seq <= d.seq \/ d.seq <= c.seq BY <1>1
  <2> QED BY <2>3, <2>4, <2>5
<1> QED BY <1>2, <1>3

\* The newest copy of k has a like that is the newest after the step.
LEMMA KeepsDurable ==
    ASSUME Whole, Whole', NEW k \in Keys,
           \A c \in Current : Newest(c, k) =>
              \E d \in Current' : /\ d.key = k /\ d.val = c.val
                                  /\ \A e \in Current' : e.key = k => e.seq <= d.seq,
           (\A c \in Current : c.key # k) => \A c \in Current' : c.key # k
    PROVE  Durable(k)' = Durable(k)
<1>1. CASE \A c \in Current : c.key # k
  <2>1. Durable(k) = Missing BY <1>1, Recovered DEF NoneMissing
  <2>2. Durable(k)' = Missing BY <1>1, RecoveredNext
  <2> QED BY <2>1, <2>2
<1>2. ASSUME NEW b \in Current, b.key = k PROVE Durable(k)' = Durable(k)
  <2>1. PICK c \in Current : Newest(c, k) BY <1>2, NewestExists
  <2>2. Durable(k) = c.val BY <2>1, Recovered DEF NewestHeld
  <2>3. PICK d \in Current' : /\ d.key = k /\ d.val = c.val
                              /\ \A e \in Current' : e.key = k => e.seq <= d.seq
    BY <2>1
  <2>4. Durable(k)' = d.val BY <2>3, RecoveredNext
  <2> QED BY <2>2, <2>3, <2>4
<1> QED BY <1>1, <1>2

LEMMA DurableSame ==
    ASSUME Whole, Whole', Current' = Current
    PROVE  \A k \in Keys : Durable(k)' = Durable(k)
<1> SUFFICES ASSUME NEW k \in Keys PROVE Durable(k)' = Durable(k) OBVIOUS
<1>1. \A c \in Current : Newest(c, k) =>
         \E d \in Current' : /\ d.key = k /\ d.val = c.val
                             /\ \A e \in Current' : e.key = k => e.seq <= d.seq
  BY DEF Newest
<1> QED BY <1>1, KeepsDurable

\* A copy goes that is not the newest.
LEMMA DurableOlder ==
    ASSUME Whole, Whole', NEW x \in Current, NEW y \in Current, x # y, x.key = y.key,
           x.seq < y.seq, Current' = Current \ {x}
    PROVE  \A k \in Keys : Durable(k)' = Durable(k)
<1> USE WholeParts
<1> SUFFICES ASSUME NEW k \in Keys PROVE Durable(k)' = Durable(k) OBVIOUS
<1>1. ~(y.seq <= x.seq)
  <2>1. x.seq \in Nat /\ y.seq \in Nat BY CurrentFields
  <2> QED BY <2>1
<1>2. ~Newest(x, k) BY <1>1 DEF Newest
<1>3. \A c \in Current : Newest(c, k) =>
         \E d \in Current' : /\ d.key = k /\ d.val = c.val
                             /\ \A e \in Current' : e.key = k => e.seq <= d.seq
  BY <1>2 DEF Newest
<1> QED BY <1>3, KeepsDurable

LEMMA DurableScan ==
    ASSUME Whole, Whole', ScanNewerCopy \/ ScanOlderCopy
    PROVE  \A k \in Keys : Durable(k)' = Durable(k)
<1> USE WholeParts
<1>1. ScanningValid /\ ScanningItems /\ HasItem /\ pc = "item_scan"
      /\ items[ScannedItem.index].seq # NoSeq
  BY DEF ScanNewerCopy, ScanOlderCopy, ScanningValid, ScanningItems
<1>2. PICK i \in Indexes : i = ScannedItem.index BY <1>1, ScannedFacts, ItemFields
<1>3. PICK c \in Current : Scanned(c) /\ c.index = i /\ Header(c) = items[i]
  BY <1>1, <1>2, ScannedHeader
<1>4. PICK d \in Current : d = ScannedCopy BY <1>1, ScannedValid
<1>5. /\ ~Scanned(d) /\ d.index = i /\ d.seq = ScannedItem.seq
      /\ d.peb = scan.peb /\ d.off = ScannedItem.off
  BY <1>1, <1>2, <1>4, ScannedValid
<1>6. /\ c # d /\ c.seq # d.seq /\ c.key = d.key /\ c.seq \in Nat /\ d.seq \in Nat
  <2>1. c # d BY <1>3, <1>5
  <2> QED BY <1>3, <1>5, <2>1, CurrentFields DEF CopyInv
<1>7. items[i].seq = c.seq /\ items[i].peb = c.peb /\ items[i].off = c.off
  BY <1>3 DEF Header
<1>8. CASE ScanNewerCopy
  <2>1. c.seq < d.seq BY <1>2, <1>5, <1>7, <1>8 DEF ScanNewerCopy
  <2>2. Current' = {x \in Current : ~(x.peb = c.peb /\ x.off = c.off)}
    BY <1>2, <1>7, <1>8, ScanNewerCurrent
  <2>3. Current' = Current \ {c} BY <2>2, CurrentFields
  <2> QED BY <1>6, <2>1, <2>3, DurableOlder
<1>9. CASE ScanOlderCopy
  <2>1. c.seq >= d.seq BY <1>2, <1>5, <1>7, <1>9 DEF ScanOlderCopy
  <2>2. d.seq < c.seq BY <1>6, <2>1
  <2>3. Current' = {x \in Current : ~(x.peb = d.peb /\ x.off = d.off)}
    BY <1>5, <1>9, ScanOlderCurrent
  <2>4. Current' = Current \ {d} BY <2>3, CurrentFields
  <2> QED BY <1>6, <2>2, <2>4, DurableOlder
<1> QED BY <1>8, <1>9

LEMMA DurableMoved ==
    ASSUME Whole, Whole', EndTransfer
    PROVE  \A k \in Keys : Durable(k)' = Durable(k)
<1> USE WholeParts
<1> SUFFICES ASSUME NEW k \in Keys PROVE Durable(k)' = Durable(k) OBVIOUS
<1>1. Current' = View BY EndTransferCurrent
<1>2. /\ \A c \in View : \E d \in Current : Alike(c, d)
      /\ \A d \in Current : \E c \in View : Alike(c, d)
      /\ \A c, d \in View : c.index = d.index => c = d
  BY MovedFrom
<1>3. ASSUME NEW c \in Current, Newest(c, k)
      PROVE  \E d \in View : /\ d.key = k /\ d.val = c.val
                             /\ \A e \in View : e.key = k => e.seq <= d.seq
  <2>1. PICK v \in View : Alike(v, c) BY <1>2
  <2>2. v.key = k /\ v.val = c.val /\ v.index = c.index /\ v.seq = c.seq /\ c.seq \in Nat
    BY <1>3, <2>1, CurrentFields DEF Newest, Alike
  <2>3. \A e \in View : e.key = k => e = v
    <3> SUFFICES ASSUME NEW e \in View, e.key = k PROVE e = v OBVIOUS
    <3>1. PICK d \in Current : Alike(e, d) BY <1>2
    <3>2. d.key = k /\ e.index = d.index BY <3>1 DEF Alike
    <3>3. d.index = c.index BY <1>3, <3>2 DEF CopyInv, Newest
    <3> QED BY <1>2, <2>2, <3>2, <3>3
  <2>4. v.seq <= v.seq BY <2>2
  <2> QED BY <2>2, <2>3, <2>4
<1>4. (\A c \in Current : c.key # k) => \A c \in View : c.key # k
  <2> SUFFICES ASSUME \A c \in Current : c.key # k, NEW c \in View PROVE c.key # k OBVIOUS
  <2>1. PICK d \in Current : Alike(c, d) BY <1>2
  <2> QED BY <2>1 DEF Alike
<1> QED BY <1>1, <1>3, <1>4, KeepsDurable

\* The commit of a copy is the instant a write takes effect.
LEMMA DurableWritten ==
    ASSUME Whole, Whole', AtWriting, Current' = Current \cup {NewCopy}
    PROVE  \E k \in Keys : /\ k = req.key /\ Durable(k)' = req.val
                         /\ \A l \in Keys \ {k} : Durable(l)' = Durable(l)
<1> USE WholeParts
<1>1. PICK n : n = NewCopy OBVIOUS
<1>2. n.key = req.key /\ n.seq = wseq /\ n.val = req.val BY <1>1 DEF NewCopy
<1>3. \A c \in Current : c.seq < wseq /\ c.seq \in Nat BY OldUnique, CurrentFields
<1>4. wseq \in Nat BY DEF TypeOK
<1>5. req.key \in Keys
  <2>1. pc \in CallLabels BY DEF AtWriting, CallLabels
  <2> QED BY <2>1, ReqFacts
<1>6. n \in Current' /\ \A d \in Current' : d.seq <= n.seq
  <2>1. wseq <= wseq BY <1>4
  <2>2. \A c \in Current : c.seq <= wseq BY <1>3, <1>4
  <2> QED BY <1>1, <1>2, <2>1, <2>2
<1>7. PICK x \in Keys : x = req.key BY <1>5
<1>8. Durable(x)' = req.val
  <2>1. Durable(x)' = n.val BY <1>2, <1>6, <1>7, RecoveredNext
  <2> QED BY <1>2, <2>1
<1>9. ASSUME NEW k \in Keys, k # x PROVE Durable(k)' = Durable(k)
  <2>1. \A c \in Current' : c.key = k => c \in Current BY <1>1, <1>2, <1>7, <1>9
  <2>2. \A c \in Current : c \in Current' OBVIOUS
  <2>3. \A c \in Current : Newest(c, k) =>
           \E d \in Current' : /\ d.key = k /\ d.val = c.val
                               /\ \A e \in Current' : e.key = k => e.seq <= d.seq
    BY <2>1, <2>2 DEF Newest
  <2>4. (\A c \in Current : c.key # k) => \A c \in Current' : c.key # k BY <2>1
  <2> QED BY <2>3, <2>4, KeepsDurable
<1> QED BY <1>7, <1>8, <1>9

\* The discard of its copy is the instant an item is deleted.
LEMMA DurableRemoved ==
    ASSUME Whole, Whole', NoPairs, NEW x \in Current, Current' = Current \ {x}
    PROVE  /\ \A k \in Keys \ {x.key} : Durable(k)' = Durable(k)
           /\ x.key \in Keys /\ Durable(x.key) # Missing /\ Durable(x.key)' = Missing
<1> USE WholeParts
<1>1. x.key \in Keys /\ x.val \in Values /\ x.seq \in Nat BY CurrentFields
<1>2. PICK k \in Keys : k = x.key BY <1>1
<1>3. \A c \in Current : c.key = k => c = x BY <1>2 DEF NoPairs, CopyInv
<1>4. Durable(k) = x.val
  <2>1. x.seq <= x.seq BY <1>1
  <2>2. Newest(x, k) BY <1>2, <1>3, <2>1 DEF Newest
  <2> QED BY <2>2, Recovered DEF NewestHeld
<1>5. Durable(k)' = Missing
  <2>1. \A c \in Current' : c.key # k BY <1>3
  <2> QED BY <2>1, RecoveredNext
<1>6. x.val # Missing BY <1>1, StoreAssumption
<1>7. ASSUME NEW l \in Keys, l # x.key PROVE Durable(l)' = Durable(l)
  <2>1. \A c \in Current : Newest(c, l) =>
           \E d \in Current' : /\ d.key = l /\ d.val = c.val
                               /\ \A e \in Current' : e.key = l => e.seq <= d.seq
    BY <1>7 DEF Newest
  <2> QED BY <2>1, KeepsDurable
<1> QED BY <1>2, <1>4, <1>5, <1>6, <1>7

-----------------------------------------------------------------------------
(* The steps of the abstract store. *)
KvNow == [k \in Keys |-> Durable(k)]
DoneNow == deleted \/ pc \in {"delete_old", "written"}

LEMMA KvInit == Init => Kv!Init
<1> SUFFICES ASSUME Init PROVE Kv!Init OBVIOUS
<1>1. Whole BY TypeInit, LocatedInit, BlockInit, DurInit DEF Whole
<1>2. Current = {} BY InitFlash
<1>3. \A k \in Keys : Durable(k) = Missing BY <1>1, <1>2, Recovered DEF NoneMissing
<1>4. req = NoReq /\ deleted = FALSE /\ pc = "off" /\ ret = "NONE" BY DEF Init
<1>5. (deleted \/ pc \in {"delete_old", "written"}) = FALSE BY <1>4
<1> QED BY <1>3, <1>4, <1>5 DEF Kv!Init

LEMMA KvStutter ==
    ASSUME \A k \in Keys : Durable(k)' = Durable(k), req' = req, ret' = ret,
           DoneNow' = DoneNow
    PROVE  UNCHANGED Kv!vars
<1>1. KvNow' = KvNow BY DEF KvNow
<1> QED BY <1>1 DEF Kv!vars, KvNow, DoneNow

\* Neither the call nor what is durable changes.
LEMMA KvQuiet ==
    ASSUME Entire, Entire', \A k \in Keys : Durable(k)' = Durable(k), UNCHANGED call,
           pc \in {"delete_old", "written"} <=> pc' \in {"delete_old", "written"}
    PROVE  UNCHANGED Kv!vars
<1>1. req' = req /\ ret' = ret /\ deleted' = deleted BY DEF call
<1>2. DoneNow' = DoneNow BY <1>1 DEF DoneNow
<1> QED BY <1>1, <1>2, KvStutter

\* No call is executing between calls.
IdleInv == pc = "idle" => req = NoReq

LEMMA IdleStep ==
    ASSUME Whole, IdleInv, [Next]_vars
    PROVE  IdleInv'
<1> USE WholeParts
<1> SUFFICES ASSUME pc' = "idle" PROVE req' = NoReq BY DEF IdleInv
<1>1. CASE Still
  <2>1. CASE InitDone
    <3>1. pc = "init" /\ req' = req BY <2>1 DEF InitDone, call
    <3> QED BY <3>1 DEF Located, BootLabels
  <2>2. CASE WriteRefused \/ WriteDone \/ DeleteDone
    BY <2>2 DEF WriteRefused, WriteDone, DeleteDone, Return
  <2>3. CASE \/ RecoverTransfering \/ RecoverTransfered \/ RecoverNothing \/ GarbageCollect
             \/ RelocateEmpty \/ RelocateValid \/ WriteAccepted \/ AllocateTooMany \/ Request
    BY <2>3 DEF RecoverTransfering, RecoverTransfered, RecoverNothing, Recovery, GarbageCollect,
                RelocateEmpty, RelocateValid, WriteAccepted, AllocateTooMany, Request,
                RequestWrite, RequestDelete, Check
  <2>4. CASE SourceDone \/ SkipDeleted
    BY <2>4 DEF SourceDone, SkipDeleted, Migrating, AtSource
  <2>5. CASE Reclaimed
    <3>1. pc' = gc.then /\ gc.then \in {"alloc", "init", "relocate", "actived"}
      BY <2>5, LocalFields DEF Reclaimed, Gcs
    <3> QED BY <3>1
  <2> QED BY <1>1, <2>1, <2>2, <2>3, <2>4, <2>5 DEF Still
<1>2. CASE Classify BY <1>2, ClassifyEnds
<1>3. CASE ScanLook BY <1>3, LookFacts
<1>4. CASE ScanNewerCopy \/ ScanOlderCopy
  BY <1>4 DEF ScanNewerCopy, ScanOlderCopy, SecondCopyOk, Check
<1>5. CASE CalmMarks \/ EndTransfer \/ CopyItem \/ CommitCopy \/ Erase \/ MarkEmpty
  BY <1>5 DEF CalmMarks, MarkReclaiming, StartTransfer, Reclaim, TargetActived, PickTarget, Caller,
              EndTransfer, CopyItem, CommitCopy, Erase, MarkEmpty, AtSource, AfterSources, Check
<1>6. CASE WriteItem \/ MarkValid \/ PebActivedNow \/ DeleteOld \/ DeleteItem \/ Allocate
  BY <1>6 DEF WriteItem, MarkValid, PebActivedNow, DeleteOld, DeleteItem, Allocate, ItemCommitted,
              Check
<1>7. CASE PowerOn \/ PowerLoss BY <1>7 DEF PowerOn, PowerLoss
<1>8. CASE UNCHANGED vars BY <1>8 DEF vars, call, IdleInv
<1> QED BY <1>1, <1>2, <1>3, <1>4, <1>5, <1>6, <1>7, <1>8, Groups

\* The steps the abstract store does not see.
Unseen ==
    \/ PowerOn \/ Classify \/ ScanLook \/ ScanNewerCopy \/ ScanOlderCopy
    \/ RecoverTransfering \/ RecoverTransfered \/ RecoverNothing \/ InitDone
    \/ GarbageCollect \/ RelocateEmpty \/ RelocateValid \/ SourceDone \/ SkipDeleted \/ Reclaimed
    \/ CalmMarks \/ CopyItem \/ CommitCopy \/ EndTransfer \/ Erase \/ MarkEmpty
    \/ WriteAccepted \/ Allocate \/ WriteItem

LEMMA UnseenStep ==
    ASSUME Entire, Entire', Unseen
    PROVE  UNCHANGED Kv!vars
<1>1. Whole /\ Whole' BY DEF Entire
<1> USE WholeParts, <1>1
<1>2. \A k \in Keys : Durable(k)' = Durable(k)
  <2>1. CASE EndTransfer BY <2>1, DurableMoved
  <2>2. CASE ScanNewerCopy \/ ScanOlderCopy BY <2>2, DurableScan
  <2>3. TypeOK' BY DEF Whole
  <2>4. CASE ~(EndTransfer \/ ScanNewerCopy \/ ScanOlderCopy)
    BY <2>3, <2>4, CurrentSame, DurableSame DEF Unseen, Still
  <2> QED BY <2>1, <2>2, <2>4
<1>3. UNCHANGED call /\ pc \notin {"delete_old", "written"} /\ pc' \notin {"delete_old", "written"}
  <2>1. CASE Classify
    <3>1. UNCHANGED call
      BY <2>1 DEF Classify, ScanActiving, ScanActivingEmpty, ScanTransfering, ScanTransfered,
                  ScanReclaiming, ScanActived, ScanEmpty, ScanUnknown, ScanMean, FormatUnknown,
                  AllFormatted, ScanKnown, call
    <3> QED BY <2>1, <3>1, ClassifyEnds
  <2>2. CASE ScanLook
    <3>1. UNCHANGED call
      BY <2>2 DEF ScanLook, SkipPeb, ScanEndOfLog, ScanTornItem, ScanDeletedItem, ScanFirstCopy,
                  ScanningValid, call
    <3> QED BY <2>2, <3>1, LookFacts
  <2>3. CASE ScanNewerCopy \/ ScanOlderCopy
    BY <2>3 DEF ScanNewerCopy, ScanOlderCopy, SecondCopyOk, Check, ScanningValid, ScanningItems,
                call
  <2>4. CASE Reclaimed
    <3>1. pc' = gc.then /\ gc.then \in {"alloc", "init", "relocate", "actived"}
      BY <2>4, LocalFields DEF Reclaimed, Gcs
    <3> QED BY <2>4, <3>1 DEF Reclaimed, AfterSources, call
  <2>5. CASE \/ PowerOn \/ RecoverTransfering \/ RecoverTransfered \/ RecoverNothing \/ InitDone
             \/ GarbageCollect \/ RelocateEmpty \/ RelocateValid \/ SourceDone \/ SkipDeleted
    BY <2>5 DEF PowerOn, RecoverTransfering, RecoverTransfered, RecoverNothing, Recovery,
                ItemScanDone, InitDone, GarbageCollect, RelocateEmpty, RelocateValid, SourceDone,
                SkipDeleted, Migrating, AtSource, Check, call
  <2>6. CASE CalmMarks
    BY <2>6 DEF CalmMarks, MarkReclaiming, StartTransfer, Reclaim, TargetActived, PickTarget,
                Caller, AtSource, AfterSources, Check, call
  <2>7. CASE \/ CopyItem \/ CommitCopy \/ EndTransfer \/ Erase \/ MarkEmpty \/ WriteAccepted
             \/ Allocate \/ WriteItem
    BY <2>7 DEF CopyItem, CommitCopy, EndTransfer, Erase, MarkEmpty, WriteAccepted, Allocate,
                Allocating, WriteItem, Migrating, AtSource, AfterSources, Check, call
  <2> QED BY <2>1, <2>2, <2>3, <2>4, <2>5, <2>6, <2>7 DEF Unseen
<1> QED BY <1>2, <1>3, KvQuiet

\* A call is answered.
LEMMA KvReply ==
    ASSUME \A k \in Keys : Durable(k)' = Durable(k), NEW s, ret' = s, req' = NoReq,
           ~deleted', pc' \notin {"delete_old", "written"}
    PROVE  Kv!Reply(s)
<1>1. KvNow' = KvNow BY DEF KvNow
<1>2. DoneNow' = FALSE BY DEF DoneNow
<1> QED BY <1>1, <1>2 DEF Kv!Reply, KvNow, DoneNow

LEMMA ReqKinds ==
    /\ \A r \in WriteReq : r.op = "write" /\ r # NoReq /\ r.key \in Keys
    /\ \A r \in DeleteReq : r.op = "delete" /\ r # NoReq /\ r.keys \subseteq Keys
<1>1. \A r \in WriteReq : r.op = "write" /\ r # NoReq /\ r.key \in Keys
  BY RequestAssumption DEF WriteReq
<1>2. \A r \in DeleteReq : r.op = "delete" /\ r # NoReq /\ r.keys \in KeySets
  BY RequestAssumption DEF DeleteReq
<1> QED BY <1>1, <1>2, StoreAssumption

LEMMA KvAnswers ==
    ASSUME Entire, Entire',
           WriteRefused \/ AllocateTooMany \/ WriteDone \/ DeleteDone \/ PowerLoss
    PROVE  Kv!Next
<1>1. Whole /\ Whole' /\ DoneInv BY DEF Entire
<1> USE WholeParts, <1>1
<1>2. \A k \in Keys : Durable(k)' = Durable(k)
  <2>1. TypeOK' BY DEF Whole
  <2> QED BY <2>1, CurrentSame, DurableSame DEF Still
<1>3. CASE PowerLoss
  <2>1. ret' = "NONE" /\ req' = NoReq /\ ~deleted' /\ pc' = "off" BY <1>3 DEF PowerLoss
  <2>2. Kv!Reply("NONE") BY <1>2, <2>1, KvReply
  <2> QED BY <2>2 DEF Kv!Next, Kv!PowerLoss
<1>4. CASE WriteRefused \/ AllocateTooMany
  <2>1. pc \in {"write", "alloc"}
    BY <1>4 DEF WriteRefused, AllocateTooMany, Allocating
  <2>2. req \in WriteReq /\ ~deleted
    BY <2>1 DEF Located, CallLabels, DoneInv
  <2>3. req # NoReq /\ req.op = "write" /\ DoneNow = FALSE BY <2>1, <2>2, ReqKinds DEF DoneNow
  <2>4. PICK s \in {"ERROR", "INSUFFICIENT_SPACE"} : ret' = s
    BY <1>4 DEF WriteRefused, AllocateTooMany, Return
  <2>5. req' = NoReq /\ ~deleted' /\ pc' \notin {"delete_old", "written"}
    BY <1>4, <2>2 DEF WriteRefused, AllocateTooMany, Return
  <2>6. Kv!Reply(s) BY <1>2, <2>4, <2>5, KvReply
  <2> QED BY <2>3, <2>6 DEF Kv!Next, Kv!ReplyRefused, DoneNow
<1>5. CASE WriteDone
  <2>1. pc = "written" BY <1>5 DEF WriteDone
  <2>2. req \in WriteReq BY <2>1 DEF Located, CallLabels
  <2>3. req # NoReq /\ req.op = "write" /\ DoneNow = TRUE BY <2>1, <2>2, ReqKinds DEF DoneNow
  <2>4. Kv!Reply("OK")
    <3>1. ret' = "OK" /\ req' = NoReq /\ ~deleted' /\ pc' = "idle" BY <1>5 DEF WriteDone, Return
    <3> QED BY <1>2, <3>1, KvReply
  <2> QED BY <2>3, <2>4 DEF Kv!Next, Kv!ReplyOK, DoneNow
<1>6. CASE DeleteDone
  <2>1. pc = "delete" /\ Found(req.keys) = {} BY <1>6 DEF DeleteDone
  <2>2. req \in DeleteReq BY <2>1 DEF Located
  <2>3. req # NoReq /\ req.op = "delete" /\ req.keys \subseteq Keys BY <2>2, ReqKinds
  <2>4. DoneNow = deleted BY <2>1 DEF DoneNow, TypeOK
  <2>5. \A k \in req.keys : KvNow[k] = Missing
    <3>1. pc \in PlainLabels
      BY <2>1 DEF PlainLabels, FinalLabels, SettledLabels, WritingLabels
    <3>2. \A c \in Current : c.key \notin req.keys
      <4>1. PICK K : K = req.keys OBVIOUS
      <4>2. \A i : i \in Found(K) <=>
                     i \in Indexes /\ \E c \in Current : c.index = i /\ c.key \in K
        BY <3>1, FoundIs
      <4> QED BY <2>1, <4>1, <4>2, CurrentFields
    <3>3. \A k \in req.keys : Durable(k) = Missing
      BY <2>3, <3>2, Recovered DEF NoneMissing
    <3> QED BY <2>3, <3>3 DEF KvNow
  <2>6. req' = NoReq /\ ~deleted' /\ pc' = "idle"
        /\ ret' = IF deleted THEN "OK" ELSE "ITEM_NOT_FOUND"
    BY <1>6 DEF DeleteDone, Return
  <2>7. CASE deleted
    <3>1. Kv!Reply("OK") BY <1>2, <2>6, <2>7, KvReply
    <3> QED BY <2>3, <2>4, <2>5, <2>7, <3>1 DEF Kv!Next, Kv!ReplyOK, DoneNow, KvNow
  <2>8. CASE ~deleted
    <3>1. Kv!Reply("ITEM_NOT_FOUND") BY <1>2, <2>6, <2>8, KvReply
    <3>2. DoneNow = FALSE BY <2>4, <2>8
    <3> QED BY <2>3, <2>5, <3>1, <3>2 DEF Kv!Next, Kv!ReplyNotFound, DoneNow, KvNow
  <2> QED BY <2>7, <2>8
<1> QED BY <1>3, <1>4, <1>5, <1>6

LEMMA KvRequests ==
    ASSUME Entire, Entire', IdleInv, Request
    PROVE  Kv!Next
<1>1. Whole /\ Whole' /\ DoneInv BY DEF Entire
<1> USE WholeParts, <1>1
<1>2. \A k \in Keys : Durable(k)' = Durable(k)
  <2>1. TypeOK' BY DEF Whole
  <2> QED BY <2>1, CurrentSame, DurableSame DEF Still
<1>3. /\ pc = "idle" /\ req' \in WriteReq \cup DeleteReq /\ ret' = "NONE" /\ deleted' = FALSE
      /\ pc' \in {"write", "delete"}
  BY DEF Request, RequestWrite, RequestDelete
<1>4. req = NoReq BY <1>3 DEF IdleInv
<1>5. KvNow' = KvNow BY <1>2 DEF KvNow
<1>6. DoneNow' = FALSE BY <1>3 DEF DoneNow
<1>7. Kv!WriteReq = WriteReq /\ Kv!DeleteReq = DeleteReq
  BY DEF Kv!WriteReq, Kv!DeleteReq, WriteReq, DeleteReq
<1> QED BY <1>3, <1>4, <1>5, <1>6, <1>7 DEF Kv!Next, Kv!Request, KvNow, DoneNow

\* The commit of the new copy, by its own status byte or by that of its fresh block.
LEMMA KvWrites ==
    ASSUME Entire, Entire', MarkValid \/ PebActivedNow
    PROVE  [Kv!Next]_(Kv!vars)
<1>1. Whole /\ Whole' /\ DoneInv BY DEF Entire
<1> USE WholeParts, <1>1
<1>2. /\ AtWriting /\ UNCHANGED call /\ pc \notin {"delete_old", "written"}
      /\ pc \in {"valid", "peb_actived"}
  BY DEF MarkValid, PebActivedNow, AtWriting, WritingLabels
<1>3. CASE MarkValid /\ w.fresh
  <2>1. pc' = "peb_actived" /\ Current' = Current BY <1>3, MarkValidCurrent DEF MarkValid
  <2>2. \A k \in Keys : Durable(k)' = Durable(k) BY <2>1, DurableSame
  <2> QED BY <1>2, <2>1, <2>2, KvQuiet
<1>4. CASE PebActivedNow \/ ~w.fresh
  <2>1. pc' \in {"delete_old", "written"} /\ Current' = Current \cup {NewCopy}
    BY <1>4, MarkValidCurrent, PebActivedNowCurrent DEF MarkValid, PebActivedNow, ItemCommitted
  <2>2. PICK k \in Keys : /\ k = req.key /\ Durable(k)' = req.val
                          /\ \A l \in Keys \ {k} : Durable(l)' = Durable(l)
    BY <1>2, <2>1, DurableWritten
  <2>3. KvNow' = [KvNow EXCEPT ![req.key] = req.val] BY <2>2 DEF KvNow
  <2>4. DoneNow = FALSE /\ DoneNow' = TRUE
    BY <1>2, <2>1 DEF DoneInv, DoneNow, AtWriting, WritingLabels
  <2>5. req # NoReq /\ req.op = "write"
    <3>1. req \in WriteReq BY <1>2 DEF Located, CallLabels, AtWriting
    <3> QED BY <3>1, ReqKinds
  <2>6. req' = req /\ ret' = ret BY <1>2 DEF call
  <2> QED BY <2>3, <2>4, <2>5, <2>6 DEF Kv!Next, Kv!Write, KvNow, DoneNow
<1> QED BY <1>3, <1>4

\* The old copy goes once the new one counts.
LEMMA KvDeletesOld ==
    ASSUME Entire, Entire', DeleteOld
    PROVE  UNCHANGED Kv!vars
<1>1. Whole /\ Whole' BY DEF Entire
<1> USE WholeParts, <1>1
<1>2. pc = "delete_old" /\ UNCHANGED call /\ pc' = "written"
  <2>1. pc' # "assert" BY DEF Entire, NoAssert
  <2> QED BY <2>1 DEF DeleteOld, Check, call
<1>3. PICK d \in Current, c \in Current :
        d.index = w.index /\ c.index = w.index /\ c # d /\ d.seq < c.seq /\ Current' = Current \ {d}
  BY ReplacedCopy
<1>4. d.key = c.key BY <1>3 DEF CopyInv
<1>5. \A k \in Keys : Durable(k)' = Durable(k) BY <1>3, <1>4, DurableOlder
<1> QED BY <1>2, <1>5, KvQuiet

\* An item is deleted.
LEMMA KvRemoves ==
    ASSUME Entire, Entire', DeleteItem
    PROVE  Kv!Next
<1>1. Whole /\ Whole' BY DEF Entire
<1> USE WholeParts, <1>1
<1>2. pc = "delete" /\ req' = req /\ ret' = ret /\ deleted' = TRUE BY DEF DeleteItem
<1>3. PICK d \in Current : d.key \in req.keys /\ Current' = Current \ {d} BY DeletedCopy
<1>4. NoPairs
  <2>1. pc \in PairLabels BY <1>2 DEF PairLabels, FinalLabels, SettledLabels
  <2> QED BY <2>1 DEF PairInv
<1>5. /\ \A k \in Keys \ {d.key} : Durable(k)' = Durable(k)
      /\ d.key \in Keys /\ Durable(d.key) # Missing /\ Durable(d.key)' = Missing
  BY <1>3, <1>4, DurableRemoved
<1>6. PICK k \in Keys : k = d.key BY <1>5
<1>7. KvNow[k] # Missing /\ KvNow' = [KvNow EXCEPT ![k] = Missing] BY <1>5, <1>6 DEF KvNow
<1>8. DoneNow' = TRUE BY <1>2 DEF DoneNow
<1>9. req # NoReq /\ req.op = "delete"
  <2>1. req \in DeleteReq BY <1>2 DEF Located
  <2> QED BY <2>1, ReqKinds
<1> QED BY <1>2, <1>3, <1>6, <1>7, <1>8, <1>9 DEF Kv!Next, Kv!Remove, KvNow, DoneNow

LEMMA KvStep ==
    ASSUME Entire, Entire', IdleInv, [Next]_vars
    PROVE  [Kv!Next]_(Kv!vars)
<1>1. CASE Unseen BY <1>1, UnseenStep
<1>2. CASE WriteRefused \/ AllocateTooMany \/ WriteDone \/ DeleteDone \/ PowerLoss
  BY <1>2, KvAnswers
<1>3. CASE Request BY <1>3, KvRequests
<1>4. CASE MarkValid \/ PebActivedNow BY <1>4, KvWrites
<1>5. CASE DeleteOld BY <1>5, KvDeletesOld
<1>6. CASE DeleteItem BY <1>6, KvRemoves
<1>7. CASE UNCHANGED vars
  <2>1. \A k \in Keys : Durable(k)' = Durable(k)
    <3>1. UNCHANGED <<hdr, log>> BY <1>7 DEF vars, flash
    <3> QED BY <3>1 DEF Durable, Copies, Live
  <2> QED BY <1>7, <2>1, KvQuiet DEF vars
<1> QED BY <1>1, <1>2, <1>3, <1>4, <1>5, <1>6, <1>7, Groups DEF Unseen, Still

\* The engine, recoveries and collections included, implements the atomic, durable
\* store: every step is one of NvdmKv or changes nothing it shows.
THEOREM ImplementsKv == Spec => KvSpec
<1>1. Init => IdleInv BY DEF Init, IdleInv
<1>2. Entire /\ IdleInv /\ [Next]_vars => IdleInv' BY IdleStep DEF Entire
<1>3. Entire /\ Entire' /\ IdleInv /\ [Next]_vars => [Kv!Next]_(Kv!vars) BY KvStep
<1>4. Spec => []Entire BY EntireHolds
<1> QED BY <1>1, <1>2, <1>3, <1>4, KvInit, PTL DEF Spec, KvSpec, Kv!Spec

-----------------------------------------------------------------------------
(* Status bytes are only cleared.  find_free_peb hands out a block with all of its    *)
(* space free as a fresh one: only one of the reserve, since a block in use holds an  *)
(* item. *)
Filled == {PebActived, PebTransfered, PebReclaiming}
FilledInv == \A p \in Pebs : Status(p) \in Filled => log[p] # <<>>
\* A transfer has something to move.
HoldInv == pc \in {"mark", "transfering", "migrate", "copied"} => \E c \in Current : c.peb \in Sources

\* What a step does to the header and the log of a block.
Cleared(p) ==
    \/ hdr'[p].status = PebVirgin /\ log'[p] = <<>>
    \/ /\ hdr'[p].status <= Status(p)
       /\ log[p] # <<>> => log'[p] # <<>>
       /\ hdr'[p].status \in Filled => Status(p) \in Filled \/ log'[p] # <<>>
AllCleared == \A p \in Pebs : Cleared(p)

LEMMA FilledKept ==
    ASSUME FilledInv, AllCleared
    PROVE  FilledInv'
<1>1. PebVirgin \notin Filled BY StatusFacts DEF Filled
<1> QED BY <1>1 DEF FilledInv, AllCleared, Cleared, Status

LEMMA StatusNumbers ==
    ASSUME TypeOK
    PROVE  \A p \in Pebs : Status(p) \in Nat /\ Status(p) <= Status(p) /\ PebErasing <= Status(p)
<1>1. \A s \in PebStatus : s \in Nat /\ s <= s /\ PebErasing <= s
  BY DEF PebStatus, PebVirgin, PebEmpty, PebActiving, PebTransfering, PebTransfered, PebActived,
         PebReclaiming, PebErasing
<1> QED BY <1>1, Fields DEF Status

\* The life of a block runs down its codes.
LEMMA CodesFall ==
    /\ PebEmpty <= PebVirgin /\ PebEmpty <= PebEmpty /\ PebActiving <= PebEmpty
    /\ PebTransfering <= PebActiving /\ PebTransfered <= PebTransfering
    /\ PebActived <= PebActiving /\ PebActived <= PebTransfered
    /\ PebReclaiming <= PebActived /\ PebReclaiming <= PebReclaiming
BY DEF PebVirgin, PebEmpty, PebActiving, PebTransfering, PebTransfered, PebActived,
       PebReclaiming, PebErasing

LEMMA ClearedSame ==
    ASSUME TypeOK, NEW x, \A p \in Pebs \ {x} : hdr'[p] = hdr[p] /\ log'[p] = log[p],
           x \in Pebs => Cleared(x)
    PROVE  AllCleared
<1> SUFFICES ASSUME NEW p \in Pebs, p # x PROVE Cleared(p) BY DEF AllCleared
<1>1. hdr'[p].status = Status(p) /\ log'[p] = log[p] BY DEF Status
<1> QED BY <1>1, StatusNumbers DEF Cleared

LEMMA ClearedMark ==
    ASSUME TypeOK, NEW x \in Pebs, NEW s, SetPebStatus(x, s), s <= Status(x),
           s \in Filled => Status(x) \in Filled \/ log[x] # <<>>
    PROVE  AllCleared
<1>1. /\ log' = log /\ hdr'[x].status = s /\ \A p \in Pebs \ {x} : hdr'[p] = hdr[p]
  BY HeaderWrites
<1>2. Cleared(x) BY <1>1 DEF Cleared
<1> QED BY <1>1, <1>2, ClearedSame

LEMMA ClearedActivate ==
    ASSUME TypeOK, NEW x \in Pebs, Activate(x), Status(x) = PebEmpty
    PROVE  AllCleared
<1>1. log' = log /\ hdr'[x].status = PebActiving /\ \A p \in Pebs \ {x} : hdr'[p] = hdr[p]
  BY HeaderWrites
<1>2. PebActiving \notin Filled BY StatusFacts DEF Filled
<1>3. Cleared(x) BY <1>1, <1>2, CodesFall DEF Cleared
<1> QED BY <1>1, <1>3, ClearedSame

LEMMA ClearedErase ==
    ASSUME TypeOK, NEW x \in Pebs, NEW c, EraseAndFormat(x, c)
    PROVE  AllCleared
<1>1. /\ \A p \in Pebs \ {x} : hdr'[p] = hdr[p] /\ log'[p] = log[p]
      /\ hdr'[x].status = PebVirgin /\ log'[x] = <<>>
  BY HeaderWrites
<1>2. Cleared(x) BY <1>1 DEF Cleared
<1> QED BY <1>1, <1>2, ClearedSame

LEMMA ClearedItem ==
    ASSUME TypeOK, NEW x \in Pebs,
           \/ \E item : Append1(x, item)
           \/ \E off : Validate(x, off) \/ Discard(x, off)
    PROVE  AllCleared
<1>1. hdr' = hdr /\ \A p \in Pebs \ {x} : log'[p] = log[p]
  BY Shapes DEF Append1, Validate, Discard
<1>2. log[x] # <<>> => log'[x] # <<>>
  <2> SUFFICES ASSUME log[x] # <<>> PROVE log'[x] # <<>> OBVIOUS
  <2>1. log[x] \in Seq(Items) BY Fields
  <2>2. 1 \in DOMAIN log[x] BY <2>1
  <2>3. 1 \in DOMAIN log'[x]
    <3>1. ASSUME NEW item, Append1(x, item) PROVE 1 \in DOMAIN log'[x]
      <4>1. log'[x] = Append(log[x], item) BY <3>1, Shapes DEF Append1
      <4>2. Len(log'[x]) = Len(log[x]) + 1 /\ log'[x] = [i \in 1 .. Len(log[x]) + 1 |->
               IF i = Len(log[x]) + 1 THEN item ELSE log[x][i]] BY <2>1, <4>1
      <4>3. Len(log[x]) \in Nat BY <2>1
      <4> QED BY <4>2, <4>3
    <3>2. ASSUME NEW off, Validate(x, off) \/ Discard(x, off) PROVE 1 \in DOMAIN log'[x]
      <4>1. log'[x] = Validated(log[x], off) \/ log'[x] = Discarded(log[x], off)
        BY <3>2, Shapes DEF Validate, Discard
      <4> QED BY <2>2, <4>1, Zenon DEF Validated, Discarded
    <3> QED BY <3>1, <3>2
  <2> QED BY <2>3
<1>3. hdr'[x].status = Status(x) BY <1>1 DEF Status
<1>4. Cleared(x) BY <1>2, <1>3, StatusNumbers DEF Cleared
<1> QED BY <1>1, <1>4, ClearedSame

LEMMA ClearedNone ==
    ASSUME TypeOK, hdr' = hdr, log' = log
    PROVE  AllCleared
BY StatusNumbers DEF AllCleared, Cleared, Status

LEMMA ClassifyClears ==
    ASSUME Whole, Classify
    PROVE  AllCleared
<1> USE WholeParts
<1>1. CASE ScanActiving \/ ScanUnknown
  <2>1. scan.peb \in Pebs /\ \E n : EraseAndFormat(scan.peb, n)
    BY <1>1, NextPebType DEF ScanActiving, ScanUnknown, Scanning
  <2> QED BY <2>1, ClearedErase
<1>2. CASE ScanActivingEmpty
  <2>1. scan.peb \in Pebs /\ SetPebStatus(scan.peb, PebEmpty) /\ Status(scan.peb) = PebVirgin
    BY <1>2 DEF ScanActivingEmpty, Located, BlockInv, ScanInv
  <2>2. PebEmpty \notin Filled BY StatusFacts DEF Filled
  <2> QED BY <2>1, <2>2, CodesFall, ClearedMark
<1>3. CASE \/ ScanTransfering \/ ScanTransfered \/ ScanReclaiming \/ ScanActived \/ ScanEmpty
           \/ ScanMean \/ AllFormatted
  <2>1. UNCHANGED flash
    BY <1>3 DEF ScanTransfering, ScanTransfered, ScanReclaiming, ScanActived, ScanEmpty,
                ScanKnown, ScanMean, AllFormatted
  <2> QED BY <2>1, ClearedNone DEF flash
<1>4. CASE FormatUnknown
  <2>1. pc = "peb_count" /\ Unknown # {} BY <1>4 DEF FormatUnknown
  <2>2. PICK x \in Unknown :
          hdr' = [hdr EXCEPT ![x].count = scan.mean, ![x].status = PebEmpty] /\ log' = log
    <3>1. Unknown \subseteq Nat BY PebFacts DEF Unknown
    <3>2. Lowest(Unknown) \in Unknown BY <2>1, <3>1, LowestMember
    <3> QED BY <1>4, <3>2 DEF FormatUnknown
  <2>3. x \in Pebs /\ info[x].count = NoCount BY <2>2 DEF Unknown
  <2>4. Status(x) \in {PebVirgin, PebEmpty}
    BY <2>1, <2>3 DEF BlockInv, ScanInv, Classified
  <2>5. hdr'[x].status = PebEmpty /\ \A p \in Pebs \ {x} : hdr'[p] = hdr[p]
    BY <2>2, <2>3, Shapes DEF Headers
  <2>6. PebEmpty \notin Filled BY StatusFacts DEF Filled
  <2>7. Cleared(x) BY <2>2, <2>4, <2>5, <2>6, CodesFall DEF Cleared
  <2> QED BY <2>2, <2>5, <2>7, ClearedSame
<1> QED BY <1>1, <1>2, <1>3, <1>4 DEF Classify

\* The marks of a collection and of a write.
LEMMA MarksClear ==
    ASSUME Whole, FilledInv, HoldInv,
           CalmMarks \/ EndTransfer \/ PebActivedNow \/ Erase \/ MarkEmpty \/ Allocate
    PROVE  AllCleared
<1> USE WholeParts
<1>0. /\ {PebActived, PebTransfered, PebReclaiming} = Filled
      /\ PebTransfering \notin Filled /\ PebEmpty \notin Filled /\ PebErasing \notin Filled
  BY StatusFacts DEF Filled
<1>1. CASE MarkReclaiming
  <2>1. Source \in Sources /\ Source \in Pebs /\ SetPebStatus(Source, PebReclaiming)
    BY <1>1, SourceType DEF MarkReclaiming, AtSource, Sources, Blocks, Source
  <2>2. Status(Source) \in {PebActived, PebReclaiming}
    BY <1>1, <2>1 DEF MarkReclaiming, AtSource, BlockInv, MarkInv
  <2> QED BY <1>0, <2>1, <2>2, CodesFall, ClearedMark
<1>2. CASE PickTarget
  <2>1. pc = "mark" /\ Reserved # {} BY <1>2 DEF PickTarget, AfterSources, BlockInv, MarkInv
  <2>2. PICK x \in Reserved : x = Least(Reserved, EraseCount) BY <2>1, LeastReserved
  <2>3. Activate(x) /\ x \in Pebs /\ info[x].reserved BY <1>2, <2>1, <2>2 DEF PickTarget, Reserved
  <2>4. Status(x) = PebEmpty
    <3>1. Apart(Sources) /\ NotReserved(Sources) BY <2>1 DEF BlockInv, MarkInv
    <3> QED BY <2>3, <3>1 DEF Apart, NotReserved
  <2> QED BY <2>3, <2>4, ClearedActivate
<1>3. CASE StartTransfer
  <2>1. /\ gc.dst \in Pebs /\ SetPebStatus(gc.dst, PebTransfering)
        /\ Status(gc.dst) = PebActiving
    BY <1>3 DEF StartTransfer, BlockInv, TransferInv
  <2> QED BY <1>0, <2>1, CodesFall, ClearedMark
<1>4. CASE EndTransfer
  <2>1. /\ gc.dst \in Pebs /\ SetPebStatus(gc.dst, PebTransfered) /\ pc = "migrate"
        /\ Status(gc.dst) = PebTransfering
    BY <1>4 DEF EndTransfer, AfterSources, BlockInv, TransferInv
  <2>2. PICK c \in Current : c.peb \in Sources BY <2>1 DEF HoldInv
  <2>3. c \in Stored /\ Passed(c) BY <1>4, <2>2, EndTransferCurrent, CurrentIs
  <2>4. PICK d \in Stored : d.peb = gc.dst BY <2>1, <2>3 DEF MoveInv, AtMigrate
  <2>5. log[gc.dst] # <<>>
    <3>1. PICK p \in Pebs : d \in CopiesIn(log[p], p) BY DEF Stored
    <3>2. p = gc.dst /\ log[p] # <<>> BY <2>4, <3>1, LaidEmpty DEF CopiesIn, Copy
    <3> QED BY <3>2
  <2> QED BY <2>1, <2>5, CodesFall, ClearedMark
<1>5. CASE Reclaim
  <2>1. Source \in Pebs /\ SetPebStatus(Source, PebErasing)
    BY <1>5, SourceType DEF Reclaim, AtSource
  <2> QED BY <1>0, <2>1, StatusNumbers, ClearedMark
<1>6. CASE TargetActived
  <2>1. /\ gc.dst \in Pebs /\ SetPebStatus(gc.dst, PebActived) /\ Status(gc.dst) = PebTransfered
    BY <1>6 DEF TargetActived, BlockInv, ActivedInv
  <2> QED BY <1>0, <2>1, CodesFall, ClearedMark
<1>7. CASE PebActivedNow
  <2>1. /\ w.peb \in Pebs /\ SetPebStatus(w.peb, PebActived) /\ pc = "peb_actived"
        /\ Status(w.peb) = PebActiving
    BY <1>7 DEF PebActivedNow, BlockInv, CallInv, WritingLabels
  <2>2. log[w.peb] # <<>> BY <2>1 DEF WriteInv
  <2> QED BY <2>1, <2>2, CodesFall, ClearedMark
<1>8. CASE Erase
  <2>1. Source \in Pebs /\ \E n : EraseAndFormat(Source, n)
    BY <1>8, LocalFields DEF Erase, Located, Source
  <2> QED BY <2>1, ClearedErase
<1>9. CASE MarkEmpty
  <2>1. /\ Source \in Pebs /\ SetPebStatus(Source, PebEmpty) /\ Status(Source) = PebVirgin
    BY <1>9, LocalFields DEF MarkEmpty, Located, Source, BlockInv, ReclaimInv, ReclaimLabels
  <2> QED BY <1>0, <2>1, CodesFall, ClearedMark
<1>10. CASE Allocate
  <2>1. PICK p \in Pebs : /\ Fresh(p) => log[p] = <<>>
                          /\ IF Fresh(p) THEN Activate(p) ELSE hdr' = hdr /\ Live(p)
                          /\ Status(p) = IF info[p].reserved THEN PebEmpty ELSE PebActived
                          /\ log' = log
    BY <1>10, AllocateRoom
  <2>2. CASE Fresh(p)
    <3>1. Status(p) \notin Filled BY <2>1, <2>2 DEF FilledInv
    <3>2. Status(p) = PebEmpty BY <1>0, <2>1, <3>1
    <3> QED BY <2>1, <2>2, <3>2, ClearedActivate
  <2>3. CASE ~Fresh(p) BY <2>1, <2>3, ClearedNone
  <2> QED BY <2>2, <2>3
<1> QED BY <1>1, <1>2, <1>3, <1>4, <1>5, <1>6, <1>7, <1>8, <1>9, <1>10 DEF CalmMarks

LEMMA ClearsStep ==
    ASSUME Whole, FilledInv, HoldInv, [Next]_vars
    PROVE  AllCleared
<1> USE WholeParts
<1>1. CASE Classify BY <1>1, ClassifyClears
<1>2. CASE CalmMarks \/ EndTransfer \/ PebActivedNow \/ Erase \/ MarkEmpty \/ Allocate
  BY <1>2, MarksClear
<1>3. CASE ScanLook \/ Still \/ PowerOn \/ PowerLoss \/ UNCHANGED vars
  <2>1. hdr' = hdr /\ log' = log
    BY <1>3, ScanLookCurrent, StillFacts DEF PowerOn, PowerLoss, vars, flash
  <2> QED BY <2>1, ClearedNone
<1>4. CASE ScanNewerCopy
  <2>1. PICK x \in Pebs : x = items[ScannedItem.index].peb BY <1>4, ScanNewerCurrent
  <2>2. Discard(x, items[ScannedItem.index].off) BY <1>4, <2>1 DEF ScanNewerCopy
  <2> QED BY <2>2, ClearedItem
<1>5. CASE ScanOlderCopy
  <2>1. scan.peb \in Pebs /\ Discard(scan.peb, ScannedItem.off)
    BY <1>5, ScanOlderCurrent DEF ScanOlderCopy
  <2> QED BY <2>1, ClearedItem
<1>6. CASE CopyItem \/ CommitCopy
  <2>1. gc.dst \in Pebs
    BY <1>6 DEF CopyItem, CommitCopy, Migrating, AtSource, Located
  <2>2. (\E item : Append1(gc.dst, item)) \/ \E off : Validate(gc.dst, off)
    BY <1>6 DEF CopyItem, CommitCopy
  <2> QED BY <2>1, <2>2, ClearedItem
<1>7. CASE WriteItem \/ MarkValid \/ DeleteOld
  <2>1. w.peb \in Pebs /\ w.oldPeb \in Pebs
    BY <1>7 DEF WriteItem, MarkValid, DeleteOld, Located, WritingLabels
  <2>2. \/ \E item : Append1(w.peb, item)
        \/ \E off : Validate(w.peb, off)
        \/ \E off : Discard(w.oldPeb, off)
    BY <1>7 DEF WriteItem, MarkValid, DeleteOld
  <2> QED BY <2>1, <2>2, ClearedItem
<1>8. CASE DeleteItem
  <2>1. PICK d \in Current : d.peb \in Pebs /\ Discard(d.peb, d.off) BY <1>8, DeletedCopy
  <2> QED BY <2>1, ClearedItem
<1> QED BY <1>1, <1>2, <1>3, <1>4, <1>5, <1>6, <1>7, <1>8, Groups

\* A collection that goes on to move items has an item to move.
LEMMA RelocateHolds ==
    ASSUME Whole, RelocateValid
    PROVE  \E c \in Current : c.peb \in Sources
<1> USE WholeParts
<1>1. pc = "relocate" /\ Valid(gc.src) # 0 BY DEF RelocateValid
<1>2. \A p \in Sources : p \in Pebs /\ Live(p) BY <1>1, SourcesLive
<1>3. SUFFICES ASSUME \A c \in Current : c.peb \notin Sources
               PROVE  Valid(gc.src) = 0
  BY <1>1
<1>4. ASSUME NEW p \in Sources PROVE ValidIn(p) = 0
  <2>1. p \in Pebs /\ Live(p) BY <1>2
  <2>2. Known(p) /\ Tracked(p) BY <1>1, <2>1, KnownFinal DEF Tracked, FinalLabels, CollectLabels
  <2>3. ValidIn(p) = ValidBytes(p) + 0 BY <1>1, <2>1, <2>2 DEF ValidInv, ValidExact, InFlight
  <2>4. \A c : c \notin CopiesIn(log[p], p)
    <3> SUFFICES ASSUME NEW c \in CopiesIn(log[p], p) PROVE FALSE OBVIOUS
    <3>1. c \in Stored /\ c.peb = p BY <2>1 DEF Stored, CopiesIn, Copy
    <3> QED BY <1>3, <2>1, <3>1, CurrentIs
  <2>5. ValidsOf(log[p]) = {} BY <2>4 DEF ValidsOf, CopiesIn
  <2>6. PICK f : f = Foot(log[p]) OBVIOUS
  <2>7. ValidBytes(p) = 0 BY <2>5, <2>6, ValidBytesIs, SumEmpty
  <2> QED BY <2>3, <2>7
<1>5. PICK f : f = [i \in DOMAIN gc.src |-> ValidIn(gc.src[i])] OBVIOUS
<1>6. \A i \in DOMAIN gc.src : f[i] = 0 BY <1>4, <1>5, SourcesType
<1>7. IsFiniteSet(DOMAIN gc.src)
  <2>1. gc.src \in Seq(Pebs) BY LocalFields
  <2>2. DOMAIN gc.src = 1 .. Len(gc.src) /\ Len(gc.src) \in Nat BY <2>1
  <2>3. 0 \in Int /\ 1 \in Int OBVIOUS
  <2>4. PICK n \in Int : n = Len(gc.src) BY <2>2
  <2>5. IsFiniteSet(1 .. n) BY <2>3, FS_Interval
  <2> QED BY <2>2, <2>4, <2>5
<1>8. SumOver(DOMAIN gc.src, f) = 0 BY <1>6, <1>7, SumZero
<1> QED BY <1>5, <1>8 DEF Valid

HoldLabels == {"mark", "transfering", "migrate", "copied"}
LEMMA HoldKept ==
    ASSUME HoldInv, Current' = Current, gc'.src = gc.src, pc \in HoldLabels
    PROVE  HoldInv'
<1>1. Sources' = Sources BY DEF Sources
<1> QED BY <1>1 DEF HoldInv, HoldLabels

LEMMA HoldStep ==
    ASSUME Whole, HoldInv, TypeOK', [Next]_vars
    PROVE  HoldInv'
<1> USE WholeParts
<1>1. SUFFICES ASSUME pc' \in HoldLabels PROVE HoldInv' BY DEF HoldInv, HoldLabels
<1>2. CASE MarkReclaiming \/ PickTarget \/ StartTransfer
  <2>1. Current' = Current BY <1>2, CurrentSame DEF CalmMarks
  <2>2. pc \in HoldLabels
    BY <1>2 DEF MarkReclaiming, PickTarget, StartTransfer, AtSource, AfterSources, HoldLabels
  <2>3. gc'.src = gc.src
    <3>1. CASE PickTarget BY <3>1, PicksReserved, LocalFields, Zenon DEF Picked, Gcs
    <3>2. CASE MarkReclaiming \/ StartTransfer
      BY <3>2, LocalFields DEF MarkReclaiming, StartTransfer, NextSource, Gcs
    <3> QED BY <1>2, <3>1, <3>2
  <2> QED BY <2>1, <2>2, <2>3, HoldKept
<1>3. CASE SourceDone \/ SkipDeleted \/ CopyItem \/ CommitCopy
  <2>1. Current' = Current BY <1>3, CurrentSame DEF Still
  <2>2. pc \in HoldLabels
    BY <1>3 DEF SourceDone, SkipDeleted, CopyItem, CommitCopy, Migrating, AtSource, HoldLabels
  <2>3. gc'.src = gc.src
    BY <1>3, LocalFields DEF SourceDone, SkipDeleted, CopyItem, CommitCopy, NextSource, Gcs
  <2> QED BY <2>1, <2>2, <2>3, HoldKept
<1>4. CASE RelocateValid
  <2>1. Current' = Current BY <1>4, CurrentSame DEF Still
  <2>2. Sources' = Sources BY <1>4 DEF RelocateValid, Sources
  <2> QED BY <1>4, <2>1, <2>2, RelocateHolds DEF HoldInv
<1>5. CASE UNCHANGED vars
  <2>1. Current' = Current BY <1>5, SameFlash DEF vars, flash
  <2>2. pc' = pc /\ gc' = gc BY <1>5 DEF vars
  <2> QED BY <1>1, <2>1, <2>2, HoldKept
<1>6. CASE Classify BY <1>1, <1>6, ClassifyEnds DEF HoldLabels
<1>7. CASE ScanLook \/ ScanNewerCopy \/ ScanOlderCopy
  BY <1>1, <1>7, LookFacts DEF ScanNewerCopy, ScanOlderCopy, SecondCopyOk, Check, HoldLabels
<1>8. CASE Reclaimed
  <2>1. pc' = gc.then /\ gc.then \in {"alloc", "init", "relocate", "actived"}
    BY <1>8, LocalFields DEF Reclaimed, Gcs
  <2> QED BY <1>1, <2>1 DEF HoldLabels
<1>9. CASE \/ RecoverTransfering \/ RecoverTransfered \/ RecoverNothing \/ InitDone
           \/ GarbageCollect \/ RelocateEmpty \/ WriteRefused \/ WriteAccepted
           \/ AllocateTooMany \/ WriteDone \/ DeleteDone \/ Request
  BY <1>1, <1>9
     DEF RecoverTransfering, RecoverTransfered, RecoverNothing, Recovery, InitDone, GarbageCollect,
         RelocateEmpty, WriteRefused, WriteAccepted, AllocateTooMany, WriteDone, DeleteDone,
         Return, Request, RequestWrite, RequestDelete, Check, HoldLabels
<1>10. CASE \/ Reclaim \/ TargetActived \/ EndTransfer \/ PebActivedNow \/ Erase \/ MarkEmpty
            \/ Allocate \/ WriteItem \/ MarkValid \/ DeleteOld \/ DeleteItem \/ PowerOn \/ PowerLoss
  BY <1>1, <1>10
     DEF Reclaim, TargetActived, Caller, EndTransfer, PebActivedNow, Erase, MarkEmpty, Allocate,
         WriteItem, MarkValid, ItemCommitted, DeleteOld, DeleteItem, PowerOn, PowerLoss, Check,
         HoldLabels
<1> QED BY <1>2, <1>3, <1>4, <1>5, <1>6, <1>7, <1>8, <1>9, <1>10, Groups DEF Still, CalmMarks

\* A status byte is only ever programmed by clearing bits; only an erase sets them.
THEOREM StatusesOnlyClear == Spec => StatusOnlyClears
<1>1. Init => FilledInv /\ HoldInv
  <2> SUFFICES ASSUME Init PROVE FilledInv /\ HoldInv OBVIOUS
  <2>1. HeadersSound /\ pc = "off" /\ \A p \in Pebs : log[p] = <<>> BY InitFlash DEF Init
  <2>2. \A p \in Pebs : Status(p) \in {PebVirgin, PebEmpty}
    <3>1. PICK h \in InitialHeaders : hdr = h BY DEF Init
    <3>2. CASE h = [p \in Pebs |-> BlankHeader] BY <3>1, <3>2 DEF BlankHeader, Status
    <3>3. ASSUME NEW c \in [Pebs -> WornCounts],
                 h = [p \in Pebs |-> [Formatted(c[p]) EXCEPT !.status = PebEmpty]]
          PROVE  \A p \in Pebs : Status(p) \in {PebVirgin, PebEmpty}
      BY <3>1, <3>3, Zenon DEF Formatted, BlankHeader, Status
    <3> QED BY <3>1, <3>2, <3>3 DEF InitialHeaders
  <2>3. PebVirgin \notin Filled /\ PebEmpty \notin Filled BY StatusFacts DEF Filled
  <2> QED BY <2>1, <2>2, <2>3 DEF FilledInv, HoldInv
<1>2. ASSUME Whole, Whole', FilledInv, HoldInv, [Next]_vars
      PROVE  /\ FilledInv' /\ HoldInv'
             /\ \A p \in Pebs : \/ hdr'[p].status <= hdr[p].status
                                \/ hdr'[p].status = PebVirgin /\ log'[p] = <<>>
  <2>1. AllCleared BY <1>2, ClearsStep
  <2>2. FilledInv' BY <1>2, <2>1, FilledKept
  <2>3. TypeOK' BY <1>2 DEF Whole
  <2>4. HoldInv' BY <1>2, <2>3, HoldStep
  <2> QED BY <2>1, <2>2, <2>4 DEF AllCleared, Cleared, Status
<1>3. Whole /\ Whole' /\ FilledInv /\ HoldInv /\ [Next]_vars => FilledInv' /\ HoldInv'
  BY <1>2
<1>4. Whole /\ Whole' /\ FilledInv /\ HoldInv /\ [Next]_vars =>
        [\A p \in Pebs : \/ hdr'[p].status <= hdr[p].status
                         \/ hdr'[p].status = PebVirgin /\ log'[p] = <<>>]_vars
  BY <1>2
<1>5. Spec => []Whole BY WholeHolds
<1> QED BY <1>1, <1>3, <1>4, <1>5, PTL DEF Spec, StatusOnlyClears
=============================================================================
