----------------------------- MODULE NvdmStore -----------------------------
(***************************************************************************)
(* The NVDM storage engine: nvdm_init with its recovery scan, the write    *)
(* path with space allocation and garbage collection, and the delete paths,*)
(* as they run in the task that holds the NVDM mutex.  Each action ends    *)
(* with at most one flash write, and the power may fail between any two.   *)
(* PowerLoss discards the RAM; PowerOn starts nvdm_init on what flash holds.*)
(***************************************************************************)
EXTENDS NvdmFlash

CONSTANTS
    Keys, Values, KeySets, Missing, NoReq,   \* as in NvdmKv
    MaxItems,    \* g_total_data_item_count
    MaxSeq       \* bound on g_write_sequence_number

ASSUME StoreAssumption ==
    /\ Values \subseteq 1 .. MaxItemSize      \* a value is known by its size
    /\ Missing \notin Values
    /\ KeySets \subseteq SUBSET Keys
    /\ MaxItems \in Nat \ {0} /\ MaxSeq \in Nat

VARIABLES
    hdr,      \* flash: [Pebs -> header]
    log,      \* flash: [Pebs -> sequence of items]
    info,     \* RAM: g_pebs_info
    items,    \* RAM: g_data_item_headers, with the key its names spell
    sum,      \* RAM: g_sum_data_item_headers
    wseq,     \* RAM: g_write_sequence_number
    vsize,    \* RAM: g_valid_data_size
    pc,       \* the next step of the running call
    scan,     \* locals of peb_scan and data_item_scan
    gc,       \* locals of relocate_pebs and date_item_migration
    w,        \* locals of nvdm_write_data_item
    req,      \* the arguments of the running call
    deleted,  \* delete_done of the delete loops
    ret       \* the status the last call returned

flash == <<hdr, log>>
ram == <<info, items, sum, wseq, vsize>>
call == <<req, deleted, ret>>
vars == <<flash, ram, pc, scan, gc, w, call>>

Indexes == 0 .. MaxItems - 1
NoPeb == PebCount
NoSeq == 0                  \* MAX_WRITE_SEQUENCE_NUMBER: header not in use yet
WriteReq == [op : {"write"}, key : Keys, val : Values]
DeleteReq == [op : {"delete"}, keys : KeySets]

\* NoReq stands for no call: it is none.
ASSUME RequestAssumption == NoReq \notin WriteReq \cup DeleteReq

NoInfo == [free |-> 0, dirty |-> 0, reserved |-> FALSE, count |-> NoCount]
NoItem == [size |-> 0, peb |-> 0, off |-> 0, seq |-> NoSeq]
NoScan == [peb |-> 0, pos |-> 1, dirty |-> 0, valid |-> 0, abnormal |-> FALSE,
           mean |-> 0, reclaiming |-> <<>>, transfering |-> NoPeb,
           transfered |-> NoPeb]
NoGc == [src |-> <<>>, cur |-> 1, pos |-> 1, dst |-> NoPeb, off |-> 0,
         then |-> "alloc"]
NoWrite == [index |-> 0, append |-> FALSE, peb |-> NoPeb, off |-> 0,
            fresh |-> FALSE, oldPeb |-> NoPeb, oldOff |-> 0]

-----------------------------------------------------------------------------
(* Space accounting. *)

ValidIn(p) == Capacity - info[p].dirty - info[p].free
SumOver(S, f) == MapThenSumSet(LAMBDA x : f[x], S)

Reserved == {p \in Pebs : info[p].reserved}
EraseCount == [p \in Pebs |-> info[p].count]

\* calculate_total_avail_space; names have their maximal length in Overhead.
TotalAvail ==
    LET criteria1 == (80 * Capacity * (PebCount - 1)) \div 100
        criteria2 == (PebCount - 1) * (Capacity - MaxItemSize - Overhead)
    IN  IF criteria1 > criteria2 THEN criteria2 ELSE criteria1

SpaceIsEnough(size) == vsize + size <= TotalAvail

\* find_free_peb: best fit with strictly more room, else a spare reserved block.
\* Mutant: one unit of slack too many.
RoomyWithSlack(size) == {p \in Pebs \ Reserved : info[p].free > size + 1}
Roomy(size) == {p \in Pebs \ Reserved : info[p].free > size}
\* Mutant: the backup block is handed out too.
CanAllocateLast(size) == Roomy(size) # {} \/ Cardinality(Reserved) >= 1
CanAllocate(size) == Roomy(size) # {} \/ Cardinality(Reserved) > 1
FreePeb(size) ==
    IF Roomy(size) # {} THEN Least(Roomy(size), [p \in Pebs |-> info[p].free])
                        ELSE Least(Reserved, EraseCount)

-----------------------------------------------------------------------------
(* The item headers in RAM. *)

\* search_data_item_by_name: the names are read from flash through the header.
Named(i, keys) ==
    /\ items[i].size # 0
    /\ \E j \in ItemsAt(log[items[i].peb], items[i].off) :
          log[items[i].peb][j].key \in keys
Found(keys) == {i \in Indexes : Named(i, keys)}
EmptyIndexes == {i \in Indexes : items[i].size = 0}
Lowest(S) == CHOOSE i \in S : \A j \in S : i <= j

-----------------------------------------------------------------------------
(* Flash primitives: each is the single write of one action. *)

SetPebStatus(p, status) ==
    /\ hdr' = [hdr EXCEPT ![p].status = status]
    /\ UNCHANGED log

\* PEB_STATUS_ACTIVING and the unreserved mark; recovery looks at the former only.
Activate(p) ==
    /\ hdr' = [hdr EXCEPT ![p].status = PebActiving, ![p].reserved = FALSE]
    /\ UNCHANGED log

\* Erase, then magic, version and (when known) the counter.
EraseAndFormat(p, count) ==
    /\ hdr' = [hdr EXCEPT ![p] = Formatted(count)]
    /\ log' = [log EXCEPT ![p] = <<>>]

\* The status byte of the item at an offset: valid, or deleted.
Validate(p, off) ==
    /\ log' = [log EXCEPT ![p] = Validated(@, off)]
    /\ UNCHANGED hdr
Discard(p, off) ==
    /\ log' = [log EXCEPT ![p] = Discarded(@, off)]
    /\ UNCHANGED hdr

Append1(p, item) ==
    /\ log' = [log EXCEPT ![p] = Append(@, item)]
    /\ UNCHANGED hdr

\* The error log asserts: the run stops there.
Check(ok, next) == IF ok THEN next ELSE "assert"

-----------------------------------------------------------------------------
(* Power. *)

Init ==
    /\ hdr \in InitialHeaders
    /\ log = [p \in Pebs |-> <<>>]
    /\ info = [p \in Pebs |-> NoInfo]
    /\ items = [i \in Indexes |-> NoItem]
    /\ sum = 0 /\ wseq = 0 /\ vsize = 0
    /\ pc = "off"
    /\ scan = NoScan /\ gc = NoGc /\ w = NoWrite
    /\ req = NoReq /\ deleted = FALSE /\ ret = "NONE"

PowerLoss ==
    /\ pc # "off"
    /\ info' = [p \in Pebs |-> NoInfo]
    /\ items' = [i \in Indexes |-> NoItem]
    /\ sum' = 0 /\ wseq' = 0 /\ vsize' = 0
    /\ pc' = "off"
    /\ scan' = NoScan /\ gc' = NoGc /\ w' = NoWrite
    /\ req' = NoReq /\ deleted' = FALSE /\ ret' = "NONE"
    /\ UNCHANGED flash

\* nvdm_init up to peb_scan: the RAM tables are allocated and cleared.
PowerOn ==
    /\ pc = "off"
    /\ pc' = "peb_scan"
    /\ UNCHANGED <<flash, ram, scan, gc, w, call>>

-----------------------------------------------------------------------------
(* peb_scan, first loop: classify every block by its status byte. *)

ScanStep == [scan EXCEPT !.peb = @ + 1]
Scanning(statuses) ==
    /\ pc = "peb_scan"
    /\ scan.peb < PebCount
    /\ hdr[scan.peb].status \in statuses

\* An activating block holds nothing committed: erased, its counter still valid.
ScanActiving ==
    /\ Scanning({PebActiving})
    /\ EraseAndFormat(scan.peb, Bump(hdr[scan.peb].count))
    /\ info' = [info EXCEPT ![scan.peb].count = Bump(hdr[scan.peb].count)]
    /\ pc' = "peb_empty"
    /\ UNCHANGED <<items, sum, wseq, vsize, scan, gc, w, call>>

ScanActivingEmpty ==
    /\ pc = "peb_empty"
    /\ SetPebStatus(scan.peb, PebEmpty)
    /\ info' = [info EXCEPT ![scan.peb].reserved = TRUE]
    /\ scan' = ScanStep
    /\ pc' = "peb_scan"
    /\ UNCHANGED <<items, sum, wseq, vsize, gc, w, call>>

ScanKnown(ok, p) ==
    /\ info' = [info EXCEPT ![p].count = hdr[p].count]
    /\ pc' = Check(ok /\ Writable(hdr[p]), "peb_scan")
    /\ UNCHANGED <<flash, items, sum, wseq, vsize, gc, w, call>>

ScanTransfering ==
    /\ Scanning({PebTransfering})
    /\ ScanKnown(scan.transfering = NoPeb, scan.peb)
    /\ scan' = [ScanStep EXCEPT !.transfering = scan.peb]

ScanTransfered ==
    /\ Scanning({PebTransfered})
    /\ ScanKnown(scan.transfered = NoPeb, scan.peb)
    /\ scan' = [ScanStep EXCEPT !.transfered = scan.peb]

ScanReclaiming ==
    /\ Scanning({PebReclaiming})
    /\ ScanKnown(TRUE, scan.peb)
    /\ scan' = [ScanStep EXCEPT !.reclaiming = Append(@, scan.peb)]

ScanActived ==
    /\ Scanning({PebActived})
    /\ ScanKnown(TRUE, scan.peb)
    /\ scan' = ScanStep

ScanEmpty ==
    /\ Scanning({PebEmpty})
    /\ info' = [info EXCEPT ![scan.peb].count = hdr[scan.peb].count,
                            ![scan.peb].reserved = TRUE]
    /\ scan' = ScanStep
    /\ pc' = Check(EmptyHeaderOk(hdr[scan.peb]), "peb_scan")
    /\ UNCHANGED <<flash, items, sum, wseq, vsize, gc, w, call>>

\* Blank, or caught in an erase: erased again, its counter is lost.
ScanUnknown ==
    /\ Scanning({PebVirgin, PebErasing})
    /\ EraseAndFormat(scan.peb, NoCount)
    /\ info' = [info EXCEPT ![scan.peb].reserved = TRUE]
    /\ scan' = ScanStep
    /\ UNCHANGED <<items, sum, wseq, vsize, pc, gc, w, call>>

\* The mean the blocks of unknown counter get: known counters over all blocks.
Unknown == {p \in Pebs : info[p].count = NoCount}
ScanMean ==
    /\ pc = "peb_scan"
    /\ scan.peb = PebCount
    /\ scan' = [scan EXCEPT !.peb = 0,
                            !.mean = Saturate(SumOver(Pebs \ Unknown, EraseCount)
                                                \div PebCount)]
    /\ pc' = "peb_count"
    /\ UNCHANGED <<flash, ram, gc, w, call>>

FormatUnknown ==
    /\ pc = "peb_count"
    /\ Unknown # {}
    /\ LET p == Lowest(Unknown) IN
          /\ hdr' = [hdr EXCEPT ![p].count = scan.mean, ![p].status = PebEmpty]
          /\ info' = [info EXCEPT ![p].count = scan.mean]
    /\ UNCHANGED <<log, items, sum, wseq, vsize, pc, scan, gc, w, call>>

AllFormatted ==
    /\ pc = "peb_count"
    /\ Unknown = {}
    /\ pc' = "item_scan"
    /\ UNCHANGED <<flash, ram, scan, gc, w, call>>

-----------------------------------------------------------------------------
(* data_item_scan: rebuild the item headers from the logs. *)

NextPeb == [scan EXCEPT !.peb = @ + 1, !.pos = 1, !.dirty = 0, !.valid = 0]
Skipped(p) ==
    \/ p = scan.transfering
    \/ scan.transfered # NoPeb /\ \E r \in DOMAIN scan.reclaiming : scan.reclaiming[r] = p
ScanningItems ==
    /\ pc = "item_scan"
    /\ scan.peb < PebCount
    /\ ~Skipped(scan.peb) /\ ~info[scan.peb].reserved
HasItem == scan.pos <= Len(log[scan.peb])
ScannedItem == log[scan.peb][scan.pos]

SkipPeb ==
    /\ pc = "item_scan"
    /\ scan.peb < PebCount
    /\ Skipped(scan.peb) \/ info[scan.peb].reserved
    /\ info' = IF Skipped(scan.peb) THEN info
               ELSE [info EXCEPT ![scan.peb].free = Capacity]
    /\ scan' = NextPeb
    /\ UNCHANGED <<flash, items, sum, wseq, vsize, pc, gc, w, call>>

\* Blank space, or too little left for a header: all of it counts as free.
ScanEndOfLog ==
    /\ ScanningItems
    /\ ~HasItem
    /\ info' = [info EXCEPT ![scan.peb].free = @ + Capacity - scan.dirty - scan.valid]
    /\ scan' = NextPeb
    /\ UNCHANGED <<flash, items, sum, wseq, vsize, pc, gc, w, call>>

\* Mutant: the space behind a torn item is taken for free.
ScanTornItemFree ==
    /\ ScanningItems
    /\ HasItem /\ ScannedItem.status = ItemWriting
    /\ info' = [info EXCEPT ![scan.peb].free = @ + Capacity - scan.dirty - scan.valid]
    /\ scan' = NextPeb
    /\ UNCHANGED <<flash, items, sum, wseq, vsize, pc, gc, w, call>>

\* An interrupted write: nothing behind it can be trusted.
ScanTornItem ==
    /\ ScanningItems
    /\ HasItem /\ ScannedItem.status = ItemWriting
    /\ info' = [info EXCEPT ![scan.peb].dirty = @ + Capacity - scan.dirty - scan.valid]
    /\ scan' = NextPeb
    /\ UNCHANGED <<flash, items, sum, wseq, vsize, pc, gc, w, call>>

ScanDeletedItem ==
    /\ ScanningItems
    /\ HasItem /\ ScannedItem.status = ItemDelete
    /\ info' = [info EXCEPT ![scan.peb].dirty = @ + Footprint(ScannedItem.val)]
    /\ scan' = [scan EXCEPT !.pos = @ + 1, !.dirty = @ + Footprint(ScannedItem.val)]
    /\ UNCHANGED <<flash, items, sum, wseq, vsize, pc, gc, w, call>>

\* Mutant: the size of the whole record taken for the size of the value.
HeaderOfRecord(item, p) ==
    [size |-> Footprint(item.val), peb |-> p, off |-> item.off, seq |-> item.seq]
HeaderOf(item, p) == [size |-> item.val, peb |-> p, off |-> item.off, seq |-> item.seq]
ScanningValid ==
    /\ ScanningItems
    /\ HasItem /\ ScannedItem.status = ItemValid
    /\ wseq' = IF wseq < ScannedItem.seq THEN ScannedItem.seq ELSE wseq
    /\ UNCHANGED <<vsize, gc, w, call>>

ScanFirstCopy ==
    /\ ScanningValid
    /\ items[ScannedItem.index].seq = NoSeq
    /\ items' = [items EXCEPT ![ScannedItem.index] = HeaderOf(ScannedItem, scan.peb)]
    /\ sum' = sum + 1
    /\ scan' = [scan EXCEPT !.pos = @ + 1, !.valid = @ + Footprint(ScannedItem.val)]
    /\ pc' = Check(sum < MaxItems, "item_scan")
    /\ UNCHANGED <<flash, info>>

\* Two valid copies: power failed between committing a copy and deleting the old.
SecondCopyOk ==
    Check(~scan.abnormal /\ items[ScannedItem.index].seq # ScannedItem.seq, "item_scan")

ScanNewerCopy ==
    /\ ScanningValid
    /\ LET old == items[ScannedItem.index]
           oldSize == Footprint(old.size)
           inPlace == IF old.peb = scan.peb THEN oldSize ELSE 0
       IN  /\ old.seq # NoSeq /\ old.seq < ScannedItem.seq
           /\ Discard(old.peb, old.off)
           /\ info' = [info EXCEPT ![old.peb].dirty = @ + oldSize]
           /\ scan' = [scan EXCEPT !.pos = @ + 1, !.abnormal = TRUE,
                                   !.valid = @ + Footprint(ScannedItem.val) - inPlace,
                                   !.dirty = @ + inPlace]
    /\ items' = [items EXCEPT ![ScannedItem.index] = HeaderOf(ScannedItem, scan.peb)]
    /\ pc' = SecondCopyOk
    /\ UNCHANGED sum

ScanOlderCopy ==
    /\ ScanningValid
    /\ items[ScannedItem.index].seq # NoSeq
    /\ items[ScannedItem.index].seq >= ScannedItem.seq
    /\ Discard(scan.peb, ScannedItem.off)
    /\ info' = [info EXCEPT ![scan.peb].dirty = @ + Footprint(ScannedItem.val)]
    /\ scan' = [scan EXCEPT !.pos = @ + 1, !.abnormal = TRUE,
                            !.dirty = @ + Footprint(ScannedItem.val)]
    /\ pc' = SecondCopyOk
    /\ UNCHANGED <<items, sum>>

-----------------------------------------------------------------------------
(* peb_scan, last part: finish or restart an interrupted garbage collection. *)

ItemScanDone == pc = "item_scan" /\ scan.peb = PebCount
Recovery(src, dst, then, next) ==
    /\ gc' = [NoGc EXCEPT !.src = src, !.dst = dst, !.then = then]
    /\ pc' = next
    /\ UNCHANGED <<flash, ram, scan, w, call>>

\* The transfer was running: drop the partial target, relocate again.
RecoverTransfering ==
    /\ ItemScanDone
    /\ scan.reclaiming # <<>> /\ scan.transfered = NoPeb
    /\ IF scan.transfering # NoPeb
       THEN Recovery(<<scan.transfering>>, NoPeb, "relocate", "reclaim")
       ELSE Recovery(scan.reclaiming, NoPeb, "init", "relocate")

\* The transfer was complete: reclaim what is left of the sources.
RecoverTransfered ==
    /\ ItemScanDone
    /\ scan.transfered # NoPeb
    /\ Recovery(scan.reclaiming, scan.transfered, "actived", "reclaim")

RecoverNothing ==
    /\ ItemScanDone
    /\ scan.reclaiming = <<>> /\ scan.transfered = NoPeb
    /\ Recovery(<<>>, NoPeb, "init", Check(scan.transfering = NoPeb, "init"))

InitDone ==
    /\ pc = "init"
    /\ vsize' = SumOver(Pebs, [p \in Pebs |-> ValidIn(p)])
    /\ scan' = NoScan /\ gc' = NoGc
    /\ pc' = "idle"
    /\ UNCHANGED <<flash, info, items, sum, wseq, w, call>>

-----------------------------------------------------------------------------
(* garbage_collection_peb: which blocks to merge. *)

MaxMerge == 3               \* MAX_MERGE_PEBS_PER_ROUND; one round per collection

\* Method 1: blocks erased clearly less often than the mean; else method 2: all.
Candidates ==
    LET used == Pebs \ Reserved
        mean == SumOver(used, EraseCount) \div Cardinality(used)
        young == {p \in used : info[p].count < (mean * 95) \div 100}
    IN  IF young # {} THEN young ELSE used

Valid(s) == SumOver(DOMAIN s, [i \in DOMAIN s |-> ValidIn(s[i])])
Blocks(s) == {s[i] : i \in DOMAIN s}

\* s heads the candidates in order of valid size (equal sizes in any order), and
\* is as long as garbage_reclaim_pebs lets it be: only blocks without valid data,
\* or as many as fit into one block.
VictimList(s, C) ==
    LET rest == C \ Blocks(s)
        empty == {p \in C : ValidIn(p) = 0}
    IN  /\ Blocks(s) \subseteq C /\ Cardinality(Blocks(s)) = Len(s)
        /\ \A i, j \in DOMAIN s : i < j => ValidIn(s[i]) <= ValidIn(s[j])
        /\ \A i \in DOMAIN s, p \in rest : ValidIn(s[i]) <= ValidIn(p)
        /\ IF empty # {}
           THEN Blocks(s) \subseteq empty /\ (Len(s) = MaxMerge \/ Blocks(s) = empty)
           ELSE /\ Valid(s) <= Capacity
                /\ Len(s) = MaxMerge \/ \A p \in rest : Valid(s) + ValidIn(p) > Capacity

GarbageCollect ==
    /\ pc = "alloc"
    /\ ~CanAllocate(Footprint(req.val))
    /\ \E n \in 1 .. MaxMerge : \E s \in [1 .. n -> Candidates] :
          /\ VictimList(s, Candidates)
          /\ gc' = [NoGc EXCEPT !.src = s]
    /\ pc' = "relocate"
    /\ UNCHANGED <<flash, ram, scan, w, call>>

-----------------------------------------------------------------------------
(* relocate_pebs, date_item_migration and peb_reclaim. *)

RelocateEmpty ==
    /\ pc = "relocate"
    /\ Valid(gc.src) = 0
    /\ pc' = "reclaim"
    /\ UNCHANGED <<flash, ram, scan, gc, w, call>>

\* Mutant: the sources are not marked before the transfer.
RelocateUnmarked ==
    /\ pc = "relocate"
    /\ Valid(gc.src) # 0
    /\ gc' = [gc EXCEPT !.cur = Len(gc.src) + 1]
    /\ pc' = "mark"
    /\ UNCHANGED <<flash, ram, scan, w, call>>

RelocateValid ==
    /\ pc = "relocate"
    /\ Valid(gc.src) # 0
    /\ pc' = "mark"
    /\ UNCHANGED <<flash, ram, scan, gc, w, call>>

AtSource(label) == pc = label /\ gc.cur <= Len(gc.src)
AfterSources(label) == pc = label /\ gc.cur > Len(gc.src)
NextSource == [gc EXCEPT !.cur = @ + 1, !.pos = 1]
Source == gc.src[gc.cur]

MarkReclaiming ==
    /\ AtSource("mark")
    /\ SetPebStatus(Source, PebReclaiming)
    /\ gc' = NextSource
    /\ UNCHANGED <<ram, pc, scan, w, call>>

\* Nothing reserved to move to is an error, and asserts.
PickTarget ==
    /\ AfterSources("mark")
    /\ IF Reserved = {}
       THEN UNCHANGED <<flash, info, gc>>
       ELSE LET p == Least(Reserved, EraseCount) IN
            /\ Activate(p)
            /\ info' = [info EXCEPT ![p].reserved = FALSE]
            /\ gc' = [gc EXCEPT !.cur = 1, !.pos = 1, !.dst = p, !.off = 0]
    /\ pc' = Check(Reserved # {}, "transfering")
    /\ UNCHANGED <<items, sum, wseq, vsize, scan, w, call>>

StartTransfer ==
    /\ pc = "transfering"
    /\ SetPebStatus(gc.dst, PebTransfering)
    /\ pc' = "migrate"
    /\ UNCHANGED <<ram, scan, gc, w, call>>

Migrating == AtSource("migrate")
SourceHasItem == gc.pos <= Len(log[Source])
SourceItem == log[Source][gc.pos]

SourceDone ==
    /\ Migrating
    /\ SourceHasItem => SourceItem.status = ItemWriting
    /\ gc' = NextSource
    /\ UNCHANGED <<flash, ram, pc, scan, w, call>>

SkipDeleted ==
    /\ Migrating
    /\ SourceHasItem /\ SourceItem.status = ItemDelete
    /\ gc' = [gc EXCEPT !.pos = @ + 1]
    /\ UNCHANGED <<flash, ram, pc, scan, w, call>>

\* Mutant: the header in RAM is not redirected to the copy.
CopyItemOnly ==
    /\ Migrating
    /\ SourceHasItem /\ SourceItem.status = ItemValid
    /\ Append1(gc.dst, [SourceItem EXCEPT !.status = ItemWriting, !.off = gc.off])
    /\ pc' = "copied"
    /\ UNCHANGED <<ram, scan, gc, w, call>>

\* The copy keeps index, sequence number and value; its header is redirected.
\* A valid item that is not the newest copy of its index is an error.
CopyItem ==
    /\ Migrating
    /\ SourceHasItem /\ SourceItem.status = ItemValid
    /\ Append1(gc.dst, [SourceItem EXCEPT !.status = ItemWriting, !.off = gc.off])
    /\ items' = [items EXCEPT ![SourceItem.index].peb = gc.dst,
                              ![SourceItem.index].off = gc.off]
    /\ pc' = Check(/\ items[SourceItem.index].seq = SourceItem.seq
                   /\ Writable(hdr[gc.dst]), "copied")
    /\ UNCHANGED <<info, sum, wseq, vsize, scan, gc, w, call>>

CommitCopy ==
    /\ pc = "copied"
    /\ Validate(gc.dst, gc.off)
    /\ LET size == Footprint(SourceItem.val) IN
          /\ info' = [info EXCEPT ![gc.dst].free = @ - size]
          /\ gc' = [gc EXCEPT !.off = @ + size, !.pos = @ + 1]
    /\ pc' = "migrate"
    /\ UNCHANGED <<items, sum, wseq, vsize, scan, w, call>>

EndTransfer ==
    /\ AfterSources("migrate")
    /\ SetPebStatus(gc.dst, PebTransfered)
    /\ gc' = [gc EXCEPT !.cur = 1, !.pos = 1, !.then = "actived"]
    /\ pc' = "reclaim"
    /\ UNCHANGED <<ram, scan, w, call>>

\* relocate_pebs returns to space_allocation, or to peb_scan during nvdm_init.
Caller == IF req = NoReq THEN "init" ELSE "alloc"

Reclaim ==
    /\ AtSource("reclaim")
    /\ SetPebStatus(Source, PebErasing)
    /\ pc' = "erase"
    /\ UNCHANGED <<ram, scan, gc, w, call>>

\* Mutant: the erase is forgotten.
EraseNothing ==
    /\ pc = "erase"
    /\ info' = [info EXCEPT ![Source].count = Bump(@)]
    /\ pc' = "empty"
    /\ UNCHANGED <<flash, items, sum, wseq, vsize, scan, gc, w, call>>

Erase ==
    /\ pc = "erase"
    /\ EraseAndFormat(Source, Bump(info[Source].count))
    /\ info' = [info EXCEPT ![Source].count = Bump(@)]
    /\ pc' = "empty"
    /\ UNCHANGED <<items, sum, wseq, vsize, scan, gc, w, call>>

MarkEmpty ==
    /\ pc = "empty"
    /\ SetPebStatus(Source, PebEmpty)
    /\ info' = [info EXCEPT ![Source].reserved = TRUE, ![Source].dirty = 0,
                            ![Source].free = Capacity]
    /\ gc' = NextSource
    /\ pc' = "reclaim"
    /\ UNCHANGED <<items, sum, wseq, vsize, scan, w, call>>

\* All sources are back in the pool.
Reclaimed ==
    /\ AfterSources("reclaim")
    /\ pc' = gc.then
    /\ gc' = IF gc.then = "relocate" THEN [NoGc EXCEPT !.src = scan.reclaiming,
                                                       !.then = "init"]
             ELSE gc
    /\ UNCHANGED <<flash, ram, scan, w, call>>

TargetActived ==
    /\ pc = "actived"
    /\ SetPebStatus(gc.dst, PebActived)
    /\ gc' = NoGc
    /\ pc' = Caller
    /\ UNCHANGED <<ram, scan, w, call>>

-----------------------------------------------------------------------------
(* nvdm_write_data_item. *)

Return(status) ==
    /\ ret' = status
    /\ req' = NoReq /\ deleted' = FALSE
    /\ w' = NoWrite /\ gc' = NoGc
    /\ pc' = "idle"

RequestWrite ==
    /\ pc = "idle"
    /\ wseq < MaxSeq
    /\ req' \in WriteReq
    /\ ret' = "NONE" /\ deleted' = FALSE
    /\ pc' = "write"
    /\ UNCHANGED <<flash, ram, scan, gc, w>>

Holder == Found({req.key})              \* the header the name search finds
AddedSize ==
    IF Holder = {} THEN Footprint(req.val)
                   ELSE req.val - items[Lowest(Holder)].size

WriteRefused ==
    /\ pc = "write"
    /\ ~SpaceIsEnough(AddedSize)
    /\ Return("INSUFFICIENT_SPACE")
    /\ UNCHANGED <<flash, ram, scan>>

WriteAccepted ==
    /\ pc = "write"
    /\ SpaceIsEnough(AddedSize)
    /\ w' = [NoWrite EXCEPT
                !.append = (Holder = {}),
                !.index = IF Holder # {} THEN Lowest(Holder)
                          ELSE IF EmptyIndexes # {} THEN Lowest(EmptyIndexes) ELSE 0]
    /\ pc' = "alloc"
    /\ UNCHANGED <<flash, ram, scan, gc, call>>

Allocating == pc = "alloc" /\ CanAllocate(Footprint(req.val))

\* Mutant: the failure is reported as success.
AllocateTooManyOK ==
    /\ Allocating
    /\ w.append /\ sum >= MaxItems
    /\ vsize' = vsize + AddedSize
    /\ ret' = "OK" /\ req' = NoReq /\ w' = NoWrite /\ gc' = NoGc
    /\ pc' = "held"
    /\ UNCHANGED <<flash, info, items, sum, wseq, scan, deleted>>

\* The table of headers is full: the call returns and still holds the mutex.
AllocateTooMany ==
    /\ Allocating
    /\ w.append /\ sum >= MaxItems
    /\ vsize' = vsize + AddedSize
    /\ ret' = "ERROR" /\ req' = NoReq /\ w' = NoWrite /\ gc' = NoGc
    /\ pc' = "held"
    /\ UNCHANGED <<flash, info, items, sum, wseq, scan, deleted>>

\* A fresh block starts its life; the header in RAM already names the new copy.
Allocate ==
    /\ Allocating
    /\ ~(w.append /\ sum >= MaxItems)
    /\ LET p == FreePeb(Footprint(req.val))
           off == Capacity - info[p].free
           fresh == info[p].free = Capacity
       IN  /\ w' = [w EXCEPT !.peb = p, !.off = off, !.fresh = fresh,
                             !.oldPeb = items[w.index].peb,
                             !.oldOff = items[w.index].off]
           /\ items' = [items EXCEPT ![w.index] =
                           [size |-> req.val, peb |-> p, off |-> off, seq |-> wseq + 1]]
           /\ info' = [info EXCEPT ![p].free = @ - Footprint(req.val),
                                   ![p].reserved = @ /\ ~fresh]
           /\ IF fresh THEN Activate(p) ELSE UNCHANGED flash
    /\ vsize' = vsize + AddedSize
    /\ wseq' = wseq + 1
    /\ sum' = IF w.append THEN sum + 1 ELSE sum
    /\ gc' = NoGc
    /\ pc' = "writing"
    /\ UNCHANGED <<scan, call>>

WriteItem ==
    /\ pc = "writing"
    /\ Append1(w.peb, [status |-> ItemWriting, off |-> w.off, key |-> req.key,
                       index |-> w.index, seq |-> wseq, val |-> req.val])
    /\ pc' = Check(Writable(hdr[w.peb]), "valid")
    /\ UNCHANGED <<ram, scan, gc, w, call>>

ItemCommitted == IF w.append THEN "written" ELSE "delete_old"

\* Mutant: a fresh block is never promoted to PEB_STATUS_ACTIVED.
MarkValidOnly ==
    /\ pc = "valid"
    /\ Validate(w.peb, w.off)
    /\ pc' = ItemCommitted
    /\ UNCHANGED <<ram, scan, gc, w, call>>

MarkValid ==
    /\ pc = "valid"
    /\ Validate(w.peb, w.off)
    /\ pc' = IF w.fresh THEN "peb_actived" ELSE ItemCommitted
    /\ UNCHANGED <<ram, scan, gc, w, call>>

PebActivedNow ==
    /\ pc = "peb_actived"
    /\ SetPebStatus(w.peb, PebActived)
    /\ pc' = ItemCommitted
    /\ UNCHANGED <<ram, scan, gc, w, call>>

\* Mutant: the old copy is accounted as dirty but left valid.
DeleteOldDirtyOnly ==
    /\ pc = "delete_old"
    /\ \E j \in ItemsAt(log[w.oldPeb], w.oldOff) :
          info' = [info EXCEPT ![w.oldPeb].dirty = @ + Footprint(log[w.oldPeb][j].val)]
    /\ pc' = "written"
    /\ UNCHANGED <<flash, items, sum, wseq, vsize, scan, gc, w, call>>

\* The size that turns dirty is read back from the old copy.
DeleteOld ==
    /\ pc = "delete_old"
    /\ Discard(w.oldPeb, w.oldOff)
    /\ \E j \in ItemsAt(log[w.oldPeb], w.oldOff) :
          info' = [info EXCEPT ![w.oldPeb].dirty = @ + Footprint(log[w.oldPeb][j].val)]
    /\ pc' = Check(Writable(hdr[w.oldPeb]), "written")
    /\ UNCHANGED <<items, sum, wseq, vsize, scan, gc, w, call>>

WriteDone ==
    /\ pc = "written"
    /\ Return("OK")
    /\ UNCHANGED <<flash, ram, scan>>

-----------------------------------------------------------------------------
(* nvdm_delete_data_item, nvdm_delete_group, nvdm_delete_all. *)

RequestDelete ==
    /\ pc = "idle"
    /\ req' \in DeleteReq
    /\ ret' = "NONE" /\ deleted' = FALSE
    /\ pc' = "delete"
    /\ UNCHANGED <<flash, ram, scan, gc, w>>

DeleteItem ==
    /\ pc = "delete"
    /\ Found(req.keys) # {}
    /\ LET i == Lowest(Found(req.keys))
           size == Footprint(items[i].size)
       IN  /\ Discard(items[i].peb, items[i].off)
           /\ info' = [info EXCEPT ![items[i].peb].dirty = @ + size]
           /\ items' = [items EXCEPT ![i] = NoItem]   \* only size = 0 matters
           /\ vsize' = vsize - size
           /\ pc' = Check(Writable(hdr[items[i].peb]) /\ vsize >= size, "delete")
    /\ sum' = sum - 1
    /\ deleted' = TRUE
    /\ UNCHANGED <<wseq, scan, gc, w, req, ret>>

DeleteDone ==
    /\ pc = "delete"
    /\ Found(req.keys) = {}
    /\ Return(IF deleted THEN "OK" ELSE "ITEM_NOT_FOUND")
    /\ UNCHANGED <<flash, ram, scan>>

-----------------------------------------------------------------------------
Classify ==
    \/ ScanActiving \/ ScanActivingEmpty \/ ScanTransfering \/ ScanTransfered
    \/ ScanReclaiming \/ ScanActived \/ ScanEmpty \/ ScanUnknown
    \/ ScanMean \/ FormatUnknown \/ AllFormatted

ScanLogs ==
    \/ SkipPeb \/ ScanEndOfLog \/ ScanTornItem \/ ScanDeletedItem
    \/ ScanFirstCopy \/ ScanNewerCopy \/ ScanOlderCopy

Recover == RecoverTransfering \/ RecoverTransfered \/ RecoverNothing \/ InitDone

Boot == Classify \/ ScanLogs \/ Recover

Transfer ==
    \/ GarbageCollect \/ RelocateEmpty \/ RelocateValid
    \/ MarkReclaiming \/ PickTarget \/ StartTransfer
    \/ SourceDone \/ SkipDeleted \/ CopyItem \/ CommitCopy \/ EndTransfer

ReclaimPebs == Reclaim \/ Erase \/ MarkEmpty \/ Reclaimed \/ TargetActived

Collect == Transfer \/ ReclaimPebs

Write ==
    \/ WriteRefused \/ WriteAccepted \/ AllocateTooMany \/ Allocate
    \/ WriteItem \/ MarkValid \/ PebActivedNow \/ DeleteOld \/ WriteDone

Delete == DeleteItem \/ DeleteDone

Request == RequestWrite \/ RequestDelete

\* What the processor does by itself once a call is made or power is applied.
Run == PowerOn \/ Boot \/ Collect \/ Write \/ Delete

Next == Run \/ Request \/ PowerLoss

Spec == Init /\ [][Next]_vars
FairSpec == Spec /\ WF_vars(Run)
=============================================================================
