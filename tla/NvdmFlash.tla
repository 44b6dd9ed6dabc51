----------------------------- MODULE NvdmFlash -----------------------------
(***************************************************************************)
(* The flash region of the NVDM store: Pebs physical erase blocks (PEBs),  *)
(* each a header followed by a log of data items.  Programming only clears *)
(* bits, so a status byte moves down the chain of codes below until the    *)
(* block is erased.  One action of NvdmStore makes at most one write that  *)
(* a recovery can tell apart; a single status byte is written atomically.  *)
(***************************************************************************)
EXTENDS Naturals, Sequences, FiniteSets, FiniteSetsExt

CONSTANTS
    PebCount,    \* g_nvdm_peb_count
    Capacity,    \* g_nvdm_peb_size - PEB_HEADER_SIZE, in model units
    Overhead,    \* item header + names + checksum, in the same units
    MaxItemSize, \* g_max_data_item_size, the configured largest value
    NoKey,       \* the name of a deleted item
    EraseCap,    \* bound: erase counters saturate here (32 bits in the code)
    WornCounts   \* the counters blocks may have when a used region starts empty

ASSUME FlashAssumption ==
    /\ PebCount \in Nat /\ PebCount >= 2
    /\ Capacity \in Nat /\ Overhead \in Nat \ {0} /\ MaxItemSize \in Nat \ {0}
    /\ MaxItemSize + Overhead < Capacity
    /\ EraseCap \in Nat /\ WornCounts \subseteq 0 .. EraseCap

Pebs == 0 .. PebCount - 1

\* peb_status_t and data_item_status_t, the byte codes of nvdm_internal.h.
PebVirgin == 255
PebEmpty == 254
PebActiving == 252
PebTransfering == 248
PebTransfered == 240
PebActived == 224
PebReclaiming == 192
PebErasing == 128
PebStatus == {PebVirgin, PebEmpty, PebActiving, PebTransfering,
              PebTransfered, PebActived, PebReclaiming, PebErasing}

ItemWriting == 254
ItemValid == 252
ItemDelete == 248
ItemStatus == {ItemWriting, ItemValid, ItemDelete}

NoCount == EraseCap + 1     \* ERASE_COUNT_MAX: the counter is blank
EraseCounts == 0 .. EraseCap
\* What a header stores of a counter, and the counter after one more erase.
Saturate(count) == IF count \in EraseCounts THEN count ELSE EraseCap
Bump(count) == Saturate(count + 1)

\* A header as erased, and as the format writes leave it (status still blank).
BlankHeader == [status |-> PebVirgin, count |-> NoCount, reserved |-> TRUE]
Formatted(count) == [BlankHeader EXCEPT !.count = count]

\* The region as flashed at the factory, or formatted with worn counters.
InitialHeaders ==
    {[p \in Pebs |-> BlankHeader]} \cup
    {[p \in Pebs |-> [Formatted(c[p]) EXCEPT !.status = PebEmpty]] :
        c \in [Pebs -> WornCounts]}

\* peb_write_data programs a block only when its header is complete.
Writable(h) == h.count # NoCount /\ ~h.reserved
\* peb_header_is_validate(hdr, 1)
EmptyHeaderOk(h) == h.count # NoCount /\ h.reserved

\* Bytes an item whose value has the given size takes in a log.
Footprint(size) == Overhead + size

\* The item that starts at an offset of a log, if there is one.
ItemsAt(l, off) == {j \in DOMAIN l : l[j].off = off}
\* The status byte of the item at an offset is written. Of a deleted item the
\* code only reads the sizes again.
Validated(l, off) ==
    [j \in DOMAIN l |->
        IF l[j].off = off THEN [l[j] EXCEPT !.status = ItemValid] ELSE l[j]]
Discarded(l, off) ==
    [j \in DOMAIN l |->
        IF l[j].off = off
        THEN [l[j] EXCEPT !.status = ItemDelete, !.key = NoKey, !.index = 0, !.seq = 0]
        ELSE l[j]]

\* The block a loop with a strict comparison picks: least measure, lowest number.
Least(S, f) ==
    CHOOSE p \in S : \A q \in S : f[p] < f[q] \/ (f[p] = f[q] /\ p <= q)
=============================================================================
