-------------------------- MODULE NvdmStoreProofs --------------------------
(***************************************************************************)
(* Proofs about NvdmStore, for any region, keys, values and bounds.        *)
(*                                                                         *)
(* Part 1, type correctness: one lemma per group of actions, from the      *)
(* types of the helpers they use and from Located, which says that the     *)
(* locals name blocks that exist.                                          *)
(*                                                                         *)
(* Part 2, the blocks: what a collection leaves in flash wherever the      *)
(* power fails, and the reserve.  BlockInv is inductive given the types;   *)
(* it says, phase by phase, which status every block has and which blocks  *)
(* are reserved.                                                           *)
(*                                                                         *)
(* Part 3, logs and headers: sums over logs and tables, where items lie,   *)
(* and what is written of a block before its items.  NvdmDataProofs goes   *)
(* on from here.                                                           *)
(***************************************************************************)
EXTENDS NvdmStoreProps, FiniteSetTheorems, WellFoundedInduction, TLAPS

(***************************************************************************)
(* Part 1: types.                                                          *)
(***************************************************************************)

-----------------------------------------------------------------------------
(* The blocks and the choices among them. *)

LEMMA PebFacts ==
    /\ PebCount \in Nat /\ PebCount >= 2 /\ NoPeb = PebCount
    /\ Pebs \subseteq Nat /\ IsFiniteSet(Pebs) /\ NoPeb \notin Pebs
    /\ \A n \in Nat : n \in Pebs <=> n < PebCount
BY FlashAssumption, FS_Interval DEF Pebs, NoPeb

\* A set of numbers that is not empty has a least member.
LEMMA LeastNumber ==
    ASSUME NEW S \in SUBSET Nat, S # {}
    PROVE  \E n \in S : \A m \in S : n <= m
<1>1. PICK n \in S : \A m \in S : ~ (<<m, n>> \in OpToRel(<, Nat))
  BY NatLessThanWellFounded, WFMin, Zenon
<1>2. \A m \in S : ~ (m < n)
  BY <1>1 DEF OpToRel
<1> QED BY <1>2

LEMMA LowestMember ==
    ASSUME NEW S \in SUBSET Nat, S # {}
    PROVE  Lowest(S) \in S
BY LeastNumber DEF Lowest

\* The loops that look for a minimum find a block of the set they look at.
LEMMA LeastMember ==
    ASSUME NEW S \in SUBSET Pebs, S # {}, NEW f, \A p \in S : f[p] \in Nat
    PROVE  Least(S, f) \in S
<1> DEFINE M == {f[p] : p \in S}
<1>1. PICK m \in M : \A n \in M : m <= n
  <2>1. M \in SUBSET Nat /\ M # {} OBVIOUS
  <2> QED BY <2>1, LeastNumber
<1> DEFINE T == {p \in S : f[p] = m}
<1>2. PICK p \in T : \A q \in T : p <= q
  <2>1. T \in SUBSET Nat /\ T # {} BY PebFacts
  <2> QED BY <2>1, LeastNumber
<1>3. \A q \in S : f[p] < f[q] \/ (f[p] = f[q] /\ p <= q)
  BY <1>1, <1>2
<1> QED BY <1>2, <1>3 DEF Least

\* What is left of a reserve of two or more.
LEMMA ReserveOfTwo ==
    ASSUME NEW S \in SUBSET Pebs, Cardinality(S) > 1, NEW p
    PROVE  S \ {p} # {}
<1>1. IsFiniteSet(S) BY PebFacts, FS_Subset
<1>2. Cardinality(S) \in Nat BY <1>1, FS_CardinalityType
<1>3. Cardinality(S \ {p}) > 0 BY <1>1, <1>2, FS_RemoveElement
<1> QED BY <1>3, FS_EmptySet

LEMMA NoReserve ==
    ASSUME Cardinality(Reserved) > 1
    PROVE  Reserved # {}
BY FS_EmptySet

-----------------------------------------------------------------------------
(* Types of the helpers. *)

LEMMA CountTypes ==
    /\ EraseCap \in Nat /\ NoCount \in Nat /\ NoCount > EraseCap
    /\ EraseCounts \subseteq Nat /\ 0 \in EraseCounts
    /\ \A count : Saturate(count) \in EraseCounts /\ Bump(count) \in EraseCounts
    /\ EraseCounts \subseteq 0 .. NoCount /\ NoCount \in 0 .. NoCount
BY FlashAssumption DEF NoCount, EraseCounts, Saturate, Bump

LEMMA ValueTypes ==
    /\ Values \subseteq Nat \ {0} /\ Overhead \in Nat \ {0} /\ Capacity \in Nat
    /\ \A v \in Values : Footprint(v) \in Nat \ {0}
    /\ 0 \in Indexes /\ Indexes \subseteq Nat /\ NoSeq = 0
BY FlashAssumption, StoreAssumption DEF Footprint, Indexes, NoSeq

LEMMA HeaderTypes ==
    /\ BlankHeader \in Headers
    /\ \A count \in 0 .. NoCount : Formatted(count) \in Headers
BY CountTypes DEF BlankHeader, Formatted, Headers, PebStatus

LEMMA LogTypes ==
    ASSUME NEW l \in Seq(Items), NEW off
    PROVE  /\ Validated(l, off) \in Seq(Items) /\ Len(Validated(l, off)) = Len(l)
           /\ Discarded(l, off) \in Seq(Items) /\ Len(Discarded(l, off)) = Len(l)
<1>1. /\ Len(l) \in Nat /\ DOMAIN l = 1 .. Len(l)
      /\ \A j \in 1 .. Len(l) : l[j] \in Items
  OBVIOUS
<1>2. \A j \in 1 .. Len(l) : [l[j] EXCEPT !.status = ItemValid] \in Items
  BY <1>1 DEF Items, ItemStatus
<1>3. \A j \in 1 .. Len(l) :
        [l[j] EXCEPT !.status = ItemDelete, !.key = NoKey, !.index = 0, !.seq = 0] \in Items
  BY <1>1, ValueTypes DEF Items, ItemStatus
<1>4. Validated(l, off) \in [1 .. Len(l) -> Items]
  BY <1>1, <1>2 DEF Validated
<1>5. Discarded(l, off) \in [1 .. Len(l) -> Items]
  BY <1>1, <1>3, Zenon DEF Discarded
<1> QED BY <1>1, <1>4, <1>5

LEMMA NullTypes ==
    /\ NoInfo \in Infos /\ NoItem \in ItemHeaders /\ NoScan \in Scans
    /\ NoGc \in Gcs /\ NoWrite \in Writes
BY PebFacts, CountTypes, ValueTypes
   DEF NoInfo, Infos, NoItem, ItemHeaders, NoScan, Scans, NoGc, Gcs, NoWrite, Writes, Pebs

-----------------------------------------------------------------------------
(* Types of the parts a step changes. *)

LEMMA HdrUpdate ==
    ASSUME hdr \in [Pebs -> Headers]
    PROVE  /\ \A p \in Pebs, s \in PebStatus :
                 [hdr EXCEPT ![p].status = s] \in [Pebs -> Headers]
           /\ \A p \in Pebs, s \in PebStatus, r \in BOOLEAN :
                 [hdr EXCEPT ![p].status = s, ![p].reserved = r] \in [Pebs -> Headers]
           /\ \A p \in Pebs, s \in PebStatus, c \in 0 .. NoCount :
                 [hdr EXCEPT ![p].count = c, ![p].status = s] \in [Pebs -> Headers]
           /\ \A p \in Pebs, h \in Headers : [hdr EXCEPT ![p] = h] \in [Pebs -> Headers]
BY Zenon DEF Headers

LEMMA LogUpdate ==
    ASSUME log \in [Pebs -> Seq(Items)]
    PROVE  /\ \A p \in Pebs : [log EXCEPT ![p] = <<>>] \in [Pebs -> Seq(Items)]
           /\ \A p \in Pebs, item \in Items :
                 [log EXCEPT ![p] = Append(@, item)] \in [Pebs -> Seq(Items)]
           /\ \A p \in Pebs : \A off :
                 /\ [log EXCEPT ![p] = Validated(@, off)] \in [Pebs -> Seq(Items)]
                 /\ [log EXCEPT ![p] = Discarded(@, off)] \in [Pebs -> Seq(Items)]
<1>1. \A p \in Pebs, item \in Items : Append(log[p], item) \in Seq(Items)
  OBVIOUS
<1>2. \A p \in Pebs : \A off :
         Validated(log[p], off) \in Seq(Items) /\ Discarded(log[p], off) \in Seq(Items)
  BY LogTypes
<1> QED BY <1>1, <1>2

LEMMA InfoUpdate ==
    ASSUME info \in [Pebs -> Infos]
    PROVE  /\ \A p \in Pebs, n \in Int :
                 /\ [info EXCEPT ![p].free = n] \in [Pebs -> Infos]
                 /\ [info EXCEPT ![p].dirty = n] \in [Pebs -> Infos]
           /\ \A p \in Pebs, r \in BOOLEAN :
                 [info EXCEPT ![p].reserved = r] \in [Pebs -> Infos]
           /\ \A p \in Pebs, c \in 0 .. NoCount :
                 [info EXCEPT ![p].count = c] \in [Pebs -> Infos]
           /\ \A p \in Pebs, c \in 0 .. NoCount, r \in BOOLEAN :
                 [info EXCEPT ![p].count = c, ![p].reserved = r] \in [Pebs -> Infos]
           /\ \A p \in Pebs, n \in Int, r \in BOOLEAN :
                 [info EXCEPT ![p].free = n, ![p].reserved = r] \in [Pebs -> Infos]
<1>1. \A p \in Pebs, n \in Int :
         /\ [info[p] EXCEPT !.free = n] \in Infos
         /\ [info[p] EXCEPT !.dirty = n] \in Infos
  BY DEF Infos
<1>2. \A p \in Pebs, r \in BOOLEAN : [info[p] EXCEPT !.reserved = r] \in Infos
  BY DEF Infos
<1>3. \A p \in Pebs, c \in 0 .. NoCount : [info[p] EXCEPT !.count = c] \in Infos
  BY DEF Infos
<1>4. \A p \in Pebs, c \in 0 .. NoCount, r \in BOOLEAN :
         [info EXCEPT ![p].count = c, ![p].reserved = r] \in [Pebs -> Infos]
  BY DEF Infos
<1>5. \A p \in Pebs, n \in Int, r \in BOOLEAN :
         [info EXCEPT ![p].free = n, ![p].reserved = r] \in [Pebs -> Infos]
  BY DEF Infos
<1> QED BY <1>1, <1>2, <1>3, <1>4, <1>5, Zenon

LEMMA InfoReset ==
    ASSUME info \in [Pebs -> Infos]
    PROVE  \A p \in Pebs, r \in BOOLEAN, d \in Int, n \in Int :
              [info EXCEPT ![p].reserved = r, ![p].dirty = d, ![p].free = n]
                 \in [Pebs -> Infos]
<1> TAKE p \in Pebs, r \in BOOLEAN, d \in Int, n \in Int
<1>1. [info[p] EXCEPT !.reserved = r, !.dirty = d, !.free = n] \in Infos
  BY DEF Infos
<1> QED BY <1>1

LEMMA ItemsUpdate ==
    ASSUME items \in [Indexes -> ItemHeaders]
    PROVE  /\ \A i \in Indexes, h \in ItemHeaders :
                 [items EXCEPT ![i] = h] \in [Indexes -> ItemHeaders]
           /\ \A i \in Indexes, p \in Pebs, off \in Int :
                 [items EXCEPT ![i].peb = p, ![i].off = off] \in [Indexes -> ItemHeaders]
BY Zenon DEF ItemHeaders

LEMMA ScanUpdate ==
    ASSUME scan \in Scans
    PROVE  /\ \A n \in 0 .. PebCount : [scan EXCEPT !.peb = n] \in Scans
           /\ \A n \in 0 .. PebCount, p \in Pebs :
                 /\ [scan EXCEPT !.peb = n, !.transfering = p] \in Scans
                 /\ [scan EXCEPT !.peb = n, !.transfered = p] \in Scans
           /\ \A n \in 0 .. PebCount, s \in Seq(Pebs) :
                 [scan EXCEPT !.peb = n, !.reclaiming = s] \in Scans
           /\ \A n \in 0 .. PebCount, m \in EraseCounts :
                 [scan EXCEPT !.peb = n, !.mean = m] \in Scans
           /\ \A n \in 0 .. PebCount, pos \in Nat \ {0}, d, v \in Int :
                 [scan EXCEPT !.peb = n, !.pos = pos, !.dirty = d, !.valid = v] \in Scans
           /\ \A pos \in Nat \ {0}, d \in Int : [scan EXCEPT !.pos = pos, !.dirty = d] \in Scans
           /\ \A pos \in Nat \ {0}, v \in Int : [scan EXCEPT !.pos = pos, !.valid = v] \in Scans
           /\ \A pos \in Nat \ {0}, a \in BOOLEAN, v, d \in Int :
                 [scan EXCEPT !.pos = pos, !.abnormal = a, !.valid = v, !.dirty = d] \in Scans
           /\ \A pos \in Nat \ {0}, a \in BOOLEAN, d \in Int :
                 [scan EXCEPT !.pos = pos, !.abnormal = a, !.dirty = d] \in Scans
BY Zenon DEF Scans

Thens == {"alloc", "init", "relocate", "actived"}
LEMMA GcUpdate ==
    ASSUME NEW g \in Gcs
    PROVE  /\ \A src \in Seq(Pebs) : [g EXCEPT !.src = src] \in Gcs
           /\ \A src \in Seq(Pebs), t \in Thens : [g EXCEPT !.src = src, !.then = t] \in Gcs
           /\ \A src \in Seq(Pebs), t \in Thens, dst \in Pebs \cup {NoPeb} :
                 [g EXCEPT !.src = src, !.dst = dst, !.then = t] \in Gcs
           /\ \A cur, pos \in Nat \ {0} : [g EXCEPT !.cur = cur, !.pos = pos] \in Gcs
           /\ \A pos \in Nat \ {0} : [g EXCEPT !.pos = pos] \in Gcs
           /\ \A off \in Int, pos \in Nat \ {0} : [g EXCEPT !.off = off, !.pos = pos] \in Gcs
           /\ \A cur, pos \in Nat \ {0}, dst \in Pebs, off \in Int :
                 [g EXCEPT !.cur = cur, !.pos = pos, !.dst = dst, !.off = off] \in Gcs
           /\ \A cur, pos \in Nat \ {0}, t \in Thens :
                 [g EXCEPT !.cur = cur, !.pos = pos, !.then = t] \in Gcs
BY Zenon DEF Gcs, Thens

LEMMA WriteUpdate ==
    ASSUME NEW l \in Writes
    PROVE  /\ \A a \in BOOLEAN, i \in Indexes :
                 [l EXCEPT !.append = a, !.index = i] \in Writes
           /\ \A p, q \in Pebs, off, o \in Int, f \in BOOLEAN :
                 [l EXCEPT !.peb = p, !.off = off, !.fresh = f, !.oldPeb = q, !.oldOff = o]
                    \in Writes
BY Zenon DEF Writes

LEMMA Shapes ==
    ASSUME TypeOK
    PROVE  /\ hdr \in [Pebs -> Headers] /\ log \in [Pebs -> Seq(Items)]
           /\ info \in [Pebs -> Infos] /\ items \in [Indexes -> ItemHeaders]
BY DEF TypeOK

\* What the types say of single fields.
LEMMA Fields ==
    ASSUME TypeOK
    PROVE  /\ \A p \in Pebs :
                 /\ hdr[p] \in Headers /\ hdr[p].status \in PebStatus
                 /\ hdr[p].count \in 0 .. NoCount /\ hdr[p].reserved \in BOOLEAN
                 /\ info[p].free \in Int /\ info[p].dirty \in Int
                 /\ info[p].reserved \in BOOLEAN /\ info[p].count \in 0 .. NoCount
                 /\ log[p] \in Seq(Items)
           /\ \A i \in Indexes :
                 /\ items[i].size \in Values \cup {0} /\ items[i].peb \in Pebs
                 /\ items[i].off \in Int /\ items[i].seq \in Nat
BY DEF TypeOK, Headers, Infos, ItemHeaders

LEMMA ItemFields ==
    ASSUME NEW item \in Items
    PROVE  /\ item.status \in ItemStatus /\ item.off \in Int
           /\ item.key \in Keys \cup {NoKey} /\ item.index \in Indexes
           /\ item.seq \in Nat /\ item.val \in Values
BY DEF Items

LEMMA LocalFields ==
    ASSUME TypeOK
    PROVE  /\ scan \in Scans /\ gc \in Gcs /\ w \in Writes
           /\ scan.peb \in 0 .. PebCount /\ scan.pos \in Nat \ {0}
           /\ scan.dirty \in Int /\ scan.valid \in Int /\ scan.abnormal \in BOOLEAN
           /\ scan.mean \in EraseCounts /\ scan.reclaiming \in Seq(Pebs)
           /\ scan.transfering \in Pebs \cup {NoPeb} /\ scan.transfered \in Pebs \cup {NoPeb}
           /\ gc.src \in Seq(Pebs) /\ gc.cur \in Nat \ {0} /\ gc.pos \in Nat \ {0}
           /\ gc.dst \in Pebs \cup {NoPeb} /\ gc.off \in Int /\ gc.then \in Thens
           /\ w.index \in Indexes /\ w.append \in BOOLEAN /\ w.peb \in Pebs \cup {NoPeb}
           /\ w.off \in Int /\ w.fresh \in BOOLEAN /\ w.oldPeb \in Pebs \cup {NoPeb}
           /\ w.oldOff \in Int
BY DEF TypeOK, Scans, Gcs, Writes, Thens

LEMMA Advances ==
    ASSUME TypeOK
    PROVE  /\ scan.pos + 1 \in Nat \ {0}
           /\ gc.pos + 1 \in Nat \ {0} /\ gc.cur + 1 \in Nat \ {0}
<1>1. scan.pos \in Nat /\ gc.pos \in Nat /\ gc.cur \in Nat BY LocalFields
<1> QED BY <1>1

-----------------------------------------------------------------------------
(* Where a step acts: the locals name blocks, items and requests that exist. *)

BootLabels == {"peb_scan", "peb_empty", "peb_count", "item_scan", "init"}
WritingLabels == {"writing", "valid", "peb_actived"}
CallLabels == WritingLabels \cup {"write", "alloc", "delete_old", "written"}
CollectLabels == {"relocate", "mark", "transfering", "migrate", "copied", "reclaim",
                  "erase", "empty", "actived"}
Located ==
    /\ pc \in BootLabels \cup {"off"} => req = NoReq
    /\ pc = "peb_empty" => scan.peb \in Pebs
    /\ pc \in CollectLabels => /\ req \in WriteReq \cup {NoReq}
                               /\ gc.then = "alloc" => req \in WriteReq
                               /\ gc.then \in {"init", "relocate"} => req = NoReq
                               /\ gc.then = "actived" => gc.dst \in Pebs
    /\ pc \in {"copied", "erase", "empty"} => gc.cur \in DOMAIN gc.src
    /\ pc = "copied" => gc.pos \in DOMAIN log[Source]
    /\ pc \in {"transfering", "migrate", "copied", "actived"} => gc.dst \in Pebs
    /\ pc \in CallLabels => req \in WriteReq
    /\ pc \in WritingLabels \cup {"delete_old"} => w.peb \in Pebs /\ w.oldPeb \in Pebs
    /\ pc = "delete" => req \in DeleteReq

LEMMA NextPebType ==
    ASSUME TypeOK, scan.peb < PebCount
    PROVE  scan.peb \in Pebs /\ scan.peb + 1 \in 0 .. PebCount
BY PebFacts, LocalFields

LEMMA SourceType ==
    ASSUME TypeOK, gc.cur <= Len(gc.src)
    PROVE  gc.cur \in DOMAIN gc.src /\ Source \in Pebs
BY LocalFields DEF Source

LEMMA SourceInDomain ==
    ASSUME TypeOK, gc.cur \in DOMAIN gc.src
    PROVE  Source \in Pebs /\ gc.cur <= Len(gc.src)
BY LocalFields DEF Source

-----------------------------------------------------------------------------
(* Type correctness (peb_header_t, data_item_header_t, peb_info_t, locals). *)

LEMMA TypeInit == Init => TypeOK
<1> SUFFICES ASSUME Init PROVE TypeOK
  OBVIOUS
<1>1. hdr \in [Pebs -> Headers]
  <2>1. \A c \in EraseCounts : [Formatted(c) EXCEPT !.status = PebEmpty] \in Headers
    BY CountTypes DEF BlankHeader, Formatted, Headers, PebStatus
  <2>2. WornCounts \subseteq EraseCounts
    BY FlashAssumption DEF EraseCounts
  <2> QED BY <2>1, <2>2, HeaderTypes DEF Init, InitialHeaders
<1>2. log \in [Pebs -> Seq(Items)]
  BY DEF Init
<1>3. info \in [Pebs -> Infos] /\ items \in [Indexes -> ItemHeaders]
  BY NullTypes DEF Init
<1>4. scan \in Scans /\ gc \in Gcs /\ w \in Writes
  BY NullTypes DEF Init
<1>5. pc \in Labels /\ ret \in Statuses
  BY DEF Init, Labels, Statuses
<1>6. sum \in Int /\ wseq \in Nat
  BY DEF Init
<1>7. deleted \in BOOLEAN /\ req \in WriteReq \cup DeleteReq \cup {NoReq}
  BY DEF Init
<1> QED
  BY <1>1, <1>2, <1>3, <1>4, <1>5, <1>6, <1>7 DEF TypeOK

\* The first loops of peb_scan.
LEMMA TypeClassify ==
    ASSUME TypeOK, Located, Classify
    PROVE  TypeOK'
<1>1. CASE ScanActiving
  <2>1. scan.peb < PebCount
    BY <1>1 DEF ScanActiving, Scanning
  <2>2. scan.peb \in Pebs
    BY <1>1, <2>1, NextPebType
  <2>3. hdr' \in [Pebs -> Headers] /\ log' \in [Pebs -> Seq(Items)]
    BY <1>1, <2>2, HdrUpdate, LogUpdate, HeaderTypes, CountTypes, Zenon
       DEF TypeOK, ScanActiving, EraseAndFormat
  <2>4. info' \in [Pebs -> Infos]
    BY <1>1, <2>2, InfoUpdate, CountTypes, Zenon DEF TypeOK, ScanActiving
  <2>5. pc' \in Labels
    BY <1>1 DEF ScanActiving, Labels
  <2> QED
    BY <1>1, <2>3, <2>4, <2>5 DEF ScanActiving, TypeOK, call
<1>2. CASE ScanActivingEmpty
  <2>1. scan.peb \in Pebs /\ scan.peb < PebCount
    BY <1>2, PebFacts DEF ScanActivingEmpty, Located
  <2>2. scan.peb + 1 \in 0 .. PebCount
    BY <1>2, <2>1, NextPebType
  <2>3. hdr' \in [Pebs -> Headers]
    BY <1>2, <2>1, HdrUpdate, Zenon DEF TypeOK, ScanActivingEmpty, SetPebStatus, PebStatus
  <2>4. info' \in [Pebs -> Infos]
    BY <1>2, <2>1, InfoUpdate, Zenon DEF TypeOK, ScanActivingEmpty
  <2>5. scan \in Scans
    BY <1>2 DEF TypeOK
  <2>6. scan' \in Scans
    BY <1>2, <2>2, <2>5, ScanUpdate, Zenon DEF ScanActivingEmpty, ScanStep
  <2>7. pc' \in Labels
    BY <1>2 DEF ScanActivingEmpty, Labels
  <2> QED
    BY <1>2, <2>3, <2>4, <2>6, <2>7 DEF ScanActivingEmpty, SetPebStatus, TypeOK, call
<1>3. CASE ScanTransfering
  <2>1. scan.peb < PebCount
    BY <1>3 DEF ScanTransfering, Scanning
  <2>2. scan.peb \in Pebs /\ scan.peb + 1 \in 0 .. PebCount
    BY <1>3, <2>1, NextPebType
  <2>3. info' \in [Pebs -> Infos]
    BY <1>3, <2>2, Fields, InfoUpdate, Zenon DEF TypeOK, ScanTransfering, ScanKnown
  <2>4. scan \in Scans
    BY <1>3 DEF TypeOK
  <2>5. scan' \in Scans
    BY <1>3, <2>2, <2>4, ScanUpdate, Zenon DEF ScanTransfering, ScanStep
  <2>6. pc' \in Labels
    BY <1>3 DEF ScanTransfering, ScanKnown, Check, Labels
  <2> QED
    BY <1>3, <2>3, <2>5, <2>6 DEF ScanTransfering, ScanKnown, flash, TypeOK, call
<1>4. CASE ScanTransfered
  <2>1. scan.peb < PebCount
    BY <1>4 DEF ScanTransfered, Scanning
  <2>2. scan.peb \in Pebs /\ scan.peb + 1 \in 0 .. PebCount
    BY <1>4, <2>1, NextPebType
  <2>3. info' \in [Pebs -> Infos]
    BY <1>4, <2>2, Fields, InfoUpdate, Zenon DEF TypeOK, ScanTransfered, ScanKnown
  <2>4. scan \in Scans
    BY <1>4 DEF TypeOK
  <2>5. scan' \in Scans
    BY <1>4, <2>2, <2>4, ScanUpdate, Zenon DEF ScanTransfered, ScanStep
  <2>6. pc' \in Labels
    BY <1>4 DEF ScanTransfered, ScanKnown, Check, Labels
  <2> QED
    BY <1>4, <2>3, <2>5, <2>6 DEF ScanTransfered, ScanKnown, flash, TypeOK, call
<1>5. CASE ScanReclaiming
  <2>1. scan.peb < PebCount
    BY <1>5 DEF ScanReclaiming, Scanning
  <2>2. scan.peb \in Pebs /\ scan.peb + 1 \in 0 .. PebCount
    BY <1>5, <2>1, NextPebType
  <2>3. info' \in [Pebs -> Infos]
    BY <1>5, <2>2, Fields, InfoUpdate, Zenon DEF TypeOK, ScanReclaiming, ScanKnown
  <2>4. scan \in Scans /\ Append(scan.reclaiming, scan.peb) \in Seq(Pebs)
    BY <1>5, <2>2, LocalFields DEF TypeOK
  <2>5. scan' = [scan EXCEPT !.peb = scan.peb + 1, !.reclaiming = Append(scan.reclaiming, scan.peb)]
    BY <1>5, <2>4 DEF ScanReclaiming, ScanStep, Scans
  <2>6. scan' \in Scans
    BY <1>5, <2>2, <2>4, <2>5, ScanUpdate, Zenon
  <2>7. pc' \in Labels
    BY <1>5 DEF ScanReclaiming, ScanKnown, Check, Labels
  <2> QED
    BY <1>5, <2>3, <2>5, <2>6, <2>7 DEF ScanReclaiming, ScanKnown, flash, TypeOK, call
<1>6. CASE ScanActived
  <2>1. scan.peb < PebCount
    BY <1>6 DEF ScanActived, Scanning
  <2>2. scan.peb \in Pebs /\ scan.peb + 1 \in 0 .. PebCount
    BY <1>6, <2>1, NextPebType
  <2>3. info' \in [Pebs -> Infos]
    BY <1>6, <2>2, Fields, InfoUpdate, Zenon DEF TypeOK, ScanActived, ScanKnown
  <2>4. scan \in Scans
    BY <1>6 DEF TypeOK
  <2>5. scan' \in Scans
    BY <1>6, <2>2, <2>4, ScanUpdate, Zenon DEF ScanActived, ScanStep
  <2>6. pc' \in Labels
    BY <1>6 DEF ScanActived, ScanKnown, Check, Labels
  <2> QED
    BY <1>6, <2>3, <2>5, <2>6 DEF ScanActived, ScanKnown, flash, TypeOK, call
<1>7. CASE ScanEmpty
  <2>1. scan.peb < PebCount
    BY <1>7 DEF ScanEmpty, Scanning
  <2>2. scan.peb \in Pebs /\ scan.peb + 1 \in 0 .. PebCount
    BY <1>7, <2>1, NextPebType
  <2>3. info' \in [Pebs -> Infos]
    BY <1>7, <2>2, Fields, InfoUpdate, Zenon DEF TypeOK, ScanEmpty
  <2>4. scan \in Scans
    BY <1>7 DEF TypeOK
  <2>5. scan' \in Scans
    BY <1>7, <2>2, <2>4, ScanUpdate, Zenon DEF ScanEmpty, ScanStep
  <2>6. pc' \in Labels
    BY <1>7 DEF ScanEmpty, Check, Labels
  <2> QED
    BY <1>7, <2>3, <2>5, <2>6 DEF ScanEmpty, flash, TypeOK, call
<1>8. CASE ScanUnknown
  <2>1. scan.peb < PebCount
    BY <1>8 DEF ScanUnknown, Scanning
  <2>2. scan.peb \in Pebs /\ scan.peb + 1 \in 0 .. PebCount
    BY <1>8, <2>1, NextPebType
  <2>3. hdr' \in [Pebs -> Headers] /\ log' \in [Pebs -> Seq(Items)]
    BY <1>8, <2>2, HdrUpdate, LogUpdate, HeaderTypes, CountTypes, Zenon
       DEF TypeOK, ScanUnknown, EraseAndFormat
  <2>4. info' \in [Pebs -> Infos]
    BY <1>8, <2>2, InfoUpdate, Zenon DEF TypeOK, ScanUnknown
  <2>5. scan \in Scans
    BY <1>8 DEF TypeOK
  <2>6. scan' \in Scans
    BY <1>8, <2>2, <2>5, ScanUpdate, Zenon DEF ScanUnknown, ScanStep
  <2> QED
    BY <1>8, <2>3, <2>4, <2>6 DEF ScanUnknown, TypeOK, call
<1>9. CASE ScanMean
  <2>1. scan \in Scans /\ 0 \in 0 .. PebCount
    BY <1>9, PebFacts DEF TypeOK
  <2>2. scan' \in Scans
    BY <1>9, <2>1, ScanUpdate, CountTypes, Zenon DEF ScanMean
  <2>3. pc' \in Labels
    BY <1>9 DEF ScanMean, Labels
  <2> QED
    BY <1>9, <2>2, <2>3 DEF ScanMean, flash, ram, TypeOK, call
<1>10. CASE FormatUnknown
  <2>1. Lowest(Unknown) \in Pebs
    BY <1>10, LowestMember, PebFacts DEF FormatUnknown, Unknown
  <2>2. scan.mean \in 0 .. NoCount
    BY <1>10, LocalFields, CountTypes, Zenon
  <2>3. hdr' \in [Pebs -> Headers]
    BY <1>10, <2>1, <2>2, HdrUpdate, Zenon DEF TypeOK, FormatUnknown, PebStatus
  <2>4. info' \in [Pebs -> Infos]
    BY <1>10, <2>1, <2>2, InfoUpdate, Zenon DEF TypeOK, FormatUnknown
  <2> QED
    BY <1>10, <2>3, <2>4 DEF FormatUnknown, TypeOK, call
<1>11. CASE AllFormatted
  BY <1>11 DEF AllFormatted, flash, ram, Labels, TypeOK, call
<1> QED
  BY <1>1, <1>2, <1>3, <1>4, <1>5, <1>6, <1>7, <1>8, <1>9, <1>10, <1>11 DEF Classify

LEMMA ScannedType ==
    ASSUME TypeOK, scan.peb < PebCount, HasItem
    PROVE  /\ scan.peb \in Pebs /\ ScannedItem \in Items
           /\ ScannedItem.index \in Indexes /\ ScannedItem.seq \in Nat
           /\ Footprint(ScannedItem.val) \in Int
           /\ HeaderOf(ScannedItem, scan.peb) \in ItemHeaders
<1>1. scan.peb \in Pebs
  BY NextPebType
<1>2. ScannedItem \in Items
  BY <1>1, Fields, LocalFields DEF HasItem, ScannedItem
<1>3. HeaderOf(ScannedItem, scan.peb) \in ItemHeaders
  BY <1>1, <1>2, ItemFields DEF HeaderOf, ItemHeaders
<1>4. ScannedItem.index \in Indexes /\ ScannedItem.seq \in Nat
  BY <1>2, ItemFields
<1>5. Footprint(ScannedItem.val) \in Int
  <2>1. ScannedItem.val \in Values BY <1>2, ItemFields
  <2>2. \A v \in Values : Footprint(v) \in Int BY ValueTypes
  <2> QED BY <2>1, <2>2
<1> QED
  BY <1>1, <1>2, <1>3, <1>4, <1>5

LEMMA NextPebKeeps ==
    ASSUME TypeOK, scan.peb < PebCount
    PROVE  NextPeb \in Scans
<1>1. scan \in Scans BY LocalFields
<1>2. scan.peb + 1 \in 0 .. PebCount BY NextPebType
<1>3. 1 \in Nat \ {0} /\ 0 \in Int OBVIOUS
<1>4. NextPeb = [scan EXCEPT !.peb = scan.peb + 1, !.pos = 1, !.dirty = 0, !.valid = 0]
  BY DEF NextPeb
<1>5. [scan EXCEPT !.peb = scan.peb + 1, !.pos = 1, !.dirty = 0, !.valid = 0] \in Scans
  BY <1>1, <1>2, <1>3, ScanUpdate, Zenon
<1> QED BY <1>4, <1>5

\* What is left of a block once its log ends.
LEMMA RestType ==
    ASSUME TypeOK, scan.peb \in Pebs
    PROVE  /\ info[scan.peb].free + Capacity - scan.dirty - scan.valid \in Int
           /\ info[scan.peb].dirty + Capacity - scan.dirty - scan.valid \in Int
<1>1. Capacity \in Int BY ValueTypes
<1>2. info[scan.peb].free \in Int /\ info[scan.peb].dirty \in Int BY Fields
<1>3. scan.dirty \in Int /\ scan.valid \in Int BY LocalFields
<1> QED BY <1>1, <1>2, <1>3

LEMMA OldSizeType ==
    ASSUME TypeOK, NEW i \in Indexes
    PROVE  items[i].peb \in Pebs /\ Footprint(items[i].size) \in Int
<1>1. \A n \in Values \cup {0} : Footprint(n) \in Int
  BY ValueTypes DEF Footprint
<1> QED BY <1>1, Fields

\* The scan locals behind the newer of two copies, x of whose bytes turn dirty here.
InPlace ==
    IF items[ScannedItem.index].peb = scan.peb
    THEN Footprint(items[ScannedItem.index].size) ELSE 0
Behind(x) ==
    [scan EXCEPT !.pos = scan.pos + 1, !.abnormal = TRUE,
                 !.valid = scan.valid + Footprint(ScannedItem.val) - x, !.dirty = scan.dirty + x]
LEMMA BehindType ==
    ASSUME TypeOK, scan.peb < PebCount, HasItem, NEW x \in Int
    PROVE  Behind(x) \in Scans
<1>1. scan \in Scans /\ scan.pos + 1 \in Nat \ {0} BY LocalFields, Advances
<1>2. Footprint(ScannedItem.val) \in Int BY ScannedType
<1>3. scan.valid + Footprint(ScannedItem.val) - x \in Int /\ scan.dirty + x \in Int
  <2>1. scan.valid \in Int /\ scan.dirty \in Int BY LocalFields
  <2> QED BY <1>2, <2>1
<1>4. TRUE \in BOOLEAN OBVIOUS
<1> QED BY <1>1, <1>3, <1>4, ScanUpdate, Zenon DEF Behind

\* data_item_scan.
LEMMA TypeScanLogs ==
    ASSUME TypeOK, ScanLogs
    PROVE  TypeOK'
<1>1. CASE SkipPeb
  <2>1. scan.peb < PebCount
    BY <1>1 DEF SkipPeb
  <2>2. scan.peb \in Pebs /\ scan.peb + 1 \in 0 .. PebCount
    BY <1>1, <2>1, NextPebType
  <2>3. info \in [Pebs -> Infos] /\ Capacity \in Int
    BY <1>1, Shapes, ValueTypes
  <2>4. info' \in [Pebs -> Infos]
    BY <1>1, <2>2, <2>3, InfoUpdate, Zenon DEF SkipPeb
  <2>5. scan' \in Scans
    BY <1>1, <2>1, NextPebKeeps DEF SkipPeb
  <2> QED
    BY <1>1, <2>4, <2>5 DEF SkipPeb, flash, TypeOK, call
<1>2. CASE ScanEndOfLog
  <2>1. scan.peb < PebCount
    BY <1>2 DEF ScanEndOfLog, ScanningItems
  <2>2. scan.peb \in Pebs /\ scan.peb + 1 \in 0 .. PebCount
    BY <1>2, <2>1, NextPebType
  <2>3. info[scan.peb].free + Capacity - scan.dirty - scan.valid \in Int
    BY <1>2, <2>2, RestType
  <2>4. info' \in [Pebs -> Infos]
    BY <1>2, <2>2, <2>3, InfoUpdate, Shapes, Zenon DEF ScanEndOfLog
  <2>5. scan' \in Scans
    BY <1>2, <2>1, NextPebKeeps DEF ScanEndOfLog
  <2> QED
    BY <1>2, <2>4, <2>5 DEF ScanEndOfLog, flash, TypeOK, call
<1>3. CASE ScanTornItem
  <2>1. scan.peb < PebCount
    BY <1>3 DEF ScanTornItem, ScanningItems
  <2>2. scan.peb \in Pebs /\ scan.peb + 1 \in 0 .. PebCount
    BY <1>3, <2>1, NextPebType
  <2>3. info[scan.peb].dirty + Capacity - scan.dirty - scan.valid \in Int
    BY <1>3, <2>2, RestType
  <2>4. info' \in [Pebs -> Infos]
    BY <1>3, <2>2, <2>3, InfoUpdate, Shapes, Zenon DEF ScanTornItem
  <2>5. scan' \in Scans
    BY <1>3, <2>1, NextPebKeeps DEF ScanTornItem
  <2> QED
    BY <1>3, <2>4, <2>5 DEF ScanTornItem, flash, TypeOK, call
<1>4. CASE ScanDeletedItem
  <2>1. scan.peb < PebCount /\ HasItem
    BY <1>4 DEF ScanDeletedItem, ScanningItems
  <2>2. scan.peb \in Pebs /\ Footprint(ScannedItem.val) \in Int
    BY <1>4, <2>1, ScannedType
  <2>3. info[scan.peb].dirty + Footprint(ScannedItem.val) \in Int
    BY <1>4, <2>2, Fields
  <2>4. info' \in [Pebs -> Infos]
    BY <1>4, <2>2, <2>3, InfoUpdate, Shapes, Zenon DEF ScanDeletedItem
  <2>5. /\ scan.dirty + Footprint(ScannedItem.val) \in Int
        /\ scan.valid + Footprint(ScannedItem.val) \in Int
    BY <1>4, <2>2, LocalFields
  <2>6. scan' \in Scans
    BY <1>4, <2>5, LocalFields, Advances, ScanUpdate, Zenon DEF ScanDeletedItem
  <2> QED
    BY <1>4, <2>4, <2>6 DEF ScanDeletedItem, flash, TypeOK, call
<1>5. CASE ScanFirstCopy
  <2>1. scan.peb < PebCount /\ HasItem
    BY <1>5 DEF ScanFirstCopy, ScanningValid, ScanningItems
  <2>2. /\ scan.peb \in Pebs
        /\ ScannedItem.index \in Indexes
        /\ ScannedItem.seq \in Nat
        /\ Footprint(ScannedItem.val) \in Int
        /\ HeaderOf(ScannedItem, scan.peb) \in ItemHeaders
    BY <1>5, <2>1, ScannedType
  <2>3. items' \in [Indexes -> ItemHeaders]
    BY <1>5, <2>2, ItemsUpdate, Shapes, Zenon DEF ScanFirstCopy
  <2>4. scan.valid + Footprint(ScannedItem.val) \in Int
    BY <1>5, <2>2, LocalFields
  <2>5. scan' \in Scans
    BY <1>5, <2>4, LocalFields, Advances, ScanUpdate, Zenon DEF ScanFirstCopy
  <2>6. wseq' \in Nat /\ sum' \in Int
    BY <1>5, <2>2 DEF TypeOK, ScanFirstCopy, ScanningValid
  <2>7. pc' \in Labels
    BY <1>5 DEF ScanFirstCopy, Check, Labels
  <2> QED
    BY <1>5, <2>3, <2>5, <2>6, <2>7 DEF ScanFirstCopy, ScanningValid, flash, TypeOK, call
<1>6. CASE ScanNewerCopy
  <2>1. scan.peb < PebCount /\ HasItem
    BY <1>6 DEF ScanNewerCopy, ScanningValid, ScanningItems
  <2>2. /\ scan.peb \in Pebs
        /\ ScannedItem.index \in Indexes
        /\ ScannedItem.seq \in Nat
        /\ Footprint(ScannedItem.val) \in Int
        /\ HeaderOf(ScannedItem, scan.peb) \in ItemHeaders
    BY <1>6, <2>1, ScannedType
  <2>3. /\ items[ScannedItem.index].peb \in Pebs
        /\ Footprint(items[ScannedItem.index].size) \in Int
    BY <1>6, <2>2, OldSizeType
  <2>4. log' \in [Pebs -> Seq(Items)]
    BY <1>6, <2>3, LogUpdate, Shapes DEF ScanNewerCopy, Discard
  <2>5. info[items[ScannedItem.index].peb].dirty + Footprint(items[ScannedItem.index].size) \in Int
    BY <1>6, <2>3, Fields
  <2>6. info' \in [Pebs -> Infos]
    BY <1>6, <2>3, <2>5, InfoUpdate, Shapes, Zenon DEF ScanNewerCopy
  <2>7. items' \in [Indexes -> ItemHeaders]
    BY <1>6, <2>2, ItemsUpdate, Shapes, Zenon DEF ScanNewerCopy
  <2>8. InPlace \in Int
    BY <1>6, <2>3 DEF InPlace
  <2>9. Behind(InPlace) \in Scans
    BY <1>6, <2>1, <2>8, BehindType
  <2>10. scan' = Behind(InPlace)
    BY <1>6 DEF ScanNewerCopy, Behind, InPlace
  <2>11. scan' \in Scans
    BY <1>6, <2>9, <2>10
  <2>12. wseq' \in Nat
    BY <1>6, <2>2 DEF TypeOK, ScanNewerCopy, ScanningValid
  <2>13. pc' \in Labels
    BY <1>6 DEF ScanNewerCopy, SecondCopyOk, Check, Labels
  <2> QED
    BY <1>6, <2>4, <2>6, <2>7, <2>10, <2>11, <2>12, <2>13
       DEF ScanNewerCopy, ScanningValid, Discard, TypeOK, call
<1>7. CASE ScanOlderCopy
  <2>1. scan.peb < PebCount /\ HasItem
    BY <1>7 DEF ScanOlderCopy, ScanningValid, ScanningItems
  <2>2. /\ scan.peb \in Pebs
        /\ ScannedItem.index \in Indexes
        /\ ScannedItem.seq \in Nat
        /\ Footprint(ScannedItem.val) \in Int
        /\ HeaderOf(ScannedItem, scan.peb) \in ItemHeaders
    BY <1>7, <2>1, ScannedType
  <2>3. log' \in [Pebs -> Seq(Items)]
    BY <1>7, <2>2, LogUpdate, Shapes DEF ScanOlderCopy, Discard
  <2>4. info[scan.peb].dirty + Footprint(ScannedItem.val) \in Int
    BY <1>7, <2>2, Fields
  <2>5. info' \in [Pebs -> Infos]
    BY <1>7, <2>2, <2>4, InfoUpdate, Shapes, Zenon DEF ScanOlderCopy
  <2>6. scan.dirty + Footprint(ScannedItem.val) \in Int
    BY <1>7, <2>2, LocalFields
  <2>7. scan' \in Scans
    BY <1>7, <2>6, LocalFields, Advances, ScanUpdate, Zenon DEF ScanOlderCopy
  <2>8. wseq' \in Nat
    BY <1>7, <2>2 DEF TypeOK, ScanOlderCopy, ScanningValid
  <2>9. pc' \in Labels
    BY <1>7 DEF ScanOlderCopy, SecondCopyOk, Check, Labels
  <2> QED
    BY <1>7, <2>3, <2>5, <2>7, <2>8, <2>9
       DEF ScanOlderCopy, ScanningValid, Discard, TypeOK, call
<1> QED
  BY <1>1, <1>2, <1>3, <1>4, <1>5, <1>6, <1>7 DEF ScanLogs

\* The last part of peb_scan.
LEMMA TypeRecover ==
    ASSUME TypeOK, Recover
    PROVE  TypeOK'
<1>1. CASE RecoverTransfering
  <2>1. <<scan.transfering>> \in Seq(Pebs) \/ scan.transfering = NoPeb
    BY <1>1, LocalFields
  <2>2. scan.reclaiming \in Seq(Pebs) /\ NoGc \in Gcs /\ NoPeb \in Pebs \cup {NoPeb}
    BY <1>1, LocalFields, NullTypes
  <2>3. \/ [NoGc EXCEPT !.src = <<scan.transfering>>, !.dst = NoPeb, !.then = "relocate"]
              \in Gcs
        \/ scan.transfering = NoPeb
    BY <1>1, <2>1, <2>2, GcUpdate, Zenon DEF Thens
  <2>4. [NoGc EXCEPT !.src = scan.reclaiming, !.dst = NoPeb, !.then = "init"] \in Gcs
    BY <1>1, <2>2, GcUpdate, Zenon DEF Thens
  <2>5. gc' \in Gcs
    BY <1>1, <2>3, <2>4 DEF RecoverTransfering, Recovery
  <2>6. pc' \in Labels
    BY <1>1 DEF RecoverTransfering, Recovery, Labels
  <2> QED
    BY <1>1, <2>5, <2>6 DEF RecoverTransfering, Recovery, flash, ram, TypeOK, call
<1>2. CASE RecoverTransfered
  <2>1. scan.transfered \in Pebs \cup {NoPeb} /\ scan.reclaiming \in Seq(Pebs) /\ NoGc \in Gcs
    BY <1>2, LocalFields, NullTypes
  <2>2. gc' \in Gcs
    BY <1>2, <2>1, GcUpdate, Zenon DEF RecoverTransfered, Recovery, Thens
  <2>3. pc' \in Labels
    BY <1>2 DEF RecoverTransfered, Recovery, Labels
  <2> QED
    BY <1>2, <2>2, <2>3 DEF RecoverTransfered, Recovery, flash, ram, TypeOK, call
<1>3. CASE RecoverNothing
  <2>1. <<>> \in Seq(Pebs) /\ NoGc \in Gcs /\ NoPeb \in Pebs \cup {NoPeb}
    BY <1>3, NullTypes
  <2>2. gc' \in Gcs
    BY <1>3, <2>1, GcUpdate, Zenon DEF RecoverNothing, Recovery, Thens
  <2>3. pc' \in Labels
    BY <1>3 DEF RecoverNothing, Recovery, Check, Labels
  <2> QED
    BY <1>3, <2>2, <2>3 DEF RecoverNothing, Recovery, flash, ram, TypeOK, call
<1>4. CASE InitDone
  <2>1. scan' \in Scans /\ gc' \in Gcs
    BY <1>4, NullTypes DEF InitDone
  <2>2. pc' \in Labels
    BY <1>4 DEF InitDone, Labels
  <2> QED
    BY <1>4, <2>1, <2>2 DEF InitDone, flash, TypeOK, call
<1> QED
  BY <1>1, <1>2, <1>3, <1>4 DEF Recover

LEMMA NextSourceType ==
    ASSUME TypeOK
    PROVE  NextSource \in Gcs
<1>1. gc \in Gcs /\ gc.cur + 1 \in Nat \ {0} /\ 1 \in Nat \ {0} BY LocalFields, Advances
<1>2. NextSource = [gc EXCEPT !.cur = gc.cur + 1, !.pos = 1] BY DEF NextSource
<1>3. [gc EXCEPT !.cur = gc.cur + 1, !.pos = 1] \in Gcs BY <1>1, GcUpdate, Zenon
<1> QED BY <1>2, <1>3

LEMMA SourceItemType ==
    ASSUME TypeOK, Source \in Pebs, gc.pos \in DOMAIN log[Source]
    PROVE  /\ SourceItem \in Items /\ Footprint(SourceItem.val) \in Int
           /\ SourceItem.index \in Indexes
<1>1. SourceItem \in Items BY Fields DEF SourceItem
<1>2. SourceItem.index \in Indexes BY <1>1, ItemFields
<1>3. Footprint(SourceItem.val) \in Int
  <2>1. SourceItem.val \in Values BY <1>1, ItemFields
  <2>2. \A v \in Values : Footprint(v) \in Int BY ValueTypes
  <2> QED BY <2>1, <2>2
<1> QED BY <1>1, <1>2, <1>3

LEMMA CopyType ==
    ASSUME NEW item \in Items, NEW off \in Int
    PROVE  [item EXCEPT !.status = ItemWriting, !.off = off] \in Items
BY DEF Items, ItemStatus

LEMMA LeastReserved ==
    ASSUME TypeOK, Reserved # {}
    PROVE  Least(Reserved, EraseCount) \in Reserved
<1>1. Reserved \in SUBSET Pebs BY DEF Reserved
<1>2. \A p \in Pebs : EraseCount[p] \in Nat BY Fields, CountTypes DEF EraseCount
<1> QED BY <1>1, <1>2, LeastMember

\* PickTarget, when there is a block to pick, picks a reserved one.
Picked(p) ==
    /\ Activate(p)
    /\ info' = [info EXCEPT ![p].reserved = FALSE]
    /\ gc' = [gc EXCEPT !.cur = 1, !.pos = 1, !.dst = p, !.off = 0]
LEMMA PicksReserved ==
    ASSUME TypeOK, PickTarget
    PROVE  \/ Reserved = {} /\ UNCHANGED <<hdr, log, info, gc>>
           \/ \E p \in Reserved : Picked(p)
<1>1. CASE Reserved = {}
  BY <1>1 DEF PickTarget, flash
<1>2. CASE Reserved # {}
  <2>1. Least(Reserved, EraseCount) \in Reserved BY <1>2, LeastReserved
  <2>2. Picked(Least(Reserved, EraseCount)) BY <1>2 DEF PickTarget, Picked
  <2> QED BY <2>1, <2>2
<1> QED BY <1>1, <1>2

LEMMA PickedType ==
    ASSUME TypeOK, NEW p \in Pebs, Picked(p)
    PROVE  /\ hdr' \in [Pebs -> Headers] /\ log' = log
           /\ info' \in [Pebs -> Infos] /\ gc' \in Gcs
<1>1. PebActiving \in PebStatus /\ FALSE \in BOOLEAN BY DEF PebStatus
<1>2. hdr' \in [Pebs -> Headers] /\ log' = log
  BY <1>1, HdrUpdate, Shapes, Zenon DEF Picked, Activate
<1>3. info' \in [Pebs -> Infos] BY <1>1, InfoUpdate, Shapes, Zenon DEF Picked
<1>4. gc \in Gcs /\ 1 \in Nat \ {0} /\ 0 \in Int BY LocalFields
<1>5. gc' \in Gcs BY <1>4, GcUpdate, Zenon DEF Picked
<1> QED BY <1>2, <1>3, <1>5

\* garbage_collection_peb, relocate_pebs and date_item_migration.
LEMMA TypeTransfer ==
    ASSUME TypeOK, Located, Transfer
    PROVE  TypeOK'
<1>1. CASE GarbageCollect
  <2>1. Candidates \subseteq Pebs
    BY <1>1 DEF Candidates, Reserved
  <2>2. PICK n \in 1 .. MaxMerge : \E s \in [1 .. n -> Candidates] : gc' = [NoGc EXCEPT !.src = s]
    BY <1>1 DEF GarbageCollect
  <2>3. PICK s \in [1 .. n -> Candidates] : gc' = [NoGc EXCEPT !.src = s]
    BY <1>1, <2>2
  <2>4. n \in Nat
    BY <1>1, <2>2 DEF MaxMerge
  <2>5. s \in Seq(Pebs)
    BY <1>1, <2>1, <2>3, <2>4
  <2>6. gc' \in Gcs
    BY <1>1, <2>3, <2>5, NullTypes, GcUpdate, Zenon
  <2>7. pc' \in Labels
    BY <1>1 DEF GarbageCollect, Labels
  <2> QED
    BY <1>1, <2>2, <2>3, <2>6, <2>7 DEF GarbageCollect, flash, ram, TypeOK, call
<1>2. CASE RelocateEmpty
  BY <1>2 DEF RelocateEmpty, flash, ram, Labels, TypeOK, call
<1>3. CASE RelocateValid
  BY <1>3 DEF RelocateValid, flash, ram, Labels, TypeOK, call
<1>4. CASE MarkReclaiming
  <2>1. Source \in Pebs
    BY <1>4, SourceType DEF MarkReclaiming, AtSource
  <2>2. hdr' \in [Pebs -> Headers]
    BY <1>4, <2>1, HdrUpdate, Shapes, Zenon DEF MarkReclaiming, SetPebStatus, PebStatus
  <2>3. gc' \in Gcs
    BY <1>4, NextSourceType DEF MarkReclaiming
  <2> QED
    BY <1>4, <2>2, <2>3 DEF MarkReclaiming, SetPebStatus, ram, TypeOK, call
<1>5. CASE PickTarget
  <2>1. Reserved \subseteq Pebs
    BY <1>5 DEF Reserved
  <2>2. /\ hdr' \in [Pebs -> Headers]
        /\ log' \in [Pebs -> Seq(Items)]
        /\ info' \in [Pebs -> Infos]
        /\ gc' \in Gcs
    BY <1>5, <2>1, PicksReserved, PickedType, Shapes, LocalFields
  <2>3. pc' \in Labels
    BY <1>5 DEF PickTarget, Check, Labels
  <2> QED
    BY <1>5, <2>2, <2>3 DEF PickTarget, TypeOK, call
<1>6. CASE StartTransfer
  <2>1. gc.dst \in Pebs
    BY <1>6 DEF StartTransfer, Located
  <2>2. hdr' \in [Pebs -> Headers]
    BY <1>6, <2>1, HdrUpdate, Shapes, Zenon DEF StartTransfer, SetPebStatus, PebStatus
  <2>3. pc' \in Labels
    BY <1>6 DEF StartTransfer, Labels
  <2> QED
    BY <1>6, <2>2, <2>3 DEF StartTransfer, SetPebStatus, ram, TypeOK, call
<1>7. CASE SourceDone
  <2>1. gc' \in Gcs
    BY <1>7, NextSourceType DEF SourceDone
  <2> QED
    BY <1>7, <2>1 DEF SourceDone, flash, ram, TypeOK, call
<1>8. CASE SkipDeleted
  <2>1. gc' \in Gcs
    BY <1>8, GcUpdate, LocalFields, Advances, Zenon DEF SkipDeleted
  <2> QED
    BY <1>8, <2>1 DEF SkipDeleted, flash, ram, TypeOK, call
<1>9. CASE CopyItem
  <2>1. Source \in Pebs
    BY <1>9, SourceType DEF CopyItem, Migrating, AtSource
  <2>2. gc.pos \in DOMAIN log[Source]
    BY <1>9, <2>1, LocalFields, Fields DEF CopyItem, SourceHasItem
  <2>3. SourceItem \in Items /\ SourceItem.index \in Indexes
    BY <1>9, <2>1, <2>2, SourceItemType
  <2>4. gc.dst \in Pebs /\ gc.off \in Int
    BY <1>9, LocalFields DEF CopyItem, Migrating, AtSource, Located
  <2>5. log' \in [Pebs -> Seq(Items)]
    BY <1>9, <2>3, <2>4, CopyType, LogUpdate, Shapes, Zenon DEF CopyItem, Append1
  <2>6. items' \in [Indexes -> ItemHeaders]
    BY <1>9, <2>3, <2>4, ItemsUpdate, Shapes, Zenon DEF CopyItem
  <2>7. pc' \in Labels
    BY <1>9 DEF CopyItem, Check, Labels
  <2> QED
    BY <1>9, <2>5, <2>6, <2>7 DEF CopyItem, Append1, TypeOK, call
<1>10. CASE CommitCopy
  <2>1. Source \in Pebs /\ gc.pos \in DOMAIN log[Source]
    BY <1>10, SourceInDomain DEF CommitCopy, Located
  <2>2. Footprint(SourceItem.val) \in Int
    BY <1>10, <2>1, SourceItemType
  <2>3. gc.dst \in Pebs
    BY <1>10 DEF CommitCopy, Located
  <2>4. log' \in [Pebs -> Seq(Items)]
    BY <1>10, <2>3, LogUpdate, Shapes DEF CommitCopy, Validate
  <2>5. info[gc.dst].free - Footprint(SourceItem.val) \in Int
    BY <1>10, <2>2, <2>3, Fields
  <2>6. info' \in [Pebs -> Infos]
    BY <1>10, <2>3, <2>5, InfoUpdate, Shapes, Zenon DEF CommitCopy
  <2>7. gc.off + Footprint(SourceItem.val) \in Int
    BY <1>10, <2>2, LocalFields
  <2>8. gc' \in Gcs
    BY <1>10, <2>7, LocalFields, Advances, GcUpdate, Zenon DEF CommitCopy
  <2>9. pc' \in Labels
    BY <1>10 DEF CommitCopy, Labels
  <2> QED
    BY <1>10, <2>4, <2>6, <2>8, <2>9 DEF CommitCopy, Validate, TypeOK, call
<1>11. CASE EndTransfer
  <2>1. gc.dst \in Pebs
    BY <1>11 DEF EndTransfer, AfterSources, Located
  <2>2. hdr' \in [Pebs -> Headers]
    BY <1>11, <2>1, HdrUpdate, Shapes, Zenon DEF EndTransfer, SetPebStatus, PebStatus
  <2>3. 1 \in Nat \ {0} /\ gc \in Gcs
    BY <1>11, LocalFields
  <2>4. gc' \in Gcs
    BY <1>11, <2>3, GcUpdate, Zenon DEF EndTransfer, Thens
  <2>5. pc' \in Labels
    BY <1>11 DEF EndTransfer, Labels
  <2> QED
    BY <1>11, <2>2, <2>4, <2>5 DEF EndTransfer, SetPebStatus, ram, TypeOK, call
<1> QED
  BY <1>1, <1>2, <1>3, <1>4, <1>5, <1>6, <1>7, <1>8, <1>9, <1>10, <1>11 DEF Transfer

\* peb_reclaim and the end of relocate_pebs.
LEMMA TypeReclaim ==
    ASSUME TypeOK, Located, ReclaimPebs
    PROVE  TypeOK'
<1>1. CASE Reclaim
  <2>1. Source \in Pebs
    BY <1>1, SourceType DEF Reclaim, AtSource
  <2>2. hdr' \in [Pebs -> Headers]
    BY <1>1, <2>1, HdrUpdate, Shapes, Zenon DEF Reclaim, SetPebStatus, PebStatus
  <2>3. pc' \in Labels
    BY <1>1 DEF Reclaim, Labels
  <2> QED
    BY <1>1, <2>2, <2>3 DEF Reclaim, SetPebStatus, ram, TypeOK, call
<1>2. CASE Erase
  <2>1. Source \in Pebs
    BY <1>2, SourceInDomain DEF Erase, Located
  <2>2. hdr' \in [Pebs -> Headers]
    BY <1>2, <2>1, HdrUpdate, Shapes, HeaderTypes, CountTypes, Zenon DEF Erase, EraseAndFormat
  <2>3. log' \in [Pebs -> Seq(Items)]
    BY <1>2, <2>1, LogUpdate, Shapes DEF Erase, EraseAndFormat
  <2>4. info' \in [Pebs -> Infos]
    BY <1>2, <2>1, InfoUpdate, Shapes, CountTypes, Zenon DEF Erase
  <2>5. pc' \in Labels
    BY <1>2 DEF Erase, Labels
  <2> QED
    BY <1>2, <2>2, <2>3, <2>4, <2>5 DEF Erase, TypeOK, call
<1>3. CASE MarkEmpty
  <2>1. Source \in Pebs
    BY <1>3, SourceInDomain DEF MarkEmpty, Located
  <2>2. hdr' \in [Pebs -> Headers]
    BY <1>3, <2>1, HdrUpdate, Shapes, Zenon DEF MarkEmpty, SetPebStatus, PebStatus
  <2>3. Capacity \in Int /\ 0 \in Int /\ info \in [Pebs -> Infos]
    BY <1>3, ValueTypes, Shapes
  <2>4. info' \in [Pebs -> Infos]
    BY <1>3, <2>1, <2>3, InfoReset, Zenon DEF MarkEmpty
  <2>5. gc' \in Gcs
    BY <1>3, NextSourceType DEF MarkEmpty
  <2>6. pc' \in Labels
    BY <1>3 DEF MarkEmpty, Labels
  <2> QED
    BY <1>3, <2>2, <2>4, <2>5, <2>6 DEF MarkEmpty, SetPebStatus, TypeOK, call
<1>4. CASE Reclaimed
  <2>1. gc \in Gcs /\ NoGc \in Gcs /\ scan.reclaiming \in Seq(Pebs)
    BY <1>4, LocalFields, NullTypes
  <2>2. gc' \in Gcs
    BY <1>4, <2>1, GcUpdate, Zenon DEF Reclaimed, Thens
  <2>3. pc' \in Labels
    BY <1>4, LocalFields DEF Reclaimed, Thens, Labels
  <2> QED
    BY <1>4, <2>2, <2>3 DEF Reclaimed, flash, ram, TypeOK, call
<1>5. CASE TargetActived
  <2>1. gc.dst \in Pebs
    BY <1>5 DEF TargetActived, Located
  <2>2. hdr' \in [Pebs -> Headers]
    BY <1>5, <2>1, HdrUpdate, Shapes, Zenon DEF TargetActived, SetPebStatus, PebStatus
  <2>3. gc' \in Gcs
    BY <1>5, NullTypes DEF TargetActived
  <2>4. pc' \in Labels
    BY <1>5 DEF TargetActived, Caller, Labels
  <2> QED
    BY <1>5, <2>2, <2>3, <2>4 DEF TargetActived, SetPebStatus, ram, TypeOK, call
<1> QED
  BY <1>1, <1>2, <1>3, <1>4, <1>5 DEF ReclaimPebs

\* The headers a name search or the search for an empty header find.
LEMMA FoundMember ==
    /\ \A keys : Found(keys) # {} => Lowest(Found(keys)) \in Indexes
    /\ EmptyIndexes # {} => Lowest(EmptyIndexes) \in Indexes
<1>1. \A keys : Found(keys) \in SUBSET Nat /\ Found(keys) \subseteq Indexes
  BY ValueTypes DEF Found
<1>2. EmptyIndexes \in SUBSET Nat /\ EmptyIndexes \subseteq Indexes
  BY ValueTypes DEF EmptyIndexes
<1> QED BY <1>1, <1>2, LowestMember

\* The block find_free_peb returns is in use, or a spare one of the reserve.
LEMMA FreePebMember ==
    ASSUME TypeOK, NEW size \in Nat, CanAllocate(size)
    PROVE  \/ FreePeb(size) \in Pebs \ Reserved
           \/ FreePeb(size) \in Reserved /\ Cardinality(Reserved) > 1
<1>1. CASE Roomy(size) # {}
  <2> DEFINE free == [p \in Pebs |-> info[p].free]
  <2>1. Roomy(size) \in SUBSET Pebs /\ Roomy(size) \subseteq Pebs \ Reserved
    BY DEF Roomy
  <2>2. \A p \in Roomy(size) : info[p].free \in Nat
    BY Fields DEF Roomy
  <2>3. \A p \in Roomy(size) : free[p] \in Nat BY <2>1, <2>2
  <2>4. Least(Roomy(size), free) \in Roomy(size)
    BY <1>1, <2>1, <2>3, LeastMember
  <2> QED BY <1>1, <2>1, <2>4 DEF FreePeb
<1>2. CASE Roomy(size) = {}
  <2>1. Cardinality(Reserved) > 1 BY <1>2 DEF CanAllocate
  <2>2. FreePeb(size) \in Reserved
    BY <1>2, <2>1, NoReserve, LeastReserved DEF FreePeb
  <2> QED BY <2>1, <2>2
<1> QED BY <1>1, <1>2

\* The step of Allocate when it takes block p.
Allocated(p) ==
    LET off == Capacity - info[p].free
        fresh == info[p].free = Capacity
    IN  /\ w' = [w EXCEPT !.peb = p, !.off = off, !.fresh = fresh,
                          !.oldPeb = items[w.index].peb, !.oldOff = items[w.index].off]
        /\ items' = [items EXCEPT ![w.index] =
                        [size |-> req.val, peb |-> p, off |-> off, seq |-> wseq + 1]]
        /\ info' = [info EXCEPT ![p].free = @ - Footprint(req.val),
                                ![p].reserved = @ /\ ~fresh]
        /\ IF fresh THEN Activate(p) ELSE UNCHANGED flash

LEMMA Allocates ==
    ASSUME TypeOK, Located, Allocate
    PROVE  \E p \in Pebs : Allocated(p) /\ (p \in Reserved => Cardinality(Reserved) > 1)
<1> DEFINE size == Footprint(req.val)
<1>1. req \in WriteReq
  BY DEF Allocate, Allocating, Located, CallLabels
<1>2. req.val \in Values BY <1>1 DEF WriteReq
<1>3. size \in Nat
  <2>1. \A v \in Values : Footprint(v) \in Nat BY ValueTypes
  <2> QED BY <1>2, <2>1
<1>4. CanAllocate(size) BY DEF Allocate, Allocating
<1>5. Allocated(FreePeb(size)) BY DEF Allocate, Allocated
<1>6. Reserved \subseteq Pebs BY DEF Reserved
<1> QED BY <1>3, <1>4, <1>5, <1>6, FreePebMember

LEMMA AllocatedType ==
    ASSUME TypeOK, req \in WriteReq, NEW p \in Pebs, Allocated(p)
    PROVE  /\ hdr' \in [Pebs -> Headers] /\ log' = log
           /\ info' \in [Pebs -> Infos] /\ items' \in [Indexes -> ItemHeaders]
           /\ w' \in Writes
<1>1. w.index \in Indexes /\ w \in Writes BY LocalFields
<1>2. items[w.index].peb \in Pebs /\ items[w.index].off \in Int BY <1>1, Fields
<1>3. Capacity - info[p].free \in Int /\ (info[p].free = Capacity) \in BOOLEAN
  BY Fields, ValueTypes
<1>4. w' \in Writes
  BY <1>1, <1>2, <1>3, WriteUpdate, Zenon DEF Allocated
<1>5. [size |-> req.val, peb |-> p, off |-> Capacity - info[p].free, seq |-> wseq + 1]
         \in ItemHeaders
  BY <1>3 DEF ItemHeaders, WriteReq, TypeOK
<1>6. items' \in [Indexes -> ItemHeaders]
  BY <1>1, <1>5, ItemsUpdate, Shapes, Zenon DEF Allocated
<1>7. info[p].free - Footprint(req.val) \in Int
  <2>1. req.val \in Values BY DEF WriteReq
  <2>2. \A v \in Values : Footprint(v) \in Int BY ValueTypes
  <2>3. Footprint(req.val) \in Int BY <2>1, <2>2
  <2> QED BY <2>3, Fields
<1>8. (info[p].reserved /\ ~(info[p].free = Capacity)) \in BOOLEAN OBVIOUS
<1>9. info' = [info EXCEPT ![p].free = info[p].free - Footprint(req.val),
                           ![p].reserved = info[p].reserved /\ ~(info[p].free = Capacity)]
  BY Shapes DEF Allocated, Infos
<1>10. info' \in [Pebs -> Infos]
  BY <1>7, <1>8, <1>9, InfoUpdate, Shapes, Zenon
<1>11. PebActiving \in PebStatus /\ FALSE \in BOOLEAN BY DEF PebStatus
<1>12. hdr' \in [Pebs -> Headers] /\ log' = log
  <2>1. UNCHANGED flash \/ Activate(p) BY DEF Allocated
  <2>2. CASE UNCHANGED flash BY <2>2, Shapes DEF flash
  <2>3. CASE Activate(p) BY <2>3, <1>11, HdrUpdate, Shapes, Zenon DEF Activate
  <2> QED BY <2>1, <2>2, <2>3
<1> QED BY <1>4, <1>6, <1>10, <1>12

\* nvdm_write_data_item.
LEMMA TypeWrite ==
    ASSUME TypeOK, Located, Write
    PROVE  TypeOK'
<1>1. CASE WriteRefused
  <2>1. w' \in Writes /\ gc' \in Gcs
    BY <1>1, NullTypes DEF WriteRefused, Return
  <2>2. pc' \in Labels /\ ret' \in Statuses
    BY <1>1 DEF WriteRefused, Return, Labels, Statuses
  <2> QED
    BY <1>1, <2>1, <2>2 DEF WriteRefused, Return, flash, ram, TypeOK
<1>2. CASE WriteAccepted
  <2>1. /\ Holder # {} => Lowest(Holder) \in Indexes
        /\ EmptyIndexes # {} => Lowest(EmptyIndexes) \in Indexes
        /\ 0 \in Indexes
    BY <1>2, FoundMember, ValueTypes DEF Holder
  <2>2. \E i \in Indexes : w' = [NoWrite EXCEPT !.append = (Holder = {}), !.index = i]
    BY <1>2, <2>1, Zenon DEF WriteAccepted
  <2>3. (Holder = {}) \in BOOLEAN /\ NoWrite \in Writes
    BY <1>2, NullTypes
  <2>4. w' \in Writes
    <3>1. PICK i \in Indexes : w' = [NoWrite EXCEPT !.append = (Holder = {}), !.index = i]
      BY <2>2, Zenon
    <3>2. PICK a \in BOOLEAN : a = (Holder = {}) BY <2>3
    <3>3. w' = [NoWrite EXCEPT !.append = a, !.index = i] BY <3>1, <3>2
    <3> QED BY <2>3, <3>3, WriteUpdate, Zenon
  <2>5. pc' \in Labels
    BY <1>2 DEF WriteAccepted, Labels
  <2> QED
    BY <1>2, <2>2, <2>4, <2>5 DEF WriteAccepted, flash, ram, call, TypeOK
<1>3. CASE AllocateTooMany
  <2>1. w' \in Writes /\ gc' \in Gcs
    BY <1>3, NullTypes DEF AllocateTooMany
  <2>2. pc' \in Labels /\ ret' \in Statuses
    BY <1>3 DEF AllocateTooMany, Labels, Statuses
  <2> QED
    BY <1>3, <2>1, <2>2 DEF AllocateTooMany, flash, TypeOK
<1>4. CASE Allocate
  <2>1. req \in WriteReq
    BY <1>4 DEF Allocate, Allocating, Located, CallLabels
  <2>2. PICK p \in Pebs : Allocated(p)
    BY <1>4, Allocates
  <2>3. /\ hdr' \in [Pebs -> Headers]
        /\ log' = log
        /\ info' \in [Pebs -> Infos]
        /\ items' \in [Indexes -> ItemHeaders]
        /\ w' \in Writes
    BY <1>4, <2>1, <2>2, AllocatedType
  <2>4. sum' \in Int /\ wseq' \in Nat
    BY <1>4 DEF Allocate, TypeOK
  <2>5. gc' \in Gcs
    BY <1>4, NullTypes DEF Allocate
  <2>6. pc' \in Labels
    BY <1>4 DEF Allocate, Labels
  <2> QED
    BY <1>4, <2>3, <2>4, <2>5, <2>6 DEF Allocate, call, TypeOK
<1>5. CASE WriteItem
  <2>1. req \in WriteReq /\ w.peb \in Pebs
    BY <1>5 DEF WriteItem, Located, CallLabels, WritingLabels
  <2>2. wseq \in Nat /\ w.index \in Indexes /\ w.off \in Int
    BY <1>5, LocalFields DEF TypeOK
  <2>3. [status |-> ItemWriting, off |-> w.off, key |-> req.key, index |-> w.index,
         seq |-> wseq, val |-> req.val] \in Items
    BY <1>5, <2>1, <2>2 DEF Items, ItemStatus, WriteReq
  <2>4. log' \in [Pebs -> Seq(Items)]
    BY <1>5, <2>1, <2>3, LogUpdate, Shapes DEF WriteItem, Append1
  <2>5. pc' \in Labels
    BY <1>5 DEF WriteItem, Check, Labels
  <2> QED
    BY <1>5, <2>4, <2>5 DEF WriteItem, Append1, ram, call, TypeOK
<1>6. CASE MarkValid
  <2>1. w.peb \in Pebs
    BY <1>6 DEF MarkValid, Located, WritingLabels
  <2>2. log' \in [Pebs -> Seq(Items)]
    BY <1>6, <2>1, LogUpdate, Shapes DEF MarkValid, Validate
  <2>3. pc' \in Labels
    BY <1>6 DEF MarkValid, ItemCommitted, Labels
  <2> QED
    BY <1>6, <2>2, <2>3 DEF MarkValid, Validate, ram, call, TypeOK
<1>7. CASE PebActivedNow
  <2>1. w.peb \in Pebs
    BY <1>7 DEF PebActivedNow, Located, WritingLabels
  <2>2. hdr' \in [Pebs -> Headers]
    BY <1>7, <2>1, HdrUpdate, Shapes, Zenon DEF PebActivedNow, SetPebStatus, PebStatus
  <2>3. pc' \in Labels
    BY <1>7 DEF PebActivedNow, ItemCommitted, Labels
  <2> QED
    BY <1>7, <2>2, <2>3 DEF PebActivedNow, SetPebStatus, ram, call, TypeOK
<1>8. CASE DeleteOld
  <2>1. w.oldPeb \in Pebs
    BY <1>8 DEF DeleteOld, Located
  <2>2. log' \in [Pebs -> Seq(Items)]
    BY <1>8, <2>1, LogUpdate, Shapes DEF DeleteOld, Discard
  <2>3. PICK j \in ItemsAt(log[w.oldPeb], w.oldOff) :
           info' = [info EXCEPT ![w.oldPeb].dirty = @ + Footprint(log[w.oldPeb][j].val)]
    BY <1>8 DEF DeleteOld
  <2>4. log[w.oldPeb][j] \in Items
    BY <1>8, <2>1, <2>3, Fields DEF ItemsAt
  <2>5. log[w.oldPeb][j].val \in Values
    BY <1>8, <2>4, ItemFields
  <2>6. \A v \in Values : Footprint(v) \in Int
    BY <1>8, ValueTypes
  <2>7. info[w.oldPeb].dirty + Footprint(log[w.oldPeb][j].val) \in Int
    BY <1>8, <2>1, <2>5, <2>6, Fields
  <2>8. info' \in [Pebs -> Infos]
    BY <1>8, <2>1, <2>3, <2>7, InfoUpdate, Shapes, Zenon
  <2>9. pc' \in Labels
    BY <1>8 DEF DeleteOld, Check, Labels
  <2> QED
    BY <1>8, <2>2, <2>3, <2>8, <2>9 DEF DeleteOld, Discard, call, TypeOK
<1>9. CASE WriteDone
  <2>1. w' \in Writes /\ gc' \in Gcs
    BY <1>9, NullTypes DEF WriteDone, Return
  <2>2. pc' \in Labels /\ ret' \in Statuses
    BY <1>9 DEF WriteDone, Return, Labels, Statuses
  <2> QED
    BY <1>9, <2>1, <2>2 DEF WriteDone, Return, flash, ram, TypeOK
<1> QED
  BY <1>1, <1>2, <1>3, <1>4, <1>5, <1>6, <1>7, <1>8, <1>9 DEF Write

\* nvdm_delete_data_item, nvdm_delete_group, nvdm_delete_all.
LEMMA TypeDelete ==
    ASSUME TypeOK, Located, Delete
    PROVE  TypeOK'
<1>1. CASE DeleteItem
  <2>1. Lowest(Found(req.keys)) \in Indexes
    BY <1>1, FoundMember DEF DeleteItem
  <2>2. PICK i \in Indexes :
          /\ Discard(items[i].peb, items[i].off)
          /\ info' = [info EXCEPT ![items[i].peb].dirty = @ + Footprint(items[i].size)]
          /\ items' = [items EXCEPT ![i] = NoItem]
    BY <1>1, <2>1 DEF DeleteItem
  <2>3. items[i].peb \in Pebs /\ Footprint(items[i].size) \in Int
    BY <1>1, <2>2, OldSizeType
  <2>4. hdr' = hdr /\ log' \in [Pebs -> Seq(Items)]
    BY <1>1, <2>2, <2>3, LogUpdate, Shapes DEF Discard
  <2>5. info[items[i].peb].dirty + Footprint(items[i].size) \in Int
    BY <1>1, <2>3, Fields
  <2>6. info' \in [Pebs -> Infos]
    BY <1>1, <2>2, <2>3, <2>5, InfoUpdate, Shapes, Zenon
  <2>7. items' \in [Indexes -> ItemHeaders]
    BY <1>1, <2>2, ItemsUpdate, NullTypes, Shapes, Zenon
  <2>8. pc' \in Labels /\ sum' \in Int
    BY <1>1 DEF DeleteItem, Check, Labels, TypeOK
  <2> QED
    BY <1>1, <2>2, <2>4, <2>6, <2>7, <2>8 DEF DeleteItem, Discard, TypeOK
<1>2. CASE DeleteDone
  <2>1. w' \in Writes /\ gc' \in Gcs
    BY <1>2, NullTypes DEF DeleteDone, Return
  <2>2. pc' \in Labels /\ ret' \in Statuses
    BY <1>2 DEF DeleteDone, Return, Labels, Statuses
  <2> QED
    BY <1>2, <2>1, <2>2 DEF DeleteDone, Return, flash, ram, TypeOK
<1> QED
  BY <1>1, <1>2 DEF Delete

\* Calls arrive.
LEMMA TypeRequest ==
    ASSUME TypeOK, Request
    PROVE  TypeOK'
<1>1. CASE RequestWrite
  BY <1>1 DEF RequestWrite, flash, ram, Statuses, Labels, TypeOK
<1>2. CASE RequestDelete
  BY <1>2 DEF RequestDelete, flash, ram, Statuses, Labels, TypeOK
<1> QED
  BY <1>1, <1>2 DEF Request

LEMMA TypePower ==
    ASSUME TypeOK, PowerOn \/ PowerLoss
    PROVE  TypeOK'
<1>1. CASE PowerOn
  BY <1>1 DEF PowerOn, flash, ram, call, Labels, TypeOK
<1>2. CASE PowerLoss
  <2>1. info' \in [Pebs -> Infos] /\ items' \in [Indexes -> ItemHeaders]
    BY <1>2, NullTypes DEF PowerLoss
  <2>2. scan' \in Scans /\ gc' \in Gcs /\ w' \in Writes
    BY <1>2, NullTypes DEF PowerLoss
  <2>3. pc' \in Labels /\ ret' \in Statuses BY <1>2 DEF PowerLoss, Labels, Statuses
  <2>4. sum' = 0 /\ wseq' = 0 /\ req' = NoReq BY <1>2 DEF PowerLoss
  <2>5. hdr' = hdr /\ log' = log BY <1>2 DEF PowerLoss, flash
  <2>6. deleted' \in BOOLEAN BY <1>2 DEF PowerLoss
  <2> QED
    BY <2>1, <2>2, <2>3, <2>4, <2>5, <2>6 DEF TypeOK
<1> QED BY <1>1, <1>2

LEMMA TypeStep ==
    ASSUME TypeOK, Located, [Next]_vars
    PROVE  TypeOK'
<1>1. CASE UNCHANGED vars
  BY <1>1 DEF vars, flash, ram, call, TypeOK
<1> QED
  BY <1>1, TypeClassify, TypeScanLogs, TypeRecover, TypeTransfer, TypeReclaim,
     TypeWrite, TypeDelete, TypeRequest, TypePower
     DEF Next, Run, Boot, Collect

-----------------------------------------------------------------------------
(* The steps keep the locals located. *)

LEMMA LocatedInit == Init => Located
BY DEF Init, Located, BootLabels, WritingLabels, CallLabels, CollectLabels

LEMMA LocatedClassify ==
    ASSUME TypeOK, Located, Classify
    PROVE  Located'
<1>1. CASE ScanActiving
  BY <1>1, NextPebType
     DEF ScanActiving, Scanning, call, Located, BootLabels, WritingLabels, CallLabels,
         CollectLabels
<1>2. CASE ScanActivingEmpty
  BY <1>2
     DEF ScanActivingEmpty, call, Located, BootLabels, WritingLabels, CallLabels,
         CollectLabels
<1>3. CASE ScanTransfering
  BY <1>3
     DEF ScanTransfering, ScanKnown, Check, Scanning, call, Located, BootLabels,
         WritingLabels, CallLabels, CollectLabels
<1>4. CASE ScanTransfered
  BY <1>4
     DEF ScanTransfered, ScanKnown, Check, Scanning, call, Located, BootLabels,
         WritingLabels, CallLabels, CollectLabels
<1>5. CASE ScanReclaiming
  BY <1>5
     DEF ScanReclaiming, ScanKnown, Check, Scanning, call, Located, BootLabels,
         WritingLabels, CallLabels, CollectLabels
<1>6. CASE ScanActived
  BY <1>6
     DEF ScanActived, ScanKnown, Check, Scanning, call, Located, BootLabels, WritingLabels,
         CallLabels, CollectLabels
<1>7. CASE ScanEmpty
  BY <1>7
     DEF ScanEmpty, Check, Scanning, call, Located, BootLabels, WritingLabels, CallLabels,
         CollectLabels
<1>8. CASE ScanUnknown
  BY <1>8
     DEF ScanUnknown, Scanning, call, Located, BootLabels, WritingLabels, CallLabels,
         CollectLabels
<1>9. CASE ScanMean
  BY <1>9
     DEF ScanMean, call, Located, BootLabels, WritingLabels, CallLabels, CollectLabels
<1>10. CASE FormatUnknown
  BY <1>10
     DEF FormatUnknown, call, Located, BootLabels, WritingLabels, CallLabels,
         CollectLabels
<1>11. CASE AllFormatted
  BY <1>11
     DEF AllFormatted, call, Located, BootLabels, WritingLabels, CallLabels, CollectLabels
<1> QED
  BY <1>1, <1>2, <1>3, <1>4, <1>5, <1>6, <1>7, <1>8, <1>9, <1>10, <1>11 DEF Classify

LEMMA LocatedScanLogs ==
    ASSUME TypeOK, Located, ScanLogs
    PROVE  Located'
<1>1. CASE SkipPeb
  BY <1>1 DEF SkipPeb, call, Located, BootLabels, WritingLabels, CallLabels, CollectLabels
<1>2. CASE ScanEndOfLog
  BY <1>2
     DEF ScanEndOfLog, ScanningItems, call, Located, BootLabels, WritingLabels, CallLabels,
         CollectLabels
<1>3. CASE ScanTornItem
  BY <1>3
     DEF ScanTornItem, ScanningItems, call, Located, BootLabels, WritingLabels, CallLabels,
         CollectLabels
<1>4. CASE ScanDeletedItem
  BY <1>4
     DEF ScanDeletedItem, ScanningItems, call, Located, BootLabels, WritingLabels,
         CallLabels, CollectLabels
<1>5. CASE ScanFirstCopy
  BY <1>5
     DEF ScanFirstCopy, Check, ScanningValid, ScanningItems, call, Located, BootLabels,
         WritingLabels, CallLabels, CollectLabels
<1>6. CASE ScanNewerCopy
  BY <1>6
     DEF ScanNewerCopy, SecondCopyOk, Check, ScanningValid, ScanningItems, call, Located,
         BootLabels, WritingLabels, CallLabels, CollectLabels
<1>7. CASE ScanOlderCopy
  BY <1>7
     DEF ScanOlderCopy, SecondCopyOk, Check, ScanningValid, ScanningItems, call, Located,
         BootLabels, WritingLabels, CallLabels, CollectLabels
<1> QED
  BY <1>1, <1>2, <1>3, <1>4, <1>5, <1>6, <1>7 DEF ScanLogs

LEMMA LocatedRecover ==
    ASSUME TypeOK, Located, Recover
    PROVE  Located'
<1>1. CASE RecoverTransfering
  <2>1. req' = NoReq
    BY <1>1 DEF RecoverTransfering, ItemScanDone, Recovery, call, Located, BootLabels
  <2>2. gc'.then \in {"relocate", "init"}
    BY <1>1, NullTypes DEF RecoverTransfering, Recovery, Gcs
  <2>3. pc' \in {"reclaim", "relocate"}
    BY <1>1 DEF RecoverTransfering, Recovery
  <2> QED
    BY <1>1, <2>1, <2>2, <2>3
       DEF RecoverTransfering, Located, BootLabels, WritingLabels, CallLabels,
           CollectLabels
<1>2. CASE RecoverTransfered
  <2>1. req' = NoReq
    BY <1>2 DEF RecoverTransfered, ItemScanDone, Recovery, call, Located, BootLabels
  <2>2. gc'.then = "actived" /\ gc'.dst = scan.transfered
    BY <1>2, NullTypes DEF RecoverTransfered, Recovery, Gcs
  <2>3. gc'.dst \in Pebs
    BY <1>2, <2>2, LocalFields DEF RecoverTransfered
  <2>4. pc' = "reclaim"
    BY <1>2 DEF RecoverTransfered, Recovery
  <2> QED
    BY <1>2, <2>1, <2>2, <2>3, <2>4
       DEF RecoverTransfered, Located, BootLabels, WritingLabels, CallLabels,
           CollectLabels
<1>3. CASE RecoverNothing
  <2>1. req' = NoReq
    BY <1>3 DEF RecoverNothing, ItemScanDone, Recovery, call, Located, BootLabels
  <2>2. pc' \in {"init", "assert"}
    BY <1>3 DEF RecoverNothing, Recovery, Check
  <2> QED
    BY <1>3, <2>1, <2>2
       DEF RecoverNothing, Located, BootLabels, WritingLabels, CallLabels, CollectLabels
<1>4. CASE InitDone
  BY <1>4
     DEF InitDone, call, Located, BootLabels, WritingLabels, CallLabels, CollectLabels
<1> QED
  BY <1>1, <1>2, <1>3, <1>4 DEF Recover

LEMMA LocatedTransfer ==
    ASSUME TypeOK, Located, Transfer
    PROVE  Located'
<1>1. CASE GarbageCollect
  <2>1. PICK s : gc' = [NoGc EXCEPT !.src = s]
    BY <1>1 DEF GarbageCollect
  <2>2. gc'.then = "alloc"
    BY <1>1, <2>1 DEF NoGc
  <2>3. req' = req /\ pc = "alloc" /\ pc' = "relocate"
    BY <1>1 DEF GarbageCollect, call
  <2> QED
    BY <1>1, <2>1, <2>2, <2>3
       DEF Located, BootLabels, WritingLabels, CallLabels, CollectLabels
<1>2. CASE RelocateEmpty
  BY <1>2
     DEF RelocateEmpty, call, Located, BootLabels, WritingLabels, CallLabels,
         CollectLabels
<1>3. CASE RelocateValid
  BY <1>3
     DEF RelocateValid, call, Located, BootLabels, WritingLabels, CallLabels,
         CollectLabels
<1>4. CASE MarkReclaiming
  <2>1. gc'.dst = gc.dst /\ gc'.then = gc.then
    BY <1>4, LocalFields DEF MarkReclaiming, NextSource, Gcs
  <2> QED
    BY <1>4, <2>1
       DEF MarkReclaiming, AtSource, call, Located, BootLabels, WritingLabels, CallLabels,
           CollectLabels
<1>5. CASE PickTarget
  <2>1. Reserved \subseteq Pebs
    BY <1>5 DEF Reserved
  <2>2. pc' = "assert" \/ (pc' = "transfering" /\ \E p \in Reserved : Picked(p))
    BY <1>5, PicksReserved DEF PickTarget, Check
  <2>3. pc' = "assert" \/ (gc.then = gc'.then /\ gc'.dst \in Pebs)
    BY <1>5, <2>1, <2>2, LocalFields, Zenon DEF Picked, Gcs
  <2>4. req' = req /\ pc = "mark"
    BY <1>5 DEF PickTarget, AfterSources, call
  <2> QED
    BY <1>5, <2>2, <2>3, <2>4
       DEF PickTarget, Located, BootLabels, WritingLabels, CallLabels, CollectLabels
<1>6. CASE StartTransfer
  BY <1>6
     DEF StartTransfer, call, Located, BootLabels, WritingLabels, CallLabels,
         CollectLabels
<1>7. CASE SourceDone
  <2>1. gc'.dst = gc.dst /\ gc'.then = gc.then
    BY <1>7, LocalFields DEF SourceDone, NextSource, Gcs
  <2> QED
    BY <1>7, <2>1
       DEF SourceDone, Migrating, AtSource, call, Located, BootLabels, WritingLabels,
           CallLabels, CollectLabels
<1>8. CASE SkipDeleted
  <2>1. gc'.dst = gc.dst /\ gc'.then = gc.then
    BY <1>8, LocalFields DEF SkipDeleted, NextSource, Gcs
  <2> QED
    BY <1>8, <2>1
       DEF SkipDeleted, Migrating, AtSource, call, Located, BootLabels, WritingLabels,
           CallLabels, CollectLabels
<1>9. CASE CopyItem
  <2>1. Source \in Pebs /\ gc.cur \in DOMAIN gc.src /\ pc = "migrate"
    BY <1>9, SourceType DEF CopyItem, Migrating, AtSource
  <2>2. gc.pos \in DOMAIN log[Source] /\ log[Source] \in Seq(Items)
    BY <1>9, <2>1, LocalFields, Fields DEF CopyItem, SourceHasItem
  <2>3. gc' = gc /\ req' = req /\ pc' \in {"copied", "assert"}
    BY <1>9 DEF CopyItem, Check, call
  <2>4. Source' = Source
    BY <1>9, <2>3 DEF Source
  <2>5. \/ log'[Source] = log[Source]
        \/ log'[Source] = Append(log[Source],
                                 [SourceItem EXCEPT !.status = ItemWriting, !.off = gc.off])
    BY <1>9, <2>1, Shapes DEF CopyItem, Append1
  <2>6. gc'.pos \in DOMAIN (log')[Source']
    BY <1>9, <2>2, <2>3, <2>4, <2>5
  <2> QED
    BY <1>9, <2>3, <2>4, <2>5, <2>6, <2>1
       DEF CopyItem, Migrating, AtSource, Located, BootLabels, WritingLabels, CallLabels,
           CollectLabels
<1>10. CASE CommitCopy
  <2>1. gc'.dst = gc.dst /\ gc'.then = gc.then
    BY <1>10, LocalFields DEF CommitCopy, Gcs
  <2> QED
    BY <1>10, <2>1
       DEF CommitCopy, call, Located, BootLabels, WritingLabels, CallLabels, CollectLabels
<1>11. CASE EndTransfer
  <2>1. gc'.dst = gc.dst /\ gc'.then = "actived"
    BY <1>11, LocalFields DEF EndTransfer, Gcs
  <2> QED
    BY <1>11, <2>1
       DEF EndTransfer, AfterSources, call, Located, BootLabels, WritingLabels, CallLabels,
           CollectLabels
<1> QED
  BY <1>1, <1>2, <1>3, <1>4, <1>5, <1>6, <1>7, <1>8, <1>9, <1>10, <1>11 DEF Transfer

LEMMA LocatedReclaim ==
    ASSUME TypeOK, Located, ReclaimPebs
    PROVE  Located'
<1>1. CASE Reclaim
  BY <1>1, SourceType
     DEF Reclaim, AtSource, call, Located, BootLabels, WritingLabels, CallLabels,
         CollectLabels
<1>2. CASE Erase
  BY <1>2 DEF Erase, call, Located, BootLabels, WritingLabels, CallLabels, CollectLabels
<1>3. CASE MarkEmpty
  <2>1. gc'.dst = gc.dst /\ gc'.then = gc.then
    BY <1>3, LocalFields DEF MarkEmpty, NextSource, Gcs
  <2> QED
    BY <1>3, <2>1
       DEF MarkEmpty, call, Located, BootLabels, WritingLabels, CallLabels, CollectLabels
<1>4. CASE Reclaimed
  <2>1. gc.then \in Thens
    BY <1>4, LocalFields
  <2>2. pc = "reclaim" /\ req' = req /\ pc' = gc.then
    BY <1>4 DEF Reclaimed, AfterSources, call
  <2>3. gc' = IF gc.then = "relocate"
              THEN [NoGc EXCEPT !.src = scan.reclaiming, !.then = "init"] ELSE gc
    BY <1>4 DEF Reclaimed
  <2>4. gc.then = "relocate" => gc'.then = "init"
    BY <1>4, <2>3, NullTypes DEF Gcs
  <2> QED
    BY <1>4, <2>2, <2>3, <2>4, <2>1
       DEF Thens, Located, BootLabels, WritingLabels, CallLabels, CollectLabels
<1>5. CASE TargetActived
  BY <1>5
     DEF TargetActived, Caller, call, Located, BootLabels, WritingLabels, CallLabels,
         CollectLabels
<1> QED
  BY <1>1, <1>2, <1>3, <1>4, <1>5 DEF ReclaimPebs

LEMMA LocatedWrite ==
    ASSUME TypeOK, Located, Write
    PROVE  Located'
<1>1. CASE WriteRefused
  BY <1>1
     DEF WriteRefused, Return, Located, BootLabels, WritingLabels, CallLabels,
         CollectLabels
<1>2. CASE WriteAccepted
  BY <1>2
     DEF WriteAccepted, call, Located, BootLabels, WritingLabels, CallLabels,
         CollectLabels
<1>3. CASE AllocateTooMany
  BY <1>3
     DEF AllocateTooMany, Located, BootLabels, WritingLabels, CallLabels, CollectLabels
<1>4. CASE Allocate
  <2>1. PICK p \in Pebs : Allocated(p)
    BY <1>4, Allocates
  <2>2. w'.peb = p /\ w'.oldPeb = items[w.index].peb
    BY <1>4, <2>1, LocalFields DEF Allocated, Writes
  <2>3. items[w.index].peb \in Pebs
    BY <1>4, LocalFields, Fields
  <2>4. req' = req /\ pc = "alloc" /\ pc' = "writing"
    BY <1>4 DEF Allocate, Allocating, call
  <2> QED
    BY <1>4, <2>2, <2>4, <2>3
       DEF Located, BootLabels, WritingLabels, CallLabels, CollectLabels
<1>5. CASE WriteItem
  BY <1>5
     DEF WriteItem, Check, call, Located, BootLabels, WritingLabels, CallLabels,
         CollectLabels
<1>6. CASE MarkValid
  BY <1>6
     DEF MarkValid, ItemCommitted, call, Located, BootLabels, WritingLabels, CallLabels,
         CollectLabels
<1>7. CASE PebActivedNow
  BY <1>7
     DEF PebActivedNow, ItemCommitted, call, Located, BootLabels, WritingLabels,
         CallLabels, CollectLabels
<1>8. CASE DeleteOld
  BY <1>8
     DEF DeleteOld, Check, call, Located, BootLabels, WritingLabels, CallLabels,
         CollectLabels
<1>9. CASE WriteDone
  BY <1>9
     DEF WriteDone, Return, Located, BootLabels, WritingLabels, CallLabels, CollectLabels
<1> QED
  BY <1>1, <1>2, <1>3, <1>4, <1>5, <1>6, <1>7, <1>8, <1>9 DEF Write

LEMMA LocatedCall ==
    ASSUME TypeOK, Located, Delete \/ Request \/ PowerOn \/ PowerLoss
    PROVE  Located'
<1>1. CASE DeleteItem
  BY <1>1
     DEF DeleteItem, Check, Located, BootLabels, WritingLabels, CallLabels, CollectLabels
<1>2. CASE DeleteDone
  BY <1>2
     DEF DeleteDone, Return, Located, BootLabels, WritingLabels, CallLabels, CollectLabels
<1>3. CASE RequestWrite
  BY <1>3 DEF RequestWrite, Located, BootLabels, WritingLabels, CallLabels, CollectLabels
<1>4. CASE RequestDelete
  BY <1>4 DEF RequestDelete, Located, BootLabels, WritingLabels, CallLabels, CollectLabels
<1>5. CASE PowerOn
  BY <1>5 DEF PowerOn, call, Located, BootLabels, WritingLabels, CallLabels, CollectLabels
<1>6. CASE PowerLoss
  BY <1>6 DEF PowerLoss, Located, BootLabels, WritingLabels, CallLabels, CollectLabels
<1> QED
  BY <1>1, <1>2, <1>3, <1>4, <1>5, <1>6 DEF Delete, Request

LEMMA LocatedStep ==
    ASSUME TypeOK, Located, [Next]_vars
    PROVE  Located'
<1>1. CASE UNCHANGED vars
  BY <1>1 DEF vars, flash, ram, call, Located, Source
<1> QED
  BY <1>1, LocatedClassify, LocatedScanLogs, LocatedRecover, LocatedTransfer,
     LocatedReclaim, LocatedWrite, LocatedCall
     DEF Next, Run, Boot, Collect

-----------------------------------------------------------------------------
\* Every state the engine reaches has the types of its C structures: statuses
\* and counters are legal, locals and item headers name blocks that exist.
THEOREM TypeCorrect == Spec => []TypeOK
<1>1. Init => TypeOK /\ Located
  BY TypeInit, LocatedInit
<1>2. TypeOK /\ Located /\ [Next]_vars => (TypeOK /\ Located)'
  BY TypeStep, LocatedStep
<1> QED
  BY <1>1, <1>2, PTL DEF Spec

(***************************************************************************)
(* Part 2: the blocks.                                                     *)
(***************************************************************************)
-----------------------------------------------------------------------------
Status(p) == hdr[p].status
Target(p) == Status(p) \in {PebTransfering, PebTransfered}

\* Blocks the next nvdm_init returns to the reserve by its classification alone.
Spare(p) == Status(p) \in {PebVirgin, PebEmpty, PebActiving, PebErasing}

\* What flash holds at any moment: at most one target, sources for a transfer
\* that runs, and something from which recovery gets its reserve back.
FlashInv ==
    /\ \A p, q \in Pebs : Target(p) /\ Target(q) => p = q
    /\ \A p \in Pebs : Status(p) = PebTransfering =>
          \E q \in Pebs : Status(q) = PebReclaiming
    /\ \E p \in Pebs :
          \/ Spare(p) \/ Status(p) = PebTransfering
          \/ Status(p) = PebTransfered /\ \E q \in Pebs : Status(q) = PebReclaiming

-----------------------------------------------------------------------------
(* What RAM knows of the blocks, by the phase of the running call. *)

\* The first loop of peb_scan has classified exactly the blocks below n.
Classified(n) ==
    \A p \in Pebs :
        /\ info[p].reserved <=> p < n /\ Status(p) \in {PebVirgin, PebEmpty}
        /\ p < n => Status(p) \notin {PebActiving, PebErasing}
        /\ p = scan.transfering <=> p < n /\ Status(p) = PebTransfering
        /\ p = scan.transfered <=> p < n /\ Status(p) = PebTransfered
        /\ p \in Blocks(scan.reclaiming) <=> p < n /\ Status(p) = PebReclaiming

\* Only reserved blocks have no counter; a blank block has none.
Counted ==
    \A p \in Pebs :
        /\ info[p].count = NoCount /\ p < scan.peb => info[p].reserved
        /\ p > scan.peb => info[p].count = NoCount
        /\ pc = "peb_scan" /\ p = scan.peb => info[p].count = NoCount

Blank ==
    /\ scan.peb = 0 /\ scan.reclaiming = <<>>
    /\ scan.transfering = NoPeb /\ scan.transfered = NoPeb
    /\ \A p \in Pebs : ~info[p].reserved /\ info[p].count = NoCount

ScanInv ==
    /\ pc = "off" => Blank
    /\ pc \in {"peb_scan", "peb_empty"} =>
          /\ Classified(scan.peb) /\ Counted
          /\ \A p \in Pebs : p < scan.peb /\ Status(p) = PebVirgin => info[p].count = NoCount
    /\ pc = "peb_empty" => scan.peb \in Pebs /\ Status(scan.peb) = PebVirgin
    /\ pc = "peb_count" =>
          /\ Classified(PebCount)
          /\ \A p \in Pebs : /\ info[p].count = NoCount => info[p].reserved
                             /\ Status(p) = PebVirgin => info[p].count = NoCount
    /\ pc = "item_scan" =>
          /\ Classified(PebCount)
          /\ \A p \in Pebs : Status(p) # PebVirgin

\* Every block is in reserve or in use, but for the exceptions S.
Apart(S) ==
    \A p \in Pebs \ S : Status(p) = IF info[p].reserved THEN PebEmpty ELSE PebActived
NotReserved(S) == \A p \in S : ~info[p].reserved
AllReclaiming(S) == \A p \in S : Status(p) = PebReclaiming
Sources == Blocks(gc.src)

SettledLabels == {"init", "idle", "alloc", "write", "held", "delete", "delete_old", "written"}
CallInv ==
    /\ pc \in SettledLabels => Apart({}) /\ Reserved # {}
    /\ pc \in WritingLabels =>
          /\ Reserved # {}
          /\ Apart(IF w.fresh THEN {w.peb} ELSE {})
          /\ w.fresh => /\ w.peb \in Pebs /\ ~info[w.peb].reserved
                        /\ Status(w.peb) = PebActiving
    /\ pc = "peb_actived" => w.fresh

\* Before the transfer the sources are in use, or marked already.
MarkInv ==
    /\ pc \in {"relocate", "mark"} =>
          /\ Reserved # {} /\ Sources # {} /\ Apart(Sources) /\ NotReserved(Sources)
          /\ \A p \in Sources : Status(p) \in {PebActived, PebReclaiming}
    /\ pc = "relocate" => gc.cur = 1 /\ gc.then \in {"alloc", "init"}
    /\ pc = "mark" => \A i \in DOMAIN gc.src : i < gc.cur => Status(gc.src[i]) = PebReclaiming

\* The transfer: an unreserved target apart from its sources, all marked.
TransferInv ==
    pc \in {"transfering", "migrate", "copied"} =>
        /\ Sources # {} /\ AllReclaiming(Sources) /\ NotReserved(Sources)
        /\ gc.dst \in Pebs /\ ~info[gc.dst].reserved
        /\ Status(gc.dst) = IF pc = "transfering" THEN PebActiving ELSE PebTransfering
        /\ Apart(Sources \cup {gc.dst})

ReclaimLabels == {"reclaim", "erase", "empty"}
\* The block between the writes of peb_reclaim.
Opened == IF pc \in {"erase", "empty"} THEN {Source} ELSE {}
ReclaimInv ==
    pc \in ReclaimLabels =>
        /\ \A i \in DOMAIN gc.src : i < gc.cur => info[gc.src[i]].reserved
        /\ pc # "reclaim" => /\ gc.cur \in DOMAIN gc.src
                             /\ Status(Source) = IF pc = "erase" THEN PebErasing ELSE PebVirgin
        /\ \A p \in Sources \ Opened : info[p].reserved => Status(p) = PebEmpty
        \* Sources without valid data.
        /\ gc.then \in {"alloc", "init"} =>
              /\ Reserved # {} /\ Apart(Sources)
              /\ \A p \in Sources \ Opened : ~info[p].reserved =>
                    Status(p) \in {PebActived, PebReclaiming}
        \* Sources of a complete transfer.
        /\ gc.then = "actived" =>
              /\ gc.dst \in Pebs /\ ~info[gc.dst].reserved /\ gc.dst \notin Sources
              /\ Status(gc.dst) = PebTransfered
              /\ Apart(Sources \cup {gc.dst})
              /\ AllReclaiming({p \in Sources \ Opened : ~info[p].reserved})
        \* The target of an interrupted transfer.
        /\ gc.then = "relocate" =>
              LET old == Blocks(scan.reclaiming) IN
              /\ Sources # {} /\ old # {} /\ old \cap Sources = {}
              /\ AllReclaiming(old) /\ NotReserved(old)
              /\ Apart(Sources \cup old)
              /\ \A p \in Sources \ Opened : ~info[p].reserved => Status(p) = PebTransfering

ActivedInv ==
    pc = "actived" =>
        /\ gc.dst \in Pebs /\ ~info[gc.dst].reserved /\ Status(gc.dst) = PebTransfered
        /\ Apart({gc.dst})

BlockInv == FlashInv /\ ScanInv /\ CallInv /\ MarkInv /\ TransferInv /\ ReclaimInv /\ ActivedInv

-----------------------------------------------------------------------------
(* What a step does to the blocks, and what that means for flash. *)

Marks(x, s) == \A p \in Pebs : hdr'[p].status = IF p = x THEN s ELSE hdr[p].status
MarksNone == \A p \in Pebs : hdr'[p].status = hdr[p].status
Unreserves(x) == \A p \in Pebs : info'[p].reserved <=> info[p].reserved /\ p # x
ReservesNone == \A p \in Pebs : info'[p].reserved <=> info[p].reserved
Quiet == MarksNone /\ ReservesNone

LEMMA StatusFacts ==
    /\ PebVirgin \notin {PebEmpty, PebActiving, PebTransfering, PebTransfered, PebActived,
                         PebReclaiming, PebErasing}
    /\ PebEmpty \notin {PebActiving, PebTransfering, PebTransfered, PebActived,
                        PebReclaiming, PebErasing}
    /\ PebActiving \notin {PebTransfering, PebTransfered, PebActived, PebReclaiming, PebErasing}
    /\ PebTransfering \notin {PebTransfered, PebActived, PebReclaiming, PebErasing}
    /\ PebTransfered \notin {PebActived, PebReclaiming, PebErasing}
    /\ PebActived \notin {PebReclaiming, PebErasing}
    /\ PebReclaiming # PebErasing
BY DEF PebVirgin, PebEmpty, PebActiving, PebTransfering, PebTransfered, PebActived,
       PebReclaiming, PebErasing

LEMMA MarkFacts ==
    ASSUME TypeOK
    PROVE  /\ \A x \in Pebs, s \in PebStatus : SetPebStatus(x, s) => Marks(x, s)
           /\ \A x \in Pebs : Activate(x) => Marks(x, PebActiving)
           /\ \A x \in Pebs : \A c : EraseAndFormat(x, c) => Marks(x, PebVirgin)
<1>1. \A x \in Pebs, s \in PebStatus : SetPebStatus(x, s) => Marks(x, s)
  BY Shapes DEF SetPebStatus, Marks, Headers
<1>2. \A x \in Pebs : Activate(x) => Marks(x, PebActiving)
  BY Shapes DEF Activate, Marks, Headers
<1>3. \A x \in Pebs : \A c : EraseAndFormat(x, c) => Marks(x, PebVirgin)
  BY Shapes DEF EraseAndFormat, Marks, Formatted, BlankHeader
<1> QED BY <1>1, <1>2, <1>3

LEMMA QuietFlash ==
    ASSUME FlashInv, MarksNone
    PROVE  FlashInv'
BY DEF FlashInv, MarksNone, Target, Spare, Status

\* A block that is no source and no target may become spare, or leave the spare
\* ones when another is spare.
LEMMA FlashSpared ==
    ASSUME FlashInv, NEW x \in Pebs, NEW s \in {PebVirgin, PebEmpty, PebActiving, PebErasing},
           Marks(x, s), Status(x) # PebReclaiming
    PROVE  FlashInv'
BY StatusFacts DEF FlashInv, Marks, Target, Spare, Status

\* Phases: at a label only its own part of the invariant says anything.
LEMMA OnlyFlash ==
    ASSUME FlashInv', pc' = "assert"
    PROVE  BlockInv'
BY DEF BlockInv, ScanInv, CallInv, MarkInv, TransferInv, ReclaimInv, ActivedInv,
       SettledLabels, WritingLabels, ReclaimLabels

LEMMA OnlyScan ==
    ASSUME FlashInv', ScanInv', pc' \in {"off", "peb_scan", "peb_empty", "peb_count", "item_scan"}
    PROVE  BlockInv'
BY DEF BlockInv, CallInv, MarkInv, TransferInv, ReclaimInv, ActivedInv,
       SettledLabels, WritingLabels, ReclaimLabels

LEMMA OnlyCall ==
    ASSUME FlashInv', CallInv', pc' \in SettledLabels \cup WritingLabels
    PROVE  BlockInv'
BY DEF BlockInv, ScanInv, MarkInv, TransferInv, ReclaimInv, ActivedInv,
       SettledLabels, WritingLabels, ReclaimLabels

LEMMA OnlyMark ==
    ASSUME FlashInv', MarkInv', pc' \in {"relocate", "mark"}
    PROVE  BlockInv'
BY DEF BlockInv, ScanInv, CallInv, TransferInv, ReclaimInv, ActivedInv,
       SettledLabels, WritingLabels, ReclaimLabels

LEMMA OnlyTransfer ==
    ASSUME FlashInv', TransferInv', pc' \in {"transfering", "migrate", "copied"}
    PROVE  BlockInv'
BY DEF BlockInv, ScanInv, CallInv, MarkInv, ReclaimInv, ActivedInv,
       SettledLabels, WritingLabels, ReclaimLabels

LEMMA OnlyReclaim ==
    ASSUME FlashInv', ReclaimInv', pc' \in ReclaimLabels
    PROVE  BlockInv'
BY DEF BlockInv, ScanInv, CallInv, MarkInv, TransferInv, ActivedInv,
       SettledLabels, WritingLabels, ReclaimLabels

LEMMA OnlyActived ==
    ASSUME FlashInv', ActivedInv', pc' = "actived"
    PROVE  BlockInv'
BY DEF BlockInv, ScanInv, CallInv, MarkInv, TransferInv, ReclaimInv,
       SettledLabels, WritingLabels, ReclaimLabels

LEMMA BlockInit == Init => BlockInv
<1> SUFFICES ASSUME Init PROVE BlockInv OBVIOUS
<1>1. TypeOK BY TypeInit
<1>2. pc = "off" /\ scan = NoScan /\ \A p \in Pebs : info[p] = NoInfo BY DEF Init
<1>3. Blank BY <1>2, PebFacts DEF Blank, NoScan, NoInfo
<1>4. \A p \in Pebs : Status(p) \in {PebVirgin, PebEmpty}
  <2>1. PICK h \in InitialHeaders : hdr = h BY DEF Init
  <2>2. CASE h = [p \in Pebs |-> BlankHeader] BY <2>1, <2>2 DEF BlankHeader, Status
  <2>3. ASSUME NEW c \in [Pebs -> WornCounts],
               h = [p \in Pebs |-> [Formatted(c[p]) EXCEPT !.status = PebEmpty]]
        PROVE  \A p \in Pebs : Status(p) = PebEmpty
    BY <2>1, <2>3, Zenon DEF Formatted, BlankHeader, Status
  <2> QED BY <2>2, <2>3 DEF InitialHeaders
<1>5. 0 \in Pebs BY PebFacts
<1>6. FlashInv BY <1>4, <1>5, StatusFacts DEF FlashInv, Target, Spare
<1> QED
  BY <1>2, <1>3, <1>6
     DEF BlockInv, ScanInv, CallInv, MarkInv, TransferInv, ReclaimInv, ActivedInv,
         SettledLabels, WritingLabels, ReclaimLabels

-----------------------------------------------------------------------------
(* The steps keep the blocks in order. *)

\* data_item_scan changes neither a status nor the reserve.
KeepsBlocks ==
    /\ scan'.transfering = scan.transfering /\ scan'.transfered = scan.transfered
    /\ scan'.reclaiming = scan.reclaiming

LEMMA LogsKeep ==
    ASSUME TypeOK, ScanLogs
    PROVE  /\ Quiet /\ KeepsBlocks
           /\ pc = "item_scan" /\ pc' \in {"item_scan", "assert"}
<1>1. MarksNone
  BY DEF ScanLogs, SkipPeb, ScanEndOfLog, ScanTornItem, ScanDeletedItem, ScanFirstCopy,
         ScanNewerCopy, ScanOlderCopy, ScanningValid, flash, Discard, MarksNone
<1>2. ReservesNone
  <2>1. CASE SkipPeb BY <2>1, Shapes DEF SkipPeb, ReservesNone, Infos
  <2>2. CASE ScanEndOfLog BY <2>2, Shapes DEF ScanEndOfLog, ReservesNone, Infos
  <2>3. CASE ScanTornItem BY <2>3, Shapes DEF ScanTornItem, ReservesNone, Infos
  <2>4. CASE ScanDeletedItem BY <2>4, Shapes DEF ScanDeletedItem, ReservesNone, Infos
  <2>5. CASE ScanFirstCopy BY <2>5, Shapes DEF ScanFirstCopy, ReservesNone, Infos
  <2>6. CASE ScanNewerCopy BY <2>6, Shapes DEF ScanNewerCopy, ReservesNone, Infos
  <2>7. CASE ScanOlderCopy BY <2>7, Shapes DEF ScanOlderCopy, ReservesNone, Infos
  <2> QED BY <2>1, <2>2, <2>3, <2>4, <2>5, <2>6, <2>7 DEF ScanLogs
<1>3. KeepsBlocks
  BY LocalFields
     DEF ScanLogs, SkipPeb, ScanEndOfLog, ScanTornItem, ScanDeletedItem, ScanFirstCopy,
         ScanNewerCopy, ScanOlderCopy, ScanningValid, NextPeb, KeepsBlocks, Scans
<1>4. pc = "item_scan" /\ pc' \in {"item_scan", "assert"}
  BY DEF ScanLogs, SkipPeb, ScanEndOfLog, ScanTornItem, ScanDeletedItem, ScanFirstCopy,
         ScanNewerCopy, ScanOlderCopy, ScanningValid, ScanningItems, SecondCopyOk, Check
<1> QED BY <1>1, <1>2, <1>3, <1>4 DEF Quiet

\* Nor does a call, but for the block it writes to.
Settled ==
    \/ WriteRefused \/ WriteAccepted \/ AllocateTooMany \/ DeleteOld \/ WriteDone
    \/ Delete \/ Request \/ InitDone
LEMMA SettledKeep ==
    ASSUME TypeOK, Settled
    PROVE  Quiet /\ pc \in SettledLabels /\ pc' \in SettledLabels \cup {"assert"}
<1>1. MarksNone
  BY DEF Settled, WriteRefused, WriteAccepted, AllocateTooMany, WriteDone, DeleteOld,
         Delete, DeleteItem, DeleteDone, Request, RequestWrite, RequestDelete, InitDone,
         flash, Discard, MarksNone
<1>2. ReservesNone
  <2>1. CASE WriteRefused \/ WriteAccepted \/ AllocateTooMany \/ WriteDone
    BY <2>1 DEF WriteRefused, WriteAccepted, AllocateTooMany, WriteDone, ram, ReservesNone
  <2>2. CASE DeleteOld BY <2>2, Shapes DEF DeleteOld, ReservesNone, Infos
  <2>3. CASE Delete
    <3>1. CASE DeleteItem
      <4>1. PICK p, n : info' = [info EXCEPT ![p].dirty = n]
        BY <3>1 DEF DeleteItem
      <4> QED BY <4>1, Shapes DEF ReservesNone, Infos
    <3>2. CASE DeleteDone BY <3>2 DEF DeleteDone, ram, ReservesNone
    <3> QED BY <2>3, <3>1, <3>2 DEF Delete
  <2>4. CASE Request \/ InitDone
    BY <2>4 DEF Request, RequestWrite, RequestDelete, InitDone, ram, ReservesNone
  <2> QED BY <2>1, <2>2, <2>3, <2>4 DEF Settled
<1>3. pc \in SettledLabels /\ pc' \in SettledLabels \cup {"assert"}
  BY DEF Settled, WriteRefused, WriteAccepted, AllocateTooMany, WriteDone, DeleteOld,
         Delete, DeleteItem, DeleteDone, Request, RequestWrite, RequestDelete, InitDone,
         Return, Allocating, Check, SettledLabels
<1> QED BY <1>1, <1>2, <1>3 DEF Quiet

LEMMA SettledStep ==
    ASSUME TypeOK, BlockInv, Settled
    PROVE  BlockInv'
<1>1. FlashInv' BY SettledKeep, QuietFlash DEF BlockInv, Quiet
<1>2. CASE pc' = "assert" BY <1>1, <1>2, OnlyFlash
<1>3. CASE pc' \in SettledLabels
  <2>1. Apart({}) /\ Reserved # {} BY SettledKeep DEF BlockInv, CallInv
  <2>2. CallInv'
    BY <1>3, <2>1, SettledKeep
       DEF CallInv, Apart, Reserved, Status, Quiet, MarksNone, ReservesNone,
           SettledLabels, WritingLabels
  <2> QED BY <1>1, <1>3, <2>2, OnlyCall
<1> QED BY <1>2, <1>3, SettledKeep

LEMMA LogsStep ==
    ASSUME TypeOK, BlockInv, ScanLogs
    PROVE  BlockInv'
<1>1. FlashInv' BY LogsKeep, QuietFlash DEF BlockInv, Quiet
<1>2. CASE pc' = "assert" BY <1>1, <1>2, OnlyFlash
<1>3. CASE pc' = "item_scan"
  <2>1. Classified(PebCount) /\ \A p \in Pebs : Status(p) # PebVirgin
    BY LogsKeep DEF BlockInv, ScanInv
  <2>2. ScanInv'
    BY <1>3, <2>1, LogsKeep
       DEF ScanInv, Classified, Status, Blocks, Quiet, MarksNone, ReservesNone, KeepsBlocks
  <2> QED BY <1>1, <1>3, <2>2, OnlyScan
<1> QED BY <1>2, <1>3, LogsKeep

LEMMA AllocateStep ==
    ASSUME TypeOK, Located, BlockInv, Allocate
    PROVE  BlockInv'
<1>1. PICK p \in Pebs : Allocated(p) /\ (p \in Reserved => Cardinality(Reserved) > 1)
  BY Allocates
<1>2. Apart({}) /\ Reserved # {} /\ FlashInv
  BY DEF Allocate, Allocating, BlockInv, CallInv, SettledLabels
<1>3. pc' = "writing" BY DEF Allocate
<1>4. w'.peb = p /\ w'.fresh = (info[p].free = Capacity)
  BY <1>1, LocalFields DEF Allocated, Writes
<1>5. CASE info[p].free # Capacity
  <2>1. MarksNone BY <1>1, <1>5 DEF Allocated, flash, MarksNone
  <2>2. ReservesNone BY <1>1, <1>5, Shapes DEF Allocated, ReservesNone, Infos
  <2>3. FlashInv' BY <1>2, <2>1, QuietFlash
  <2>4. CallInv'
    BY <1>2, <1>3, <1>4, <1>5, <2>1, <2>2
       DEF CallInv, Apart, Reserved, Status, MarksNone, ReservesNone,
           SettledLabels, WritingLabels
  <2> QED BY <1>3, <2>3, <2>4, OnlyCall DEF WritingLabels
<1>6. CASE info[p].free = Capacity
  <2>1. Marks(p, PebActiving) BY <1>1, <1>6, MarkFacts DEF Allocated
  <2>2. Unreserves(p) BY <1>1, <1>6, Shapes DEF Allocated, Unreserves, Infos
  <2>3. Status(p) \in {PebEmpty, PebActived} BY <1>2 DEF Apart
  <2>4. FlashInv' BY <1>2, <2>1, <2>3, StatusFacts, FlashSpared
  <2>5. Reserved \ {p} # {}
    <3>1. CASE p \in Reserved BY <1>1, <3>1, ReserveOfTwo DEF Reserved
    <3>2. CASE p \notin Reserved BY <1>2, <3>2
    <3> QED BY <3>1, <3>2
  <2>6. Reserved' # {} BY <2>2, <2>5 DEF Reserved, Unreserves
  <2>7. CallInv'
    BY <1>2, <1>3, <1>4, <1>6, <2>1, <2>2, <2>6
       DEF CallInv, Apart, Status, Marks, Unreserves, SettledLabels, WritingLabels
  <2> QED BY <1>3, <2>4, <2>7, OnlyCall DEF WritingLabels
<1> QED BY <1>5, <1>6

LEMMA WritingStep ==
    ASSUME TypeOK, Located, BlockInv, WriteItem \/ MarkValid \/ PebActivedNow
    PROVE  BlockInv'
<1> DEFINE Fresh == IF w.fresh THEN {w.peb} ELSE {}
<1>1. FlashInv /\ Reserved # {} /\ Apart(Fresh) /\ w' = w /\ info' = info
  BY DEF WriteItem, MarkValid, PebActivedNow, BlockInv, CallInv, WritingLabels, ram
<1>2. w.fresh => w.peb \in Pebs /\ ~info[w.peb].reserved /\ Status(w.peb) = PebActiving
  BY DEF WriteItem, MarkValid, PebActivedNow, BlockInv, CallInv, WritingLabels
<1>3. CASE WriteItem \/ MarkValid
  <2>1. MarksNone BY <1>3 DEF WriteItem, MarkValid, Append1, Validate, MarksNone
  <2>2. \/ pc' \in WritingLabels /\ (pc' = "peb_actived" => w.fresh)
        \/ pc' \in SettledLabels /\ ~w.fresh
        \/ pc' = "assert"
    BY <1>3 DEF WriteItem, MarkValid, Check, ItemCommitted, SettledLabels, WritingLabels
  <2>3. FlashInv' BY <1>1, <2>1, QuietFlash
  <2>4. CASE pc' = "assert" BY <2>3, <2>4, OnlyFlash
  <2>5. CASE pc' # "assert"
    <3>1. CallInv'
      BY <1>1, <1>2, <2>1, <2>2, <2>5
         DEF CallInv, Apart, Reserved, Status, MarksNone, SettledLabels, WritingLabels
    <3> QED BY <2>2, <2>3, <2>5, <3>1, OnlyCall
  <2> QED BY <2>4, <2>5
<1>4. CASE PebActivedNow
  <2>1. w.fresh BY <1>4 DEF PebActivedNow, BlockInv, CallInv
  <2>2. Marks(w.peb, PebActived)
    BY <1>2, <1>4, <2>1, MarkFacts DEF PebActivedNow, PebStatus
  <2>3. pc' \in SettledLabels
    BY <1>4 DEF PebActivedNow, ItemCommitted, SettledLabels
  <2>4. \E q \in Pebs : q # w.peb /\ info[q].reserved /\ Status(q) = PebEmpty
    BY <1>1, <1>2, <2>1 DEF Reserved, Apart
  <2>5. FlashInv'
    BY <1>1, <1>2, <2>1, <2>2, <2>4, StatusFacts
       DEF FlashInv, Marks, Target, Spare, Status
  <2>6. CallInv'
    BY <1>1, <1>2, <2>1, <2>2, <2>3
       DEF CallInv, Apart, Reserved, Status, Marks, SettledLabels, WritingLabels
  <2> QED BY <2>3, <2>5, <2>6, OnlyCall
<1> QED BY <1>3, <1>4

LEMMA PowerStep ==
    ASSUME TypeOK, BlockInv, PowerOn \/ PowerLoss
    PROVE  BlockInv'
<1>1. MarksNone BY DEF PowerOn, PowerLoss, flash, MarksNone
<1>2. FlashInv' BY <1>1, QuietFlash DEF BlockInv
<1>3. CASE PowerLoss
  <2>1. pc' = "off" /\ scan' = NoScan /\ \A p \in Pebs : info'[p] = NoInfo
    BY <1>3 DEF PowerLoss
  <2>2. Blank' BY <2>1, PebFacts DEF Blank, NoScan, NoInfo
  <2>3. ScanInv' BY <2>1, <2>2 DEF ScanInv
  <2> QED BY <1>2, <2>1, <2>3, OnlyScan
<1>4. CASE PowerOn
  <2>1. Blank BY <1>4 DEF PowerOn, BlockInv, ScanInv
  <2>2. pc' = "peb_scan" /\ info' = info /\ scan' = scan
    BY <1>4 DEF PowerOn, ram
  <2>3. \A p \in Pebs : ~(p < 0) BY PebFacts
  <2>4. Blocks(scan.reclaiming) = {} BY <2>1 DEF Blank, Blocks
  <2>5. ScanInv'
    BY <1>1, <2>1, <2>2, <2>3, <2>4, PebFacts
       DEF ScanInv, Classified, Counted, Blank, MarksNone, Status, Blocks
  <2> QED BY <1>2, <2>2, <2>5, OnlyScan
<1> QED BY <1>3, <1>4

\* The number of blocks classified grows by one.
LEMMA BelowNext ==
    ASSUME TypeOK, scan.peb < PebCount
    PROVE  /\ scan.peb \in Pebs
           /\ \A p \in Pebs : p < scan.peb + 1 <=> p < scan.peb \/ p = scan.peb
           /\ \A p \in Pebs : p > scan.peb + 1 => p > scan.peb
           /\ \A p \in Pebs : p = scan.peb + 1 => p > scan.peb
           /\ \A p \in Pebs : ~(p < scan.peb /\ p = scan.peb) /\ ~(p > scan.peb /\ p = scan.peb)
<1>1. scan.peb \in Pebs /\ scan.peb \in Nat BY NextPebType, PebFacts
<1>2. \A p \in Pebs : p \in Nat BY PebFacts
<1> QED BY <1>1, <1>2

LEMMA AppendBlocks ==
    ASSUME NEW s \in Seq(Pebs), NEW x \in Pebs
    PROVE  Blocks(Append(s, x)) = Blocks(s) \cup {x}
<1>1. Append(s, x) \in Seq(Pebs) /\ Len(Append(s, x)) = Len(s) + 1 OBVIOUS
<1>2. \A i \in 1 .. Len(s) : Append(s, x)[i] = s[i] OBVIOUS
<1>3. Append(s, x)[Len(s) + 1] = x OBVIOUS
<1>4. DOMAIN s = 1 .. Len(s) /\ DOMAIN Append(s, x) = 1 .. (Len(s) + 1) OBVIOUS
<1>5. 1 .. (Len(s) + 1) = (1 .. Len(s)) \cup {Len(s) + 1} OBVIOUS
<1> QED BY <1>2, <1>3, <1>4, <1>5 DEF Blocks

\* The invariant of the first loop, entering and leaving a step.
Classifying(n) ==
    /\ Classified(n)
    /\ \A p \in Pebs : /\ p < n /\ info[p].count = NoCount => info[p].reserved
                       /\ p < n /\ Status(p) = PebVirgin => info[p].count = NoCount
                       /\ p > n => info[p].count = NoCount

LEMMA ScanningStep ==
    ASSUME TypeOK, BlockInv, pc = "peb_scan", scan.peb < PebCount
    PROVE  /\ Classifying(scan.peb) /\ FlashInv /\ scan.peb \in Pebs
           /\ ~info[scan.peb].reserved /\ info[scan.peb].count = NoCount
<1>1. scan.peb \in Pebs BY NextPebType
<1>2. Classified(scan.peb) /\ Counted
      /\ \A p \in Pebs : p < scan.peb /\ Status(p) = PebVirgin => info[p].count = NoCount
  BY DEF BlockInv, ScanInv
<1>3. ~(scan.peb < scan.peb) BY LocalFields
<1>4. ~info[scan.peb].reserved BY <1>1, <1>2, <1>3 DEF Classified
<1>5. info[scan.peb].count = NoCount BY <1>1, <1>2 DEF Counted
<1> QED BY <1>1, <1>2, <1>4, <1>5 DEF Classifying, Counted, BlockInv

\* Block x has been classified.
Others(x) ==
    \A p \in Pebs \ {x} : /\ hdr'[p].status = hdr[p].status
                          /\ info'[p].reserved <=> info[p].reserved
                          /\ info'[p].count = info[p].count
Noted(x, s) ==
    /\ IF s = PebTransfering THEN scan.transfering = NoPeb /\ scan'.transfering = x
                             ELSE scan'.transfering = scan.transfering
    /\ IF s = PebTransfered THEN scan.transfered = NoPeb /\ scan'.transfered = x
                            ELSE scan'.transfered = scan.transfered
    /\ scan'.reclaiming = IF s = PebReclaiming THEN Append(scan.reclaiming, x)
                          ELSE scan.reclaiming
ScannedOne(x, s) ==
    /\ hdr'[x].status = s /\ s \in PebStatus \ {PebActiving, PebErasing}
    /\ info'[x].reserved <=> s \in {PebVirgin, PebEmpty}
    /\ info'[x].count = NoCount => info'[x].reserved
    /\ s = PebVirgin => info'[x].count = NoCount
    /\ scan'.peb = x + 1 /\ pc' = "peb_scan"

LEMMA ScannedOneStep ==
    ASSUME TypeOK, FlashInv', NEW x, x = scan.peb, x < PebCount, Classifying(x),
           NEW s, Others(x), Noted(x, s), ScannedOne(x, s)
    PROVE  BlockInv'
<1>1. x \in Pebs /\ Classifying(x) BY NextPebType
<1>2. \A p \in Pebs : /\ p < x + 1 <=> p < x \/ p = x
                      /\ p > x + 1 => p > x
                      /\ p = x + 1 => p > x
                      /\ p < x => p # x
                      /\ p > x => p # x
  BY BelowNext
<1>3. scan'.peb = x + 1 /\ pc' = "peb_scan" BY DEF ScannedOne
<1>4. \A p \in Pebs : (p \in Blocks(scan.reclaiming))' <=>
         p \in Blocks(scan.reclaiming) \/ (p = x /\ s = PebReclaiming)
  <2>1. scan.reclaiming \in Seq(Pebs) BY LocalFields
  <2>2. CASE s = PebReclaiming
    <3>1. scan'.reclaiming = Append(scan.reclaiming, x) BY <2>2 DEF Noted
    <3>2. Blocks(scan'.reclaiming) = Blocks(scan.reclaiming) \cup {x}
      BY <1>1, <2>1, <3>1, AppendBlocks
    <3> QED BY <2>2, <3>2 DEF Blocks
  <2>3. CASE s # PebReclaiming
    BY <2>3 DEF Noted, Blocks
  <2> QED BY <2>2, <2>3
<1>5. Classified(x + 1)'
  <2>1. \A p \in Pebs : (info[p].reserved <=> p < x + 1 /\ Status(p) \in {PebVirgin, PebEmpty})'
    BY <1>1, <1>2 DEF Classifying, Classified, Others, ScannedOne, Status
  <2>2. \A p \in Pebs : (p < x + 1 => Status(p) \notin {PebActiving, PebErasing})'
    BY <1>1, <1>2 DEF Classifying, Classified, Others, ScannedOne, Status
  <2>3. \A p \in Pebs : (p = scan.transfering <=> p < x + 1 /\ Status(p) = PebTransfering)'
    BY <1>1, <1>2, PebFacts DEF Classifying, Classified, Others, ScannedOne, Noted, Status
  <2>4. \A p \in Pebs : (p = scan.transfered <=> p < x + 1 /\ Status(p) = PebTransfered)'
    BY <1>1, <1>2, PebFacts DEF Classifying, Classified, Others, ScannedOne, Noted, Status
  <2>5. \A p \in Pebs : (p \in Blocks(scan.reclaiming) <=> p < x + 1 /\ Status(p) = PebReclaiming)'
    BY <1>1, <1>2, <1>4 DEF Classifying, Classified, Others, ScannedOne, Status
  <2> QED BY <2>1, <2>2, <2>3, <2>4, <2>5 DEF Classified, Blocks, Status
<1>6. Counted'
  BY <1>1, <1>2, <1>3 DEF Counted, Classifying, Others, ScannedOne
<1>7. \A p \in Pebs : (p < scan.peb /\ Status(p) = PebVirgin => info[p].count = NoCount)'
  BY <1>1, <1>2, <1>3 DEF Classifying, Others, ScannedOne, Status
<1>8. ScanInv'
  BY <1>3, <1>5, <1>6, <1>7 DEF ScanInv, Status
<1> QED BY <1>3, <1>8, OnlyScan

LEMMA KnownStep ==
    ASSUME TypeOK, BlockInv,
           ScanTransfering \/ ScanTransfered \/ ScanReclaiming \/ ScanActived
    PROVE  BlockInv'
<1> DEFINE x == scan.peb
<1>1. /\ pc = "peb_scan" /\ x < PebCount /\ x \in Pebs
      /\ ~info[x].reserved /\ Classifying(x)
  <2>1. pc = "peb_scan" /\ x < PebCount
    BY DEF ScanTransfering, ScanTransfered, ScanReclaiming, ScanActived, Scanning
  <2> QED BY <2>1, ScanningStep
<1>2. CASE ScanTransfering
  <2>1. /\ hdr' = hdr
        /\ info' = [info EXCEPT ![x].count = hdr[x].count]
        /\ hdr[x].status = PebTransfering
    BY <1>2 DEF ScanTransfering, ScanKnown, Scanning, flash
  <2>2. MarksNone BY <2>1 DEF MarksNone
  <2>3. FlashInv' BY <2>2, QuietFlash DEF BlockInv
  <2>4. CASE pc' = "assert" BY <2>3, <2>4, OnlyFlash
  <2>5. CASE pc' # "assert"
    <3>1. pc' = "peb_scan" /\ hdr[x].count # NoCount /\ scan.transfering = NoPeb
      BY <1>2, <2>5 DEF ScanTransfering, ScanKnown, Check, Writable
    <3>2. /\ scan'.peb = x + 1
          /\ scan'.transfering = x
          /\ scan'.transfered = scan.transfered
          /\ scan'.reclaiming = scan.reclaiming
      BY <1>2, LocalFields DEF ScanTransfering, ScanStep, Scans, KeepsBlocks
    <3>3. Others(x) BY <1>1, <2>1, Shapes DEF Others, Infos
    <3>4. info'[x].reserved = info[x].reserved /\ info'[x].count = hdr[x].count
      BY <1>1, <2>1, Shapes DEF Infos
    <3>5. Noted(x, PebTransfering) BY <3>1, <3>2, StatusFacts DEF Noted, KeepsBlocks
    <3>6. ScannedOne(x, PebTransfering)
      BY <1>1, <2>1, <3>1, <3>2, <3>4, StatusFacts DEF ScannedOne, PebStatus
    <3> QED BY <1>1, <2>3, <3>3, <3>5, <3>6, ScannedOneStep
  <2> QED BY <2>4, <2>5
<1>3. CASE ScanTransfered
  <2>1. /\ hdr' = hdr
        /\ info' = [info EXCEPT ![x].count = hdr[x].count]
        /\ hdr[x].status = PebTransfered
    BY <1>3 DEF ScanTransfered, ScanKnown, Scanning, flash
  <2>2. MarksNone BY <2>1 DEF MarksNone
  <2>3. FlashInv' BY <2>2, QuietFlash DEF BlockInv
  <2>4. CASE pc' = "assert" BY <2>3, <2>4, OnlyFlash
  <2>5. CASE pc' # "assert"
    <3>1. pc' = "peb_scan" /\ hdr[x].count # NoCount /\ scan.transfered = NoPeb
      BY <1>3, <2>5 DEF ScanTransfered, ScanKnown, Check, Writable
    <3>2. /\ scan'.peb = x + 1
          /\ scan'.transfered = x
          /\ scan'.transfering = scan.transfering
          /\ scan'.reclaiming = scan.reclaiming
      BY <1>3, LocalFields DEF ScanTransfered, ScanStep, Scans, KeepsBlocks
    <3>3. Others(x) BY <1>1, <2>1, Shapes DEF Others, Infos
    <3>4. info'[x].reserved = info[x].reserved /\ info'[x].count = hdr[x].count
      BY <1>1, <2>1, Shapes DEF Infos
    <3>5. Noted(x, PebTransfered) BY <3>1, <3>2, StatusFacts DEF Noted, KeepsBlocks
    <3>6. ScannedOne(x, PebTransfered)
      BY <1>1, <2>1, <3>1, <3>2, <3>4, StatusFacts DEF ScannedOne, PebStatus
    <3> QED BY <1>1, <2>3, <3>3, <3>5, <3>6, ScannedOneStep
  <2> QED BY <2>4, <2>5
<1>4. CASE ScanReclaiming
  <2>1. /\ hdr' = hdr
        /\ info' = [info EXCEPT ![x].count = hdr[x].count]
        /\ hdr[x].status = PebReclaiming
    BY <1>4 DEF ScanReclaiming, ScanKnown, Scanning, flash
  <2>2. MarksNone BY <2>1 DEF MarksNone
  <2>3. FlashInv' BY <2>2, QuietFlash DEF BlockInv
  <2>4. CASE pc' = "assert" BY <2>3, <2>4, OnlyFlash
  <2>5. CASE pc' # "assert"
    <3>1. pc' = "peb_scan" /\ hdr[x].count # NoCount /\ TRUE
      BY <1>4, <2>5 DEF ScanReclaiming, ScanKnown, Check, Writable
    <3>2. /\ scan'.peb = x + 1
          /\ scan'.reclaiming = Append(scan.reclaiming, x)
          /\ scan'.transfering = scan.transfering
          /\ scan'.transfered = scan.transfered
      BY <1>4, LocalFields DEF ScanReclaiming, ScanStep, Scans, KeepsBlocks
    <3>3. Others(x) BY <1>1, <2>1, Shapes DEF Others, Infos
    <3>4. info'[x].reserved = info[x].reserved /\ info'[x].count = hdr[x].count
      BY <1>1, <2>1, Shapes DEF Infos
    <3>5. Noted(x, PebReclaiming) BY <3>1, <3>2, StatusFacts DEF Noted, KeepsBlocks
    <3>6. ScannedOne(x, PebReclaiming)
      BY <1>1, <2>1, <3>1, <3>2, <3>4, StatusFacts DEF ScannedOne, PebStatus
    <3> QED BY <1>1, <2>3, <3>3, <3>5, <3>6, ScannedOneStep
  <2> QED BY <2>4, <2>5
<1>5. CASE ScanActived
  <2>1. /\ hdr' = hdr
        /\ info' = [info EXCEPT ![x].count = hdr[x].count]
        /\ hdr[x].status = PebActived
    BY <1>5 DEF ScanActived, ScanKnown, Scanning, flash
  <2>2. MarksNone BY <2>1 DEF MarksNone
  <2>3. FlashInv' BY <2>2, QuietFlash DEF BlockInv
  <2>4. CASE pc' = "assert" BY <2>3, <2>4, OnlyFlash
  <2>5. CASE pc' # "assert"
    <3>1. pc' = "peb_scan" /\ hdr[x].count # NoCount /\ TRUE
      BY <1>5, <2>5 DEF ScanActived, ScanKnown, Check, Writable
    <3>2. scan'.peb = x + 1 /\ KeepsBlocks
      BY <1>5, LocalFields DEF ScanActived, ScanStep, Scans, KeepsBlocks
    <3>3. Others(x) BY <1>1, <2>1, Shapes DEF Others, Infos
    <3>4. info'[x].reserved = info[x].reserved /\ info'[x].count = hdr[x].count
      BY <1>1, <2>1, Shapes DEF Infos
    <3>5. Noted(x, PebActived) BY <3>1, <3>2, StatusFacts DEF Noted, KeepsBlocks
    <3>6. ScannedOne(x, PebActived)
      BY <1>1, <2>1, <3>1, <3>2, <3>4, StatusFacts DEF ScannedOne, PebStatus
    <3> QED BY <1>1, <2>3, <3>3, <3>5, <3>6, ScannedOneStep
  <2> QED BY <2>4, <2>5
<1> QED BY <1>2, <1>3, <1>4, <1>5

LEMMA SpareStep ==
    ASSUME TypeOK, BlockInv, Located,
           ScanActiving \/ ScanActivingEmpty \/ ScanEmpty \/ ScanUnknown
    PROVE  BlockInv'
<1> DEFINE x == scan.peb
<1>1. CASE ScanActiving
  <2>1. pc = "peb_scan" /\ x < PebCount /\ hdr[x].status = PebActiving /\ pc' = "peb_empty"
    BY <1>1 DEF ScanActiving, Scanning
  <2>2. Classifying(x) /\ FlashInv /\ x \in Pebs /\ ~info[x].reserved
    BY <2>1, ScanningStep
  <2>3. Marks(x, PebVirgin) /\ scan' = scan
    BY <1>1, <2>2, MarkFacts DEF ScanActiving
  <2>4. FlashInv' BY <2>1, <2>2, <2>3, FlashSpared, StatusFacts DEF Status
  <2>5. \A p \in Pebs : /\ info'[p].reserved = info[p].reserved
                        /\ p # x => info'[p].count = info[p].count
    BY <1>1, <2>2, Shapes DEF ScanActiving, Infos
  <2>6. \A p \in Pebs : (p < x => p # x) /\ (p > x => p # x) BY <2>1, BelowNext
  <2>7. Classified(x)' /\ Counted'
    BY <2>1, <2>2, <2>3, <2>5, <2>6
       DEF Classifying, Classified, Counted, Marks, Status, Blocks
  <2>8. \A p \in Pebs : (p < x /\ Status(p) = PebVirgin => info[p].count = NoCount)'
    BY <2>2, <2>3, <2>5, <2>6 DEF Classifying, Marks, Status
  <2>9. ScanInv' BY <2>1, <2>2, <2>3, <2>7, <2>8 DEF ScanInv, Marks, Status
  <2> QED BY <2>1, <2>4, <2>9, OnlyScan
<1>2. CASE ScanActivingEmpty
  <2>1. pc = "peb_empty" /\ x \in Pebs /\ x < PebCount /\ hdr[x].status = PebVirgin
    BY <1>2, PebFacts DEF ScanActivingEmpty, BlockInv, ScanInv, Status
  <2>2. Classifying(x) /\ FlashInv
    BY <2>1 DEF BlockInv, ScanInv, Counted, Classifying
  <2>3. Marks(x, PebEmpty)
    BY <1>2, <2>1, MarkFacts DEF ScanActivingEmpty, PebStatus
  <2>4. FlashInv' BY <2>1, <2>2, <2>3, FlashSpared, StatusFacts DEF Status
  <2>5. Others(x) /\ info'[x].reserved
    BY <1>2, <2>1, <2>3, Shapes DEF ScanActivingEmpty, Others, Marks, Infos
  <2>6. KeepsBlocks /\ scan'.peb = x + 1 /\ pc' = "peb_scan"
    BY <1>2, LocalFields DEF ScanActivingEmpty, ScanStep, Scans, KeepsBlocks
  <2>7. Noted(x, PebEmpty) BY <2>6, StatusFacts DEF Noted, KeepsBlocks
  <2>8. ScannedOne(x, PebEmpty)
    BY <2>1, <2>3, <2>5, <2>6, StatusFacts DEF ScannedOne, Marks, PebStatus
  <2> QED BY <2>1, <2>2, <2>4, <2>5, <2>7, <2>8, ScannedOneStep
<1>3. CASE ScanEmpty
  <2>1. pc = "peb_scan" /\ x < PebCount /\ hdr[x].status = PebEmpty /\ hdr' = hdr
    BY <1>3 DEF ScanEmpty, Scanning, flash
  <2>2. Classifying(x) /\ FlashInv /\ x \in Pebs BY <2>1, ScanningStep
  <2>3. MarksNone BY <2>1 DEF MarksNone
  <2>4. FlashInv' BY <2>2, <2>3, QuietFlash
  <2>5. CASE pc' = "assert" BY <2>4, <2>5, OnlyFlash
  <2>6. CASE pc' # "assert"
    <3>1. Others(x) /\ info'[x].reserved
      BY <1>3, <2>1, <2>2, Shapes DEF ScanEmpty, Others, Infos
    <3>2. KeepsBlocks /\ scan'.peb = x + 1
      BY <1>3, LocalFields DEF ScanEmpty, ScanStep, Scans, KeepsBlocks
    <3>3. pc' = "peb_scan" BY <1>3, <2>6 DEF ScanEmpty, Check
    <3>4. Noted(x, PebEmpty) BY <3>2, StatusFacts DEF Noted, KeepsBlocks
    <3>5. ScannedOne(x, PebEmpty)
      BY <2>1, <3>1, <3>2, <3>3, StatusFacts DEF ScannedOne, PebStatus
    <3> QED BY <2>1, <2>2, <2>4, <3>1, <3>4, <3>5, ScannedOneStep
  <2> QED BY <2>5, <2>6
<1>4. CASE ScanUnknown
  <2>1. /\ pc = "peb_scan" /\ pc' = "peb_scan" /\ x < PebCount
        /\ hdr[x].status \in {PebVirgin, PebErasing}
    BY <1>4 DEF ScanUnknown, Scanning
  <2>2. Classifying(x) /\ FlashInv /\ x \in Pebs /\ info[x].count = NoCount
    BY <2>1, ScanningStep
  <2>3. Marks(x, PebVirgin) BY <1>4, <2>2, MarkFacts DEF ScanUnknown
  <2>4. FlashInv' BY <2>1, <2>2, <2>3, FlashSpared, StatusFacts DEF Status
  <2>5. Others(x) /\ info'[x].reserved /\ info'[x].count = NoCount
    BY <1>4, <2>2, <2>3, Shapes DEF ScanUnknown, Others, Marks, Infos
  <2>6. KeepsBlocks /\ scan'.peb = x + 1
    BY <1>4, LocalFields DEF ScanUnknown, ScanStep, Scans, KeepsBlocks
  <2>7. Noted(x, PebVirgin) BY <2>6, StatusFacts DEF Noted, KeepsBlocks
  <2>8. ScannedOne(x, PebVirgin)
    BY <2>1, <2>2, <2>3, <2>5, <2>6, StatusFacts DEF ScannedOne, Marks, PebStatus
  <2> QED BY <2>1, <2>2, <2>4, <2>5, <2>7, <2>8, ScannedOneStep
<1> QED BY <1>1, <1>2, <1>3, <1>4

LEMMA CountsStep ==
    ASSUME TypeOK, BlockInv, ScanMean \/ FormatUnknown \/ AllFormatted
    PROVE  BlockInv'
<1>1. CASE ScanMean
  <2>1. pc = "peb_scan" /\ scan.peb = PebCount /\ pc' = "peb_count"
        /\ hdr' = hdr /\ info' = info
    BY <1>1 DEF ScanMean, flash, ram
  <2>2. KeepsBlocks BY <1>1, LocalFields DEF ScanMean, Scans, KeepsBlocks
  <2>3. MarksNone BY <2>1 DEF MarksNone
  <2>4. FlashInv' BY <2>3, QuietFlash DEF BlockInv
  <2>5. \A p \in Pebs : p < PebCount BY PebFacts
  <2>6. Classified(PebCount) /\ Counted
        /\ \A p \in Pebs : Status(p) = PebVirgin => info[p].count = NoCount
    BY <2>1, <2>5 DEF BlockInv, ScanInv
  <2>7. Classified(PebCount)'
    BY <2>1, <2>2, <2>6 DEF Classified, KeepsBlocks, Status, Blocks
  <2>8. \A p \in Pebs : (/\ info[p].count = NoCount => info[p].reserved
                         /\ Status(p) = PebVirgin => info[p].count = NoCount)'
    BY <2>1, <2>5, <2>6 DEF Counted, Status
  <2>9. ScanInv' BY <2>1, <2>7, <2>8 DEF ScanInv
  <2> QED BY <2>1, <2>4, <2>9, OnlyScan
<1>2. CASE FormatUnknown
  <2> DEFINE p0 == Lowest(Unknown)
  <2>1. p0 \in Unknown /\ p0 \in Pebs
    BY <1>2, LowestMember, PebFacts DEF FormatUnknown, Unknown
  <2>2. PICK p \in Unknown : p = p0 BY <2>1
  <2>3. p \in Pebs /\ info[p].count = NoCount BY <2>2 DEF Unknown
  <2>4. /\ pc = "peb_count" /\ pc' = "peb_count" /\ scan' = scan
        /\ hdr' = [hdr EXCEPT ![p].count = scan.mean, ![p].status = PebEmpty]
        /\ info' = [info EXCEPT ![p].count = scan.mean]
    BY <1>2, <2>2 DEF FormatUnknown
  <2>5. Marks(p, PebEmpty) BY <2>3, <2>4, Shapes DEF Marks, Headers
  <2>6. /\ \A q \in Pebs : info'[q].reserved = info[q].reserved
        /\ \A q \in Pebs \ {p} : info'[q].count = info[q].count
        /\ info'[p].count = scan.mean
    BY <2>3, <2>4, Shapes DEF Infos
  <2>7. scan.mean # NoCount
    <3>1. scan.mean \in 0 .. EraseCap BY LocalFields DEF EraseCounts
    <3> QED BY <3>1, CountTypes DEF NoCount
  <2>8. /\ Classified(PebCount) /\ FlashInv
        /\ \A q \in Pebs : /\ info[q].count = NoCount => info[q].reserved
                           /\ Status(q) = PebVirgin => info[q].count = NoCount
    BY <2>4 DEF BlockInv, ScanInv
  <2>9. Status(p) \in {PebVirgin, PebEmpty} /\ info[p].reserved
    BY <2>3, <2>8 DEF Classified
  <2>10. FlashInv' BY <2>3, <2>5, <2>8, <2>9, FlashSpared, StatusFacts
  <2>11. Classified(PebCount)'
    <3>1. /\ \A q \in Pebs : q # p => hdr'[q].status = hdr[q].status
          /\ hdr'[p].status = PebEmpty /\ hdr[p].status \in {PebVirgin, PebEmpty}
      BY <2>3, <2>5, <2>9 DEF Marks, Status
    <3>2. p < PebCount BY <2>3, PebFacts
    <3>3. \A q \in Pebs : q = p =>
             /\ (info'[q].reserved <=> q < PebCount /\ hdr'[q].status \in {PebVirgin, PebEmpty})
             /\ q # scan.transfering /\ q # scan.transfered /\ q \notin Blocks(scan.reclaiming)
      BY <2>3, <2>6, <2>8, <2>9, <3>1, <3>2, StatusFacts DEF Classified, Status
    <3>4. \A q \in Pebs : q # p =>
             (info'[q].reserved <=> q < PebCount /\ hdr'[q].status \in {PebVirgin, PebEmpty})
      BY <2>6, <2>8, <3>1 DEF Classified, Status
    <3>5. \A q \in Pebs : hdr'[q].status \notin {PebActiving, PebErasing}
      BY <2>8, <3>1, <3>2, StatusFacts, PebFacts DEF Classified, Status
    <3>6. \A q \in Pebs :
             /\ q = scan.transfering <=> q < PebCount /\ hdr'[q].status = PebTransfering
             /\ q = scan.transfered <=> q < PebCount /\ hdr'[q].status = PebTransfered
      BY <2>8, <3>1, <3>3, StatusFacts DEF Classified, Status
    <3>7. \A q \in Pebs :
             q \in Blocks(scan.reclaiming) <=> q < PebCount /\ hdr'[q].status = PebReclaiming
      BY <2>8, <3>1, <3>3, StatusFacts DEF Classified, Status
    <3> QED
      BY <2>4, <3>3, <3>4, <3>5, <3>6, <3>7 DEF Classified, Status
  <2>12. \A q \in Pebs : (/\ info[q].count = NoCount => info[q].reserved
                          /\ Status(q) = PebVirgin => info[q].count = NoCount)'
    BY <2>3, <2>5, <2>6, <2>7, <2>8, StatusFacts DEF Marks, Status
  <2>13. ScanInv' BY <2>4, <2>11, <2>12 DEF ScanInv
  <2> QED BY <2>4, <2>10, <2>13, OnlyScan
<1>3. CASE AllFormatted
  <2>1. /\ pc = "peb_count" /\ pc' = "item_scan" /\ hdr' = hdr /\ info' = info
        /\ scan' = scan
    BY <1>3 DEF AllFormatted, flash, ram
  <2>2. MarksNone BY <2>1 DEF MarksNone
  <2>3. FlashInv' BY <2>2, QuietFlash DEF BlockInv
  <2>4. \A p \in Pebs : info[p].count # NoCount BY <1>3 DEF AllFormatted, Unknown
  <2>5. Classified(PebCount) /\ \A p \in Pebs : Status(p) # PebVirgin
    BY <2>1, <2>4 DEF BlockInv, ScanInv
  <2>6. Classified(PebCount)' /\ \A p \in Pebs : (Status(p) # PebVirgin)'
    BY <2>1, <2>5 DEF Classified, Status, Blocks
  <2>7. ScanInv' BY <2>1, <2>6 DEF ScanInv
  <2> QED BY <2>1, <2>3, <2>7, OnlyScan
<1> QED BY <1>1, <1>2, <1>3

LEMMA ClassifyStep ==
    ASSUME TypeOK, Located, BlockInv, Classify
    PROVE  BlockInv'
BY KnownStep, SpareStep, CountsStep DEF Classify

\* Before a recovery is chosen every block is classified.
LEMMA AllClassified ==
    ASSUME TypeOK, Located, BlockInv, ItemScanDone
    PROVE  /\ FlashInv
           /\ \A p \in Pebs :
                 /\ Status(p) \in {PebEmpty, PebTransfering, PebTransfered, PebActived,
                                   PebReclaiming}
                 /\ info[p].reserved <=> Status(p) = PebEmpty
                 /\ p = scan.transfering <=> Status(p) = PebTransfering
                 /\ p = scan.transfered <=> Status(p) = PebTransfered
                 /\ p \in Blocks(scan.reclaiming) <=> Status(p) = PebReclaiming
<1>1. /\ FlashInv /\ Classified(PebCount)
      /\ \A p \in Pebs : Status(p) # PebVirgin
  BY DEF BlockInv, ScanInv, ItemScanDone
<1>2. \A p \in Pebs : p < PebCount /\ Status(p) \in PebStatus
  BY PebFacts, Fields DEF Status
<1> QED BY <1>1, <1>2 DEF Classified, PebStatus

LEMMA SomeBlocks ==
    ASSUME NEW s \in Seq(Pebs)
    PROVE  /\ s # <<>> => Blocks(s) # {}
           /\ s = <<>> => Blocks(s) = {}
           /\ Blocks(s) \subseteq Pebs
           /\ s # <<>> => 1 \in DOMAIN s
<1>1. s # <<>> => 1 \in DOMAIN s OBVIOUS
<1> QED BY <1>1 DEF Blocks

LEMMA RecoverStep ==
    ASSUME TypeOK, Located, BlockInv, RecoverTransfering \/ RecoverTransfered \/ RecoverNothing
    PROVE  BlockInv'
<1> DEFINE old == Blocks(scan.reclaiming)
           t == scan.transfering
           d == scan.transfered
<1>1. ItemScanDone /\ hdr' = hdr /\ info' = info /\ scan' = scan
  BY DEF RecoverTransfering, RecoverTransfered, RecoverNothing, Recovery, flash, ram
<1>2. FlashInv BY DEF BlockInv
<1>3. FlashInv' BY <1>1, <1>2, QuietFlash DEF MarksNone
<1>4. t \in Pebs \cup {NoPeb} /\ d \in Pebs \cup {NoPeb} /\ scan.reclaiming \in Seq(Pebs)
  BY LocalFields
<1>5. old \subseteq Pebs /\ (scan.reclaiming # <<>> => old # {})
      /\ (scan.reclaiming = <<>> => old = {})
  BY <1>4, SomeBlocks
<1>6. CASE RecoverTransfering /\ t # NoPeb
  <2>1. /\ gc' = [NoGc EXCEPT !.src = <<t>>, !.dst = NoPeb, !.then = "relocate"]
        /\ pc' = "reclaim" /\ d = NoPeb /\ old # {}
    BY <1>5, <1>6 DEF RecoverTransfering, Recovery
  <2>2. gc'.src = <<t>> /\ gc'.cur = 1 /\ gc'.then = "relocate"
    BY <2>1 DEF NoGc
  <2>3. t \in Pebs BY <1>4, <1>6
  <2>4. Sources' = {t} BY <2>2 DEF Sources, Blocks
  <2>5. Opened' = {} BY <2>1 DEF Opened
  <2>6. \A i \in DOMAIN gc'.src : ~(i < gc'.cur) BY <2>2
  <2>7. \A p \in Pebs \ ({t} \cup old) :
           Status(p) = IF info[p].reserved THEN PebEmpty ELSE PebActived
    BY <1>1, <2>1, AllClassified, PebFacts DEF Status
  <2>8. \A p \in old : Status(p) = PebReclaiming /\ ~info[p].reserved /\ p # t
    BY <1>1, <1>5, AllClassified, StatusFacts
  <2>9. Status(t) = PebTransfering /\ ~info[t].reserved
    BY <1>1, <2>3, AllClassified, StatusFacts
  <2>10. Blocks(scan.reclaiming)' = old BY <1>1
  <2>11. ReclaimInv'
    BY <1>1, <2>1, <2>2, <2>4, <2>5, <2>6, <2>7, <2>8, <2>9, <2>10
       DEF ReclaimInv, Apart, AllReclaiming, NotReserved, Status
  <2> QED BY <1>3, <2>1, <2>11, OnlyReclaim DEF ReclaimLabels
<1>7. CASE RecoverTransfering /\ t = NoPeb
  <2>1. /\ gc' = [NoGc EXCEPT !.src = scan.reclaiming, !.dst = NoPeb, !.then = "init"]
        /\ pc' = "relocate" /\ d = NoPeb /\ old # {}
    BY <1>5, <1>7 DEF RecoverTransfering, Recovery
  <2>2. gc'.src = scan.reclaiming /\ gc'.cur = 1 /\ gc'.then = "init"
    BY <2>1 DEF NoGc
  <2>3. Sources' = old BY <2>2 DEF Sources
  <2>4. \A p \in Pebs : Status(p) \in {PebEmpty, PebActived, PebReclaiming}
    BY <1>1, <1>7, <2>1, AllClassified, PebFacts
  <2>5. Reserved # {}
    BY <1>1, <1>2, <2>4, AllClassified, StatusFacts DEF FlashInv, Spare, Reserved
  <2>6. \A p \in Pebs \ old : Status(p) = IF info[p].reserved THEN PebEmpty ELSE PebActived
    BY <1>1, <2>4, AllClassified
  <2>7. \A p \in old : Status(p) = PebReclaiming /\ ~info[p].reserved
    BY <1>1, <1>5, AllClassified, StatusFacts
  <2>8. MarkInv'
    BY <1>1, <2>1, <2>2, <2>3, <2>5, <2>6, <2>7
       DEF MarkInv, Apart, NotReserved, Reserved, Status
  <2> QED BY <1>3, <2>1, <2>8, OnlyMark
<1>8. CASE RecoverTransfered
  <2>1. /\ gc' = [NoGc EXCEPT !.src = scan.reclaiming, !.dst = d, !.then = "actived"]
        /\ pc' = "reclaim" /\ d # NoPeb
    BY <1>8 DEF RecoverTransfered, Recovery
  <2>2. gc'.src = scan.reclaiming /\ gc'.cur = 1 /\ gc'.then = "actived" /\ gc'.dst = d
    BY <2>1 DEF NoGc
  <2>3. d \in Pebs /\ Status(d) = PebTransfered /\ ~info[d].reserved /\ d \notin old
    BY <1>1, <1>4, <2>1, AllClassified, StatusFacts
  <2>4. Sources' = old /\ Opened' = {} BY <2>1, <2>2 DEF Sources, Opened
  <2>5. \A i \in DOMAIN gc'.src : ~(i < gc'.cur) BY <1>4, <2>2
  <2>6. \A p \in Pebs : Status(p) # PebTransfering
    BY <1>2, <2>3, StatusFacts DEF FlashInv, Target
  <2>7. \A p \in Pebs \ (old \cup {d}) :
           Status(p) = IF info[p].reserved THEN PebEmpty ELSE PebActived
    BY <1>1, <2>6, AllClassified
  <2>8. \A p \in old : Status(p) = PebReclaiming /\ ~info[p].reserved
    BY <1>1, <1>5, AllClassified, StatusFacts
  <2>9. ReclaimInv'
    BY <1>1, <2>1, <2>2, <2>3, <2>4, <2>5, <2>7, <2>8
       DEF ReclaimInv, Apart, AllReclaiming, Status
  <2> QED BY <1>3, <2>1, <2>9, OnlyReclaim DEF ReclaimLabels
<1>9. CASE RecoverNothing
  <2>1. d = NoPeb /\ old = {} /\ (pc' = "assert" \/ (pc' = "init" /\ t = NoPeb))
    BY <1>5, <1>9 DEF RecoverNothing, Recovery, Check
  <2>2. CASE pc' = "assert" BY <1>3, <2>2, OnlyFlash
  <2>3. CASE pc' = "init"
    <3>1. \A p \in Pebs : Status(p) \in {PebEmpty, PebActived}
      BY <1>1, <2>1, <2>3, AllClassified, PebFacts
    <3>2. Reserved # {}
      BY <1>1, <1>2, <3>1, AllClassified, StatusFacts DEF FlashInv, Spare, Reserved
    <3>3. CallInv'
      BY <1>1, <2>3, <3>1, <3>2, AllClassified
         DEF CallInv, Apart, Reserved, Status, SettledLabels, WritingLabels
    <3> QED BY <1>3, <2>3, <3>3, OnlyCall DEF SettledLabels
  <2> QED BY <2>1, <2>2, <2>3
<1> QED BY <1>6, <1>7, <1>8, <1>9

\* The blocks a collection picks are in use.
LEMMA Victims ==
    ASSUME TypeOK, GarbageCollect
    PROVE  \E s \in Seq(Pebs) : /\ gc' = [NoGc EXCEPT !.src = s]
                                /\ s # <<>> /\ Blocks(s) \subseteq Pebs \ Reserved
<1>1. Candidates \subseteq Pebs \ Reserved BY DEF Candidates
<1>2. PICK n \in 1 .. MaxMerge : \E s \in [1 .. n -> Candidates] :
         VictimList(s, Candidates) /\ gc' = [NoGc EXCEPT !.src = s]
  BY DEF GarbageCollect
<1>3. PICK s \in [1 .. n -> Candidates] :
         VictimList(s, Candidates) /\ gc' = [NoGc EXCEPT !.src = s]
  BY <1>2
<1>4. n \in Nat /\ n >= 1 BY <1>2 DEF MaxMerge
<1>5. s \in Seq(Pebs) /\ Len(s) = n BY <1>1, <1>3, <1>4
<1>6. Blocks(s) \subseteq Candidates BY <1>3 DEF VictimList
<1> QED BY <1>1, <1>3, <1>4, <1>5, <1>6

LEMMA SourcesType ==
    ASSUME TypeOK
    PROVE  Sources \subseteq Pebs /\ \A i \in DOMAIN gc.src : gc.src[i] \in Sources
BY LocalFields DEF Sources, Blocks

\* Marking the sources.
LEMMA MarkStep ==
    ASSUME TypeOK, Located, BlockInv,
           GarbageCollect \/ RelocateEmpty \/ RelocateValid \/ MarkReclaiming \/ PickTarget
    PROVE  BlockInv'
<1>1. FlashInv BY DEF BlockInv
<1>2. CASE GarbageCollect
  <2>1. pc = "alloc" /\ pc' = "relocate" /\ hdr' = hdr /\ info' = info
    BY <1>2 DEF GarbageCollect, flash, ram
  <2>2. PICK s \in Seq(Pebs) : /\ gc' = [NoGc EXCEPT !.src = s]
                               /\ s # <<>> /\ Blocks(s) \subseteq Pebs \ Reserved
    BY <1>2, Victims
  <2>3. gc'.src = s /\ gc'.cur = 1 /\ gc'.then = "alloc" BY <2>2 DEF NoGc
  <2>4. Sources' = Blocks(s) /\ Blocks(s) # {} BY <2>2, <2>3, SomeBlocks DEF Sources
  <2>5. Apart({}) /\ Reserved # {} BY <2>1 DEF BlockInv, CallInv, SettledLabels
  <2>6. FlashInv' BY <1>1, <2>1, QuietFlash DEF MarksNone
  <2>7. MarkInv'
    BY <2>1, <2>2, <2>3, <2>4, <2>5
       DEF MarkInv, Apart, NotReserved, Reserved, Status
  <2> QED BY <2>1, <2>6, <2>7, OnlyMark
<1>3. CASE RelocateEmpty \/ RelocateValid
  <2>1. /\ pc = "relocate" /\ hdr' = hdr /\ info' = info /\ gc' = gc
        /\ pc' = IF Valid(gc.src) = 0 THEN "reclaim" ELSE "mark"
    BY <1>3 DEF RelocateEmpty, RelocateValid, flash, ram
  <2>2. /\ Reserved # {} /\ Sources # {} /\ Apart(Sources) /\ NotReserved(Sources)
        /\ \A p \in Sources : Status(p) \in {PebActived, PebReclaiming}
        /\ gc.cur = 1 /\ gc.then \in {"alloc", "init"}
    BY <2>1 DEF BlockInv, MarkInv
  <2>3. FlashInv' BY <1>1, <2>1, QuietFlash DEF MarksNone
  <2>4. \A i \in DOMAIN gc.src : ~(i < gc.cur) BY <2>2, LocalFields
  <2>5. CASE pc' = "mark"
    <3>1. MarkInv'
      BY <2>1, <2>2, <2>4, <2>5
         DEF MarkInv, Apart, NotReserved, Reserved, Status, Sources
    <3> QED BY <2>3, <2>5, <3>1, OnlyMark
  <2>6. CASE pc' = "reclaim"
    <3>1. Opened' = {} BY <2>6 DEF Opened
    <3>2. ReclaimInv'
      BY <2>1, <2>2, <2>4, <2>6, <3>1
         DEF ReclaimInv, Apart, NotReserved, Reserved, Status, Sources
    <3> QED BY <2>3, <2>6, <3>2, OnlyReclaim DEF ReclaimLabels
  <2> QED BY <2>1, <2>5, <2>6
<1>4. CASE MarkReclaiming
  <2>1. /\ pc = "mark" /\ pc' = "mark" /\ info' = info /\ gc.cur \in DOMAIN gc.src
        /\ Source \in Pebs
    BY <1>4, SourceType DEF MarkReclaiming, AtSource, ram
  <2>2. /\ Reserved # {} /\ Sources # {} /\ Apart(Sources) /\ NotReserved(Sources)
        /\ \A p \in Sources : Status(p) \in {PebActived, PebReclaiming}
        /\ \A i \in DOMAIN gc.src : i < gc.cur => Status(gc.src[i]) = PebReclaiming
    BY <2>1 DEF BlockInv, MarkInv
  <2>3. gc'.src = gc.src /\ gc'.cur = gc.cur + 1
    BY <1>4, LocalFields DEF MarkReclaiming, NextSource, Gcs
  <2>4. Source \in Sources BY <2>1 DEF Source, Sources, Blocks
  <2>5. PICK x \in Pebs : x = Source BY <2>1
  <2>6. Marks(x, PebReclaiming)
    BY <1>4, <2>5, MarkFacts DEF MarkReclaiming, PebStatus
  <2>7. FlashInv'
    BY <1>1, <2>2, <2>4, <2>5, <2>6, StatusFacts DEF FlashInv, Marks, Target, Spare, Status
  <2>8. \A i \in DOMAIN gc.src : i < gc.cur + 1 => i < gc.cur \/ i = gc.cur
    <3>1. gc.cur \in Nat /\ DOMAIN gc.src \subseteq Nat BY LocalFields
    <3> QED BY <3>1
  <2>9. Sources' = Sources BY <2>3 DEF Sources
  <2>10. \A i \in DOMAIN gc.src : i < gc.cur + 1 => hdr'[gc.src[i]].status = PebReclaiming
    <3> SUFFICES ASSUME NEW i \in DOMAIN gc.src, i < gc.cur + 1
                 PROVE  hdr'[gc.src[i]].status = PebReclaiming
      OBVIOUS
    <3>1. gc.src[i] \in Pebs BY SourcesType
    <3>2. CASE i = gc.cur BY <2>5, <2>6, <3>1, <3>2 DEF Marks, Source
    <3>3. CASE i < gc.cur
      <4>1. hdr[gc.src[i]].status = PebReclaiming BY <2>2, <3>3 DEF Status
      <4> QED BY <2>6, <3>1, <4>1 DEF Marks, Status
    <3> QED BY <2>8, <3>2, <3>3
  <2>11. MarkInv'
    BY <2>1, <2>2, <2>3, <2>4, <2>5, <2>6, <2>9, <2>10, SourcesType
       DEF MarkInv, Apart, NotReserved, Reserved, Status, Marks
  <2> QED BY <2>1, <2>7, <2>11, OnlyMark
<1>5. CASE PickTarget
  <2>1. pc = "mark" /\ gc.cur > Len(gc.src) BY <1>5 DEF PickTarget, AfterSources
  <2>2. /\ Reserved # {} /\ Sources # {} /\ Apart(Sources) /\ NotReserved(Sources)
        /\ \A i \in DOMAIN gc.src : i < gc.cur => Status(gc.src[i]) = PebReclaiming
    BY <2>1 DEF BlockInv, MarkInv
  <2>3. \A i \in DOMAIN gc.src : i < gc.cur BY <2>1, LocalFields
  <2>4. AllReclaiming(Sources) BY <2>2, <2>3 DEF AllReclaiming, Sources, Blocks
  <2>5. pc' = "transfering" BY <1>5, <2>2 DEF PickTarget, Check
  <2>6. PICK p \in Reserved : Picked(p) BY <1>5, <2>2, PicksReserved
  <2>7. p \in Pebs /\ info[p].reserved BY <2>6 DEF Reserved
  <2>8. Marks(p, PebActiving) BY <2>6, <2>7, MarkFacts DEF Picked
  <2>9. Unreserves(p) BY <2>6, <2>7, Shapes DEF Picked, Unreserves, Infos
  <2>10. p \notin Sources /\ Status(p) = PebEmpty
    BY <2>2, <2>7 DEF NotReserved, Apart
  <2>11. FlashInv' BY <1>1, <2>7, <2>8, <2>10, FlashSpared, StatusFacts
  <2>12. gc'.src = gc.src /\ gc'.dst = p BY <2>6, LocalFields DEF Picked, Gcs
  <2>13. Sources' = Sources BY <2>12 DEF Sources
  <2>14. TransferInv'
    BY <2>2, <2>4, <2>5, <2>7, <2>8, <2>9, <2>10, <2>12, <2>13, SourcesType
       DEF TransferInv, Apart, AllReclaiming, NotReserved, Status, Marks, Unreserves
  <2> QED BY <2>5, <2>11, <2>14, OnlyTransfer
<1> QED BY <1>2, <1>3, <1>4, <1>5

\* Moving the valid items.
LEMMA TransferStep ==
    ASSUME TypeOK, Located, BlockInv,
           \/ StartTransfer \/ SourceDone \/ SkipDeleted \/ CopyItem \/ CommitCopy
           \/ EndTransfer
    PROVE  BlockInv'
<1>1. /\ FlashInv /\ Sources # {} /\ AllReclaiming(Sources) /\ NotReserved(Sources)
      /\ gc.dst \in Pebs /\ ~info[gc.dst].reserved
      /\ Status(gc.dst) = IF pc = "transfering" THEN PebActiving ELSE PebTransfering
      /\ Apart(Sources \cup {gc.dst})
  BY DEF StartTransfer, SourceDone, SkipDeleted, CopyItem, CommitCopy, EndTransfer,
         Migrating, AtSource, AfterSources, BlockInv, TransferInv
<1>2. gc.dst \notin Sources /\ \E q \in Pebs : q # gc.dst /\ Status(q) = PebReclaiming
  BY <1>1, SourcesType, StatusFacts DEF AllReclaiming
<1>3. PICK x \in Pebs : x = gc.dst BY <1>1
<1>4. CASE StartTransfer
  <2>1. /\ pc = "transfering" /\ pc' = "migrate" /\ info' = info /\ gc' = gc
        /\ SetPebStatus(x, PebTransfering)
    BY <1>3, <1>4 DEF StartTransfer, ram
  <2>2. Marks(x, PebTransfering) BY <2>1, MarkFacts DEF PebStatus
  <2>3. \A p \in Pebs : ~Target(p)
    BY <1>1, <2>1, StatusFacts DEF AllReclaiming, Apart, Target
  <2>4. FlashInv'
    BY <1>1, <1>2, <1>3, <2>2, <2>3, StatusFacts DEF FlashInv, Marks, Target, Spare, Status
  <2>5. TransferInv'
    BY <1>1, <1>2, <1>3, <2>1, <2>2, SourcesType
       DEF TransferInv, Apart, AllReclaiming, NotReserved, Status, Marks, Sources
  <2> QED BY <2>1, <2>4, <2>5, OnlyTransfer
<1>5. CASE SourceDone \/ SkipDeleted \/ CopyItem \/ CommitCopy
  <2>1. MarksNone
    BY <1>5 DEF SourceDone, SkipDeleted, CopyItem, CommitCopy, flash, Append1, Validate,
                MarksNone
  <2>2. ReservesNone
    <3>1. CASE SourceDone BY <3>1 DEF SourceDone, ram, ReservesNone
    <3>2. CASE SkipDeleted BY <3>2 DEF SkipDeleted, ram, ReservesNone
    <3>3. CASE CopyItem BY <3>3 DEF CopyItem, ReservesNone
    <3>4. CASE CommitCopy BY <3>4, Shapes DEF CommitCopy, ReservesNone, Infos
    <3> QED BY <1>5, <3>1, <3>2, <3>3, <3>4
  <2>3. gc'.src = gc.src /\ gc'.dst = gc.dst
    BY <1>5, LocalFields DEF SourceDone, SkipDeleted, CopyItem, CommitCopy, NextSource, Gcs
  <2>4. pc # "transfering" /\ pc' \in {"migrate", "copied", "assert"}
    BY <1>5 DEF SourceDone, SkipDeleted, CopyItem, CommitCopy, Migrating, AtSource, Check
  <2>5. FlashInv' BY <1>1, <2>1, QuietFlash
  <2>6. CASE pc' = "assert" BY <2>5, <2>6, OnlyFlash
  <2>7. CASE pc' # "assert"
    <3>1. Sources' = Sources BY <2>3 DEF Sources
    <3>2. TransferInv'
      BY <1>1, <2>1, <2>2, <2>3, <2>4, <2>7, <3>1, SourcesType
         DEF TransferInv, Apart, AllReclaiming, NotReserved, Status, MarksNone, ReservesNone
    <3> QED BY <2>4, <2>5, <2>7, <3>2, OnlyTransfer
  <2> QED BY <2>6, <2>7
<1>6. CASE EndTransfer
  <2>1. /\ pc = "migrate" /\ pc' = "reclaim" /\ info' = info
        /\ SetPebStatus(x, PebTransfered)
    BY <1>3, <1>6 DEF EndTransfer, AfterSources, ram
  <2>2. Marks(x, PebTransfered) BY <2>1, MarkFacts DEF PebStatus
  <2>3. gc'.src = gc.src /\ gc'.cur = 1 /\ gc'.dst = x /\ gc'.then = "actived"
    BY <1>3, <1>6, LocalFields DEF EndTransfer, Gcs
  <2>4. \A p \in Pebs : p # x => ~Target(p)
    BY <1>1, <1>3, <2>1, StatusFacts DEF FlashInv, Target
  <2>5. FlashInv'
    BY <1>1, <1>2, <1>3, <2>2, <2>4, StatusFacts DEF FlashInv, Marks, Target, Spare, Status
  <2>6. Sources' = Sources /\ Opened' = {} BY <2>1, <2>3 DEF Sources, Opened
  <2>7. \A i \in DOMAIN gc'.src : ~(i < gc'.cur) BY <2>3, LocalFields
  <2>8. ReclaimInv'
    BY <1>1, <1>2, <1>3, <2>1, <2>2, <2>3, <2>6, <2>7, SourcesType
       DEF ReclaimInv, Apart, AllReclaiming, NotReserved, Status, Marks
  <2> QED BY <2>1, <2>5, <2>8, OnlyReclaim DEF ReclaimLabels
<1> QED BY <1>4, <1>5, <1>6

\* What holds of the sources throughout their reclaiming.
LEMMA Reclaiming ==
    ASSUME TypeOK, BlockInv, pc \in ReclaimLabels
    PROVE  /\ FlashInv
           /\ \A i \in DOMAIN gc.src : i < gc.cur => info[gc.src[i]].reserved
           /\ \A p \in Sources \ Opened : info[p].reserved => Status(p) = PebEmpty
           /\ gc.then \in {"alloc", "init", "relocate", "actived"}
           /\ gc.then \in {"alloc", "init"} =>
                 /\ Reserved # {} /\ Apart(Sources)
                 /\ \A p \in Sources \ Opened : ~info[p].reserved =>
                       Status(p) \in {PebActived, PebReclaiming}
           /\ gc.then = "actived" =>
                 /\ gc.dst \in Pebs /\ ~info[gc.dst].reserved /\ gc.dst \notin Sources
                 /\ Status(gc.dst) = PebTransfered /\ Apart(Sources \cup {gc.dst})
                 /\ \A p \in Sources \ Opened : ~info[p].reserved => Status(p) = PebReclaiming
           /\ gc.then = "relocate" =>
                 LET old == Blocks(scan.reclaiming) IN
                 /\ Sources # {} /\ old # {} /\ old \cap Sources = {}
                 /\ AllReclaiming(old) /\ NotReserved(old) /\ Apart(Sources \cup old)
                 /\ \A p \in Sources \ Opened : ~info[p].reserved => Status(p) = PebTransfering
<1>1. FlashInv /\ ReclaimInv BY DEF BlockInv
<1>2. gc.then \in {"alloc", "init", "relocate", "actived"} BY LocalFields DEF Thens
<1> QED BY <1>1, <1>2 DEF ReclaimInv, AllReclaiming

\* A write of peb_reclaim to source x.
Opening(x) ==
    /\ \A p \in Pebs : p # x => /\ hdr'[p].status = hdr[p].status
                                /\ info'[p].reserved <=> info[p].reserved
    /\ info[x].reserved => info'[x].reserved
    /\ gc'.src = gc.src /\ gc'.dst = gc.dst /\ gc'.then = gc.then /\ scan' = scan
    /\ pc' \in ReclaimLabels
    /\ IF pc' = "reclaim"
       THEN info'[x].reserved /\ hdr'[x].status = PebEmpty /\ gc'.cur = gc.cur + 1
       ELSE gc'.cur = gc.cur /\ hdr'[x].status = IF pc' = "erase" THEN PebErasing ELSE PebVirgin

LEMMA OpeningStep ==
    ASSUME TypeOK, BlockInv, pc \in ReclaimLabels, FlashInv',
           gc.cur \in DOMAIN gc.src, NEW x \in Pebs, x = Source, Opening(x)
    PROVE  BlockInv'
<1> DEFINE old == Blocks(scan.reclaiming)
<1>1. x \in Sources /\ Opened \subseteq {x} BY DEF Source, Sources, Blocks, Opened
<1>2. Sources' = Sources /\ Source' = IF pc' = "reclaim" THEN Source' ELSE x
  BY DEF Opening, Sources, Source
<1>3. IF pc' = "reclaim" THEN Opened' = {} ELSE Opened' = {x}
  BY <1>2 DEF Opened, Opening, ReclaimLabels
<1>4. \A p \in Sources : p # x \/ p \notin Opened' =>
         (p # x /\ p \notin Opened) \/ (info'[p].reserved /\ hdr'[p].status = PebEmpty)
  BY <1>1, <1>3 DEF Opening
<1>5. Sources \subseteq Pebs /\ \A i \in DOMAIN gc.src : gc.src[i] \in Sources
  BY SourcesType
<1>6. old \subseteq Pebs BY LocalFields, SomeBlocks
<1>7. \A i \in DOMAIN gc.src : i < gc'.cur => info'[gc.src[i]].reserved
  <2>1. \A i \in DOMAIN gc.src : i < gc.cur => info'[gc.src[i]].reserved
    BY <1>5, Reclaiming DEF Opening
  <2>2. \A i \in DOMAIN gc.src : i < gc.cur + 1 => i < gc.cur \/ i = gc.cur
    BY LocalFields
  <2> QED BY <2>1, <2>2 DEF Opening, Source
<1>8. \A p \in Sources \ Opened' : info'[p].reserved => hdr'[p].status = PebEmpty
  BY <1>3, <1>4, <1>5, Reclaiming DEF Opening, Status
<1>9. gc.then \in {"alloc", "init"} =>
         /\ Reserved' # {} /\ Apart(Sources)'
         /\ \A p \in Sources \ Opened' : ~info'[p].reserved =>
               hdr'[p].status \in {PebActived, PebReclaiming}
  BY <1>1, <1>2, <1>3, <1>4, <1>5, Reclaiming DEF Opening, Status, Apart, Reserved
<1>10. gc.then = "actived" =>
          /\ gc.dst \in Pebs /\ ~info'[gc.dst].reserved /\ gc.dst \notin Sources
          /\ hdr'[gc.dst].status = PebTransfered /\ Apart(Sources \cup {gc.dst})'
          /\ \A p \in Sources \ Opened' : ~info'[p].reserved => hdr'[p].status = PebReclaiming
  BY <1>1, <1>2, <1>3, <1>4, <1>5, Reclaiming DEF Opening, Status, Apart
<1>11. gc.then = "relocate" =>
          /\ Sources # {} /\ old # {} /\ old \cap Sources = {}
          /\ AllReclaiming(old)' /\ NotReserved(old)' /\ Apart(Sources \cup old)'
          /\ \A p \in Sources \ Opened' : ~info'[p].reserved => hdr'[p].status = PebTransfering
  BY <1>1, <1>2, <1>3, <1>4, <1>5, <1>6, Reclaiming
     DEF Opening, Status, Apart, AllReclaiming, NotReserved
<1>12. pc' # "reclaim" =>
          /\ gc'.cur \in DOMAIN gc.src
          /\ Status(Source)' = IF pc' = "erase" THEN PebErasing ELSE PebVirgin
  BY <1>2 DEF Opening, Status
<1>13. ReclaimInv'
  BY <1>2, <1>7, <1>8, <1>9, <1>10, <1>11, <1>12
     DEF ReclaimInv, Opening, Status, AllReclaiming
<1> QED BY <1>13, OnlyReclaim DEF Opening

LEMMA PebReclaimStep ==
    ASSUME TypeOK, Located, BlockInv, Reclaim \/ Erase \/ MarkEmpty
    PROVE  BlockInv'
<1>1. pc \in ReclaimLabels /\ gc.cur \in DOMAIN gc.src /\ Source \in Pebs
  BY SourceType, SourceInDomain DEF Reclaim, Erase, MarkEmpty, AtSource, Located, ReclaimLabels
<1>2. FlashInv BY DEF BlockInv
<1>3. PICK x \in Pebs : x = Source BY <1>1
<1>4. x \in Sources BY <1>1, <1>3 DEF Source, Sources, Blocks
<1>5. CASE Reclaim
  <2>1. /\ pc = "reclaim" /\ pc' = "erase" /\ info' = info /\ gc' = gc /\ scan' = scan
        /\ SetPebStatus(x, PebErasing)
    BY <1>3, <1>5 DEF Reclaim, AtSource, ram
  <2>2. Marks(x, PebErasing) BY <2>1, MarkFacts DEF PebStatus
  <2>3. Opened = {} BY <2>1 DEF Opened
  \* A transfer would lose its sources here: there is none, or other ones remain.
  <2>4. \A p \in Pebs : p # x /\ Status(p) = PebTransfering =>
           \E q \in Pebs : q # x /\ Status(q) = PebReclaiming
    <3>1. CASE gc.then \in {"alloc", "init"}
      BY <1>1, <2>3, <3>1, Reclaiming, StatusFacts DEF Apart
    <3>2. CASE gc.then = "actived"
      BY <1>1, <2>3, <3>2, Reclaiming, StatusFacts DEF Apart
    <3>3. CASE gc.then = "relocate"
      <4>1. Blocks(scan.reclaiming) \subseteq Pebs BY LocalFields, SomeBlocks
      <4> QED BY <1>1, <1>4, <3>3, <4>1, Reclaiming DEF AllReclaiming
    <3> QED BY <1>1, <3>1, <3>2, <3>3, Reclaiming
  <2>5. FlashInv'
    BY <1>2, <2>2, <2>4, StatusFacts DEF FlashInv, Marks, Target, Spare, Status
  <2>6. Opening(x) BY <2>1, <2>2 DEF Opening, Marks, ReclaimLabels
  <2> QED BY <1>1, <1>3, <2>5, <2>6, OpeningStep
<1>6. CASE Erase
  <2>1. /\ pc = "erase" /\ pc' = "empty" /\ gc' = gc /\ scan' = scan
        /\ info' = [info EXCEPT ![x].count = Bump(info[x].count)]
        /\ EraseAndFormat(x, Bump(info[x].count))
    BY <1>3, <1>6 DEF Erase
  <2>2. Marks(x, PebVirgin) BY <2>1, MarkFacts
  <2>3. Status(x) = PebErasing
    BY <1>1, <1>3, <2>1 DEF BlockInv, ReclaimInv, ReclaimLabels
  <2>4. FlashInv' BY <1>2, <2>2, <2>3, FlashSpared, StatusFacts
  <2>5. ReservesNone BY <2>1, Shapes DEF ReservesNone, Infos
  <2>6. Opening(x) BY <2>1, <2>2, <2>5 DEF Opening, Marks, ReservesNone, ReclaimLabels
  <2> QED BY <1>1, <1>3, <2>4, <2>6, OpeningStep
<1>7. CASE MarkEmpty
  <2>1. /\ pc = "empty" /\ pc' = "reclaim" /\ gc' = NextSource /\ scan' = scan
        /\ info' = [info EXCEPT ![x].reserved = TRUE, ![x].dirty = 0, ![x].free = Capacity]
        /\ SetPebStatus(x, PebEmpty)
    BY <1>3, <1>7 DEF MarkEmpty
  <2>2. Marks(x, PebEmpty) BY <2>1, MarkFacts DEF PebStatus
  <2>3. Status(x) = PebVirgin
    BY <1>1, <1>3, <2>1 DEF BlockInv, ReclaimInv, ReclaimLabels
  <2>4. FlashInv' BY <1>2, <2>2, <2>3, FlashSpared, StatusFacts
  <2>5. /\ info'[x].reserved /\ \A p \in Pebs : p # x => info'[p] = info[p]
    BY <2>1, Shapes DEF Infos
  <2>6. /\ gc'.src = gc.src /\ gc'.dst = gc.dst /\ gc'.then = gc.then
        /\ gc'.cur = gc.cur + 1
    BY <2>1, LocalFields DEF NextSource, Gcs
  <2>7. Opening(x) BY <2>1, <2>2, <2>5, <2>6 DEF Opening, Marks, ReclaimLabels
  <2> QED BY <1>1, <1>3, <2>4, <2>7, OpeningStep
<1> QED BY <1>5, <1>6, <1>7

\* All sources are back in the pool.
LEMMA ReclaimedStep ==
    ASSUME TypeOK, Located, BlockInv, Reclaimed
    PROVE  BlockInv'
<1> DEFINE old == Blocks(scan.reclaiming)
<1>1. /\ pc = "reclaim" /\ pc' = gc.then /\ gc.cur > Len(gc.src)
      /\ hdr' = hdr /\ info' = info /\ scan' = scan
      /\ gc' = IF gc.then = "relocate"
               THEN [NoGc EXCEPT !.src = scan.reclaiming, !.then = "init"] ELSE gc
  BY DEF Reclaimed, AfterSources, flash, ram
<1>2. pc \in ReclaimLabels /\ Opened = {} BY <1>1 DEF ReclaimLabels, Opened
<1>3. FlashInv' BY <1>1, <1>2, Reclaiming, QuietFlash DEF MarksNone
<1>4. \A i \in DOMAIN gc.src : i < gc.cur BY <1>1, LocalFields
<1>5. \A p \in Sources : info[p].reserved /\ Status(p) = PebEmpty
  BY <1>2, <1>4, Reclaiming DEF Sources, Blocks
<1>6. CASE gc.then \in {"alloc", "init"}
  <2>1. Apart({}) /\ Reserved # {}
    BY <1>2, <1>5, <1>6, Reclaiming DEF Apart
  <2>2. CallInv'
    BY <1>1, <1>6, <2>1
       DEF CallInv, Apart, Reserved, Status, SettledLabels, WritingLabels
  <2> QED BY <1>1, <1>3, <1>6, <2>2, OnlyCall DEF SettledLabels
<1>7. CASE gc.then = "actived"
  <2>1. /\ gc.dst \in Pebs /\ ~info[gc.dst].reserved /\ Status(gc.dst) = PebTransfered
        /\ Apart({gc.dst})
    BY <1>2, <1>5, <1>7, Reclaiming DEF Apart
  <2>2. ActivedInv'
    BY <1>1, <1>7, <2>1 DEF ActivedInv, Apart, Status
  <2> QED BY <1>1, <1>3, <1>7, <2>2, OnlyActived
<1>8. CASE gc.then = "relocate"
  <2>1. gc'.src = scan.reclaiming /\ gc'.cur = 1 /\ gc'.then = "init"
    BY <1>1, <1>8 DEF NoGc
  <2>2. Sources' = old BY <2>1 DEF Sources
  <2>3. /\ Sources # {} /\ old # {} /\ AllReclaiming(old) /\ NotReserved(old)
        /\ Apart(Sources \cup old)
    BY <1>2, <1>8, Reclaiming
  <2>4. Reserved # {} BY <1>5, <2>3, SourcesType DEF Reserved
  <2>5. Apart(old) BY <1>5, <2>3 DEF Apart
  <2>6. MarkInv'
    BY <1>1, <1>8, <2>1, <2>2, <2>3, <2>4, <2>5
       DEF MarkInv, Apart, AllReclaiming, NotReserved, Reserved, Status
  <2> QED BY <1>1, <1>3, <1>8, <2>6, OnlyMark
<1> QED BY <1>2, <1>6, <1>7, <1>8, Reclaiming

LEMMA TargetActivedStep ==
    ASSUME TypeOK, Located, BlockInv, TargetActived
    PROVE  BlockInv'
<1>1. /\ pc = "actived" /\ info' = info /\ pc' \in {"init", "alloc"}
      /\ SetPebStatus(gc.dst, PebActived)
  BY DEF TargetActived, Caller, ram
<1>2. /\ gc.dst \in Pebs /\ ~info[gc.dst].reserved /\ Status(gc.dst) = PebTransfered
      /\ Apart({gc.dst}) /\ FlashInv
  BY <1>1 DEF BlockInv, ActivedInv
<1>3. PICK x \in Pebs : x = gc.dst BY <1>2
<1>4. Marks(x, PebActived) BY <1>1, <1>3, MarkFacts DEF PebStatus
<1>5. \A p \in Pebs : p # x => Status(p) \in {PebEmpty, PebActived}
  BY <1>2, <1>3 DEF Apart
<1>6. PICK q \in Pebs : q # x /\ Status(q) = PebEmpty
  BY <1>2, <1>3, <1>5, StatusFacts DEF FlashInv, Spare
<1>7. info[q].reserved BY <1>2, <1>3, <1>6, StatusFacts DEF Apart
<1>8. FlashInv'
  BY <1>2, <1>3, <1>4, <1>5, <1>6, StatusFacts DEF FlashInv, Marks, Target, Spare, Status
<1>9. CallInv'
  BY <1>1, <1>2, <1>3, <1>4, <1>7
     DEF CallInv, Apart, Reserved, Status, Marks, SettledLabels, WritingLabels
<1> QED BY <1>1, <1>8, <1>9, OnlyCall DEF SettledLabels

LEMMA BlockStep ==
    ASSUME TypeOK, Located, BlockInv, [Next]_vars
    PROVE  BlockInv'
<1>1. CASE UNCHANGED vars
  <2>1. /\ hdr' = hdr /\ info' = info /\ pc' = pc
        /\ scan' = scan /\ gc' = gc /\ w' = w
    BY <1>1 DEF vars, flash, ram, call
  <2>2. FlashInv' BY <2>1 DEF BlockInv, FlashInv, Target, Spare, Status
  <2>3. ScanInv'
    BY <2>1 DEF BlockInv, ScanInv, Classified, Counted, Blank, Status
  <2>4. CallInv'
    BY <2>1 DEF BlockInv, CallInv, Apart, Reserved, Status
  <2>5. MarkInv'
    BY <2>1 DEF BlockInv, MarkInv, Sources, Apart, NotReserved, Reserved, Status
  <2>6. TransferInv'
    BY <2>1 DEF BlockInv, TransferInv, Sources, Apart, NotReserved, AllReclaiming, Status
  <2>7. ReclaimInv'
    BY <2>1 DEF BlockInv, ReclaimInv, Sources, Opened, Source, Apart, NotReserved,
                AllReclaiming, Reserved, Status
  <2>8. ActivedInv' BY <2>1 DEF BlockInv, ActivedInv, Apart, Status
  <2> QED BY <2>2, <2>3, <2>4, <2>5, <2>6, <2>7, <2>8 DEF BlockInv
<1>2. CASE Boot
  BY <1>2, ClassifyStep, LogsStep, RecoverStep, SettledStep DEF Boot, Recover, Settled
<1>3. CASE Transfer
  BY <1>3, MarkStep, TransferStep DEF Transfer
<1>4. CASE ReclaimPebs
  BY <1>4, PebReclaimStep, ReclaimedStep, TargetActivedStep DEF ReclaimPebs
<1>5. CASE Write
  BY <1>5, SettledStep, AllocateStep, WritingStep DEF Write, Settled
<1>6. CASE Delete \/ Request
  BY <1>6, SettledStep DEF Settled
<1>7. CASE PowerOn \/ PowerLoss
  BY <1>7, PowerStep
<1> QED BY <1>1, <1>2, <1>3, <1>4, <1>5, <1>6, <1>7 DEF Next, Run, Collect

-----------------------------------------------------------------------------
LEMMA InvariantHolds == Spec => [](TypeOK /\ Located /\ BlockInv)
<1>1. Init => TypeOK /\ Located /\ BlockInv
  BY TypeInit, LocatedInit, BlockInit
<1>2. TypeOK /\ Located /\ BlockInv /\ [Next]_vars => (TypeOK /\ Located /\ BlockInv)'
  BY TypeStep, LocatedStep, BlockStep
<1> QED BY <1>1, <1>2, PTL DEF Spec

LEMMA AtMostOne ==
    ASSUME NEW S, \A p, q \in S : p = q
    PROVE  Cardinality(S) <= 1
<1>1. CASE S = {} BY <1>1, FS_EmptySet
<1>2. CASE S # {}
  <2>1. PICK p \in S : S = {p} BY <1>2
  <2>2. Cardinality({p}) = 1 BY FS_Singleton
  <2> QED BY <2>1, <2>2
<1> QED BY <1>1, <1>2

\* Flash never holds two transfer targets, nor a running transfer without its
\* sources, wherever relocate_pebs, peb_reclaim or peb_scan lose power.
THEOREM TargetsUnique == Spec => []OneTarget
<1>1. TypeOK /\ BlockInv => OneTarget
  <2> SUFFICES ASSUME BlockInv PROVE OneTarget OBVIOUS
  <2> DEFINE targets == {p \in Pebs : hdr[p].status \in {PebTransfering, PebTransfered}}
  <2>1. \A p, q \in targets : p = q BY DEF BlockInv, FlashInv, Target, Status
  <2>2. Cardinality(targets) <= 1
    <3> HIDE DEF targets
    <3> QED BY <2>1, AtMostOne
  <2>3. \A p \in targets : hdr[p].status = PebTransfering =>
           \E q \in Pebs : hdr[q].status = PebReclaiming
    BY DEF BlockInv, FlashInv, Status
  <2> QED BY <2>2, <2>3 DEF OneTarget
<1> QED BY <1>1, InvariantHolds, PTL

\* find_free_peb never hands out the last reserved block, and a recovery always
\* gets one back: a collection that starts has a block to move to.
THEOREM ReserveAlwaysKept == Spec => []ReserveKept
<1>1. TypeOK /\ BlockInv => ReserveKept
  BY DEF BlockInv, CallInv, MarkInv, SettledLabels, ReserveKept
<1> QED BY <1>1, InvariantHolds, PTL

(***************************************************************************)
(* Part 3: logs and headers.                                               *)
(***************************************************************************)

-----------------------------------------------------------------------------
(* SumOver as a function that takes the members of a set in any order. *)
Chosen(s) == CHOOSE x \in s : TRUE
\* g sums f over each set of D, taking the chosen member first.
SumsOn(D, f, g) ==
    /\ DOMAIN g = D
    /\ \A s \in D : /\ g[s] \in Int
                    /\ g[s] = IF s = {} THEN 0 ELSE f[Chosen(s)] + g[s \ {Chosen(s)}]
Summing(S, f) ==
    CHOOSE g : g = [s \in SUBSET S |->
                      IF s = {} THEN 0 ELSE f[Chosen(s)] + g[s \ {Chosen(s)}]]
SameOn(S, f, g) == \A x \in S : f[x] = g[x]
IntOn(S, f) == \A x \in S : f[x] \in Int

LEMMA SumIs ==
    ASSUME NEW S, NEW f
    PROVE  SumOver(S, f) = Summing(S, f)[S]
BY DEF SumOver, MapThenSumSet, MapThenFoldSet, Summing, Chosen

LEMMA ChosenMember ==
    ASSUME NEW s, s # {}
    PROVE  Chosen(s) \in s
BY DEF Chosen

\* A nonempty set of finite sets has a least one.
LEMMA SmallestSet ==
    ASSUME NEW S, IsFiniteSet(S), NEW B \in SUBSET SUBSET S, B # {}
    PROVE  \E T \in B : \A U \in B : U \subseteq T => U = T
<1>1. B \subseteq FiniteSubsetsOf(S)
  BY FS_FiniteSubsetsOfFinite
<1>2. PICK T \in B : \A U \in B : ~ (<<U, T>> \in StrictSubsetOrdering(S))
  BY <1>1, FS_StrictSubsetOrderingWellFounded, WFMin
<1>3. \A U \in B : U \subseteq T => U = T
  BY <1>2 DEF StrictSubsetOrdering
<1> QED BY <1>3

UpTo(S, n) == {s \in SUBSET S : Cardinality(s) <= n}
LEMMA UpToStep ==
    ASSUME NEW S, IsFiniteSet(S), NEW n \in Nat, NEW s \in UpTo(S, n + 1), s # {}
    PROVE  s \ {Chosen(s)} \in UpTo(S, n)
<1>1. IsFiniteSet(s) /\ Cardinality(s) \in Nat
  BY FS_Subset, FS_CardinalityType DEF UpTo
<1>2. Chosen(s) \in s BY ChosenMember
<1>3. Cardinality(s \ {Chosen(s)}) = Cardinality(s) - 1
  BY <1>1, <1>2, FS_RemoveElement
<1> QED BY <1>1, <1>3 DEF UpTo

LEMMA UpToZero ==
    ASSUME NEW S, IsFiniteSet(S)
    PROVE  \A s : s \in UpTo(S, 0) <=> s = {}
<1>1. \A s \in SUBSET S : IsFiniteSet(s) /\ Cardinality(s) \in Nat
  BY FS_Subset, FS_CardinalityType
<1> QED BY <1>1, FS_EmptySet DEF UpTo

LEMMA SumsStart ==
    ASSUME NEW S, IsFiniteSet(S), NEW f
    PROVE  \E g : SumsOn(UpTo(S, 0), f, g)
<1> DEFINE g == [s \in UpTo(S, 0) |-> 0]
<1>1. SumsOn(UpTo(S, 0), f, g)
  BY UpToZero DEF SumsOn
<1> QED BY <1>1

LEMMA SumsStep ==
    ASSUME NEW S, IsFiniteSet(S), NEW f, IntOn(S, f), NEW n \in Nat,
           NEW g, SumsOn(UpTo(S, n), f, g)
    PROVE  \E h : SumsOn(UpTo(S, n + 1), f, h)
<1> DEFINE h == [s \in UpTo(S, n + 1) |->
                    IF s = {} THEN 0 ELSE f[Chosen(s)] + g[s \ {Chosen(s)}]]
<1>1. \A s \in UpTo(S, n) : s \in UpTo(S, n + 1)
  <2>1. \A s \in SUBSET S : Cardinality(s) \in Nat
    BY FS_Subset, FS_CardinalityType
  <2> QED BY <2>1 DEF UpTo
<1>2. \A s \in UpTo(S, n) : h[s] = g[s]
  BY <1>1 DEF SumsOn
<1>3. \A s \in UpTo(S, n + 1) : s # {} => s \ {Chosen(s)} \in UpTo(S, n)
  BY UpToStep
<1>4. \A s \in UpTo(S, n + 1) : s # {} => f[Chosen(s)] \in Int
  BY ChosenMember DEF UpTo, IntOn
<1>5. ASSUME NEW s \in UpTo(S, n + 1)
      PROVE  /\ h[s] \in Int
             /\ h[s] = IF s = {} THEN 0 ELSE f[Chosen(s)] + h[s \ {Chosen(s)}]
  <2>1. CASE s = {} BY <2>1
  <2>2. CASE s # {}
    <3> DEFINE r == s \ {Chosen(s)}
    <3>1. r \in UpTo(S, n) BY <2>2, <1>3
    <3>2. h[r] = g[r] /\ g[r] \in Int BY <3>1, <1>2 DEF SumsOn
    <3>3. h[s] = f[Chosen(s)] + g[r] BY <2>2
    <3>4. f[Chosen(s)] \in Int BY <2>2, <1>4
    <3> QED BY <2>2, <3>2, <3>3, <3>4
  <2> QED BY <2>1, <2>2
<1>6. SumsOn(UpTo(S, n + 1), f, h)
  <2>1. DOMAIN h = UpTo(S, n + 1) OBVIOUS
  <2> HIDE DEF h
  <2> QED BY <2>1, <1>5 DEF SumsOn
<1> QED BY <1>6

LEMMA SumsExist ==
    ASSUME NEW S, IsFiniteSet(S), NEW f, IntOn(S, f)
    PROVE  \E g : SumsOn(SUBSET S, f, g)
<1> DEFINE Bad == {n \in Nat : ~ \E g : SumsOn(UpTo(S, n), f, g)}
<1>1. Bad = {}
  <2> SUFFICES ASSUME Bad # {} PROVE FALSE OBVIOUS
  <2>1. PICK n \in Bad : \A m \in Bad : n <= m
    <3>1. Bad \in SUBSET Nat OBVIOUS
    <3> HIDE DEF Bad
    <3> QED BY <3>1, LeastNumber
  <2>2. n # 0 BY SumsStart
  <2>3. n - 1 \in Nat /\ n - 1 \notin Bad BY <2>1, <2>2
  <2>4. PICK g : SumsOn(UpTo(S, n - 1), f, g) BY <2>3
  <2>5. \E h : SumsOn(UpTo(S, (n - 1) + 1), f, h)
    BY <2>3, <2>4, SumsStep
  <2>6. (n - 1) + 1 = n BY <2>1
  <2> QED BY <2>5, <2>6
<1>2. Cardinality(S) \in Nat BY FS_CardinalityType
<1>3. \E g : SumsOn(UpTo(S, Cardinality(S)), f, g) BY <1>1, <1>2
<1>4. UpTo(S, Cardinality(S)) = SUBSET S BY FS_Subset DEF UpTo
<1> QED BY <1>3, <1>4

LEMMA SummingSums ==
    ASSUME NEW S, IsFiniteSet(S), NEW f, IntOn(S, f)
    PROVE  SumsOn(SUBSET S, f, Summing(S, f))
<1> DEFINE F(g) == [s \in SUBSET S |->
                      IF s = {} THEN 0 ELSE f[Chosen(s)] + g[s \ {Chosen(s)}]]
<1>1. PICK g : SumsOn(SUBSET S, f, g) BY SumsExist
<1>2. \E h : h = F(h)
  <2> DEFINE h == [s \in SUBSET S |-> g[s]]
  <2>1. \A s \in SUBSET S : s # {} => s \ {Chosen(s)} \in SUBSET S OBVIOUS
  <2>2. \A s \in SUBSET S :
           h[s] = IF s = {} THEN 0 ELSE f[Chosen(s)] + h[s \ {Chosen(s)}]
    BY <1>1, <2>1 DEF SumsOn
  <2>3. h = F(h) BY <2>2
  <2> QED BY <2>3
<1>3. Summing(S, f) = F(Summing(S, f)) BY <1>2 DEF Summing
<1> DEFINE h == Summing(S, f)
<1>4. DOMAIN h = SUBSET S BY <1>3
<1>5. \A s \in SUBSET S : h[s] = IF s = {} THEN 0 ELSE f[Chosen(s)] + h[s \ {Chosen(s)}]
  BY <1>3
<1> HIDE DEF h
<1>6. \A s \in SUBSET S : h[s] \in Int
  <2> DEFINE Bad == {s \in SUBSET S : h[s] \notin Int}
  <2> SUFFICES ASSUME Bad # {} PROVE FALSE OBVIOUS
  <2>1. PICK s \in Bad : \A u \in Bad : u \subseteq s => u = s
    <3>1. Bad \in SUBSET SUBSET S OBVIOUS
    <3> HIDE DEF Bad
    <3> QED BY <3>1, SmallestSet
  <2>2. s # {} BY <1>5
  <2>3. Chosen(s) \in s BY <2>2, ChosenMember
  <2>4. s \ {Chosen(s)} \in SUBSET S /\ s \ {Chosen(s)} \notin Bad BY <2>1, <2>3
  <2>5. h[s \ {Chosen(s)}] \in Int BY <2>4
  <2>6. f[Chosen(s)] \in Int BY <2>3 DEF IntOn
  <2>7. h[s] = f[Chosen(s)] + h[s \ {Chosen(s)}] BY <1>5, <2>1, <2>2
  <2> QED BY <2>1, <2>5, <2>6, <2>7
<1>7. SumsOn(SUBSET S, f, h) BY <1>4, <1>5, <1>6 DEF SumsOn
<1> QED BY <1>7 DEF h

\* Any member may be taken first, whatever the set the sum is part of.
LEMMA SumsTake ==
    ASSUME NEW S, IsFiniteSet(S), NEW f, IntOn(S, f), NEW g, SumsOn(SUBSET S, f, g)
    PROVE  \A s \in SUBSET S : \A x \in s : g[s] = f[x] + g[s \ {x}]
<1> DEFINE Bad == {s \in SUBSET S : \E x \in s : g[s] # f[x] + g[s \ {x}]}
<1> SUFFICES ASSUME Bad # {} PROVE FALSE BY Zenon
<1>1. PICK s \in Bad : \A u \in Bad : u \subseteq s => u = s
  <2>1. Bad \in SUBSET SUBSET S OBVIOUS
  <2> HIDE DEF Bad
  <2> QED BY <2>1, SmallestSet
<1>2. PICK x \in s : g[s] # f[x] + g[s \ {x}] BY <1>1
<1> DEFINE c == Chosen(s)
<1>3. c \in s BY ChosenMember
<1>4. g[s] = f[c] + g[s \ {c}] BY <1>1, <1>2 DEF SumsOn
<1> HIDE DEF c
<1>5. x # c BY <1>2, <1>4
<1>6. s \ {c} \notin Bad /\ s \ {x} \notin Bad BY <1>1, <1>2, <1>3
<1>7. s \ {c} \in SUBSET S /\ s \ {x} \in SUBSET S /\ (s \ {c}) \ {x} \in SUBSET S
  BY <1>1
<1>8. x \in s \ {c} /\ c \in s \ {x} BY <1>2, <1>3, <1>5
<1>9. g[s \ {c}] = f[x] + g[(s \ {c}) \ {x}] BY <1>6, <1>7, <1>8
<1>10. g[s \ {x}] = f[c] + g[(s \ {x}) \ {c}] BY <1>6, <1>7, <1>8
<1>11. (s \ {x}) \ {c} = (s \ {c}) \ {x} OBVIOUS
<1>12. f[x] \in Int /\ f[c] \in Int /\ g[(s \ {c}) \ {x}] \in Int
  BY <1>1, <1>2, <1>3, <1>7 DEF IntOn, SumsOn
<1>13. g[s] = f[c] + (f[x] + g[(s \ {c}) \ {x}]) BY <1>4, <1>9
<1>14. f[x] + g[s \ {x}] = f[x] + (f[c] + g[(s \ {c}) \ {x}]) BY <1>10, <1>11
<1> QED BY <1>2, <1>12, <1>13, <1>14

LEMMA SumsAgree ==
    ASSUME NEW S, NEW T, NEW f, NEW g, NEW a, NEW b,
           SumsOn(SUBSET S, f, a), SumsOn(SUBSET T, g, b), SameOn(T, f, g),
           IsFiniteSet(T), T \in SUBSET S
    PROVE  a[T] = b[T]
<1> SUFFICES \A s \in SUBSET T : a[s] = b[s] OBVIOUS
<1> DEFINE Bad == {s \in SUBSET T : a[s] # b[s]}
<1> SUFFICES ASSUME Bad # {} PROVE FALSE OBVIOUS
<1>1. PICK s \in Bad : \A u \in Bad : u \subseteq s => u = s
  <2>1. Bad \in SUBSET SUBSET T OBVIOUS
  <2> HIDE DEF Bad
  <2> QED BY <2>1, SmallestSet
<1>2. s \in SUBSET S /\ s \in SUBSET T BY <1>1
<1>3. s # {} BY <1>1, <1>2 DEF SumsOn
<1> DEFINE c == Chosen(s)
<1>4. c \in s BY <1>3, ChosenMember
<1>5. a[s] = f[c] + a[s \ {c}] /\ b[s] = g[c] + b[s \ {c}]
  BY <1>2, <1>3 DEF SumsOn
<1> HIDE DEF c
<1>6. s \ {c} \in SUBSET T /\ s \ {c} \notin Bad BY <1>1, <1>4
<1>7. a[s \ {c}] = b[s \ {c}] BY <1>6
<1>8. f[c] = g[c] BY <1>2, <1>4 DEF SameOn
<1> QED BY <1>1, <1>5, <1>7, <1>8

-----------------------------------------------------------------------------
(* What the proofs use of SumOver. *)

LEMMA SumEmpty ==
    ASSUME NEW f
    PROVE  SumOver({}, f) = 0
<1>1. IsFiniteSet({}) /\ IntOn({}, f) BY FS_EmptySet DEF IntOn
<1>2. SumsOn(SUBSET {}, f, Summing({}, f)) BY <1>1, SummingSums
<1> QED BY <1>2, SumIs DEF SumsOn

LEMMA SumInt ==
    ASSUME NEW S, IsFiniteSet(S), NEW f, IntOn(S, f)
    PROVE  SumOver(S, f) \in Int
<1>1. S \in SUBSET S OBVIOUS
<1> QED BY <1>1, SummingSums, SumIs DEF SumsOn

\* The sum takes a member in any order, and looks at f on the set only.
LEMMA SummingPart ==
    ASSUME NEW S, NEW T, NEW f, NEW g, IsFiniteSet(S), T \in SUBSET S, IntOn(S, f),
           SameOn(T, f, g)
    PROVE  Summing(S, f)[T] = SumOver(T, g)
<1>1. IsFiniteSet(T) BY FS_Subset
<1>2. IntOn(T, g) BY DEF IntOn, SameOn
<1>3. PICK a : a = Summing(S, f) OBVIOUS
<1>4. PICK b : b = Summing(T, g) OBVIOUS
<1>5. SumsOn(SUBSET S, f, a) BY <1>3, SummingSums
<1>6. SumsOn(SUBSET T, g, b) BY <1>1, <1>2, <1>4, SummingSums
<1>7. a[T] = b[T] BY <1>1, <1>5, <1>6, SumsAgree
<1> QED BY <1>3, <1>4, <1>7, SumIs

LEMMA SumTake ==
    ASSUME NEW S, IsFiniteSet(S), NEW f, IntOn(S, f), NEW x \in S,
           NEW g, \A y \in S \ {x} : g[y] = f[y]
    PROVE  SumOver(S, f) = f[x] + SumOver(S \ {x}, g)
<1>1. PICK T : T = S \ {x} OBVIOUS
<1>2. T \in SUBSET S /\ SameOn(T, f, g) BY <1>1 DEF SameOn
<1>3. SumsOn(SUBSET S, f, Summing(S, f)) BY SummingSums
<1>4. Summing(S, f)[S] = f[x] + Summing(S, f)[T] BY <1>1, <1>3, SumsTake
<1>5. Summing(S, f)[T] = SumOver(T, g) BY <1>2, SummingPart, Zenon
<1> QED BY <1>1, <1>4, <1>5, SumIs

LEMMA SumSame ==
    ASSUME NEW S, IsFiniteSet(S), NEW f, IntOn(S, f), NEW g, \A y \in S : g[y] = f[y]
    PROVE  SumOver(S, g) = SumOver(S, f)
<1>1. SumsOn(SUBSET S, f, Summing(S, f)) BY SummingSums
<1>2. IntOn(S, g) BY DEF IntOn
<1>3. SumsOn(SUBSET S, g, Summing(S, g)) BY <1>2, SummingSums
<1>4. S \in SUBSET S /\ S \subseteq S OBVIOUS
<1>5. SameOn(S, f, g) BY DEF SameOn
<1>6. Summing(S, f)[S] = Summing(S, g)[S]
  BY <1>1, <1>3, <1>4, <1>5, SumsAgree
<1> QED BY <1>4, <1>6, SumIs

LEMMA SumAdd ==
    ASSUME NEW S, IsFiniteSet(S), NEW f, IntOn(S, f), NEW x, x \notin S,
           NEW g, g[x] \in Int, \A y \in S : g[y] = f[y]
    PROVE  SumOver(S \cup {x}, g) = g[x] + SumOver(S, f)
<1> DEFINE T == S \cup {x}
<1>1. IsFiniteSet(T) /\ IntOn(T, g) BY FS_AddElement DEF IntOn
<1>2. T \ {x} = S OBVIOUS
<1>3. \A y \in T \ {x} : f[y] = g[y] OBVIOUS
<1>4. SumOver(T, g) = g[x] + SumOver(T \ {x}, f)
  <2>1. x \in T OBVIOUS
  <2> HIDE DEF T
  <2> QED BY <1>1, <1>3, <2>1, SumTake
<1> QED BY <1>2, <1>4

\* One term changes.
LEMMA SumChange ==
    ASSUME NEW S, IsFiniteSet(S), NEW f, IntOn(S, f), NEW x \in S,
           NEW g, g[x] \in Int, \A y \in S \ {x} : g[y] = f[y]
    PROVE  SumOver(S, g) = SumOver(S, f) + g[x] - f[x]
<1>1. SumOver(S, f) = f[x] + SumOver(S \ {x}, f) BY SumTake
<1>2. IntOn(S, g) BY DEF IntOn
<1>3. SumOver(S, g) = g[x] + SumOver(S \ {x}, f)
  <2>1. \A y \in S \ {x} : f[y] = g[y] OBVIOUS
  <2> QED BY <1>2, <2>1, SumTake
<1>4. SumOver(S \ {x}, f) \in Int /\ f[x] \in Int
  <2>1. IsFiniteSet(S \ {x}) BY FS_RemoveElement
  <2>2. IntOn(S \ {x}, f) BY DEF IntOn
  <2> QED BY <2>1, <2>2, SumInt DEF IntOn
<1> QED BY <1>1, <1>3, <1>4

\* A sum of terms that are not negative bounds each of them.
LEMMA SumBound ==
    ASSUME NEW S, IsFiniteSet(S), NEW f, \A x \in S : f[x] \in Nat
    PROVE  SumOver(S, f) \in Nat /\ \A x \in S : f[x] <= SumOver(S, f)
<1>1. \A s \in SUBSET S : SumOver(s, f) \in Nat
  <2> DEFINE Bad == {s \in SUBSET S : SumOver(s, f) \notin Nat}
  <2> SUFFICES ASSUME Bad # {} PROVE FALSE OBVIOUS
  <2>1. PICK s \in Bad : \A u \in Bad : u \subseteq s => u = s
    <3>1. Bad \in SUBSET SUBSET S OBVIOUS
    <3> HIDE DEF Bad
    <3> QED BY <3>1, SmallestSet
  <2>2. s # {} BY SumEmpty
  <2>3. PICK x \in s : TRUE BY <2>2
  <2>4. IsFiniteSet(s) /\ IntOn(s, f) BY FS_Subset DEF IntOn
  <2>5. SumOver(s, f) = f[x] + SumOver(s \ {x}, f) BY <2>4, SumTake
  <2>6. s \ {x} \in SUBSET S /\ s \ {x} \notin Bad BY <2>1
  <2> QED BY <2>5, <2>6
<1>2. ASSUME NEW x \in S PROVE f[x] <= SumOver(S, f)
  <2>1. IntOn(S, f) BY DEF IntOn
  <2>2. SumOver(S, f) = f[x] + SumOver(S \ {x}, f) BY <2>1, SumTake
  <2>3. SumOver(S \ {x}, f) \in Nat BY <1>1
  <2> QED BY <2>2, <2>3
<1> QED BY <1>1, <1>2

-----------------------------------------------------------------------------
(* Logs: where items lie, and which of them are valid copies. *)
\* Where item j of a log starts, or, behind the last one, the next would.
Place(l, j) ==
    IF j <= Len(l) THEN l[j].off
    ELSE IF l = <<>> THEN 0 ELSE l[Len(l)].off + Footprint(l[Len(l)].val)
End(l) == Place(l, Len(l) + 1)
Torn(l) == \E j \in DOMAIN l : l[j].status = ItemWriting

\* A log: items end to end from offset 0, only the last one possibly unfinished.
OnlyLastTorn(l) == \A j \in DOMAIN l : l[j].status = ItemWriting => j = Len(l)
Contiguous(l) ==
    /\ Place(l, 1) = 0
    /\ \A j \in DOMAIN l : Place(l, j + 1) = l[j].off + Footprint(l[j].val)
Rising(l) == \A i, j \in 1 .. Len(l) + 1 : i < j => Place(l, i) < Place(l, j)
Keyed(l) == \A j \in DOMAIN l : l[j].status = ItemValid => l[j].key \in Keys /\ l[j].seq # NoSeq
Laid(l) ==
    /\ OnlyLastTorn(l) /\ Contiguous(l) /\ Rising(l) /\ Keyed(l)
    /\ LogSize(l) = End(l)

\* A valid item of a log: a copy of a value.
Copy(l, p, j) == [peb |-> p, off |-> l[j].off, key |-> l[j].key, index |-> l[j].index,
                  seq |-> l[j].seq, val |-> l[j].val]
CopiesIn(l, p) == {Copy(l, p, j) : j \in {i \in DOMAIN l : l[i].status = ItemValid}}
\* The copies in flash, those that count, and that every log is one.
Stored == UNION {CopiesIn(log[p], p) : p \in Pebs}
Current == {c \in Stored : Live(c.peb)}
LogInv == \A p \in Pebs : Laid(log[p])

LEMMA ItemCodes ==
    /\ ItemWriting # ItemValid /\ ItemWriting # ItemDelete /\ ItemValid # ItemDelete
    /\ ItemWriting \in ItemStatus /\ ItemValid \in ItemStatus /\ ItemDelete \in ItemStatus
BY DEF ItemWriting, ItemValid, ItemDelete, ItemStatus

LEMMA Placed ==
    ASSUME NEW l \in Seq(Items)
    PROVE  /\ Len(l) \in Nat /\ DOMAIN l = 1 .. Len(l)
           /\ \A j \in DOMAIN l : /\ l[j] \in Items /\ l[j].off \in Int
                                  /\ Footprint(l[j].val) \in Nat \ {0}
                                  /\ Place(l, j) = l[j].off
           /\ \A j \in 1 .. Len(l) + 1 : Place(l, j) \in Int
           /\ End(l) \in Int
           /\ l = <<>> => End(l) = 0
           /\ l # <<>> => End(l) = l[Len(l)].off + Footprint(l[Len(l)].val)
<1>1. Len(l) \in Nat /\ DOMAIN l = 1 .. Len(l) OBVIOUS
<1>2. \A j \in DOMAIN l : l[j] \in Items OBVIOUS
<1>3. \A j \in DOMAIN l : l[j].off \in Int /\ l[j].val \in Values BY <1>2, ItemFields
<1>4. \A j \in DOMAIN l : Footprint(l[j].val) \in Nat \ {0} BY <1>3, ValueTypes
<1>5. \A j \in DOMAIN l : Place(l, j) = l[j].off BY <1>1 DEF Place
<1>6. /\ l = <<>> => End(l) = 0
      /\ l # <<>> => End(l) = l[Len(l)].off + Footprint(l[Len(l)].val)
  BY <1>1 DEF End, Place
<1>7. l # <<>> => Len(l) \in DOMAIN l BY <1>1
<1>8. l # <<>> => l[Len(l)].off \in Int /\ Footprint(l[Len(l)].val) \in Nat
  BY <1>3, <1>4, <1>7
<1>9. End(l) \in Int BY <1>6, <1>8
<1>10. \A j \in 1 .. Len(l) + 1 : j \in DOMAIN l \/ j = Len(l) + 1 BY <1>1
<1>11. \A j \in 1 .. Len(l) + 1 : Place(l, j) \in Int
  BY <1>3, <1>5, <1>9, <1>10 DEF End
<1> QED BY <1>1, <1>2, <1>3, <1>4, <1>5, <1>6, <1>9, <1>11

LEMMA LaidEmpty == Laid(<<>>) /\ End(<<>>) = 0 /\ ~Torn(<<>>) /\ \A p : CopiesIn(<<>>, p) = {}
<1>1. <<>> \in Seq(Items) /\ Len(<<>>) = 0 /\ DOMAIN <<>> = {} OBVIOUS
<1>2. End(<<>>) = 0 /\ Place(<<>>, 1) = 0 BY <1>1 DEF End, Place
<1>3. LogSize(<<>>) = 0 BY <1>1, SumEmpty DEF LogSize
<1>4. OnlyLastTorn(<<>>) /\ Contiguous(<<>>) /\ Rising(<<>>) /\ Keyed(<<>>)
  BY <1>1, <1>2 DEF OnlyLastTorn, Contiguous, Rising, Keyed
<1> QED BY <1>1, <1>2, <1>3, <1>4 DEF Laid, Torn, CopiesIn

LEMMA Sizes ==
    ASSUME NEW l \in Seq(Items)
    PROVE  /\ IsFiniteSet(DOMAIN l)
           /\ IntOn(DOMAIN l, [j \in DOMAIN l |-> Footprint(l[j].val)])
BY Placed, FS_Interval DEF IntOn

LEMMA LaidAppend ==
    ASSUME NEW l \in Seq(Items), NEW item \in Items,
           Laid(l), ~Torn(l), item.off = End(l), item.status = ItemWriting
    PROVE  /\ Laid(Append(l, item)) /\ Append(l, item) \in Seq(Items)
           /\ End(Append(l, item)) = End(l) + Footprint(item.val)
           /\ \A p : CopiesIn(Append(l, item), p) = CopiesIn(l, p)
<1> DEFINE m == Append(l, item)
           n == Len(l)
<1>1. /\ m \in Seq(Items) /\ Len(m) = n + 1 /\ n \in Nat
      /\ DOMAIN m = 1 .. n + 1 /\ DOMAIN l = 1 .. n
      /\ m[n + 1] = item /\ \A j \in DOMAIN l : m[j] = l[j]
  OBVIOUS
<1>2. DOMAIN m = DOMAIN l \cup {n + 1} /\ n + 1 \notin DOMAIN l BY <1>1
<1>3. \A j \in 1 .. n + 1 : Place(m, j) = Place(l, j)
  <2>1. \A j \in DOMAIN l : Place(m, j) = Place(l, j) BY <1>1, <1>2, Placed
  <2>2. n + 1 \in DOMAIN m BY <1>2
  <2>3. Place(m, n + 1) = m[n + 1].off BY <1>1, <2>2, Placed
  <2> QED BY <1>1, <1>2, <2>1, <2>3 DEF End
<1>4. Place(m, n + 2) = End(l) + Footprint(item.val)
  <2>1. m # <<>> BY <1>1
  <2>2. End(m) = m[Len(m)].off + Footprint(m[Len(m)].val) BY <1>1, <2>1, Placed
  <2>3. Len(m) + 1 = n + 2 BY <1>1
  <2>4. Place(m, n + 2) = End(m) BY <2>3 DEF End
  <2> QED BY <1>1, <2>2, <2>4
<1>5. End(m) = End(l) + Footprint(item.val) BY <1>1, <1>4 DEF End
<1>6. OnlyLastTorn(m) BY <1>1, <1>2 DEF OnlyLastTorn, Torn
<1>7. Contiguous(m)
  <2>1. Place(m, 1) = 0 BY <1>1, <1>3 DEF Laid, Contiguous
  <2>2. ASSUME NEW j \in DOMAIN l PROVE Place(m, j + 1) = m[j].off + Footprint(m[j].val)
    <3>1. j + 1 \in 1 .. n + 1 BY <1>1
    <3> QED BY <1>1, <1>3, <3>1 DEF Laid, Contiguous
  <2>3. Place(m, n + 1 + 1) = item.off + Footprint(item.val) BY <1>1, <1>4
  <2> QED BY <1>1, <1>2, <2>1, <2>2, <2>3 DEF Contiguous
<1>8. Rising(m)
  <2>1. Footprint(item.val) \in Nat \ {0} BY ItemFields, ValueTypes
  <2>2. End(l) \in Int BY Placed
  <2>3. Place(m, n + 1) < Place(m, n + 2) BY <1>1, <1>3, <1>4, <2>1, <2>2 DEF End
  <2>4. \A j \in 1 .. n + 1 : Place(m, j) \in Int /\ Place(m, n + 2) \in Int
    <3>1. \A j \in 1 .. Len(m) + 1 : Place(m, j) \in Int BY <1>1, Placed
    <3>2. n + 2 \in 1 .. Len(m) + 1 /\ \A j \in 1 .. n + 1 : j \in 1 .. Len(m) + 1 BY <1>1
    <3> QED BY <3>1, <3>2
  <2>5. \A j \in 1 .. n + 1 : Place(m, j) < Place(m, n + 2)
    <3> TAKE j \in 1 .. n + 1
    <3>1. CASE j = n + 1 BY <2>3, <3>1
    <3>2. CASE j < n + 1
      <4>1. Place(l, j) < Place(l, n + 1) BY <1>1, <3>2 DEF Laid, Rising
      <4> QED BY <1>1, <1>3, <2>3, <2>4, <4>1
    <3> QED BY <1>1, <3>1, <3>2
  <2>6. \A i, j \in 1 .. n + 1 : i < j => Place(m, i) < Place(m, j)
    BY <1>3 DEF Laid, Rising
  <2>7. \A j \in 1 .. Len(m) + 1 : j \in 1 .. n + 1 \/ j = n + 2 BY <1>1
  <2>8. \A i \in 1 .. n + 1 : i < n + 2 /\ ~(n + 2 < i) /\ ~(n + 2 < n + 2) BY <1>1
  <2> QED BY <2>5, <2>6, <2>7, <2>8 DEF Rising
<1>9. Keyed(m)
  BY <1>1, <1>2, ItemCodes DEF Laid, Keyed
<1>10. LogSize(m) = End(m)
  <2> DEFINE f == [j \in DOMAIN l |-> Footprint(l[j].val)]
             g == [j \in DOMAIN m |-> Footprint(m[j].val)]
  <2>1. g[n + 1] = Footprint(item.val) /\ Footprint(item.val) \in Int
    <3>1. Footprint(item.val) \in Nat \ {0} BY ItemFields, ValueTypes
    <3> QED BY <1>1, <1>2, <3>1
  <2>2. \A j \in DOMAIN l : g[j] = f[j] BY <1>1, <1>2
  <2> HIDE DEF f, g
  <2>3. SumOver(DOMAIN l \cup {n + 1}, g) = g[n + 1] + SumOver(DOMAIN l, f)
    BY <1>2, <2>1, <2>2, Sizes, SumAdd, Zenon DEF f
  <2>4. SumOver(DOMAIN l, f) = End(l) BY DEF Laid, LogSize, f
  <2>5. LogSize(m) = Footprint(item.val) + End(l)
    BY <1>2, <2>1, <2>3, <2>4 DEF LogSize, g
  <2> QED BY <1>5, <2>1, <2>5, Placed
<1>11. \A p : CopiesIn(m, p) = CopiesIn(l, p)
  <2>1. {j \in DOMAIN m : m[j].status = ItemValid} = {j \in DOMAIN l : l[j].status = ItemValid}
    BY <1>1, <1>2, ItemCodes
  <2>2. \A p : \A j \in DOMAIN l : Copy(m, p, j) = Copy(l, p, j) BY <1>1 DEF Copy
  <2> QED BY <2>1, <2>2 DEF CopiesIn
<1> QED BY <1>1, <1>5, <1>6, <1>7, <1>8, <1>9, <1>10, <1>11 DEF Laid

\* Two logs that differ in status, key, index and sequence number only.
Alined(l, m) ==
    /\ Len(m) = Len(l)
    /\ \A j \in DOMAIN l : m[j].off = l[j].off /\ m[j].val = l[j].val

LEMMA AlinedPlaces ==
    ASSUME NEW l \in Seq(Items), NEW m \in Seq(Items), Alined(l, m)
    PROVE  /\ \A j \in 1 .. Len(l) + 1 : Place(m, j) = Place(l, j)
           /\ End(m) = End(l) /\ LogSize(m) = LogSize(l)
<1>1. Len(m) = Len(l) /\ DOMAIN m = DOMAIN l /\ DOMAIN l = 1 .. Len(l) /\ Len(l) \in Nat
  BY DEF Alined
<1>2. \A j \in DOMAIN l : Place(m, j) = Place(l, j) BY <1>1, Placed DEF Alined
<1>3. End(m) = End(l)
  <2>1. CASE l = <<>> BY <1>1, <2>1, Placed
  <2>2. CASE l # <<>>
    <3>1. m # <<>> /\ Len(l) \in DOMAIN l BY <1>1, <2>2
    <3> QED BY <1>1, <2>2, <3>1, Placed DEF Alined
  <2> QED BY <2>1, <2>2
<1>4. \A j \in 1 .. Len(l) + 1 : j \in DOMAIN l \/ j = Len(l) + 1 BY <1>1
<1>5. \A j \in 1 .. Len(l) + 1 : Place(m, j) = Place(l, j) BY <1>1, <1>2, <1>3, <1>4 DEF End
<1>6. [j \in DOMAIN m |-> Footprint(m[j].val)] = [j \in DOMAIN l |-> Footprint(l[j].val)]
  BY <1>1 DEF Alined
<1>7. LogSize(m) = LogSize(l) BY <1>1, <1>6 DEF LogSize
<1> QED BY <1>3, <1>5, <1>7

LEMMA LaidAlined ==
    ASSUME NEW l \in Seq(Items), NEW m \in Seq(Items), Laid(l), Alined(l, m), Keyed(m),
           \A j \in DOMAIN l : m[j].status = ItemWriting => l[j].status = ItemWriting
    PROVE  Laid(m)
<1>1. Len(m) = Len(l) /\ DOMAIN m = DOMAIN l /\ DOMAIN l = 1 .. Len(l) /\ Len(l) \in Nat
  BY DEF Alined
<1>2. OnlyLastTorn(m) BY <1>1 DEF Laid, OnlyLastTorn
<1>3. Contiguous(m)
  <2>1. Place(m, 1) = 0 BY <1>1, AlinedPlaces DEF Laid, Contiguous
  <2>2. ASSUME NEW j \in DOMAIN m PROVE Place(m, j + 1) = m[j].off + Footprint(m[j].val)
    <3>1. j + 1 \in 1 .. Len(l) + 1 BY <1>1
    <3>2. Place(m, j + 1) = Place(l, j + 1) BY <3>1, AlinedPlaces
    <3>3. Place(l, j + 1) = l[j].off + Footprint(l[j].val) BY <1>1 DEF Laid, Contiguous
    <3> QED BY <1>1, <3>2, <3>3 DEF Alined
  <2> QED BY <2>1, <2>2 DEF Contiguous
<1>4. Rising(m) BY <1>1, AlinedPlaces DEF Laid, Rising
<1> QED BY <1>2, <1>3, <1>4, AlinedPlaces DEF Laid

LEMMA Validates ==
    ASSUME NEW l \in Seq(Items), NEW off
    PROVE  /\ Validated(l, off) \in Seq(Items)
           /\ DOMAIN Validated(l, off) = DOMAIN l /\ Alined(l, Validated(l, off))
           /\ \A j \in DOMAIN l : l[j].off # off => Validated(l, off)[j] = l[j]
           /\ \A j \in DOMAIN l : l[j].off = off =>
                 Validated(l, off)[j] = [l[j] EXCEPT !.status = ItemValid]
<1>1. Validated(l, off) \in Seq(Items) /\ Len(Validated(l, off)) = Len(l) BY LogTypes
<1>2. DOMAIN Validated(l, off) = DOMAIN l BY DEF Validated
<1>3. \A j \in DOMAIN l : l[j] \in Items OBVIOUS
<1>4. \A j \in DOMAIN l : /\ l[j].off # off => Validated(l, off)[j] = l[j]
                          /\ l[j].off = off =>
                               Validated(l, off)[j] = [l[j] EXCEPT !.status = ItemValid]
  BY DEF Validated
<1>5. Alined(l, Validated(l, off)) BY <1>1, <1>3, <1>4 DEF Alined, Items
<1> QED BY <1>1, <1>2, <1>4, <1>5

LEMMA Discards ==
    ASSUME NEW l \in Seq(Items), NEW off
    PROVE  /\ Discarded(l, off) \in Seq(Items)
           /\ DOMAIN Discarded(l, off) = DOMAIN l /\ Alined(l, Discarded(l, off))
           /\ \A j \in DOMAIN l : l[j].off # off => Discarded(l, off)[j] = l[j]
           /\ \A j \in DOMAIN l : l[j].off = off => Discarded(l, off)[j].status = ItemDelete
<1>1. Discarded(l, off) \in Seq(Items) /\ Len(Discarded(l, off)) = Len(l) BY LogTypes
<1>2. DOMAIN Discarded(l, off) = DOMAIN l BY DEF Discarded
<1>3. \A j \in DOMAIN l : l[j] \in Items OBVIOUS
<1>4. \A j \in DOMAIN l : /\ l[j].off # off => Discarded(l, off)[j] = l[j]
                          /\ l[j].off = off =>
                               /\ Discarded(l, off)[j].status = ItemDelete
                               /\ Discarded(l, off)[j].off = l[j].off
                               /\ Discarded(l, off)[j].val = l[j].val
  BY <1>3 DEF Discarded, Items
<1>5. Alined(l, Discarded(l, off)) BY <1>1, <1>4 DEF Alined
<1> QED BY <1>1, <1>2, <1>4, <1>5

\* Every copy has an offset of its own in its log.
LEMMA OffsetsDiffer ==
    ASSUME NEW l \in Seq(Items), Laid(l)
    PROVE  \A i, j \in DOMAIN l : l[i].off = l[j].off => i = j
<1> SUFFICES ASSUME NEW i \in DOMAIN l, NEW j \in DOMAIN l, l[i].off = l[j].off, i # j
             PROVE  FALSE
  OBVIOUS
<1>1. i \in 1 .. Len(l) + 1 /\ j \in 1 .. Len(l) + 1 /\ i \in Nat /\ j \in Nat OBVIOUS
<1>2. Place(l, i) = l[i].off /\ Place(l, j) = l[j].off /\ l[i].off \in Int BY Placed
<1>3. i < j \/ j < i BY <1>1
<1> QED BY <1>1, <1>2, <1>3 DEF Laid, Rising

\* What lies before the next place: what lay before this one, and this item.
LEMMA NextPlace ==
    ASSUME NEW l \in Seq(Items), Laid(l), NEW j \in DOMAIN l
    PROVE  /\ j + 1 \in 1 .. Len(l) + 1 /\ Place(l, j) = l[j].off
           /\ Place(l, j + 1) = l[j].off + Footprint(l[j].val)
           /\ \A i \in DOMAIN l : l[i].off < Place(l, j + 1) <=> l[i].off < l[j].off \/ i = j
<1>1. /\ j + 1 \in 1 .. Len(l) + 1 /\ Place(l, j) = l[j].off /\ j \in Nat
      /\ Place(l, j + 1) = l[j].off + Footprint(l[j].val)
  BY Placed DEF Laid, Contiguous
<1> SUFFICES ASSUME NEW i \in DOMAIN l
             PROVE  l[i].off < Place(l, j + 1) <=> l[i].off < l[j].off \/ i = j
  BY <1>1
<1>2. i \in 1 .. Len(l) + 1 /\ j \in 1 .. Len(l) + 1 /\ i \in Nat OBVIOUS
<1>3. /\ Place(l, i) = l[i].off /\ l[i].off \in Int /\ l[j].off \in Int
      /\ Place(l, j + 1) \in Int
  BY <1>1, Placed
<1>4. l[j].off < Place(l, j + 1)
  <2>1. j < j + 1 BY <1>1
  <2> QED BY <1>1, <1>2, <2>1 DEF Laid, Rising
<1>5. CASE i < j
  BY <1>1, <1>2, <1>3, <1>4, <1>5 DEF Laid, Rising
<1>6. CASE i = j
  BY <1>4, <1>6
<1>7. CASE j + 1 <= i
  <2>1. CASE j + 1 = i BY <1>1, <1>3, <1>4, <2>1
  <2>2. CASE j + 1 < i
    <3>1. Place(l, j + 1) < Place(l, i) BY <1>1, <1>2, <2>2 DEF Laid, Rising
    <3> QED BY <1>1, <1>2, <1>3, <1>4, <2>2, <3>1
  <2> QED BY <1>1, <1>2, <1>7, <2>1, <2>2
<1> QED BY <1>1, <1>2, <1>5, <1>6, <1>7

\* Every item lies before the end, none before the beginning.
LEMMA WithinLog ==
    ASSUME NEW l \in Seq(Items), Laid(l)
    PROVE  /\ \A i \in DOMAIN l : l[i].off < End(l) /\ ~(l[i].off < 0)
           /\ End(l) >= 0 /\ (l # <<>> => End(l) > 0)
<1>1. /\ \A i \in DOMAIN l : i \in 1 .. Len(l) + 1 /\ i < Len(l) + 1 /\ (i = 1 \/ 1 < i)
      /\ Len(l) + 1 \in 1 .. Len(l) + 1 /\ 1 \in 1 .. Len(l) + 1
      /\ l # <<>> => 1 < Len(l) + 1
      /\ l = <<>> => 1 = Len(l) + 1
  OBVIOUS
<1>2. Place(l, 1) = 0 /\ End(l) \in Int BY Placed DEF Laid, Contiguous
<1>3. \A i \in DOMAIN l : l[i].off < End(l) BY <1>1, Placed DEF Laid, Rising, End
<1>4. \A i \in DOMAIN l : ~(l[i].off < 0)
  <2> TAKE i \in DOMAIN l
  <2>1. Place(l, i) = l[i].off /\ l[i].off \in Int BY Placed
  <2>2. CASE i = 1 BY <1>2, <2>1, <2>2
  <2>3. CASE 1 < i
    <3>1. Place(l, 1) < Place(l, i) BY <1>1, <2>3 DEF Laid, Rising
    <3> QED BY <1>2, <2>1, <3>1
  <2> QED BY <1>1, <2>2, <2>3
<1>5. l # <<>> => End(l) > 0
  <2> SUFFICES ASSUME l # <<>> PROVE End(l) > 0 OBVIOUS
  <2>1. Place(l, 1) < End(l) BY <1>1 DEF Laid, Rising, End
  <2> QED BY <1>2, <2>1
<1>6. l = <<>> => End(l) = 0 BY Placed
<1> QED BY <1>2, <1>3, <1>4, <1>5, <1>6

LEMMA CopyFields ==
    ASSUME NEW l \in Seq(Items), Laid(l), NEW p, NEW c \in CopiesIn(l, p)
    PROVE  /\ c.peb = p /\ c.off \in Int /\ c.key \in Keys /\ c.index \in Indexes
           /\ c.seq \in Nat \ {0} /\ c.val \in Values
           /\ \E j \in DOMAIN l : l[j].status = ItemValid /\ c = Copy(l, p, j)
<1>1. PICK j \in DOMAIN l : l[j].status = ItemValid /\ c = Copy(l, p, j) BY DEF CopiesIn
<1>2. l[j] \in Items OBVIOUS
<1>3. /\ l[j].off \in Int /\ l[j].index \in Indexes /\ l[j].seq \in Nat /\ l[j].val \in Values
  BY <1>2, ItemFields
<1>4. l[j].key \in Keys /\ l[j].seq # 0 BY <1>1 DEF Laid, Keyed, NoSeq
<1> QED BY <1>1, <1>3, <1>4 DEF Copy

LEMMA CopyUnique ==
    ASSUME NEW l \in Seq(Items), Laid(l), NEW p
    PROVE  \A c, d \in CopiesIn(l, p) : c.off = d.off => c = d
<1> SUFFICES ASSUME NEW c \in CopiesIn(l, p), NEW d \in CopiesIn(l, p), c.off = d.off
             PROVE  c = d
  OBVIOUS
<1>1. PICK i \in DOMAIN l : c = Copy(l, p, i) BY DEF CopiesIn
<1>2. PICK j \in DOMAIN l : d = Copy(l, p, j) BY DEF CopiesIn
<1>3. l[i].off = l[j].off BY <1>1, <1>2 DEF Copy
<1>4. i = j BY <1>3, OffsetsDiffer
<1> QED BY <1>1, <1>2, <1>4

LEMMA LaidValidated ==
    ASSUME NEW l \in Seq(Items), Laid(l), NEW k \in DOMAIN l,
           l[k].key \in Keys, l[k].seq # NoSeq, l[k].status = ItemWriting
    PROVE  /\ Laid(Validated(l, l[k].off)) /\ End(Validated(l, l[k].off)) = End(l)
           /\ ~Torn(Validated(l, l[k].off))
           /\ \A p : CopiesIn(Validated(l, l[k].off), p) = CopiesIn(l, p) \cup {Copy(l, p, k)}
<1> DEFINE m == Validated(l, l[k].off)
<1>1. /\ m \in Seq(Items) /\ DOMAIN m = DOMAIN l /\ Alined(l, m)
      /\ \A j \in DOMAIN l : l[j].off # l[k].off => m[j] = l[j]
      /\ \A j \in DOMAIN l : l[j].off = l[k].off => m[j] = [l[j] EXCEPT !.status = ItemValid]
  BY Validates
<1>2. \A j \in DOMAIN l : j # k => m[j] = l[j] BY <1>1, OffsetsDiffer
<1>3. /\ m[k].status = ItemValid /\ m[k].key = l[k].key /\ m[k].seq = l[k].seq
      /\ m[k].index = l[k].index /\ m[k].off = l[k].off /\ m[k].val = l[k].val
  <2>1. l[k] \in Items OBVIOUS
  <2> QED BY <1>1, <2>1 DEF Items
<1> HIDE DEF m
<1>4. Keyed(m) BY <1>1, <1>2, <1>3 DEF Laid, Keyed
<1>5. Laid(m) BY <1>1, <1>2, <1>3, <1>4, ItemCodes, LaidAlined
<1>6. ~Torn(m) BY <1>1, <1>2, <1>3, ItemCodes DEF Torn, Laid, OnlyLastTorn
<1>7. \A p : CopiesIn(m, p) = CopiesIn(l, p) \cup {Copy(l, p, k)}
  <2>1. {j \in DOMAIN m : m[j].status = ItemValid}
          = {j \in DOMAIN l : l[j].status = ItemValid} \cup {k}
    BY <1>1, <1>2, <1>3
  <2>2. \A p : \A j \in DOMAIN l : Copy(m, p, j) = Copy(l, p, j) BY <1>2, <1>3 DEF Copy
  <2> QED BY <2>1, <2>2 DEF CopiesIn
<1> QED BY <1>1, <1>5, <1>6, <1>7, AlinedPlaces DEF m

LEMMA LaidDiscarded ==
    ASSUME NEW l \in Seq(Items), Laid(l), NEW off
    PROVE  /\ Laid(Discarded(l, off)) /\ End(Discarded(l, off)) = End(l)
           /\ Torn(Discarded(l, off)) => Torn(l)
           /\ \A p : CopiesIn(Discarded(l, off), p) = {c \in CopiesIn(l, p) : c.off # off}
<1> DEFINE m == Discarded(l, off)
<1>1. /\ m \in Seq(Items) /\ DOMAIN m = DOMAIN l /\ Alined(l, m)
      /\ \A j \in DOMAIN l : l[j].off # off => m[j] = l[j]
      /\ \A j \in DOMAIN l : l[j].off = off => m[j].status = ItemDelete
  BY Discards
<1> HIDE DEF m
<1>4. Keyed(m) BY <1>1, ItemCodes DEF Laid, Keyed
<1>5. \A j \in DOMAIN l : m[j].status = ItemWriting => l[j].status = ItemWriting
  BY <1>1, ItemCodes
<1>6. Laid(m) BY <1>1, <1>4, <1>5, LaidAlined
<1>7. ASSUME NEW p PROVE CopiesIn(m, p) = {c \in CopiesIn(l, p) : c.off # off}
  <2>1. ASSUME NEW c \in CopiesIn(m, p) PROVE c \in CopiesIn(l, p) /\ c.off # off
    <3>1. PICK j \in DOMAIN m : m[j].status = ItemValid /\ c = Copy(m, p, j) BY DEF CopiesIn
    <3>2. l[j].off # off /\ m[j] = l[j] BY <1>1, <3>1, ItemCodes
    <3>3. c = Copy(l, p, j) /\ c.off # off BY <3>1, <3>2 DEF Copy
    <3> QED BY <1>1, <3>1, <3>2, <3>3 DEF CopiesIn
  <2>2. ASSUME NEW c \in CopiesIn(l, p), c.off # off PROVE c \in CopiesIn(m, p)
    <3>1. PICK j \in DOMAIN l : l[j].status = ItemValid /\ c = Copy(l, p, j) BY DEF CopiesIn
    <3>2. l[j].off # off BY <2>2, <3>1 DEF Copy
    <3>3. m[j] = l[j] BY <1>1, <3>2
    <3>4. c = Copy(m, p, j) BY <3>1, <3>3 DEF Copy
    <3> QED BY <1>1, <3>1, <3>3, <3>4 DEF CopiesIn
  <2> QED BY <2>1, <2>2
<1> QED BY <1>1, <1>5, <1>6, <1>7, AlinedPlaces DEF m, Torn

-----------------------------------------------------------------------------
(* The copies the flash stores, and what each write does to them. *)

LEMMA StoredMember ==
    ASSUME TypeOK, LogInv
    PROVE  \A c : c \in Stored <=> c.peb \in Pebs /\ c \in CopiesIn(log[c.peb], c.peb)
<1>1. ASSUME NEW c \in Stored PROVE c.peb \in Pebs /\ c \in CopiesIn(log[c.peb], c.peb)
  <2>1. PICK p \in Pebs : c \in CopiesIn(log[p], p) BY DEF Stored
  <2>2. c.peb = p BY <2>1, Shapes, CopyFields DEF LogInv
  <2> QED BY <2>1, <2>2
<1> QED BY <1>1 DEF Stored

LEMMA StoredFields ==
    ASSUME TypeOK, LogInv
    PROVE  /\ \A c \in Stored :
                 /\ c.peb \in Pebs /\ c.off \in Int /\ c.key \in Keys /\ c.index \in Indexes
                 /\ c.seq \in Nat \ {0} /\ c.val \in Values
           /\ \A c, d \in Stored : c.peb = d.peb /\ c.off = d.off => c = d
<1>1. ASSUME NEW c \in Stored
      PROVE  /\ c.peb \in Pebs /\ c.off \in Int /\ c.key \in Keys /\ c.index \in Indexes
             /\ c.seq \in Nat \ {0} /\ c.val \in Values
  <2>1. c.peb \in Pebs /\ c \in CopiesIn(log[c.peb], c.peb) BY StoredMember
  <2>2. log[c.peb] \in Seq(Items) /\ Laid(log[c.peb]) BY <2>1, Shapes DEF LogInv
  <2> QED BY <2>1, <2>2, CopyFields
<1>2. ASSUME NEW c \in Stored, NEW d \in Stored, c.peb = d.peb, c.off = d.off PROVE c = d
  <2>1. c.peb \in Pebs /\ c \in CopiesIn(log[c.peb], c.peb) /\ d \in CopiesIn(log[c.peb], c.peb)
    BY <1>2, StoredMember
  <2>2. log[c.peb] \in Seq(Items) /\ Laid(log[c.peb]) BY <2>1, Shapes DEF LogInv
  <2> QED BY <1>2, <2>1, <2>2, CopyUnique
<1> QED BY <1>1, <1>2

\* An item is added to a log, its status byte still blank.
LEMMA LogAppended ==
    ASSUME TypeOK, LogInv, NEW x \in Pebs, NEW item \in Items, Append1(x, item),
           item.status = ItemWriting, ~Torn(log[x]), item.off = End(log[x])
    PROVE  /\ LogInv' /\ Stored' = Stored
           /\ \A p \in Pebs \ {x} : log'[p] = log[p]
           /\ log'[x] = Append(log[x], item) /\ End(log'[x]) = End(log[x]) + Footprint(item.val)
<1>1. log[x] \in Seq(Items) /\ Laid(log[x]) BY Shapes DEF LogInv
<1>2. (\A p \in Pebs \ {x} : log'[p] = log[p]) /\ log'[x] = Append(log[x], item)
  BY Shapes DEF Append1
<1>3. /\ Laid(log'[x]) /\ End(log'[x]) = End(log[x]) + Footprint(item.val)
      /\ CopiesIn(log'[x], x) = CopiesIn(log[x], x)
  BY <1>1, <1>2, LaidAppend
<1>4. LogInv' BY <1>2, <1>3 DEF LogInv
<1>5. \A p \in Pebs : CopiesIn(log'[p], p) = CopiesIn(log[p], p) BY <1>2, <1>3
<1>6. Stored' = Stored BY <1>5 DEF Stored
<1> QED BY <1>2, <1>3, <1>4, <1>6

LEMMA LogValidated ==
    ASSUME TypeOK, LogInv, NEW x \in Pebs, NEW k \in DOMAIN log[x], Validate(x, log[x][k].off),
           log[x][k].key \in Keys, log[x][k].seq # NoSeq, log[x][k].status = ItemWriting
    PROVE  /\ LogInv' /\ Stored' = Stored \cup {Copy(log[x], x, k)}
           /\ hdr' = hdr /\ \A p \in Pebs \ {x} : log'[p] = log[p]
           /\ log'[x] = Validated(log[x], log[x][k].off)
           /\ End(log'[x]) = End(log[x]) /\ ~Torn(log'[x])
<1>1. log[x] \in Seq(Items) /\ Laid(log[x]) BY Shapes DEF LogInv
<1>2. /\ hdr' = hdr /\ \A p \in Pebs \ {x} : log'[p] = log[p]
      /\ log'[x] = Validated(log[x], log[x][k].off)
  BY Shapes DEF Validate
<1>3. /\ Laid(log'[x]) /\ End(log'[x]) = End(log[x]) /\ ~Torn(log'[x])
      /\ CopiesIn(log'[x], x) = CopiesIn(log[x], x) \cup {Copy(log[x], x, k)}
  BY <1>1, <1>2, LaidValidated
<1>4. LogInv' BY <1>2, <1>3 DEF LogInv
<1>5. \A p \in Pebs \ {x} : CopiesIn(log'[p], p) = CopiesIn(log[p], p) BY <1>2
<1>6. Stored' = Stored \cup {Copy(log[x], x, k)} BY <1>3, <1>5 DEF Stored
<1> QED BY <1>2, <1>3, <1>4, <1>6

LEMMA LogDiscarded ==
    ASSUME TypeOK, LogInv, NEW x \in Pebs, NEW off, Discard(x, off)
    PROVE  /\ LogInv' /\ Stored' = {c \in Stored : ~(c.peb = x /\ c.off = off)}
           /\ hdr' = hdr /\ \A p \in Pebs \ {x} : log'[p] = log[p]
           /\ log'[x] = Discarded(log[x], off)
           /\ End(log'[x]) = End(log[x]) /\ (Torn(log'[x]) => Torn(log[x]))
<1>1. log[x] \in Seq(Items) /\ Laid(log[x]) BY Shapes DEF LogInv
<1>2. /\ hdr' = hdr /\ \A p \in Pebs \ {x} : log'[p] = log[p]
      /\ log'[x] = Discarded(log[x], off)
  BY Shapes DEF Discard
<1>3. /\ Laid(log'[x]) /\ End(log'[x]) = End(log[x]) /\ (Torn(log'[x]) => Torn(log[x]))
      /\ CopiesIn(log'[x], x) = {c \in CopiesIn(log[x], x) : c.off # off}
  BY <1>1, <1>2, LaidDiscarded
<1>4. LogInv' BY <1>2, <1>3 DEF LogInv
<1>5. \A p \in Pebs \ {x} : CopiesIn(log'[p], p) = CopiesIn(log[p], p) BY <1>2
<1>6. \A p \in Pebs : \A c \in CopiesIn(log[p], p) : c.peb = p
  BY Shapes, CopyFields DEF LogInv
<1>7. \A p \in Pebs : CopiesIn(log'[p], p) = {c \in CopiesIn(log[p], p) : ~(c.peb = x /\ c.off = off)}
  BY <1>3, <1>5, <1>6
<1>8. Stored' = {c \in Stored : ~(c.peb = x /\ c.off = off)} BY <1>7 DEF Stored
<1> QED BY <1>2, <1>3, <1>4, <1>8

LEMMA LogErased ==
    ASSUME TypeOK, LogInv, NEW x \in Pebs, NEW n, EraseAndFormat(x, n)
    PROVE  /\ LogInv' /\ Stored' = {c \in Stored : c.peb # x}
           /\ \A p \in Pebs \ {x} : log'[p] = log[p]
           /\ log'[x] = <<>>
<1>1. (\A p \in Pebs \ {x} : log'[p] = log[p]) /\ log'[x] = <<>>
  BY Shapes DEF EraseAndFormat
<1>2. LogInv' BY <1>1, LaidEmpty DEF LogInv
<1>3. \A p \in Pebs : \A c \in CopiesIn(log[p], p) : c.peb = p
  BY Shapes, CopyFields DEF LogInv
<1>4. \A p \in Pebs : CopiesIn(log'[p], p) = {c \in CopiesIn(log[p], p) : c.peb # x}
  BY <1>1, <1>3, LaidEmpty
<1>5. Stored' = {c \in Stored : c.peb # x} BY <1>4 DEF Stored
<1> QED BY <1>1, <1>2, <1>5

LEMMA LogSame ==
    ASSUME LogInv, log' = log
    PROVE  LogInv' /\ Stored' = Stored
BY DEF LogInv, Stored

-----------------------------------------------------------------------------
(* Headers: what is written of a block before its items. *)
InUse == {PebActiving, PebTransfering, PebTransfered, PebActived, PebReclaiming}

\* A block in use has a complete header; one that is not started has no items.
Sound(h, l) ==
    /\ h.count = NoCount => h.status = PebVirgin
    /\ h.status \in {PebVirgin, PebEmpty} => h.reserved /\ l = <<>>
    /\ h.status \in InUse => ~h.reserved
HeadersSound == \A p \in Pebs : Sound(hdr[p], log[p])

\* The block being put back to the reserve has its counter.
Erased ==
    /\ pc = "peb_empty" => hdr[scan.peb].count # NoCount
    /\ pc = "empty" => hdr[Source].count # NoCount

\* RAM knows the space of a block: after the scan of the items has passed it.
FinalLabels == SettledLabels \cup WritingLabels \cup CollectLabels
Known(p) == pc \in FinalLabels \/ (pc = "item_scan" /\ p < scan.peb)
RoomInv ==
    /\ pc = "peb_count" => scan.peb = 0
    /\ \A p \in Pebs : Known(p) /\ info[p].reserved => info[p].free = Capacity
    /\ pc \in WritingLabels => ~info[w.peb].reserved

HeaderInv == HeadersSound /\ Erased /\ RoomInv

LEMMA FinalFacts ==
    /\ "item_scan" \notin FinalLabels /\ "off" \notin FinalLabels
    /\ "peb_scan" \notin FinalLabels /\ "peb_empty" \notin FinalLabels
    /\ "peb_count" \notin FinalLabels /\ "assert" \notin FinalLabels
    /\ SettledLabels \subseteq FinalLabels /\ WritingLabels \subseteq FinalLabels
    /\ CollectLabels \subseteq FinalLabels
BY DEF FinalLabels, SettledLabels, WritingLabels, CollectLabels

\* What the writes to a header do.
LEMMA HeaderWrites ==
    ASSUME TypeOK, NEW x \in Pebs
    PROVE  /\ \A s : SetPebStatus(x, s) =>
                 /\ log' = log /\ \A p \in Pebs \ {x} : hdr'[p] = hdr[p]
                 /\ hdr'[x].status = s /\ hdr'[x].count = hdr[x].count
                 /\ hdr'[x].reserved = hdr[x].reserved
           /\ Activate(x) =>
                 /\ log' = log /\ \A p \in Pebs \ {x} : hdr'[p] = hdr[p]
                 /\ hdr'[x].status = PebActiving /\ hdr'[x].count = hdr[x].count
                 /\ hdr'[x].reserved = FALSE
           /\ \A c : EraseAndFormat(x, c) =>
                 /\ \A p \in Pebs \ {x} : hdr'[p] = hdr[p] /\ log'[p] = log[p]
                 /\ hdr'[x].status = PebVirgin /\ hdr'[x].count = c /\ hdr'[x].reserved = TRUE
                 /\ log'[x] = <<>>
BY Shapes, Zenon DEF SetPebStatus, Activate, EraseAndFormat, Formatted, BlankHeader, Headers

LEMMA StatusRanges ==
    /\ PebVirgin \notin InUse /\ PebEmpty \notin InUse /\ PebErasing \notin InUse
    /\ PebActiving \in InUse /\ PebTransfering \in InUse /\ PebTransfered \in InUse
    /\ PebActived \in InUse /\ PebReclaiming \in InUse
BY StatusFacts DEF InUse

\* A step that sets the status of a block x.
LEMMA SoundMark ==
    ASSUME TypeOK, HeadersSound, NEW x \in Pebs, NEW s, SetPebStatus(x, s),
           \/ s \in InUse /\ hdr[x].status \in InUse
           \/ s = PebErasing /\ hdr[x].status # PebVirgin
           \/ s = PebEmpty /\ hdr[x].status = PebVirgin /\ hdr[x].count # NoCount
    PROVE  HeadersSound'
<1>1. \A p \in Pebs \ {x} : hdr'[p] = hdr[p] /\ log'[p] = log[p]
  BY HeaderWrites
<1>2. Sound(hdr[x], log[x]) BY DEF HeadersSound
<1>3. Sound(hdr'[x], log'[x])
  <2>1. /\ hdr'[x].status = s /\ hdr'[x].count = hdr[x].count
        /\ hdr'[x].reserved = hdr[x].reserved /\ log'[x] = log[x]
    BY HeaderWrites
  <2>2. CASE s \in InUse /\ hdr[x].status \in InUse
    BY <1>2, <2>1, <2>2, StatusRanges DEF Sound
  <2>3. CASE s = PebErasing /\ hdr[x].status # PebVirgin
    BY <1>2, <2>1, <2>3, StatusRanges, StatusFacts DEF Sound
  <2>4. CASE s = PebEmpty /\ hdr[x].status = PebVirgin /\ hdr[x].count # NoCount
    BY <1>2, <2>1, <2>4, StatusRanges DEF Sound
  <2> QED BY <2>2, <2>3, <2>4
<1> QED BY <1>1, <1>3 DEF HeadersSound

LEMMA SoundActivate ==
    ASSUME TypeOK, HeadersSound, NEW x \in Pebs, Activate(x),
           hdr[x].status \in InUse \cup {PebEmpty}
    PROVE  HeadersSound'
<1>1. \A p \in Pebs \ {x} : hdr'[p] = hdr[p] /\ log'[p] = log[p]
  BY HeaderWrites
<1>2. Sound(hdr[x], log[x]) BY DEF HeadersSound
<1>3. Sound(hdr'[x], log'[x])
  BY <1>2, HeaderWrites, StatusFacts, StatusRanges DEF Sound
<1> QED BY <1>1, <1>3 DEF HeadersSound

LEMMA SoundErase ==
    ASSUME TypeOK, HeadersSound, NEW x \in Pebs, NEW c, EraseAndFormat(x, c)
    PROVE  HeadersSound'
<1>1. \A p \in Pebs \ {x} : hdr'[p] = hdr[p] /\ log'[p] = log[p]
  BY HeaderWrites
<1>2. Sound(hdr[x], log[x]) BY DEF HeadersSound
<1>3. Sound(hdr'[x], log'[x])
  BY <1>2, HeaderWrites, StatusFacts, StatusRanges DEF Sound
<1> QED BY <1>1, <1>3 DEF HeadersSound

LEMMA SoundSame ==
    ASSUME HeadersSound, UNCHANGED flash
    PROVE  HeadersSound'
BY DEF HeadersSound, flash

\* Of items: only in a block in use is one added; an empty log stays empty.
LEMMA SoundAppend ==
    ASSUME TypeOK, HeadersSound, NEW x \in Pebs, NEW item, Append1(x, item),
           hdr[x].status \in InUse
    PROVE  HeadersSound'
BY Shapes, StatusRanges DEF HeadersSound, Sound, Append1

LEMMA EmptyStays ==
    ASSUME NEW off
    PROVE  Validated(<<>>, off) = <<>> /\ Discarded(<<>>, off) = <<>>
<1>1. <<>> \in Seq(Items) /\ Len(<<>>) = 0 OBVIOUS
<1>2. /\ Validated(<<>>, off) \in Seq(Items) /\ Len(Validated(<<>>, off)) = 0
      /\ Discarded(<<>>, off) \in Seq(Items) /\ Len(Discarded(<<>>, off)) = 0
  BY <1>1, LogTypes
<1> QED BY <1>2

LEMMA SoundItem ==
    ASSUME TypeOK, HeadersSound, NEW x \in Pebs, NEW off, Validate(x, off) \/ Discard(x, off)
    PROVE  HeadersSound'
<1>1. /\ hdr' = hdr /\ \A p \in Pebs \ {x} : log'[p] = log[p]
      /\ log'[x] = Validated(log[x], off) \/ log'[x] = Discarded(log[x], off)
  BY Shapes DEF Validate, Discard
<1> QED BY <1>1, EmptyStays DEF HeadersSound, Sound

\* Nothing is known of space before the scan of the items, or after an assert.
LEMMA RoomVoid ==
    ASSUME pc' \notin FinalLabels \cup {"item_scan", "peb_count"}
    PROVE  RoomInv'
BY FinalFacts DEF RoomInv, Known

LEMMA ErasedVoid ==
    ASSUME pc' \notin {"peb_empty", "empty"}
    PROVE  Erased'
BY DEF Erased

LEMMA BootNotFinal ==
    /\ {"off", "peb_scan", "peb_empty", "assert"} \cap (FinalLabels \cup {"item_scan", "peb_count"}) = {}
    /\ \A l \in FinalLabels : l \notin {"off", "peb_scan", "peb_empty", "peb_count", "item_scan", "assert"}
BY DEF FinalLabels, SettledLabels, WritingLabels, CollectLabels

LEMMA HeaderClassify ==
    ASSUME TypeOK, Located, BlockInv, HeaderInv, Classify
    PROVE  HeaderInv'
<1> USE DEF HeaderInv
<1>1. CASE ScanActiving
  <2>1. /\ pc' = "peb_empty" /\ scan' = scan /\ scan.peb \in Pebs
        /\ EraseAndFormat(scan.peb, Bump(hdr[scan.peb].count))
    BY <1>1, NextPebType DEF ScanActiving, Scanning
  <2>2. HeadersSound' BY <2>1, SoundErase
  <2>3. hdr'[scan.peb].count # NoCount
    <3>1. PICK x \in Pebs : x = scan.peb BY <2>1
    <3>2. hdr'[x].count = Bump(hdr[x].count) BY <2>1, <3>1, HeaderWrites
    <3>3. Bump(hdr[x].count) \in EraseCounts BY CountTypes
    <3> QED BY <3>1, <3>2, <3>3, CountTypes DEF EraseCounts
  <2>4. Erased' BY <2>1, <2>3 DEF Erased
  <2> QED BY <2>1, <2>2, <2>4, RoomVoid, BootNotFinal
<1>2. CASE ScanActivingEmpty
  <2>1. /\ pc' = "peb_scan" /\ SetPebStatus(scan.peb, PebEmpty) /\ scan.peb \in Pebs
        /\ hdr[scan.peb].count # NoCount /\ hdr[scan.peb].status = PebVirgin
    BY <1>2 DEF ScanActivingEmpty, Located, Erased, BlockInv, ScanInv, Status
  <2>2. HeadersSound' BY <2>1, SoundMark
  <2> QED BY <2>1, <2>2, RoomVoid, BootNotFinal, ErasedVoid
<1>3. CASE ScanTransfering \/ ScanTransfered \/ ScanReclaiming \/ ScanActived \/ ScanEmpty
  <2>1. UNCHANGED flash /\ pc' \in {"peb_scan", "assert"}
    BY <1>3 DEF ScanTransfering, ScanTransfered, ScanReclaiming, ScanActived, ScanEmpty,
                ScanKnown, Check
  <2>2. HeadersSound' BY <2>1, SoundSame
  <2> QED BY <2>1, <2>2, RoomVoid, BootNotFinal, ErasedVoid
<1>4. CASE ScanUnknown
  <2>1. pc' = "peb_scan" /\ EraseAndFormat(scan.peb, NoCount) /\ scan.peb \in Pebs
    BY <1>4, NextPebType DEF ScanUnknown, Scanning
  <2>2. HeadersSound' BY <2>1, SoundErase
  <2> QED BY <2>1, <2>2, RoomVoid, BootNotFinal, ErasedVoid
<1>5. CASE ScanMean
  <2>1. UNCHANGED flash /\ pc' = "peb_count" /\ scan'.peb = 0
    BY <1>5, LocalFields DEF ScanMean, Scans
  <2>2. HeadersSound' BY <2>1, SoundSame
  <2>3. RoomInv' BY <2>1, FinalFacts DEF RoomInv, Known
  <2> QED BY <2>1, <2>2, <2>3, ErasedVoid
<1>6. CASE FormatUnknown
  <2>1. pc = "peb_count" /\ pc' = "peb_count" /\ scan' = scan /\ Unknown # {}
    BY <1>6 DEF FormatUnknown
  <2>2. PICK x \in Unknown :
          hdr' = [hdr EXCEPT ![x].count = scan.mean, ![x].status = PebEmpty] /\ log' = log
    <3>1. Unknown \subseteq Nat BY PebFacts DEF Unknown
    <3>2. Lowest(Unknown) \in Unknown BY <2>1, <3>1, LowestMember
    <3> QED BY <1>6, <3>2 DEF FormatUnknown
  <2>3. x \in Pebs /\ info[x].count = NoCount BY <2>2 DEF Unknown
  <2>4. hdr[x].status \in {PebVirgin, PebEmpty}
    BY <2>1, <2>3 DEF BlockInv, ScanInv, Classified, Status
  <2>5. hdr[x].reserved /\ log[x] = <<>>
    BY <2>3, <2>4 DEF HeadersSound, Sound
  <2>6. /\ hdr'[x].status = PebEmpty /\ hdr'[x].count = scan.mean
        /\ hdr'[x].reserved = hdr[x].reserved
        /\ \A p \in Pebs \ {x} : hdr'[p] = hdr[p]
    BY <2>2, <2>3, Shapes DEF Headers
  <2>7. scan.mean # NoCount BY LocalFields, CountTypes DEF EraseCounts
  <2>8. Sound(hdr'[x], log'[x])
    BY <2>2, <2>5, <2>6, <2>7, StatusRanges DEF Sound
  <2>9. HeadersSound' BY <2>2, <2>6, <2>8 DEF HeadersSound
  <2>10. RoomInv' BY <2>1, FinalFacts DEF RoomInv, Known
  <2> QED BY <2>1, <2>9, <2>10, ErasedVoid
<1>7. CASE AllFormatted
  <2>1. UNCHANGED flash /\ pc = "peb_count" /\ pc' = "item_scan" /\ scan' = scan
    BY <1>7 DEF AllFormatted
  <2>2. HeadersSound' BY <2>1, SoundSame
  <2>3. scan'.peb = 0 BY <2>1 DEF RoomInv
  <2>4. \A p \in Pebs : ~(p < 0) BY PebFacts
  <2>5. RoomInv' BY <2>1, <2>3, <2>4, FinalFacts DEF RoomInv, Known
  <2> QED BY <2>1, <2>2, <2>5, ErasedVoid
<1> QED BY <1>1, <1>2, <1>3, <1>4, <1>5, <1>6, <1>7 DEF Classify

\* data_item_scan.
LEMMA HeaderScanLogs ==
    ASSUME TypeOK, Located, BlockInv, HeaderInv, ScanLogs
    PROVE  HeaderInv'
<1> USE DEF HeaderInv
<1>1. pc = "item_scan" /\ pc' \in {"item_scan", "assert"} BY LogsKeep
<1>2. Erased' BY <1>1, ErasedVoid
<1>3. scan.peb \in Pebs /\ scan.peb \in Nat
  BY NextPebType, LocalFields
     DEF ScanLogs, SkipPeb, ScanEndOfLog, ScanTornItem, ScanDeletedItem, ScanFirstCopy,
         ScanNewerCopy, ScanOlderCopy, ScanningValid, ScanningItems
<1>4. HeadersSound'
  <2>1. CASE UNCHANGED flash BY <2>1, SoundSame
  <2>2. CASE ScanNewerCopy
    <3>1. ScanningItems /\ HasItem BY <2>2 DEF ScanNewerCopy, ScanningValid
    <3>4. ScannedItem.index \in Indexes BY <3>1, ScannedType DEF ScanningItems
    <3>2. items[ScannedItem.index].peb \in Pebs BY <3>4, Fields
    <3>3. Discard(items[ScannedItem.index].peb, items[ScannedItem.index].off)
      BY <2>2 DEF ScanNewerCopy
    <3> QED BY <3>2, <3>3, SoundItem
  <2>3. CASE ScanOlderCopy
    <3>1. Discard(scan.peb, ScannedItem.off) BY <2>3 DEF ScanOlderCopy
    <3> QED BY <1>3, <3>1, SoundItem
  <2> QED
    BY <2>1, <2>2, <2>3
       DEF ScanLogs, SkipPeb, ScanEndOfLog, ScanTornItem, ScanDeletedItem, ScanFirstCopy,
           ScanNewerCopy, ScanOlderCopy, ScanningValid
<1>5. CASE pc' = "assert" BY <1>2, <1>4, <1>5, RoomVoid, BootNotFinal
<1>6. CASE pc' = "item_scan"
  <2>1. \A p \in Pebs : Known(p) => p # scan.peb
    BY <1>1, <1>3, FinalFacts DEF Known
  <2>2. \A p \in Pebs \ {scan.peb} : info'[p].free = info[p].free
    <3>1. CASE SkipPeb BY <1>3, <3>1, Shapes DEF SkipPeb, Infos
    <3>2. CASE ScanEndOfLog BY <1>3, <3>2, Shapes DEF ScanEndOfLog, Infos
    <3>3. CASE ScanTornItem BY <1>3, <3>3, Shapes DEF ScanTornItem, Infos
    <3>4. CASE ScanDeletedItem BY <1>3, <3>4, Shapes DEF ScanDeletedItem, Infos
    <3>5. CASE ScanFirstCopy BY <1>3, <3>5, Shapes DEF ScanFirstCopy, Infos
    <3>6. CASE ScanNewerCopy BY <1>3, <3>6, Shapes DEF ScanNewerCopy, Infos
    <3>7. CASE ScanOlderCopy BY <1>3, <3>7, Shapes DEF ScanOlderCopy, Infos
    <3> QED BY <3>1, <3>2, <3>3, <3>4, <3>5, <3>6, <3>7 DEF ScanLogs
  <2>3. \/ scan'.peb = scan.peb
        \/ /\ scan'.peb = scan.peb + 1
           /\ info[scan.peb].reserved => info'[scan.peb].free = Capacity
    <3>1. CASE SkipPeb
      <4>1. scan'.peb = scan.peb + 1 BY <3>1, LocalFields DEF SkipPeb, NextPeb, Scans
      <4>2. ~(Skipped(scan.peb) /\ info[scan.peb].reserved)
        <5>1. Classified(PebCount) BY <1>1 DEF BlockInv, ScanInv
        <5> QED BY <1>3, <5>1, StatusFacts, PebFacts
                DEF Skipped, Classified, Blocks, Status
      <4> QED BY <1>3, <3>1, <4>1, <4>2, Shapes DEF SkipPeb, Infos
    <3>2. CASE ScanEndOfLog \/ ScanTornItem
      BY <3>2, LocalFields DEF ScanEndOfLog, ScanTornItem, ScanningItems, NextPeb, Scans
    <3>3. CASE ScanDeletedItem BY <3>3, LocalFields DEF ScanDeletedItem, Scans
    <3>4. CASE ScanFirstCopy BY <3>4, LocalFields DEF ScanFirstCopy, Scans
    <3>5. CASE ScanNewerCopy BY <3>5, LocalFields DEF ScanNewerCopy, Scans
    <3>6. CASE ScanOlderCopy BY <3>6, LocalFields DEF ScanOlderCopy, Scans
    <3> QED BY <3>1, <3>2, <3>3, <3>4, <3>5, <3>6 DEF ScanLogs
  <2>4. \A p \in Pebs : info'[p].reserved <=> info[p].reserved
    BY LogsKeep DEF Quiet, ReservesNone
  <2>5. \A p \in Pebs : p < scan'.peb => p < scan.peb \/ (p = scan.peb /\ scan'.peb = scan.peb + 1)
    BY <1>3, <2>3, PebFacts
  <2>6. ~(scan.peb < scan.peb) /\ scan.peb # scan.peb + 1 BY <1>3
  <2>7. RoomInv'
    BY <1>1, <1>3, <1>6, <2>1, <2>2, <2>3, <2>4, <2>5, <2>6, FinalFacts DEF RoomInv, Known
  <2> QED BY <1>2, <1>4, <2>7
<1> QED BY <1>1, <1>5, <1>6

\* The steps that write nothing, and leave the tables in RAM alone.
Still ==
    \/ RecoverTransfering \/ RecoverTransfered \/ RecoverNothing \/ InitDone
    \/ GarbageCollect \/ RelocateEmpty \/ RelocateValid \/ SourceDone \/ SkipDeleted \/ Reclaimed
    \/ WriteRefused \/ WriteAccepted \/ AllocateTooMany \/ WriteDone \/ DeleteDone \/ Request
LEMMA StillFacts ==
    ASSUME TypeOK, Still
    PROVE  /\ UNCHANGED <<hdr, log, info, items, sum, wseq>>
           /\ pc \in (SettledLabels \cup CollectLabels) \/ ItemScanDone
           /\ pc' \in {"reclaim", "relocate", "init", "idle", "mark", "migrate", "alloc",
                       "actived", "write", "delete", "held", "assert"}
<1>1. CASE RecoverTransfering \/ RecoverTransfered \/ RecoverNothing
  BY <1>1 DEF RecoverTransfering, RecoverTransfered, RecoverNothing, Recovery, flash, ram, Check
<1>2. CASE InitDone \/ GarbageCollect \/ RelocateEmpty \/ RelocateValid
  BY <1>2 DEF InitDone, GarbageCollect, RelocateEmpty, RelocateValid, flash, ram,
              SettledLabels, CollectLabels
<1>3. CASE SourceDone \/ SkipDeleted
  BY <1>3 DEF SourceDone, SkipDeleted, Migrating, AtSource, flash, ram, CollectLabels
<1>4. CASE Reclaimed
  BY <1>4, LocalFields DEF Reclaimed, AfterSources, flash, ram, CollectLabels, Thens
<1>5. CASE WriteRefused \/ WriteAccepted \/ AllocateTooMany \/ WriteDone \/ DeleteDone
  BY <1>5 DEF WriteRefused, WriteAccepted, AllocateTooMany, WriteDone, DeleteDone, Return,
              Allocating, flash, ram, SettledLabels
<1>6. CASE Request
  BY <1>6 DEF Request, RequestWrite, RequestDelete, flash, ram, SettledLabels
<1> QED BY <1>1, <1>2, <1>3, <1>4, <1>5, <1>6 DEF Still

LEMMA RoomKept ==
    ASSUME TypeOK, RoomInv, info' = info, \A p \in Pebs : Known(p)' => Known(p),
           pc' # "peb_count", pc' \in WritingLabels => pc \in WritingLabels /\ w' = w
    PROVE  RoomInv'
BY DEF RoomInv

LEMMA KnownFinal ==
    /\ \A p : pc \in FinalLabels => Known(p)
    /\ \A p \in Pebs : ItemScanDone => Known(p)
BY PebFacts DEF Known, ItemScanDone

LEMMA HeaderStill ==
    ASSUME TypeOK, HeaderInv, Still
    PROVE  HeaderInv'
<1>1. UNCHANGED flash /\ info' = info /\ pc' \notin WritingLabels \cup {"peb_count", "empty", "peb_empty"}
  BY StillFacts DEF flash, WritingLabels
<1>2. \A p \in Pebs : Known(p) BY StillFacts, KnownFinal, FinalFacts
<1>3. HeadersSound' BY <1>1, SoundSame DEF HeaderInv
<1>4. Erased' BY <1>1, ErasedVoid
<1>5. RoomInv' BY <1>1, <1>2, RoomKept DEF HeaderInv
<1> QED BY <1>3, <1>4, <1>5 DEF HeaderInv

\* The steps that only set the status of one block.
Marking(x, s) ==
    /\ SetPebStatus(x, s) /\ UNCHANGED <<info, items, sum, wseq, scan, w, req>>
Marked ==
    \/ MarkReclaiming \/ StartTransfer \/ EndTransfer \/ Reclaim \/ TargetActived
    \/ PebActivedNow
LEMMA MarkedFacts ==
    ASSUME TypeOK, Located, BlockInv, Marked
    PROVE  \E x \in Pebs, s \in InUse \cup {PebErasing} :
              /\ Marking(x, s)
              /\ IF s = PebErasing THEN Status(x) # PebVirgin ELSE Status(x) \in InUse
              /\ pc \in CollectLabels \cup WritingLabels
              /\ pc' \in {"mark", "migrate", "reclaim", "erase", "init", "alloc", "written",
                          "delete_old"}
<1>1. CASE MarkReclaiming
  <2>1. Source \in Pebs /\ pc = "mark" /\ pc' = pc /\ gc.cur \in DOMAIN gc.src
    BY <1>1, SourceType DEF MarkReclaiming, AtSource
  <2>2. Status(Source) \in {PebActived, PebReclaiming}
    BY <2>1, SourcesType DEF BlockInv, MarkInv, Source
  <2> QED BY <1>1, <2>1, <2>2, StatusRanges
          DEF MarkReclaiming, Marking, ram, call, CollectLabels
<1>2. CASE StartTransfer
  <2>1. gc.dst \in Pebs /\ Status(gc.dst) = PebActiving
    BY <1>2 DEF StartTransfer, BlockInv, TransferInv
  <2> QED BY <1>2, <2>1, StatusRanges DEF StartTransfer, Marking, ram, call, CollectLabels
<1>3. CASE EndTransfer
  <2>1. gc.dst \in Pebs /\ Status(gc.dst) = PebTransfering
    BY <1>3, StatusFacts DEF EndTransfer, AfterSources, BlockInv, TransferInv
  <2> QED BY <1>3, <2>1, StatusRanges
          DEF EndTransfer, AfterSources, Marking, ram, call, CollectLabels
<1>4. CASE Reclaim
  <2>1. Source \in Pebs /\ pc = "reclaim" /\ pc' = "erase" /\ gc.cur \in DOMAIN gc.src
    BY <1>4, SourceType DEF Reclaim, AtSource
  <2>2. Status(Source) # PebVirgin
    <3>1. pc \in ReclaimLabels /\ Opened = {} BY <2>1 DEF ReclaimLabels, Opened
    <3>2. Source \in Sources BY <2>1, SourcesType DEF Source
    <3>3. CASE ~info[Source].reserved
      <4>1. Status(Source) \in {PebActived, PebReclaiming, PebTransfering}
        BY <3>1, <3>2, <3>3, Reclaiming
      <4> QED BY <4>1, StatusFacts
    <3>4. CASE info[Source].reserved
      BY <3>1, <3>2, <3>4, Reclaiming, StatusFacts
    <3> QED BY <3>3, <3>4
  <2> QED BY <1>4, <2>1, <2>2, StatusRanges DEF Reclaim, Marking, ram, call, CollectLabels
<1>5. CASE TargetActived
  <2>1. gc.dst \in Pebs /\ Status(gc.dst) = PebTransfered
    BY <1>5 DEF TargetActived, BlockInv, ActivedInv
  <2> QED BY <1>5, <2>1, StatusRanges
          DEF TargetActived, Caller, Marking, ram, call, CollectLabels
<1>6. CASE PebActivedNow
  <2>1. w.peb \in Pebs /\ Status(w.peb) = PebActiving
    BY <1>6 DEF PebActivedNow, BlockInv, CallInv, WritingLabels
  <2> QED BY <1>6, <2>1, StatusRanges
          DEF PebActivedNow, ItemCommitted, Marking, ram, call, WritingLabels
<1> QED BY <1>1, <1>2, <1>3, <1>4, <1>5, <1>6 DEF Marked

LEMMA HeaderMarked ==
    ASSUME TypeOK, Located, BlockInv, HeaderInv, Marked
    PROVE  HeaderInv'
<1>1. PICK x \in Pebs, s \in InUse \cup {PebErasing} :
              /\ Marking(x, s)
              /\ IF s = PebErasing THEN Status(x) # PebVirgin ELSE Status(x) \in InUse
              /\ pc \in CollectLabels \cup WritingLabels
              /\ pc' \in {"mark", "migrate", "reclaim", "erase", "init", "alloc", "written",
                          "delete_old"}
  BY MarkedFacts
<1>2. SetPebStatus(x, s) /\ info' = info BY <1>1 DEF Marking
<1>3. HeadersSound'
  BY <1>1, <1>2, SoundMark, StatusRanges DEF HeaderInv, Status
<1>4. Erased' BY <1>1, ErasedVoid
<1>5. pc' \notin WritingLabels \cup {"peb_count"} BY <1>1 DEF WritingLabels
<1>6. pc \in FinalLabels BY <1>1, FinalFacts
<1>7. RoomInv' BY <1>2, <1>5, <1>6, KnownFinal, RoomKept DEF HeaderInv
<1> QED BY <1>3, <1>4, <1>7 DEF HeaderInv

\* A block is taken from the reserve: the target of a transfer.
LEMMA HeaderPickTarget ==
    ASSUME TypeOK, Located, BlockInv, HeaderInv, PickTarget
    PROVE  HeaderInv'
<1>1. pc = "mark" /\ Reserved # {} /\ pc' = "transfering"
  BY DEF PickTarget, AfterSources, BlockInv, MarkInv, Check
<1>2. PICK x \in Reserved : x = Least(Reserved, EraseCount) BY <1>1, LeastReserved
<1>3. /\ Activate(x) /\ info' = [info EXCEPT ![x].reserved = FALSE] /\ x \in Pebs
      /\ info[x].reserved
  BY <1>1, <1>2 DEF PickTarget, Reserved
<1>4. Status(x) = PebEmpty
  <2>1. Apart(Sources) /\ NotReserved(Sources) BY <1>1 DEF BlockInv, MarkInv
  <2> QED BY <1>3, <2>1 DEF Apart, NotReserved
<1>5. HeadersSound' BY <1>3, <1>4, SoundActivate DEF HeaderInv, Status
<1>6. Erased' BY <1>1, ErasedVoid
<1>7. \A p \in Pebs : Known(p) BY <1>1, KnownFinal, FinalFacts DEF CollectLabels
<1>8. \A p \in Pebs : /\ info'[p].reserved => info[p].reserved
                      /\ info'[p].free = info[p].free
  BY <1>3, Shapes DEF Infos
<1>9. RoomInv' BY <1>1, <1>7, <1>8 DEF RoomInv, HeaderInv, WritingLabels
<1> QED BY <1>5, <1>6, <1>9 DEF HeaderInv

\* Items are written and their status is: no status of a block changes.
LEMMA HeaderItem ==
    ASSUME TypeOK, HeaderInv, NEW x \in Pebs,
           \/ \E item : Append1(x, item) /\ Status(x) \in InUse
           \/ \E off : Validate(x, off) \/ Discard(x, off),
           pc \in FinalLabels, pc' \in FinalLabels \cup {"assert"},
           pc' \notin {"empty", "peb_empty"},
           \A p \in Pebs : /\ info'[p].reserved <=> info[p].reserved
                           /\ info[p].reserved => info'[p].free = info[p].free,
           pc' \in WritingLabels => pc \in WritingLabels /\ w' = w /\ w.peb \in Pebs
    PROVE  HeaderInv'
<1>1. HeadersSound'
  BY SoundAppend, SoundItem DEF HeaderInv, Status
<1>2. Erased' BY ErasedVoid
<1>3. pc' # "peb_count" BY FinalFacts
<1>4. \A p \in Pebs : Known(p) BY KnownFinal
<1>5. RoomInv' BY <1>3, <1>4 DEF RoomInv, HeaderInv
<1> QED BY <1>1, <1>2, <1>5 DEF HeaderInv

\* An item of a source is copied to the target of the transfer.
LEMMA CopiedTo ==
    ASSUME TypeOK, Located, BlockInv, CopyItem \/ CommitCopy
    PROVE  /\ gc.dst \in Pebs /\ ~info[gc.dst].reserved /\ Status(gc.dst) = PebTransfering
           /\ pc \in {"migrate", "copied"} /\ pc' \in {"migrate", "copied", "assert"}
<1>1. pc \in {"migrate", "copied"} /\ pc' \in {"migrate", "copied", "assert"}
  BY DEF CopyItem, CommitCopy, Migrating, AtSource, Check
<1> QED BY <1>1, StatusFacts DEF BlockInv, TransferInv

\* The block of the item being written is in use.
LEMMA WrittenTo ==
    ASSUME TypeOK, Located, BlockInv, RoomInv, pc \in WritingLabels
    PROVE  /\ w.peb \in Pebs /\ ~info[w.peb].reserved
           /\ Status(w.peb) = IF w.fresh THEN PebActiving ELSE PebActived
           /\ Status(w.peb) \in InUse
<1>1. w.peb \in Pebs /\ ~info[w.peb].reserved BY DEF Located, RoomInv
<1>2. Status(w.peb) = IF w.fresh THEN PebActiving ELSE PebActived
  BY <1>1 DEF BlockInv, CallInv, Apart
<1> QED BY <1>1, <1>2, StatusRanges

\* The header of the item to be deleted.
LEMMA Deleting ==
    ASSUME TypeOK, DeleteItem
    PROVE  \E i \in Indexes :
              /\ i = Lowest(Found(req.keys)) /\ i \in Found(req.keys)
              /\ items[i].peb \in Pebs /\ Discard(items[i].peb, items[i].off)
              /\ info' = [info EXCEPT ![items[i].peb].dirty = @ + Footprint(items[i].size)]
              /\ items' = [items EXCEPT ![i] = NoItem]
              /\ vsize' = vsize - Footprint(items[i].size)
              /\ pc' = Check(/\ Writable(hdr[items[i].peb])
                             /\ vsize >= Footprint(items[i].size), "delete")
<1>1. Found(req.keys) # {} /\ Found(req.keys) \in SUBSET Indexes
  BY DEF DeleteItem, Found
<1>2. Lowest(Found(req.keys)) \in Found(req.keys)
  BY <1>1, LowestMember, ValueTypes
<1>3. Lowest(Found(req.keys)) \in Indexes BY <1>1, <1>2
<1>4. items[Lowest(Found(req.keys))].peb \in Pebs BY <1>3, Fields
<1> QED BY <1>2, <1>3, <1>4 DEF DeleteItem

Writes1 == CopyItem \/ CommitCopy \/ WriteItem \/ MarkValid \/ DeleteOld \/ DeleteItem
LEMMA HeaderWrites1 ==
    ASSUME TypeOK, Located, BlockInv, HeaderInv, Writes1
    PROVE  HeaderInv'
<1>0. {"migrate", "copied"} \cap WritingLabels = {} /\ {"migrate", "copied"} \subseteq FinalLabels
  BY DEF FinalLabels, CollectLabels, WritingLabels
<1>1. CASE CopyItem
  <2>1. gc.dst \in Pebs /\ Status(gc.dst) \in InUse BY <1>1, CopiedTo, StatusRanges
  <2>2. /\ \E item : Append1(gc.dst, item)
        /\ info' = info
    BY <1>1 DEF CopyItem
  <2> QED BY <1>0, <1>1, <2>1, <2>2, CopiedTo, HeaderItem, FinalFacts
<1>2. CASE CommitCopy
  <2>1. gc.dst \in Pebs /\ ~info[gc.dst].reserved BY <1>2, CopiedTo
  <2>2. Validate(gc.dst, gc.off) /\ pc' = "migrate" BY <1>2 DEF CommitCopy
  <2>3. \A p \in Pebs : /\ info'[p].reserved <=> info[p].reserved
                        /\ info[p].reserved => info'[p].free = info[p].free
    BY <1>2, <2>1, Shapes DEF CommitCopy, Infos
  <2> QED BY <1>0, <1>2, <2>1, <2>2, <2>3, CopiedTo, HeaderItem, FinalFacts
<1>3. CASE WriteItem
  <2>1. pc \in WritingLabels /\ pc' \in {"valid", "assert"} /\ w' = w /\ info' = info
    BY <1>3 DEF WriteItem, Check, WritingLabels, ram
  <2>2. w.peb \in Pebs /\ Status(w.peb) \in InUse BY <2>1, WrittenTo DEF HeaderInv
  <2>3. \E item : Append1(w.peb, item) BY <1>3 DEF WriteItem
  <2>4. "valid" \in FinalLabels BY FinalFacts DEF WritingLabels
  <2> QED BY <2>1, <2>2, <2>3, <2>4, HeaderItem, FinalFacts
<1>4. CASE MarkValid
  <2>1. /\ pc \in WritingLabels /\ pc' \in {"peb_actived", "written", "delete_old"}
        /\ w' = w /\ info' = info
    BY <1>4 DEF MarkValid, ItemCommitted, WritingLabels, ram
  <2>2. w.peb \in Pebs BY <2>1, WrittenTo DEF HeaderInv
  <2>3. Validate(w.peb, w.off) BY <1>4 DEF MarkValid
  <2>4. {"peb_actived", "written", "delete_old"} \subseteq FinalLabels
    BY FinalFacts DEF WritingLabels, SettledLabels
  <2> QED BY <2>1, <2>2, <2>3, <2>4, HeaderItem, FinalFacts
<1>5. CASE DeleteOld
  <2>1. pc = "delete_old" /\ pc' \in {"written", "assert"} /\ w.oldPeb \in Pebs
    BY <1>5 DEF DeleteOld, Check, Located
  <2>2. Discard(w.oldPeb, w.oldOff) BY <1>5 DEF DeleteOld
  <2>3. \A p \in Pebs : /\ info'[p].reserved <=> info[p].reserved
                        /\ info[p].reserved => info'[p].free = info[p].free
    BY <1>5, <2>1, Shapes DEF DeleteOld, Infos
  <2>4. {"written", "delete_old"} \subseteq FinalLabels /\ pc' \notin WritingLabels
    BY <2>1, FinalFacts DEF WritingLabels, SettledLabels
  <2> QED BY <2>1, <2>2, <2>3, <2>4, HeaderItem, FinalFacts
<1>6. CASE DeleteItem
  <2>1. pc = "delete" /\ pc' \in {"delete", "assert"} BY <1>6 DEF DeleteItem, Check
  <2>2. PICK i \in Indexes :
              /\ items[i].peb \in Pebs /\ Discard(items[i].peb, items[i].off)
              /\ info' = [info EXCEPT ![items[i].peb].dirty = @ + Footprint(items[i].size)]
    BY <1>6, Deleting
  <2>3. \A p \in Pebs : /\ info'[p].reserved <=> info[p].reserved
                        /\ info[p].reserved => info'[p].free = info[p].free
    BY <2>2, Shapes DEF Infos
  <2>4. "delete" \in FinalLabels /\ pc' \notin WritingLabels
    BY <2>1, FinalFacts DEF WritingLabels, SettledLabels
  <2> QED BY <2>1, <2>2, <2>3, <2>4, HeaderItem, FinalFacts
<1> QED BY <1>1, <1>2, <1>3, <1>4, <1>5, <1>6 DEF Writes1

\* A source goes back to the reserve.
LEMMA HeaderErase ==
    ASSUME TypeOK, Located, BlockInv, HeaderInv, Erase \/ MarkEmpty
    PROVE  HeaderInv'
<1>1. pc \in {"erase", "empty"} /\ gc.cur \in DOMAIN gc.src /\ Source \in Pebs
  BY SourceInDomain DEF Erase, MarkEmpty, Located
<1>2. PICK x \in Pebs : x = Source BY <1>1
<1>3. \A p \in Pebs : Known(p) BY <1>1, KnownFinal, FinalFacts DEF CollectLabels
<1>4. CASE Erase
  <2>1. /\ EraseAndFormat(x, Bump(info[x].count)) /\ gc' = gc /\ pc' = "empty"
        /\ info' = [info EXCEPT ![x].count = Bump(@)]
    BY <1>2, <1>4 DEF Erase
  <2>2. HeadersSound' BY <2>1, SoundErase DEF HeaderInv
  <2>3. hdr'[x].count # NoCount
    <3>1. hdr'[x].count = Bump(info[x].count) BY <2>1, HeaderWrites
    <3>2. Bump(info[x].count) \in EraseCounts BY CountTypes
    <3> QED BY <3>1, <3>2, CountTypes DEF EraseCounts
  <2>4. Erased' BY <1>2, <2>1, <2>3 DEF Erased, Source
  <2>5. \A p \in Pebs : /\ info'[p].reserved <=> info[p].reserved
                        /\ info'[p].free = info[p].free
    BY <2>1, Shapes DEF Infos
  <2>6. RoomInv' BY <1>3, <2>1, <2>5 DEF RoomInv, HeaderInv, WritingLabels
  <2> QED BY <2>2, <2>4, <2>6 DEF HeaderInv
<1>5. CASE MarkEmpty
  <2>1. /\ SetPebStatus(x, PebEmpty) /\ pc = "empty" /\ pc' = "reclaim"
        /\ info' = [info EXCEPT ![x].reserved = TRUE, ![x].dirty = 0, ![x].free = Capacity]
    BY <1>2, <1>5 DEF MarkEmpty
  <2>2. hdr[x].status = PebVirgin
    BY <1>2, <2>1 DEF BlockInv, ReclaimInv, ReclaimLabels, Status
  <2>3. hdr[x].count # NoCount BY <1>2, <2>1 DEF HeaderInv, Erased
  <2>4. HeadersSound' BY <2>1, <2>2, <2>3, SoundMark DEF HeaderInv
  <2>5. Erased' BY <2>1, ErasedVoid
  <2>6. \A p \in Pebs : info'[p].reserved => \/ info[p].reserved /\ info'[p].free = info[p].free
                                             \/ info'[p].free = Capacity
    BY <2>1, Shapes DEF Infos
  <2>7. RoomInv' BY <1>3, <2>1, <2>6 DEF RoomInv, HeaderInv, WritingLabels
  <2> QED BY <2>4, <2>5, <2>7 DEF HeaderInv
<1> QED BY <1>4, <1>5

LEMMA HeaderAllocate ==
    ASSUME TypeOK, Located, BlockInv, HeaderInv, Allocate
    PROVE  HeaderInv'
<1>1. PICK p \in Pebs : Allocated(p) BY Allocates
<1>2. Apart({}) /\ pc = "alloc" /\ pc' = "writing"
  BY DEF Allocate, Allocating, BlockInv, CallInv, SettledLabels
<1>3. w'.peb = p BY <1>1, LocalFields DEF Allocated, Writes
<1>4. \A q \in Pebs : Known(q) BY <1>2, KnownFinal, FinalFacts DEF SettledLabels
<1>5. Erased' BY <1>2, ErasedVoid
<1>6. HeadersSound'
  <2>1. CASE UNCHANGED flash BY <2>1, SoundSame DEF HeaderInv
  <2>2. CASE Activate(p)
    <3>1. hdr[p].status \in InUse \cup {PebEmpty} BY <1>2, StatusRanges DEF Apart, Status
    <3> QED BY <2>2, <3>1, SoundActivate DEF HeaderInv
  <2> QED BY <1>1, <2>1, <2>2 DEF Allocated
<1>7. info[p].reserved => info[p].free = Capacity BY <1>4 DEF HeaderInv, RoomInv
<1>8. /\ ~info'[p].reserved
      /\ \A q \in Pebs \ {p} : info'[q].reserved = info[q].reserved /\ info'[q].free = info[q].free
  BY <1>1, <1>7, Shapes, Fields DEF Allocated, Infos
<1>9. RoomInv'
  <2>1. \A q \in Pebs : info'[q].reserved => info'[q].free = Capacity
    BY <1>4, <1>8 DEF HeaderInv, RoomInv
  <2> QED BY <1>2, <1>3, <1>8, <2>1 DEF RoomInv
<1> QED BY <1>5, <1>6, <1>9 DEF HeaderInv

LEMMA HeaderPower ==
    ASSUME TypeOK, HeaderInv, PowerOn \/ PowerLoss
    PROVE  HeaderInv'
<1>1. UNCHANGED flash /\ pc' \in {"off", "peb_scan"} BY DEF PowerOn, PowerLoss
<1>2. HeadersSound' BY <1>1, SoundSame DEF HeaderInv
<1> QED BY <1>1, <1>2, RoomVoid, ErasedVoid, BootNotFinal DEF HeaderInv

LEMMA NextGroups ==
    ASSUME Next
    PROVE  \/ Classify \/ ScanLogs \/ Still \/ Marked \/ PickTarget \/ Writes1
           \/ Erase \/ MarkEmpty \/ Allocate \/ PowerOn \/ PowerLoss
BY DEF Next, Run, Boot, Recover, Collect, Transfer, ReclaimPebs, Write, Delete, Still, Marked,
       Writes1

LEMMA HeaderStep ==
    ASSUME TypeOK, Located, BlockInv, HeaderInv, [Next]_vars
    PROVE  HeaderInv'
<1>1. CASE Next
  BY <1>1, NextGroups, HeaderClassify, HeaderScanLogs, HeaderStill, HeaderMarked,
     HeaderPickTarget, HeaderWrites1, HeaderErase, HeaderAllocate, HeaderPower
<1>2. CASE UNCHANGED vars
  BY <1>2
     DEF vars, flash, ram, HeaderInv, HeadersSound, Erased, RoomInv, Known, Source
<1> QED BY <1>1, <1>2
=============================================================================
