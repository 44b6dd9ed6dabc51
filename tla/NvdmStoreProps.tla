--------------------------- MODULE NvdmStoreProps ---------------------------
(***************************************************************************)
(* The correctness properties of the NVDM storage engine.                  *)
(***************************************************************************)
EXTENDS NvdmStore

\* Type of the whole state (peb_header_t, data_item_header_t, peb_info_t and
\* locals); AccountingExact says more of vsize.
Headers == [status : PebStatus, count : 0 .. NoCount, reserved : BOOLEAN]
Items == [status : ItemStatus, off : Int, key : Keys \cup {NoKey}, index : Indexes,
          seq : Nat, val : Values]
Labels == {"off", "peb_scan", "peb_empty", "peb_count", "item_scan", "init", "idle",
           "alloc", "relocate", "mark", "transfering", "migrate", "copied",
           "reclaim", "erase", "empty", "actived", "write", "held", "writing",
           "valid", "peb_actived", "delete_old", "written", "delete", "assert"}
Infos == [free : Int, dirty : Int, reserved : BOOLEAN, count : 0 .. NoCount]
ItemHeaders == [size : Values \cup {0}, peb : Pebs, off : Int, seq : Nat]
Scans == [peb : 0 .. PebCount, pos : Nat \ {0}, dirty : Int, valid : Int,
          abnormal : BOOLEAN, mean : EraseCounts, reclaiming : Seq(Pebs),
          transfering : Pebs \cup {NoPeb}, transfered : Pebs \cup {NoPeb}]
Gcs == [src : Seq(Pebs), cur : Nat \ {0}, pos : Nat \ {0}, dst : Pebs \cup {NoPeb}, off : Int,
        then : {"alloc", "init", "relocate", "actived"}]
Writes == [index : Indexes, append : BOOLEAN, peb : Pebs \cup {NoPeb}, off : Int,
           fresh : BOOLEAN, oldPeb : Pebs \cup {NoPeb}, oldOff : Int]
Statuses == {"NONE", "OK", "ERROR", "INSUFFICIENT_SPACE", "ITEM_NOT_FOUND"}
TypeOK ==
    /\ hdr \in [Pebs -> Headers] /\ log \in [Pebs -> Seq(Items)]
    /\ info \in [Pebs -> Infos] /\ items \in [Indexes -> ItemHeaders]
    /\ sum \in Int /\ wseq \in Nat
    /\ pc \in Labels /\ scan \in Scans /\ gc \in Gcs /\ w \in Writes
    /\ req \in WriteReq \cup DeleteReq \cup {NoReq}
    /\ deleted \in BOOLEAN /\ ret \in Statuses

-----------------------------------------------------------------------------
(* Durability. *)

\* Blocks whose items count: a transfer in progress does not replace its
\* sources, a completed one does.
Live(p) ==
    \/ hdr[p].status \in {PebActived, PebTransfered}
    \/ hdr[p].status = PebReclaiming /\ \A q \in Pebs : hdr[q].status # PebTransfered
Copies(k) ==
    UNION {{log[p][j] : j \in {i \in DOMAIN log[p] :
                /\ log[p][i].key = k /\ log[p][i].status = ItemValid}} :
           p \in {q \in Pebs : Live(q)}}

\* The value the next nvdm_init would recover for k, from flash alone.
Durable(k) ==
    IF Copies(k) = {} THEN Missing
    ELSE (CHOOSE c \in Copies(k) : \A d \in Copies(k) : d.seq <= c.seq).val

\* The engine implements the atomic, durable store of NvdmKv, power failures
\* between any two flash writes of writes, collections and recoveries included.
Kv == INSTANCE NvdmKv WITH
        kv <- [k \in Keys |-> Durable(k)],
        done <- deleted \/ pc \in {"delete_old", "written"}
KvSpec == Kv!Spec

\* nvdm_read_data_item: through the header in RAM.
Read(k) ==
    IF Found({k}) = {} THEN Missing ELSE items[Lowest(Found({k}))].size

\* After any history of calls, collections and power failures a read returns
\* what a restart would recover: the RAM index and the flash never disagree.
ReadsDurable == pc = "idle" => \A k \in Keys : Read(k) = Durable(k)

-----------------------------------------------------------------------------
(* Flash discipline. *)

LogSize(l) == SumOver(DOMAIN l, [j \in DOMAIN l |-> Footprint(l[j].val)])

\* A status byte is only ever programmed by clearing bits; only an erase sets them.
StatusOnlyClears ==
    [][\A p \in Pebs : \/ hdr'[p].status <= hdr[p].status
                       \/ hdr'[p].status = PebVirgin /\ log'[p] = <<>>]_vars

\* No error log of the recovery, collection, write or delete code is reached:
\* each of them asserts (nvdm_port.c:320-353).
NoAssert == pc # "assert"

-----------------------------------------------------------------------------
(* Space. *)

ValidBytes(p) ==
    SumOver({j \in DOMAIN log[p] : log[p][j].status = ItemValid},
            [j \in DOMAIN log[p] |-> Footprint(log[p][j].val)])

\* Between calls the accounting in RAM is exact: valid sizes per block and in
\* total, and a block's free pointer is the end of its log unless a torn write
\* closed the block.
AccountingExact ==
    pc = "idle" =>
        /\ \A p \in Pebs : ValidIn(p) = ValidBytes(p)
        /\ \A p \in Pebs : info[p].free \in {0, Capacity - LogSize(log[p])}
        /\ vsize = SumOver(Pebs, [p \in Pebs |-> ValidBytes(p)])

\* g_valid_data_size is the "current valid data size in all main pebs"
\* (nvdm_main.c:74) whenever a call has returned.
ValidSizeExact ==
    pc \in {"idle", "held"} => vsize = SumOver(Pebs, [p \in Pebs |-> ValidBytes(p)])

\* One block stays in reserve between calls and between collections, so that a
\* collection, or its restart after a power failure, always has a target.
ReserveKept == pc \in {"idle", "write", "alloc", "relocate"} => Reserved # {}

\* Collection state survives power failures: at most one transfer target, and
\* a running transfer always has its sources.
OneTarget ==
    LET targets == {p \in Pebs : hdr[p].status \in {PebTransfering, PebTransfered}}
    IN  /\ Cardinality(targets) <= 1
        /\ \A p \in targets : hdr[p].status = PebTransfering =>
              \E q \in Pebs : hdr[q].status = PebReclaiming

-----------------------------------------------------------------------------
(* Progress. *)

\* Every call returns and every nvdm_init ends, unless the power fails: no
\* collection or recovery goes round in circles.
Completes == (pc # "idle") ~> (pc \in {"idle", "off"})
=============================================================================
