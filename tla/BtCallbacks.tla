---------------------------- MODULE BtCallbacks ----------------------------
(***************************************************************************)
(* The Bluetooth callback manager (bt_callback_manager.c): the list of     *)
(* callbacks that are told of events, the one callback of each other type, *)
(* and the SDP records users add.  Nothing of it is locked, so each store  *)
(* is a step, in the order of the source; the two fields a loop tests are  *)
(* read together, and the callback is read again to be called.             *)
(***************************************************************************)
EXTENDS Naturals, FiniteSets

CONSTANTS
    Tasks, Bt,          \* Bt: the task of the stack, which calls the callbacks
    Callbacks, NoCallback,
    AppEvent, Types,    \* the type of event callbacks, and the other types
    Modules,
    KindOf, MaskOf,     \* the type and the modules a callback is registered for
    OwnerOf,            \* the task that registers a callback
    Leavers,            \* callbacks that are deregistered
    Cleanup,            \* users deregister after a registration that failed
    OneByOne,           \* the tasks agree to change the tables one after the other
    Slots,              \* BT_CALLBACK_MANAGER_APP_EVENT_CALLBACK_MAX: 25
    Records, NoRecord,
    MaxRecords          \* BT_CALLBACK_MANAGER_USER_RECORD_MAX: 10

ASSUME BtCallbacksAssumption ==
    /\ Bt \in Tasks /\ NoCallback \notin Callbacks /\ AppEvent \notin Types
    /\ KindOf \in [Callbacks -> Types \cup {AppEvent}]
    /\ MaskOf \in [Callbacks -> SUBSET Modules] /\ OwnerOf \in [Callbacks -> Tasks]
    /\ Leavers \subseteq Callbacks /\ Cleanup \in BOOLEAN /\ OneByOne \in BOOLEAN
    /\ Slots \in Nat /\ MaxRecords \in Nat /\ NoRecord \notin Records

VARIABLES
    slot,       \* app_event_callback_list
    node,       \* normal_callback_list
    records,    \* sdps_customized_record
    number,     \* customized_record_number
    pc, arg, idx, fld,  \* per task: its call's place, argument, slot and next field
    at,         \* the stack's place: none, check, call, user or test
    cur, mod,   \* the slot the dispatch is at and the module of the event
    asked, read,\* the type the stack asks for, and the callback read for it
    held,       \* ghost: registered, and not deregistered since
    due, got,   \* ghost: callbacks the event is for, and those called with it
    null,       \* ghost: a NULL callback was called
    added       \* ghost: records added with success

table == <<slot, node>>
sdp == <<records, number, added>>
op == <<pc, arg, idx, fld>>
stack == <<at, cur, mod, asked, read, got, null>>
vars == <<slot, node, records, number, pc, arg, idx, fld, at, cur, mod, asked, read,
          held, due, got, null, added>>

Init ==
    /\ slot = [i \in 1 .. Slots |-> [cb |-> NoCallback, use |-> FALSE, mask |-> {}]]
    /\ node = [y \in Types |-> [cb |-> NoCallback, use |-> FALSE]]
    /\ records = [i \in 1 .. MaxRecords |-> NoRecord] /\ number = 0
    /\ pc = [t \in Tasks |-> "idle"] /\ arg = [t \in Tasks |-> NoCallback]
    /\ idx = [t \in Tasks |-> 1] /\ fld = [t \in Tasks |-> 1]
    /\ at = "none" /\ cur = 1 /\ mod \in Modules /\ asked \in Types /\ read = NoCallback
    /\ held = {} /\ due = {} /\ got = {} /\ null = FALSE /\ added = {}

\* A task calls the manager when it runs no other call of it; the task of the
\* stack does so from inside a callback or between two events.
MayCall(t) ==
    /\ pc[t] = "idle" /\ (t = Bt => at \in {"none", "user"})
    /\ OneByOne => \A u \in Tasks : pc[u] = "idle"
BtRuns == pc[Bt] = "idle"

Go(t, l) == pc' = [pc EXCEPT ![t] = l]
StartAt(t, l, a) ==
    /\ Go(t, l) /\ arg' = [arg EXCEPT ![t] = a]
    /\ idx' = [idx EXCEPT ![t] = 1] /\ fld' = [fld EXCEPT ![t] = 1]
NextSlot(t, l) == Go(t, l) /\ idx' = [idx EXCEPT ![t] = @ + 1] /\ fld' = [fld EXCEPT ![t] = 1]

-----------------------------------------------------------------------------
(* bt_callback_manager_register_callback *)

Register(t, c) ==
    /\ MayCall(t) /\ OwnerOf[c] = t /\ c \notin held
    /\ StartAt(t, IF KindOf[c] = AppEvent THEN "find" ELSE "claim", c)
    /\ UNCHANGED <<table, sdp, stack, held, due>>

\* The first slot not in use is taken; with none left the call fails.
Find(t) ==
    /\ pc[t] = "find" /\ UNCHANGED <<table, sdp, stack, held, due, arg>>
    /\ \/ idx[t] > Slots /\ Go(t, "idle") /\ UNCHANGED <<idx, fld>>
       \/ idx[t] <= Slots /\ ~slot[idx[t]].use /\ Go(t, "fill") /\ UNCHANGED <<idx, fld>>
       \/ idx[t] <= Slots /\ slot[idx[t]].use /\ NextSlot(t, "find")

FillOrder == <<"cb", "use", "mask">>

\* Mutant: the module mask is not kept.
FilledNoMask(c) == [cb |-> c, use |-> TRUE, mask |-> {}]
Filled(c) == [cb |-> c, use |-> TRUE, mask |-> MaskOf[c]]

\* The fields of the slot are written one by one; with the last the call returns.
Fill(t) ==
    LET f == FillOrder[fld[t]] IN
    /\ pc[t] = "fill" /\ UNCHANGED <<node, sdp, stack, due, arg, idx>>
    /\ slot' = [slot EXCEPT ![idx[t]] = [@ EXCEPT ![f] = Filled(arg[t])[f]]]
    /\ fld' = [fld EXCEPT ![t] = IF @ = 3 THEN 1 ELSE @ + 1]
    /\ IF fld[t] = 3 THEN Go(t, "idle") /\ held' = held \cup {arg[t]}
                     ELSE UNCHANGED <<pc, held>>

\* A type other than event callbacks has one node, refused when it is in use.
Claim(t) ==
    /\ pc[t] = "claim" /\ UNCHANGED <<table, sdp, stack, held, due, arg, idx, fld>>
    /\ Go(t, IF node[KindOf[arg[t]]].use THEN "idle" ELSE "nodeCb")

NodeCb(t) ==
    /\ pc[t] = "nodeCb" /\ Go(t, "nodeUse")
    /\ node' = [node EXCEPT ![KindOf[arg[t]]].cb = arg[t]]
    /\ UNCHANGED <<slot, sdp, stack, held, due, arg, idx, fld>>

NodeUse(t) ==
    /\ pc[t] = "nodeUse" /\ Go(t, "idle") /\ held' = held \cup {arg[t]}
    /\ node' = [node EXCEPT ![KindOf[arg[t]]].use = TRUE]
    /\ UNCHANGED <<slot, sdp, stack, due, arg, idx, fld>>

-----------------------------------------------------------------------------
(* bt_callback_manager_deregister_callback *)

Deregister(t, c) ==
    /\ MayCall(t) /\ OwnerOf[c] = t /\ c \in Leavers /\ (c \in held \/ Cleanup)
    /\ StartAt(t, IF KindOf[c] = AppEvent THEN "match" ELSE "unclaim", c)
    /\ held' = held \ {c} /\ due' = due \ {c}
    /\ UNCHANGED <<table, sdp, stack>>

\* Every slot that holds the callback is emptied.
Match(t) ==
    /\ pc[t] = "match" /\ UNCHANGED <<table, sdp, stack, held, due, arg>>
    /\ \/ idx[t] > Slots /\ Go(t, "idle") /\ UNCHANGED <<idx, fld>>
       \/ /\ idx[t] <= Slots /\ slot[idx[t]].use /\ slot[idx[t]].cb = arg[t]
          /\ Go(t, "clear") /\ UNCHANGED <<idx, fld>>
       \/ /\ idx[t] <= Slots /\ ~(slot[idx[t]].use /\ slot[idx[t]].cb = arg[t])
          /\ NextSlot(t, "match")

\* Mutant: a slot whose callback is cleared stays in use.
ClearedInUse == [cb |-> NoCallback, use |-> TRUE, mask |-> Modules]
Cleared == [cb |-> NoCallback, use |-> FALSE, mask |-> {}]
ClearOrder == <<"cb", "use", "mask">>

Clear(t) ==
    LET f == ClearOrder[fld[t]] IN
    /\ pc[t] = "clear" /\ UNCHANGED <<node, sdp, stack, held, due, arg>>
    /\ slot' = [slot EXCEPT ![idx[t]] = [@ EXCEPT ![f] = Cleared[f]]]
    /\ IF fld[t] = 3 THEN NextSlot(t, "match")
                     ELSE fld' = [fld EXCEPT ![t] = @ + 1] /\ UNCHANGED <<pc, idx>>

\* The node of the type is emptied, whichever callback it holds.
Unclaim(t) ==
    /\ pc[t] = "unclaim" /\ UNCHANGED <<table, sdp, stack, held, due, arg, idx, fld>>
    /\ Go(t, IF node[KindOf[arg[t]]].use THEN "nodeNull" ELSE "idle")

NodeNull(t) ==
    /\ pc[t] = "nodeNull" /\ Go(t, "nodeFree")
    /\ node' = [node EXCEPT ![KindOf[arg[t]]].cb = NoCallback]
    /\ UNCHANGED <<slot, sdp, stack, held, due, arg, idx, fld>>

NodeFree(t) ==
    /\ pc[t] = "nodeFree" /\ Go(t, "idle")
    /\ node' = [node EXCEPT ![KindOf[arg[t]]].use = FALSE]
    /\ UNCHANGED <<slot, sdp, stack, held, due, arg, idx, fld>>

-----------------------------------------------------------------------------
(* bt_callback_manager_add_sdp_customized_record; the array is read by the *)
(* stack in place (bt_sdps_get_customized_record). *)

\* Mutant: one record too many.
RoomOffByOne == number <= MaxRecords
Room == number < MaxRecords

AddRecord(t, r) ==
    /\ MayCall(t) /\ ~\E u \in Tasks : arg[u] = r
    /\ IF Room /\ ~\E i \in 1 .. number : i <= MaxRecords /\ records[i] = r
       THEN StartAt(t, "store", r) ELSE UNCHANGED op
    /\ UNCHANGED <<table, sdp, stack, held, due>>

StoreRecord(t) ==
    /\ pc[t] = "store" /\ Go(t, "bump")
    /\ records' = [i \in 1 .. MaxRecords |-> IF i = number + 1 THEN arg[t] ELSE records[i]]
    /\ UNCHANGED <<table, number, added, stack, held, due, arg, idx, fld>>

Bump(t) ==
    /\ pc[t] = "bump" /\ Go(t, "idle") /\ number' = number + 1
    /\ added' = added \cup {arg[t]} /\ arg' = [arg EXCEPT ![t] = NoCallback]
    /\ UNCHANGED <<table, records, stack, held, due, idx, fld>>

-----------------------------------------------------------------------------
(* bt_app_event_callback: the stack tells of an event of module m. *)

Event(m) ==
    /\ BtRuns /\ at = "none" /\ at' = "check" /\ cur' = 1 /\ mod' = m
    /\ due' = {c \in held : KindOf[c] = AppEvent /\ m \in MaskOf[c]} /\ got' = {}
    /\ UNCHANGED <<table, sdp, op, held, asked, read, null>>

\* Mutant: the dispatch stops at the first slot not in use.
CheckStops ==
    /\ at = "check" /\ UNCHANGED <<table, sdp, op, held, due, mod, asked, read, got, null>>
    /\ \/ cur > Slots /\ at' = "none" /\ cur' = 1
       \/ cur <= Slots /\ ~slot[cur].use /\ at' = "none" /\ cur' = 1
       \/ cur <= Slots /\ slot[cur].use /\ mod \in slot[cur].mask /\ at' = "call" /\ cur' = cur
       \/ cur <= Slots /\ slot[cur].use /\ mod \notin slot[cur].mask /\ cur' = cur + 1 /\ at' = at
Check ==
    /\ at = "check" /\ UNCHANGED <<table, sdp, op, held, due, mod, asked, read, got, null>>
    /\ \/ cur > Slots /\ at' = "none" /\ cur' = 1
       \/ /\ cur <= Slots /\ slot[cur].use /\ mod \in slot[cur].mask
          /\ at' = "call" /\ cur' = cur
       \/ /\ cur <= Slots /\ ~(slot[cur].use /\ mod \in slot[cur].mask)
          /\ cur' = cur + 1 /\ at' = at

\* The callback is read from the slot once more to be called.
CallSlot ==
    /\ at = "call" /\ at' = "user"
    /\ got' = got \cup {slot[cur].cb} /\ null' = (null \/ slot[cur].cb = NoCallback)
    /\ UNCHANGED <<table, sdp, op, held, due, cur, mod, asked, read>>

\* Mutant: the same slot is looked at once more.
ReturnSame == at = "user" /\ BtRuns /\ at' = "check" /\ cur' = cur
              /\ UNCHANGED <<table, sdp, op, held, due, mod, asked, read, got, null>>
Return == at = "user" /\ BtRuns /\ at' = "check" /\ cur' = cur + 1
          /\ UNCHANGED <<table, sdp, op, held, due, mod, asked, read, got, null>>

-----------------------------------------------------------------------------
(* bt_gap_get_local_configuration and the other queries of the stack: the *)
(* callback is read before the node is known to be in use. *)

Ask(y) ==
    /\ BtRuns /\ at = "none" /\ at' = "test" /\ asked' = y /\ read' = node[y].cb
    /\ UNCHANGED <<table, sdp, op, held, due, cur, mod, got, null>>

\* The callback answers, or a default does (an assertion, for most types).
Answer ==
    /\ at = "test" /\ at' = "none" /\ read' = NoCallback
    /\ null' = (null \/ (node[asked].use /\ read = NoCallback))
    /\ UNCHANGED <<table, sdp, op, held, due, cur, mod, asked, got>>

-----------------------------------------------------------------------------
User(t) ==
    \/ \E c \in Callbacks : Register(t, c) \/ Deregister(t, c)
    \/ Find(t) \/ Fill(t) \/ Claim(t) \/ NodeCb(t) \/ NodeUse(t)
    \/ Match(t) \/ Clear(t) \/ Unclaim(t) \/ NodeNull(t) \/ NodeFree(t)
    \/ (\E r \in Records : AddRecord(t, r)) \/ StoreRecord(t) \/ Bump(t)

Stack ==
    \/ (\E m \in Modules : Event(m)) \/ Check \/ CallSlot \/ Return
    \/ (\E y \in Types : Ask(y)) \/ Answer

Next == Stack \/ \E t \in Tasks : User(t)

Spec == Init /\ [][Next]_vars

-----------------------------------------------------------------------------
\* The tables, the records, the calls in progress, the stack and the ghosts.
SlotType == [cb : Callbacks \cup {NoCallback}, use : BOOLEAN, mask : SUBSET Modules]
NodeType == [cb : Callbacks \cup {NoCallback}, use : BOOLEAN]
TableType == slot \in [1 .. Slots -> SlotType] /\ node \in [Types -> NodeType]

RecordType ==
    /\ records \in [1 .. MaxRecords -> Records \cup {NoRecord}] /\ number \in 0 .. MaxRecords
    /\ added \subseteq Records

Places == {"idle", "find", "fill", "claim", "nodeCb", "nodeUse", "match", "clear",
           "unclaim", "nodeNull", "nodeFree", "store", "bump"}
CallType ==
    /\ pc \in [Tasks -> Places] /\ arg \in [Tasks -> Callbacks \cup Records \cup {NoCallback}]
    /\ idx \in [Tasks -> 1 .. Slots + 1] /\ fld \in [Tasks -> 1 .. 3]

StackType ==
    /\ at \in {"none", "check", "call", "user", "test"}
    /\ cur \in 1 .. Slots + 1 /\ mod \in Modules /\ asked \in Types
    /\ read \in Callbacks \cup {NoCallback}
    /\ got \subseteq Callbacks \cup {NoCallback} /\ null \in BOOLEAN

TypeOK ==
    /\ TableType /\ RecordType /\ CallType /\ StackType
    /\ held \subseteq Callbacks /\ due \subseteq held

\* No NULL callback is called, by a dispatch or for a query
\* (bt_callback_manager.c:170-171, 182-186).
NoNullCall == ~null

\* A callback registered with success is in exactly one slot, with its mask, or
\* in the node of its type, until it is deregistered (bt_callback_manager.c:93-110).
Kept ==
    \A c \in held :
        IF KindOf[c] = AppEvent
        THEN /\ \E i \in 1 .. Slots : slot[i] = [cb |-> c, use |-> TRUE, mask |-> MaskOf[c]]
             /\ Cardinality({i \in 1 .. Slots : slot[i].use /\ slot[i].cb = c}) = 1
        ELSE node[KindOf[c]] = [cb |-> c, use |-> TRUE]

\* When a dispatch is over every callback the event is for, registered since it
\* began, was called (bt_callback_manager.c:169-173).
Delivered == at = "none" => due \subseteq got

\* A dispatch calls only callbacks that are registered, none of those the event is
\* for twice, even though callbacks come and go while it runs.
CalledOnce ==
    [][at = "call" /\ at' = "user" =>
           slot[cur].cb \in held /\ (slot[cur].cb \in due => slot[cur].cb \notin got)]_vars

\* While a callback of a type is registered the stack gets its answer, never the
\* default or the assertion (bt_callback_manager.c:185-189).
Answered ==
    [][at = "test" /\ at' = "none" /\ (\E c \in held : KindOf[c] = asked) =>
           node[asked].use /\ read \in held]_vars

\* The stack, which reads the array in place, finds every record added with
\* success and no hole (bt_callback_manager.c:355-378).
Recorded ==
    /\ \A r \in added : \E i \in 1 .. number : records[i] = r
    /\ \A i \in 1 .. number : records[i] # NoRecord
=============================================================================
