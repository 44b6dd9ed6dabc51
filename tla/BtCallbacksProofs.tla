------------------------- MODULE BtCallbacksProofs -------------------------
(***************************************************************************)
(* Proofs about the callback manager, for any tasks, callbacks, slots and  *)
(* records, when its users keep to what Agreed says of them.               *)
(***************************************************************************)
EXTENDS BtCallbacks, FiniteSetTheorems, TLAPS

\* What the manager, which locks nothing, expects of its users: one of them at a
\* time is inside it, and who deregisters, or registers for a type with one
\* callback, runs in the task of the stack.
Agreed ==
    /\ OneByOne /\ ~Cleanup
    /\ \A c \in Leavers : OwnerOf[c] = Bt
    /\ \A c \in Callbacks : KindOf[c] # AppEvent => OwnerOf[c] = Bt

-----------------------------------------------------------------------------
(* The inductive invariant. *)

\* One call at a time is under way.
OneActive == \A t, u \in Tasks : pc[t] # "idle" /\ pc[u] # "idle" => t = u

\* The places of calls about slots, about nodes, and of deregistrations.
EventCall == {"find", "fill", "match", "clear"}
NodeCall == {"claim", "nodeCb", "nodeUse", "unclaim", "nodeNull", "nodeFree"}
Leaving == {"match", "clear", "unclaim", "nodeNull", "nodeFree"}

\* What a call works on, and who runs it.
CallShape(t) ==
    /\ pc[t] \in {"store", "bump"} => arg[t] \in Records /\ number < MaxRecords
    /\ pc[t] \in EventCall \cup NodeCall =>
          /\ arg[t] \in Callbacks /\ arg[t] \notin held
          /\ KindOf[arg[t]] = AppEvent <=> pc[t] \in EventCall
    /\ pc[t] \in NodeCall \cup Leaving => t = Bt
    /\ pc[t] \in {"fill", "clear"} => idx[t] <= Slots
    /\ pc[t] \in {"find", "match"} => fld[t] = 1

CallInv == \A t \in Tasks : CallShape(t)

\* A slot that is free, one that holds c, and one a call is half through with.
Free(s) == s.cb = NoCallback /\ ~s.use /\ s.mask = {}
Holds(s, c) == s.cb = c /\ s.use /\ s.mask = MaskOf[c]
Filling(t, s) ==
    s.cb = (IF fld[t] = 1 THEN NoCallback ELSE arg[t]) /\ (s.use <=> fld[t] = 3) /\ s.mask = {}
Clearing(t, s) ==
    s.cb = (IF fld[t] = 1 THEN arg[t] ELSE NoCallback) /\ (s.use <=> fld[t] # 3)
    /\ s.mask = MaskOf[arg[t]]

\* A slot at rest, one a call writes, and one a deregistration has not come to.
Settled(i) == Free(slot[i]) \/ \E c \in held : KindOf[c] = AppEvent /\ Holds(slot[i], c)
Worked(t, i) == pc[t] \in {"fill", "clear"} /\ idx[t] = i
Sought(t, i) == pc[t] = "match" /\ idx[t] <= i /\ Holds(slot[i], arg[t])

SlotShape(i) == Settled(i) \/ \E t \in Tasks : Worked(t, i) \/ Sought(t, i)

SlotOfCall ==
    \A t \in Tasks : /\ pc[t] = "fill" => Filling(t, slot[idx[t]])
                     /\ pc[t] = "clear" => Clearing(t, slot[idx[t]])

\* No callback is in two slots, and what is registered is in one.
OneSlotEach ==
    \A i, j \in 1 .. Slots : slot[i].cb = slot[j].cb /\ slot[i].cb # NoCallback => i = j

HeldInSlot == \A c \in held : KindOf[c] = AppEvent => \E i \in 1 .. Slots : Holds(slot[i], c)

SlotsInv == SlotOfCall /\ (\A i \in 1 .. Slots : SlotShape(i)) /\ OneSlotEach /\ HeldInSlot

\* The same of the node of a type.
NodeIs(n, c, u) == n.cb = c /\ (n.use <=> u)

NodeOfCall ==
    \A t \in Tasks :
        LET n == node[KindOf[arg[t]]] IN
        /\ pc[t] = "nodeCb" => NodeIs(n, NoCallback, FALSE)
        /\ pc[t] = "nodeUse" => NodeIs(n, arg[t], FALSE)
        /\ pc[t] \in {"unclaim", "nodeNull"} => NodeIs(n, arg[t], TRUE)
        /\ pc[t] = "nodeFree" => NodeIs(n, NoCallback, TRUE)

NodeShape(y) ==
    \/ NodeIs(node[y], NoCallback, FALSE)
    \/ \E c \in held : KindOf[c] = y /\ NodeIs(node[y], c, TRUE)
    \/ \E t \in Tasks : pc[t] \in NodeCall \ {"claim", "nodeCb"} /\ KindOf[arg[t]] = y

HeldInNode == \A c \in held : KindOf[c] # AppEvent => NodeIs(node[KindOf[c]], c, TRUE)

NodesInv == NodeOfCall /\ (\A y \in Types : NodeShape(y)) /\ HeldInNode

\* The dispatch has been at slot i.
Passed(i) == IF at = "user" THEN i <= cur ELSE i < cur

\* The callbacks the event is for were called if their slot was passed, and only then.
Progress ==
    at \in {"check", "call", "user"} =>
        \A c \in due : /\ KindOf[c] = AppEvent /\ mod \in MaskOf[c]
                       /\ \A i \in 1 .. Slots : slot[i].cb = c => (c \in got <=> Passed(i))

\* What the stack has seen and what it is about to use still hold.
StackInv ==
    /\ at \in {"check", "call", "test"} => pc[Bt] = "idle"
    /\ at \in {"call", "user"} => cur <= Slots
    /\ at = "call" => \E c \in held : Holds(slot[cur], c) /\ mod \in MaskOf[c]
    /\ at = "test" => (node[asked].use => read \in held)
    /\ at \in {"none", "test"} => due \subseteq got
    /\ Progress /\ NoNullCall

\* The record that is stored is the one to be counted.
RecordsInv == Recorded /\ \A t \in Tasks : pc[t] = "bump" => records[number + 1] = arg[t]

CallbacksInv == OneActive /\ CallInv /\ SlotsInv /\ NodesInv /\ StackInv /\ RecordsInv

-----------------------------------------------------------------------------
(* Types. *)

LEMMA TypeInit == Init => TypeOK
<1> SUFFICES ASSUME Init PROVE TypeOK
    OBVIOUS
<1>1. TableType /\ RecordType
    BY BtCallbacksAssumption DEF Init, TableType, SlotType, NodeType, RecordType
<1>2. CallType
    BY BtCallbacksAssumption DEF Init, CallType, Places
<1>3. StackType
  <2>1. null \in BOOLEAN
      BY Zenon DEF Init
  <2> QED BY <2>1, BtCallbacksAssumption DEF Init, StackType
<1> QED BY <1>1, <1>2, <1>3 DEF Init, TypeOK

\* Fill and Clear write the fields of a slot in the same order.
Field(n) == IF n = 1 THEN "cb" ELSE IF n = 2 THEN "use" ELSE "mask"

LEMMA Orders == ASSUME NEW n \in 1 .. 3 PROVE FillOrder[n] = Field(n) /\ ClearOrder[n] = Field(n)
<1>1. CASE n = 1
    BY <1>1 DEF FillOrder, ClearOrder, Field
<1>2. CASE n = 2
    BY <1>2 DEF FillOrder, ClearOrder, Field
<1>3. CASE n = 3
    BY <1>3 DEF FillOrder, ClearOrder, Field
<1> QED BY <1>1, <1>2, <1>3

\* Slot s with one field of r written.
Written(s, r, n) == [s EXCEPT ![Field(n)] = r[Field(n)]]

LEMMA WrittenParts ==
    ASSUME NEW s \in SlotType, NEW r \in SlotType, NEW n \in 1 .. 3
    PROVE  /\ Written(s, r, n) \in SlotType
           /\ Written(s, r, n).cb = (IF n = 1 THEN r.cb ELSE s.cb)
           /\ Written(s, r, n).use = (IF n = 2 THEN r.use ELSE s.use)
           /\ Written(s, r, n).mask = IF n = 3 THEN r.mask ELSE s.mask
<1> USE DEF Written
<1>1. CASE n = 1
  <2>1. Field(n) = "cb"
      BY <1>1 DEF Field
  <2> QED BY <1>1, <2>1 DEF SlotType
<1>2. CASE n = 2
  <2>1. Field(n) = "use"
      BY <1>2 DEF Field
  <2> QED BY <1>2, <2>1 DEF SlotType
<1>3. CASE n = 3
  <2>1. Field(n) = "mask"
      BY <1>3 DEF Field
  <2> QED BY <1>3, <2>1 DEF SlotType
<1> QED BY <1>1, <1>2, <1>3

\* A slot is filled, and cleared, field by field; no other slot changes.
LEMMA FillSlot ==
    ASSUME TypeOK, CallInv, SlotsInv, NEW t \in Tasks, Fill(t)
    PROVE  /\ idx[t] \in 1 .. Slots /\ arg[t] \in Callbacks
           /\ \A i \in 1 .. Slots \ {idx[t]} : slot'[i] = slot[i]
           /\ slot'[idx[t]].cb = arg[t] /\ (slot'[idx[t]].use <=> fld[t] > 1)
           /\ slot'[idx[t]].mask = IF fld[t] = 3 THEN MaskOf[arg[t]] ELSE {}
           /\ slot' \in [1 .. Slots -> SlotType]
<1> DEFINE i0 == idx[t]
           s == slot[i0]
           r == Filled(arg[t])
           w == Written(s, r, fld[t])
<1>1. pc[t] = "fill" /\ i0 \in 1 .. Slots /\ arg[t] \in Callbacks /\ fld[t] \in 1 .. 3
    BY DEF Fill, TypeOK, CallType, CallInv, CallShape, EventCall
<1>2. slot \in [1 .. Slots -> SlotType] /\ s \in SlotType /\ Filling(t, s)
    BY <1>1 DEF TypeOK, TableType, SlotsInv, SlotOfCall
<1>3. r \in SlotType /\ r.cb = arg[t] /\ r.use /\ r.mask = MaskOf[arg[t]]
    BY <1>1, BtCallbacksAssumption DEF Filled, SlotType
<1>4. slot' = [slot EXCEPT ![i0] = w]
    BY <1>1, <1>2, Orders DEF Fill, Written
<1> HIDE DEF r, s
<1>5. /\ w \in SlotType
      /\ w.cb = (IF fld[t] = 1 THEN r.cb ELSE s.cb) /\ w.use = (IF fld[t] = 2 THEN r.use ELSE s.use)
      /\ w.mask = IF fld[t] = 3 THEN r.mask ELSE s.mask
    BY <1>1, <1>2, <1>3, WrittenParts
<1> HIDE DEF w
<1>6. w.cb = arg[t] /\ (w.use <=> fld[t] > 1) /\ w.mask = IF fld[t] = 3 THEN MaskOf[arg[t]] ELSE {}
    BY <1>1, <1>2, <1>3, <1>5 DEF Filling
<1> HIDE DEF i0
<1>7. slot'[i0] = w /\ (\A i \in 1 .. Slots \ {i0} : slot'[i] = slot[i])
      /\ slot' \in [1 .. Slots -> SlotType]
    BY <1>1, <1>2, <1>4, <1>5
<1> QED BY <1>1, <1>6, <1>7 DEF i0

LEMMA ClearSlot ==
    ASSUME TypeOK, CallInv, SlotsInv, NEW t \in Tasks, Clear(t)
    PROVE  /\ idx[t] \in 1 .. Slots /\ arg[t] \in Callbacks
           /\ \A i \in 1 .. Slots \ {idx[t]} : slot'[i] = slot[i]
           /\ slot'[idx[t]].cb = NoCallback /\ (slot'[idx[t]].use <=> fld[t] = 1)
           /\ slot'[idx[t]].mask = IF fld[t] = 3 THEN {} ELSE MaskOf[arg[t]]
           /\ slot' \in [1 .. Slots -> SlotType]
<1> DEFINE i0 == idx[t]
           s == slot[i0]
           r == Cleared
           w == Written(s, r, fld[t])
<1>1. pc[t] = "clear" /\ i0 \in 1 .. Slots /\ arg[t] \in Callbacks /\ fld[t] \in 1 .. 3
    BY DEF Clear, TypeOK, CallType, CallInv, CallShape, EventCall
<1>2. slot \in [1 .. Slots -> SlotType] /\ s \in SlotType /\ Clearing(t, s)
    BY <1>1 DEF TypeOK, TableType, SlotsInv, SlotOfCall
<1>3. r \in SlotType /\ r.cb = NoCallback /\ ~r.use /\ r.mask = {}
    BY DEF Cleared, SlotType
<1>4. slot' = [slot EXCEPT ![i0] = w]
    BY <1>1, <1>2, Orders DEF Clear, Written
<1> HIDE DEF r, s
<1>5. /\ w \in SlotType
      /\ w.cb = (IF fld[t] = 1 THEN r.cb ELSE s.cb) /\ w.use = (IF fld[t] = 2 THEN r.use ELSE s.use)
      /\ w.mask = IF fld[t] = 3 THEN r.mask ELSE s.mask
    BY <1>1, <1>2, <1>3, WrittenParts
<1> HIDE DEF w
<1>6. /\ w.cb = NoCallback /\ (w.use <=> fld[t] = 1)
      /\ w.mask = IF fld[t] = 3 THEN {} ELSE MaskOf[arg[t]]
    BY <1>1, <1>2, <1>3, <1>5 DEF Clearing
<1> HIDE DEF i0
<1>7. slot'[i0] = w /\ (\A i \in 1 .. Slots \ {i0} : slot'[i] = slot[i])
      /\ slot' \in [1 .. Slots -> SlotType]
    BY <1>1, <1>2, <1>4, <1>5
<1> QED BY <1>1, <1>6, <1>7 DEF i0

\* The stack only reads the tables, and its own place is nobody else's to write.
LEMMA StackReads == Stack => UNCHANGED <<slot, node, records, number, added, pc, arg, idx, fld, held>>
BY DEF Stack, Event, Check, CallSlot, Return, Ask, Answer, table, sdp, op

LEMMA UserLeavesStack ==
    ASSUME NEW t \in Tasks, User(t)
    PROVE  UNCHANGED <<at, cur, mod, asked, read, got, null>>
<1>1. UNCHANGED stack
    BY DEF User, Register, Deregister, Find, Fill, Claim, NodeCb, NodeUse, Match, Clear, Unclaim,
           NodeNull, NodeFree, AddRecord, StoreRecord, Bump
<1> QED BY <1>1 DEF stack

LEMMA StackTypeStep == ASSUME TypeOK, StackInv, Stack PROVE StackType' /\ due' \subseteq held'
<1> DEFINE Rest == /\ at' \in {"none", "check", "call", "user", "test"}
                   /\ cur' \in 1 .. Slots + 1 /\ mod' \in Modules /\ asked' \in Types
                   /\ read' \in Callbacks \cup {NoCallback}
                   /\ got' \subseteq Callbacks \cup {NoCallback} /\ due' \subseteq held'
<1>1. null' \in BOOLEAN
  <2>1. null \in BOOLEAN
      BY DEF TypeOK, StackType
  <2> QED BY <2>1, Zenon DEF Stack, Event, Check, CallSlot, Return, Ask, Answer
<1>2. Rest
  <2> USE DEF TypeOK, StackType, TableType
  <2>1. ASSUME NEW m \in Modules, Event(m) PROVE Rest
      BY <2>1, BtCallbacksAssumption DEF Event
  <2>2. CASE Check
      BY <2>2, BtCallbacksAssumption DEF Check
  <2>3. CASE CallSlot
    <3>1. cur \in 1 .. Slots /\ slot[cur].cb \in Callbacks \cup {NoCallback}
        BY <2>3 DEF CallSlot, StackInv, SlotType
    <3> QED BY <2>3, <3>1 DEF CallSlot
  <2>4. CASE Return
      BY <2>4, BtCallbacksAssumption DEF Return, StackInv
  <2>5. ASSUME NEW y \in Types, Ask(y) PROVE Rest
      BY <2>5 DEF Ask, NodeType
  <2>6. CASE Answer
      BY <2>6 DEF Answer
  <2> QED BY <2>1, <2>2, <2>3, <2>4, <2>5, <2>6 DEF Stack
<1> QED BY <1>1, <1>2 DEF StackType

\* The field of the node a step writes, and the one it leaves.
LEMMA WriteNode ==
    ASSUME TypeOK, CallInv, NEW t \in Tasks, NodeCb(t) \/ NodeUse(t) \/ NodeNull(t) \/ NodeFree(t)
    PROVE  LET k == KindOf[arg[t]] IN
           /\ k \in Types /\ arg[t] \in Callbacks /\ node' \in [Types -> NodeType]
           /\ \A y \in Types \ {k} : node'[y] = node[y]
           /\ NodeCb(t) => node'[k].cb = arg[t] /\ node'[k].use = node[k].use
           /\ NodeUse(t) => node'[k].cb = node[k].cb /\ node'[k].use
           /\ NodeNull(t) => node'[k].cb = NoCallback /\ node'[k].use = node[k].use
           /\ NodeFree(t) => node'[k].cb = node[k].cb /\ ~node'[k].use
<1> DEFINE k == KindOf[arg[t]]
           n == node[k]
<1>1. pc[t] \in NodeCall
    BY DEF NodeCb, NodeUse, NodeNull, NodeFree, NodeCall
<1>2. k \in Types /\ arg[t] \in Callbacks
    BY <1>1, BtCallbacksAssumption DEF CallInv, CallShape, NodeCall, EventCall
<1>3. node \in [Types -> NodeType] /\ n \in NodeType
    BY <1>2 DEF TypeOK, TableType
<1>4. \A c \in Callbacks \cup {NoCallback} :
         /\ [n EXCEPT !.cb = c] \in NodeType /\ [n EXCEPT !.cb = c].cb = c
         /\ [n EXCEPT !.cb = c].use = n.use
    BY <1>3 DEF NodeType
<1>5. \A u \in BOOLEAN : /\ [n EXCEPT !.use = u] \in NodeType /\ [n EXCEPT !.use = u].cb = n.cb
                         /\ [n EXCEPT !.use = u].use = u
    BY <1>3 DEF NodeType
<1>6. ASSUME NEW c \in Callbacks \cup {NoCallback}, node' = [node EXCEPT ![k].cb = c]
      PROVE  /\ node' \in [Types -> NodeType] /\ \A y \in Types \ {k} : node'[y] = node[y]
             /\ node'[k].cb = c /\ node'[k].use = n.use
  <2>1. node' = [node EXCEPT ![k] = [n EXCEPT !.cb = c]]
      BY <1>2, <1>3, <1>6
  <2> HIDE DEF k, n
  <2> QED BY <1>2, <1>3, <1>4, <2>1
<1>7. ASSUME NEW u \in BOOLEAN, node' = [node EXCEPT ![k].use = u]
      PROVE  /\ node' \in [Types -> NodeType] /\ \A y \in Types \ {k} : node'[y] = node[y]
             /\ node'[k].cb = n.cb /\ node'[k].use = u
  <2>1. node' = [node EXCEPT ![k] = [n EXCEPT !.use = u]]
      BY <1>2, <1>3, <1>7
  <2> HIDE DEF k, n
  <2> QED BY <1>2, <1>3, <1>5, <2>1
<1>8. CASE NodeCb(t)
    BY <1>2, <1>6, <1>8 DEF NodeCb, NodeUse, NodeNull, NodeFree
<1>9. CASE NodeUse(t)
    BY <1>2, <1>7, <1>9 DEF NodeCb, NodeUse, NodeNull, NodeFree
<1>10. CASE NodeNull(t)
    BY <1>2, <1>6, <1>10 DEF NodeCb, NodeUse, NodeNull, NodeFree
<1>11. CASE NodeFree(t)
    BY <1>2, <1>7, <1>11 DEF NodeCb, NodeUse, NodeNull, NodeFree
<1> QED BY <1>8, <1>9, <1>10, <1>11

LEMMA UserTypeStep ==
    ASSUME TypeOK, CallInv, SlotsInv, NEW t \in Tasks, User(t)
    PROVE  TableType' /\ RecordType' /\ CallType' /\ held' \subseteq Callbacks /\ due' \subseteq held'
<1> DEFINE Goal == TableType' /\ RecordType' /\ CallType' /\ held' \subseteq Callbacks /\ due' \subseteq held'
<1> USE BtCallbacksAssumption DEF TypeOK
<1>1. ASSUME NEW c \in Callbacks, Register(t, c) \/ Deregister(t, c) PROVE Goal
  <2>1. CallType'
      BY <1>1 DEF Register, Deregister, StartAt, Go, CallType, Places
  <2> QED BY <1>1, <2>1 DEF Register, Deregister, table, sdp, TableType, RecordType
<1>2. ASSUME Find(t) \/ Match(t) PROVE Goal
  <2>1. CallType'
      BY <1>2 DEF Find, Match, NextSlot, Go, CallType, Places
  <2> QED BY <1>2, <2>1 DEF Find, Match, table, sdp, TableType, RecordType
<1>3. CASE Fill(t)
  <2>1. arg[t] \in Callbacks /\ slot' \in [1 .. Slots -> SlotType]
      BY <1>3, FillSlot
  <2>2. CallType'
      BY <1>3 DEF Fill, Go, CallType, Places
  <2> QED BY <1>3, <2>1, <2>2 DEF Fill, sdp, TableType, RecordType
<1>4. CASE Clear(t)
  <2>1. idx[t] \in 1 .. Slots /\ slot' \in [1 .. Slots -> SlotType]
      BY <1>4, ClearSlot
  <2>2. CallType'
    <3>1. CASE fld[t] = 3
      <4>1. /\ pc' = [pc EXCEPT ![t] = "match"] /\ arg' = arg
            /\ idx' = [idx EXCEPT ![t] = @ + 1] /\ fld' = [fld EXCEPT ![t] = 1]
          BY <1>4, <3>1 DEF Clear, NextSlot, Go
      <4> QED BY <2>1, <4>1 DEF CallType, Places
    <3>2. CASE fld[t] # 3
        BY <1>4, <3>2 DEF Clear, CallType
    <3> QED BY <3>1, <3>2
  <2> QED BY <1>4, <2>1, <2>2 DEF Clear, sdp, TableType, RecordType
<1>5. CASE Claim(t) \/ Unclaim(t)
  <2>1. CallType'
      BY <1>5 DEF Claim, Unclaim, Go, CallType, Places
  <2> QED BY <1>5, <2>1 DEF Claim, Unclaim, table, sdp, TableType, RecordType
<1>6. CASE NodeCb(t) \/ NodeUse(t) \/ NodeNull(t) \/ NodeFree(t)
  <2> USE DEF NodeCb, NodeUse, NodeNull, NodeFree
  <2>1. arg[t] \in Callbacks
      BY <1>6 DEF CallInv, CallShape, NodeCall
  <2>2. CallType'
      BY <1>6 DEF Go, CallType, Places
  <2>3. node' \in [Types -> NodeType]
      BY <1>6, WriteNode
  <2> QED BY <1>6, <2>1, <2>2, <2>3 DEF sdp, TableType, RecordType
<1>7. ASSUME NEW r \in Records, AddRecord(t, r) PROVE Goal
  <2>1. CallType'
      BY <1>7 DEF AddRecord, StartAt, Go, CallType, Places, op
  <2> QED BY <1>7, <2>1 DEF AddRecord, table, sdp, TableType, RecordType
<1>8. CASE StoreRecord(t) \/ Bump(t)
  <2> USE DEF StoreRecord, Bump
  <2>1. arg[t] \in Records /\ number < MaxRecords
      BY <1>8 DEF CallInv, CallShape
  <2>2. CallType'
      BY <1>8 DEF Go, CallType, Places
  <2>3. RecordType'
      BY <1>8, <2>1 DEF RecordType
  <2> QED BY <1>8, <2>2, <2>3 DEF table, TableType
<1> QED BY <1>1, <1>2, <1>3, <1>4, <1>5, <1>6, <1>7, <1>8 DEF User

LEMMA TypeStep == ASSUME TypeOK, CallInv, SlotsInv, StackInv, [Next]_vars PROVE TypeOK'
<1>1. CASE Stack
  <2>1. StackType' /\ due' \subseteq held'
      BY <1>1, StackTypeStep
  <2>2. UNCHANGED <<slot, node, records, number, added, pc, arg, idx, fld, held>>
      BY <1>1, StackReads
  <2> QED BY <2>1, <2>2 DEF TypeOK, TableType, RecordType, CallType
<1>2. ASSUME NEW t \in Tasks, User(t) PROVE TypeOK'
  <2>1. TableType' /\ RecordType' /\ CallType' /\ held' \subseteq Callbacks /\ due' \subseteq held'
      BY <1>2, UserTypeStep
  <2>2. UNCHANGED <<at, cur, mod, asked, read, got, null>>
      BY <1>2, UserLeavesStack
  <2> QED BY <2>1, <2>2 DEF TypeOK, StackType
<1>3. CASE UNCHANGED vars
    BY <1>3 DEF vars, TypeOK, TableType, RecordType, CallType, StackType
<1> QED BY <1>1, <1>2, <1>3 DEF Next

-----------------------------------------------------------------------------
(* The calls in progress and the records. *)

LEMMA Alone ==
    ASSUME Agreed, TypeOK, OneActive, NEW t \in Tasks, User(t)
    PROVE  /\ \A u \in Tasks \ {t} : pc[u] = "idle" /\ pc'[u] = "idle"
           /\ pc[t] = "idle" => MayCall(t)
<1>1. pc[t] = "idle" => MayCall(t)
    BY DEF User, Register, Deregister, Find, Fill, Claim, NodeCb, NodeUse, Match, Clear, Unclaim,
           NodeNull, NodeFree, AddRecord, StoreRecord, Bump
<1>2. (\E l \in Places : pc' = [pc EXCEPT ![t] = l]) \/ pc' = pc
    BY DEF User, Register, Deregister, Find, Fill, Claim, NodeCb, NodeUse, Match, Clear, Unclaim,
           NodeNull, NodeFree, AddRecord, StoreRecord, Bump, Go, StartAt, NextSlot, Places, op
<1>3. \A u \in Tasks \ {t} : pc[u] = "idle"
    BY <1>1 DEF Agreed, MayCall, OneActive
<1>4. \A u \in Tasks \ {t} : pc'[u] = pc[u]
    BY <1>2 DEF TypeOK, CallType
<1> QED BY <1>1, <1>3, <1>4

LEMMA CallStep ==
    ASSUME Agreed, TypeOK, OneActive, CallInv, NEW t \in Tasks, User(t)
    PROVE  OneActive' /\ CallInv'
<1> DEFINE Here == CallShape(t)'
<1>1. \A u \in Tasks \ {t} : pc'[u] = "idle"
    BY Alone
<1>2. ASSUME Here PROVE OneActive' /\ CallInv'
    BY <1>1, <1>2 DEF OneActive, CallInv, CallShape, EventCall, NodeCall, Leaving
<1>3. CallShape(t)
    BY DEF CallInv
<1> USE DEF TypeOK, CallType, Go
<1> HIDE DEF Here
<1> SUFFICES Here
    BY <1>2
<1>4. ASSUME NEW c \in Callbacks, Register(t, c) PROVE Here
  <2>1. /\ pc'[t] = (IF KindOf[c] = AppEvent THEN "find" ELSE "claim") /\ arg'[t] = c /\ fld'[t] = 1
        /\ c \notin held' /\ (KindOf[c] # AppEvent => t = Bt)
      BY <1>4 DEF Register, StartAt, Agreed
  <2> QED BY <2>1 DEF Here, CallShape, EventCall, NodeCall, Leaving
<1>5. ASSUME NEW c \in Callbacks, Deregister(t, c) PROVE Here
  <2>1. /\ pc'[t] = (IF KindOf[c] = AppEvent THEN "match" ELSE "unclaim") /\ arg'[t] = c /\ fld'[t] = 1
        /\ c \notin held' /\ t = Bt
      BY <1>5 DEF Deregister, StartAt, Agreed
  <2> QED BY <2>1 DEF Here, CallShape, EventCall, NodeCall, Leaving
<1>6. ASSUME pc'[t] = "idle" PROVE Here
    BY <1>6 DEF Here, CallShape, EventCall, NodeCall, Leaving
\* A step within a call of one kind.
<1>7. ASSUME arg'[t] = arg[t], held' = held, pc[t] \in {"find", "fill"}, pc'[t] \in {"find", "fill"},
             pc'[t] = "fill" => idx'[t] <= Slots, pc'[t] = "find" => fld'[t] = 1
      PROVE  Here
    BY <1>3, <1>7 DEF Here, CallShape, EventCall, NodeCall, Leaving
<1>8. ASSUME arg'[t] = arg[t], held' = held, pc[t] \in {"match", "clear"}, pc'[t] \in {"match", "clear"},
             pc'[t] = "clear" => idx'[t] <= Slots, pc'[t] = "match" => fld'[t] = 1
      PROVE  Here
    BY <1>3, <1>8 DEF Here, CallShape, EventCall, NodeCall, Leaving
<1>9. ASSUME arg'[t] = arg[t], held' = held, pc[t] \in NodeCall, pc'[t] \in NodeCall
      PROVE  Here
    BY <1>3, <1>9 DEF Here, CallShape, EventCall, NodeCall, Leaving
<1>10. CASE Find(t)
  <2>1. CASE pc' = [pc EXCEPT ![t] = "idle"]
      BY <1>6, <2>1
  <2>2. CASE idx[t] <= Slots /\ pc' = [pc EXCEPT ![t] = "fill"] /\ UNCHANGED <<idx, fld>>
      BY <1>7, <1>10, <2>2 DEF Find
  <2>3. CASE NextSlot(t, "find")
      BY <1>7, <1>10, <2>3 DEF Find, NextSlot
  <2> QED BY <1>10, <2>1, <2>2, <2>3 DEF Find
<1>11. CASE Fill(t)
  <2>1. CASE fld[t] = 3
      BY <1>6, <1>11, <2>1 DEF Fill
  <2>2. CASE fld[t] # 3
    <3>1. pc' = pc /\ held' = held /\ arg' = arg /\ idx' = idx /\ pc[t] = "fill"
        BY <1>11, <2>2 DEF Fill
    <3> QED BY <1>3, <1>7, <3>1 DEF CallShape
  <2> QED BY <2>1, <2>2
<1>12. CASE Claim(t) \/ Unclaim(t)
  <2>1. \/ pc'[t] = "idle"
        \/ pc[t] \in NodeCall /\ pc'[t] \in NodeCall /\ arg' = arg /\ held' = held
    <3>1. CASE Claim(t)
      <4>1. /\ pc[t] = "claim" /\ arg' = arg /\ held' = held
            /\ (pc' = [pc EXCEPT ![t] = "idle"]) \/ pc' = [pc EXCEPT ![t] = "nodeCb"]
          BY <3>1, Zenon DEF Claim
      <4> QED BY <4>1 DEF NodeCall
    <3>2. CASE Unclaim(t)
      <4>1. /\ pc[t] = "unclaim" /\ arg' = arg /\ held' = held
            /\ (pc' = [pc EXCEPT ![t] = "idle"]) \/ pc' = [pc EXCEPT ![t] = "nodeNull"]
          BY <3>2, Zenon DEF Unclaim
      <4> QED BY <4>1 DEF NodeCall
    <3> QED BY <1>12, <3>1, <3>2
  <2> QED BY <1>6, <1>9, <2>1
<1>13. CASE NodeCb(t) \/ NodeNull(t)
  <2>1. pc[t] \in NodeCall /\ pc'[t] \in NodeCall /\ arg' = arg /\ held' = held
      BY <1>13 DEF NodeCb, NodeNull, NodeCall
  <2> QED BY <1>9, <2>1
<1>14. CASE NodeUse(t) \/ NodeFree(t)
    BY <1>6, <1>14 DEF NodeUse, NodeFree
<1>15. CASE Match(t)
  <2>1. CASE pc' = [pc EXCEPT ![t] = "idle"]
      BY <1>6, <2>1
  <2>2. CASE idx[t] <= Slots /\ pc' = [pc EXCEPT ![t] = "clear"] /\ UNCHANGED <<idx, fld>>
      BY <1>8, <1>15, <2>2 DEF Match
  <2>3. CASE NextSlot(t, "match")
      BY <1>8, <1>15, <2>3 DEF Match, NextSlot
  <2> QED BY <1>15, <2>1, <2>2, <2>3 DEF Match
<1>16. CASE Clear(t)
  <2>1. CASE fld[t] = 3
      BY <1>8, <1>16, <2>1 DEF Clear, NextSlot
  <2>2. CASE fld[t] # 3
    <3>1. pc' = pc /\ held' = held /\ arg' = arg /\ idx' = idx /\ pc[t] = "clear"
        BY <1>16, <2>2 DEF Clear
    <3> QED BY <1>3, <1>8, <3>1 DEF CallShape
  <2> QED BY <2>1, <2>2
<1>17. ASSUME NEW r \in Records, AddRecord(t, r) PROVE Here
  <2>1. CASE UNCHANGED op
      BY <1>6, <1>17, <2>1 DEF AddRecord, MayCall, op
  <2>2. CASE Room /\ StartAt(t, "store", r)
    <3>1. pc'[t] = "store" /\ arg'[t] = r /\ number' < MaxRecords
        BY <1>17, <2>2 DEF AddRecord, StartAt, Room, sdp
    <3> QED BY <3>1 DEF Here, CallShape, EventCall, NodeCall, Leaving
  <2> QED BY <1>17, <2>1, <2>2 DEF AddRecord
<1>18. CASE StoreRecord(t)
  <2>1. pc[t] = "store" /\ pc'[t] = "bump" /\ arg' = arg /\ number' = number
      BY <1>18 DEF StoreRecord
  <2> QED BY <1>3, <2>1 DEF Here, CallShape, EventCall, NodeCall, Leaving
<1>19. CASE Bump(t)
    BY <1>6, <1>19 DEF Bump
<1> QED BY <1>4, <1>5, <1>10, <1>11, <1>12, <1>13, <1>14, <1>15, <1>16, <1>17, <1>18, <1>19 DEF User

LEMMA RecordsStep ==
    ASSUME Agreed, TypeOK, OneActive, CallInv, RecordsInv, NEW t \in Tasks, User(t)
    PROVE  RecordsInv'
<1> USE DEF RecordsInv, TypeOK, RecordType, CallType
<1>1. \A u \in Tasks \ {t} : pc'[u] = "idle"
    BY Alone
<1>2. CASE StoreRecord(t)
  <2>1. arg[t] \in Records /\ number + 1 \in 1 .. MaxRecords
      BY <1>2, BtCallbacksAssumption DEF StoreRecord, CallInv, CallShape
  <2>2. /\ \A i \in 1 .. number : records'[i] = records[i]
        /\ records'[number + 1] = arg[t]
    <3>1. records' = [i \in 1 .. MaxRecords |-> IF i = number + 1 THEN arg[t] ELSE records[i]]
        BY <1>2 DEF StoreRecord
    <3>2. \A i \in 1 .. number : i \in 1 .. MaxRecords /\ i # number + 1
        BY <2>1, BtCallbacksAssumption
    <3> QED BY <2>1, <3>1, <3>2
  <2>3. number' = number /\ added' = added /\ arg' = arg
      BY <1>2 DEF StoreRecord
  <2>4. Recorded'
      BY <2>2, <2>3 DEF Recorded
  <2> QED BY <1>1, <2>2, <2>3, <2>4
<1>3. CASE Bump(t)
  <2>1. arg[t] \in Records /\ records[number + 1] = arg[t]
      BY <1>3 DEF Bump, CallInv, CallShape
  <2>2. pc'[t] = "idle" /\ records' = records /\ number' = number + 1 /\ added' = added \cup {arg[t]}
      BY <1>3 DEF Bump, Go
  <2>3. Recorded'
    <3>1. ASSUME NEW r \in added' PROVE \E i \in 1 .. number' : records'[i] = r
      <4>1. CASE r = arg[t]
          BY <2>1, <2>2, <4>1
      <4>2. CASE r \in added
          BY <2>2, <4>2 DEF Recorded
      <4> QED BY <2>2, <3>1, <4>1, <4>2
    <3>2. \A i \in 1 .. number' : records'[i] # NoRecord
      <4>1. \A i \in 1 .. number + 1 : i \in 1 .. number \/ i = number + 1
          OBVIOUS
      <4>2. NoRecord # arg[t]
          BY <2>1, BtCallbacksAssumption
      <4> QED BY <2>1, <2>2, <4>1, <4>2 DEF Recorded
    <3> QED BY <3>1, <3>2 DEF Recorded
  <2> QED BY <1>1, <2>2, <2>3
<1>4. ASSUME UNCHANGED <<records, number, added>>, pc'[t] # "bump" PROVE RecordsInv'
    BY <1>1, <1>4 DEF Recorded
<1>5. \/ UNCHANGED <<records, number, added>> /\ pc'[t] # "bump"
      \/ StoreRecord(t) \/ Bump(t)
  <2> USE DEF sdp, Go
  <2>1. CASE \E c \in Callbacks : Register(t, c) \/ Deregister(t, c)
      BY <2>1 DEF Register, Deregister, StartAt
  <2>2. CASE Find(t) \/ Match(t)
      BY <2>2 DEF Find, Match, NextSlot
  <2>3. CASE Fill(t) \/ Clear(t)
      BY <2>3 DEF Fill, Clear, NextSlot
  <2>4. CASE Claim(t) \/ NodeCb(t) \/ NodeUse(t) \/ Unclaim(t) \/ NodeNull(t) \/ NodeFree(t)
      BY <2>4 DEF Claim, NodeCb, NodeUse, Unclaim, NodeNull, NodeFree
  <2>5. CASE \E r \in Records : AddRecord(t, r)
      BY <2>5 DEF AddRecord, MayCall, StartAt, op
  <2> QED BY <2>1, <2>2, <2>3, <2>4, <2>5 DEF User
<1> QED BY <1>2, <1>3, <1>4, <1>5

-----------------------------------------------------------------------------
(* The slots of the event callbacks. *)

\* What the steps of task t have to keep, the others being idle.
SlotsOf(t) ==
    /\ pc[t] = "fill" => Filling(t, slot[idx[t]])
    /\ pc[t] = "clear" => Clearing(t, slot[idx[t]])
    /\ \A i \in 1 .. Slots : Settled(i) \/ Worked(t, i) \/ Sought(t, i)
    /\ OneSlotEach /\ HeldInSlot

LEMMA SlotsOfOne ==
    ASSUME NEW t \in Tasks, \A u \in Tasks \ {t} : pc[u] = "idle"
    PROVE  SlotsInv <=> SlotsOf(t)
<1>1. SlotOfCall <=> /\ pc[t] = "fill" => Filling(t, slot[idx[t]])
                     /\ pc[t] = "clear" => Clearing(t, slot[idx[t]])
    BY DEF SlotOfCall
<1>2. ASSUME NEW i \in 1 .. Slots PROVE SlotShape(i) <=> Settled(i) \/ Worked(t, i) \/ Sought(t, i)
    BY DEF SlotShape, Worked, Sought
<1> QED BY <1>1, <1>2 DEF SlotsInv, SlotsOf

\* The same one step later.
LEMMA SlotsOfOneNext ==
    ASSUME NEW t \in Tasks, \A u \in Tasks \ {t} : pc'[u] = "idle", SlotsOf(t)'
    PROVE  SlotsInv'
<1>1. SlotOfCall'
    BY DEF SlotOfCall, SlotsOf
<1>2. ASSUME NEW i \in 1 .. Slots PROVE SlotShape(i)'
    BY DEF SlotShape, SlotsOf
<1> QED BY <1>1, <1>2 DEF SlotsInv, SlotsOf

\* A step that writes no slot and neither fills nor empties one.
LEMMA SlotsQuiet ==
    ASSUME NEW t \in Tasks, SlotsOf(t), slot' = slot,
           pc[t] \notin {"fill", "clear", "match"}, pc'[t] \notin {"fill", "clear", "match"},
           \A c \in Callbacks : KindOf[c] = AppEvent => (c \in held <=> c \in held'),
           held \subseteq Callbacks, held' \subseteq Callbacks
    PROVE  SlotsOf(t)'
<1>1. \A i \in 1 .. Slots : Settled(i)'
    BY DEF SlotsOf, Settled, Worked, Sought, Free, Holds
<1>2. OneSlotEach' /\ HeldInSlot'
    BY DEF SlotsOf, OneSlotEach, HeldInSlot, Holds
<1> QED BY <1>1, <1>2 DEF SlotsOf

LEMMA FillStep ==
    ASSUME TypeOK, CallInv, SlotsInv, NEW t \in Tasks, SlotsOf(t), Fill(t)
    PROVE  SlotsOf(t)'
<1> PICK i0 : i0 = idx[t]
    OBVIOUS
<1> PICK a : a = arg[t]
    OBVIOUS
<1>1. /\ i0 \in 1 .. Slots /\ a \in Callbacks /\ fld[t] \in 1 .. 3
      /\ \A i \in 1 .. Slots \ {i0} : slot'[i] = slot[i]
      /\ slot'[i0].cb = a /\ (slot'[i0].use <=> fld[t] > 1)
      /\ slot'[i0].mask = IF fld[t] = 3 THEN MaskOf[a] ELSE {}
    BY FillSlot DEF TypeOK, CallType
<1>2. pc[t] = "fill" /\ a \notin held /\ KindOf[a] = AppEvent /\ NoCallback \notin Callbacks
      /\ NoCallback \notin held
    BY BtCallbacksAssumption DEF Fill, CallInv, CallShape, EventCall, TypeOK
<1>3. /\ idx' = idx /\ arg' = arg
      /\ fld[t] = 3 => pc'[t] = "idle" /\ held' = held \cup {a}
      /\ fld[t] # 3 => pc'[t] = "fill" /\ held' = held /\ fld'[t] = fld[t] + 1
    BY <1>2 DEF Fill, Go, TypeOK, CallType
<1>4. \A i \in 1 .. Slots \ {i0} : Settled(i) /\ slot[i].cb # a
    BY <1>1, <1>2 DEF SlotsOf, Settled, Worked, Sought, Free, Holds
<1>5. slot[i0].cb \notin held
    BY <1>2 DEF SlotsOf, Filling
<1>6. \A i \in 1 .. Slots \ {i0} : Settled(i)'
    BY <1>1, <1>3, <1>4 DEF Settled, Free, Holds
<1>7. OneSlotEach'
    BY <1>1, <1>4 DEF OneSlotEach, SlotsOf
<1>8. \A c \in held : KindOf[c] = AppEvent => \E i \in 1 .. Slots \ {i0} : Holds(slot'[i], c)
    BY <1>1, <1>5 DEF SlotsOf, HeldInSlot, Holds
<1>9. CASE fld[t] = 3
  <2>1. Settled(i0)' /\ Holds(slot'[i0], a)
      BY <1>1, <1>2, <1>3, <1>9 DEF Settled, Holds
  <2>2. HeldInSlot'
      BY <1>1, <1>3, <1>8, <1>9, <2>1 DEF HeldInSlot
  <2> QED BY <1>3, <1>6, <1>7, <1>9, <2>1, <2>2 DEF SlotsOf
<1>10. CASE fld[t] # 3
  <2>1. Worked(t, i0)'
      BY <1>3, <1>10 DEF Worked
  <2>2. HeldInSlot'
      BY <1>3, <1>8, <1>10 DEF HeldInSlot
  <2>3. Filling(t, slot[idx[t]])'
      BY <1>1, <1>3, <1>10 DEF Filling
  <2> QED BY <1>3, <1>6, <1>7, <1>10, <2>1, <2>2, <2>3 DEF SlotsOf
<1> QED BY <1>9, <1>10

LEMMA ClearStep ==
    ASSUME TypeOK, CallInv, SlotsInv, NEW t \in Tasks, SlotsOf(t), Clear(t)
    PROVE  SlotsOf(t)'
<1> PICK i0 : i0 = idx[t]
    OBVIOUS
<1> PICK a : a = arg[t]
    OBVIOUS
<1>1. /\ i0 \in 1 .. Slots /\ a \in Callbacks /\ fld[t] \in 1 .. 3
      /\ \A i \in 1 .. Slots \ {i0} : slot'[i] = slot[i]
      /\ slot'[i0].cb = NoCallback /\ (slot'[i0].use <=> fld[t] = 1)
      /\ slot'[i0].mask = IF fld[t] = 3 THEN {} ELSE MaskOf[a]
    BY ClearSlot DEF TypeOK, CallType
<1>2. pc[t] = "clear" /\ a \notin held /\ NoCallback \notin Callbacks /\ NoCallback \notin held
    BY BtCallbacksAssumption DEF Clear, CallInv, CallShape, EventCall, TypeOK
<1>3. /\ held' = held /\ arg' = arg
      /\ fld[t] = 3 => pc'[t] = "match"
      /\ fld[t] # 3 => pc'[t] = "clear" /\ fld'[t] = fld[t] + 1 /\ idx' = idx
    BY <1>2 DEF Clear, NextSlot, Go, TypeOK, CallType
<1>4. \A i \in 1 .. Slots \ {i0} : Settled(i)
    BY <1>2 DEF SlotsOf, Worked, Sought
<1>5. slot[i0].cb \notin held
    BY <1>2 DEF SlotsOf, Clearing
<1>6. \A i \in 1 .. Slots \ {i0} : Settled(i)'
    BY <1>1, <1>3, <1>4 DEF Settled, Free, Holds
<1>7. OneSlotEach'
    BY <1>1 DEF OneSlotEach, SlotsOf
<1>8. HeldInSlot'
    BY <1>1, <1>3, <1>5 DEF SlotsOf, HeldInSlot, Holds
<1>9. CASE fld[t] = 3
  <2>1. Settled(i0)'
      BY <1>1, <1>9 DEF Settled, Free
  <2> QED BY <1>3, <1>6, <1>7, <1>8, <1>9, <2>1 DEF SlotsOf
<1>10. CASE fld[t] # 3
  <2>1. Worked(t, i0)'
      BY <1>3, <1>10 DEF Worked
  <2>2. Clearing(t, slot[idx[t]])'
      BY <1>1, <1>3, <1>10 DEF Clearing
  <2> QED BY <1>3, <1>6, <1>7, <1>8, <1>10, <2>1, <2>2 DEF SlotsOf
<1> QED BY <1>9, <1>10

LEMMA MatchStep ==
    ASSUME TypeOK, CallInv, SlotsInv, NEW t \in Tasks, SlotsOf(t), Match(t)
    PROVE  SlotsOf(t)'
<1> PICK i0 : i0 = idx[t]
    OBVIOUS
<1> PICK a : a = arg[t]
    OBVIOUS
<1>1. /\ slot' = slot /\ held' = held /\ arg' = arg /\ pc[t] = "match" /\ i0 \in 1 .. Slots + 1
      /\ a \notin held /\ a \in Callbacks /\ NoCallback \notin Callbacks /\ fld[t] = 1
    BY BtCallbacksAssumption DEF Match, table, TypeOK, CallType, CallInv, CallShape, EventCall
<1>2. \A i \in 1 .. Slots : Settled(i) \/ Sought(t, i)
    BY <1>1 DEF SlotsOf, Worked
<1>3. OneSlotEach' /\ HeldInSlot'
    BY <1>1 DEF SlotsOf, OneSlotEach, HeldInSlot
<1>4. \A i \in 1 .. Slots : Settled(i) => Settled(i)'
    BY <1>1 DEF Settled
<1>5. CASE i0 > Slots /\ pc' = [pc EXCEPT ![t] = "idle"]
  <2>1. pc'[t] = "idle"
      BY <1>5 DEF TypeOK, CallType
  <2>2. \A i \in 1 .. Slots : Settled(i)
      BY <1>1, <1>2, <1>5, BtCallbacksAssumption DEF Sought
  <2> QED BY <1>3, <1>4, <2>1, <2>2 DEF SlotsOf
<1>6. CASE i0 <= Slots /\ slot[i0].use /\ slot[i0].cb = a /\ Match(t) /\ pc' = [pc EXCEPT ![t] = "clear"]
           /\ UNCHANGED <<idx, fld>>
  <2>1. pc'[t] = "clear"
      BY <1>6 DEF TypeOK, CallType
  <2>2. Holds(slot[i0], a)
      BY <1>1, <1>2, <1>6 DEF Settled, Sought, Free, Holds
  <2>3. Clearing(t, slot[idx[t]])' /\ Worked(t, i0)'
      BY <1>1, <1>6, <2>1, <2>2 DEF Clearing, Worked, Holds
  <2>4. \A i \in 1 .. Slots \ {i0} : Settled(i)
      BY <1>1, <1>2, <1>6, <2>2 DEF Sought, Holds, SlotsOf, OneSlotEach
  <2> QED BY <1>3, <1>4, <2>1, <2>3, <2>4 DEF SlotsOf
<1>7. CASE i0 <= Slots /\ ~(slot[i0].use /\ slot[i0].cb = a) /\ NextSlot(t, "match")
  <2>1. pc'[t] = "match" /\ idx'[t] = i0 + 1
      BY <1>7 DEF NextSlot, Go, TypeOK, CallType
  <2>2. \A i \in 1 .. Slots : Settled(i) \/ Sought(t, i)'
      BY <1>1, <1>2, <1>7, <2>1 DEF Sought, Holds
  <2> QED BY <1>3, <1>4, <2>1, <2>2 DEF SlotsOf
<1> QED BY <1>5, <1>6, <1>7 DEF Match, Go

LEMMA FindStep ==
    ASSUME TypeOK, CallInv, NEW t \in Tasks, SlotsOf(t), Find(t)
    PROVE  SlotsOf(t)'
<1>1. slot' = slot /\ held' = held /\ pc[t] = "find" /\ fld[t] = 1
    BY DEF Find, table, CallInv, CallShape
<1>2. CASE pc'[t] \in {"idle", "find"}
    BY <1>1, <1>2, SlotsQuiet DEF TypeOK
<1>3. CASE idx[t] <= Slots /\ ~slot[idx[t]].use /\ pc'[t] = "fill" /\ idx' = idx /\ fld' = fld
  <2>1. \A i \in 1 .. Slots : Settled(i)'
      BY <1>1 DEF SlotsOf, Worked, Sought, Settled
  <2>2. Free(slot[idx[t]])
      BY <1>1, <1>3 DEF SlotsOf, Worked, Sought, Settled, Holds, TypeOK, CallType
  <2>3. OneSlotEach' /\ HeldInSlot'
      BY <1>1 DEF SlotsOf, OneSlotEach, HeldInSlot
  <2> QED BY <1>1, <1>3, <2>1, <2>2, <2>3 DEF SlotsOf, Filling, Free
<1> QED BY <1>2, <1>3 DEF Find, NextSlot, Go, TypeOK, CallType

LEMMA LeaveStep ==
    ASSUME TypeOK, NEW t \in Tasks, SlotsOf(t), NEW c \in Callbacks, KindOf[c] = AppEvent,
           Deregister(t, c)
    PROVE  SlotsOf(t)'
<1>1. /\ slot' = slot /\ held' = held \ {c} /\ pc[t] = "idle"
      /\ pc'[t] = "match" /\ arg'[t] = c /\ idx'[t] = 1
    BY DEF Deregister, MayCall, StartAt, Go, table, TypeOK, CallType
<1>2. \A i \in 1 .. Slots : Settled(i)
    BY <1>1 DEF SlotsOf, Worked, Sought
<1>3. \A i \in 1 .. Slots : Settled(i)' \/ Sought(t, i)'
    BY <1>1, <1>2 DEF Settled, Sought
<1>4. OneSlotEach' /\ HeldInSlot'
    BY <1>1 DEF SlotsOf, OneSlotEach, HeldInSlot
<1> QED BY <1>1, <1>3, <1>4 DEF SlotsOf

LEMMA SlotsStep ==
    ASSUME Agreed, TypeOK, OneActive, CallInv, SlotsInv, NEW t \in Tasks, User(t), held' \subseteq Callbacks
    PROVE  SlotsInv'
<1>1. \A u \in Tasks \ {t} : pc[u] = "idle" /\ pc'[u] = "idle"
    BY Alone
<1>2. SlotsOf(t)
    BY <1>1, SlotsOfOne
<1> SUFFICES SlotsOf(t)'
    BY <1>1, SlotsOfOneNext
<1> DEFINE Quiet == /\ slot' = slot
                    /\ pc[t] \notin {"fill", "clear", "match"} /\ pc'[t] \notin {"fill", "clear", "match"}
                    /\ \A c \in Callbacks : KindOf[c] = AppEvent => (c \in held <=> c \in held')
<1>3. ASSUME Quiet PROVE SlotsOf(t)'
    BY <1>2, <1>3, SlotsQuiet DEF TypeOK
<1> USE DEF Go, table
<1> HIDE DEF Quiet
<1>4. ASSUME NEW c \in Callbacks, Register(t, c) PROVE SlotsOf(t)'
  <2>1. Quiet
      BY <1>4 DEF Quiet, Register, MayCall, StartAt, TypeOK, CallType
  <2> QED BY <2>1, <1>3
<1>5. ASSUME NEW c \in Callbacks, Deregister(t, c) PROVE SlotsOf(t)'
  <2>1. CASE KindOf[c] = AppEvent
      BY <1>2, <1>5, <2>1, LeaveStep
  <2>2. CASE KindOf[c] # AppEvent
    <3>1. Quiet
        BY <1>5, <2>2 DEF Quiet, Deregister, MayCall, StartAt, TypeOK, CallType
    <3> QED BY <3>1, <1>3
  <2> QED BY <2>1, <2>2
<1>6. CASE Find(t) \/ Fill(t) \/ Match(t) \/ Clear(t)
    BY <1>2, <1>6, FindStep, FillStep, MatchStep, ClearStep
<1>7. CASE Claim(t) \/ NodeCb(t) \/ Unclaim(t) \/ NodeNull(t) \/ NodeFree(t)
  <2>1. Quiet
      BY <1>7 DEF Quiet, Claim, NodeCb, Unclaim, NodeNull, NodeFree, TypeOK, CallType
  <2> QED BY <2>1, <1>3
<1>8. CASE NodeUse(t)
  <2>1. KindOf[arg[t]] # AppEvent
      BY <1>8 DEF NodeUse, CallInv, CallShape, EventCall, NodeCall
  <2>2. Quiet
      BY <1>8, <2>1 DEF Quiet, NodeUse, TypeOK, CallType
  <2> QED BY <2>2, <1>3
<1>9. ASSUME NEW r \in Records, AddRecord(t, r) PROVE SlotsOf(t)'
  <2>1. Quiet
      BY <1>9 DEF Quiet, AddRecord, MayCall, StartAt, op, TypeOK, CallType
  <2> QED BY <2>1, <1>3
<1>10. CASE StoreRecord(t) \/ Bump(t)
  <2>1. Quiet
      BY <1>10 DEF Quiet, StoreRecord, Bump, TypeOK, CallType
  <2> QED BY <2>1, <1>3
<1> QED BY <1>4, <1>5, <1>6, <1>7, <1>8, <1>9, <1>10 DEF User

-----------------------------------------------------------------------------
(* The nodes of the other types. *)

\* What the steps of task t have to keep, the others being idle.
NodeCalled(t, n) ==
    /\ pc[t] = "nodeCb" => NodeIs(n, NoCallback, FALSE)
    /\ pc[t] = "nodeUse" => NodeIs(n, arg[t], FALSE)
    /\ pc[t] \in {"unclaim", "nodeNull"} => NodeIs(n, arg[t], TRUE)
    /\ pc[t] = "nodeFree" => NodeIs(n, NoCallback, TRUE)
NodeSettled(y) ==
    NodeIs(node[y], NoCallback, FALSE) \/ \E c \in held : KindOf[c] = y /\ NodeIs(node[y], c, TRUE)
NodeWorked(t, y) == pc[t] \in NodeCall \ {"claim", "nodeCb"} /\ KindOf[arg[t]] = y

NodesOf(t) ==
    /\ NodeCalled(t, node[KindOf[arg[t]]])
    /\ \A y \in Types : NodeSettled(y) \/ NodeWorked(t, y)
    /\ HeldInNode

LEMMA NodesOfOne ==
    ASSUME NEW t \in Tasks, \A u \in Tasks \ {t} : pc[u] = "idle", NodesInv
    PROVE  NodesOf(t)
<1>1. NodeCalled(t, node[KindOf[arg[t]]])
    BY DEF NodesInv, NodeOfCall, NodeCalled
<1>2. ASSUME NEW y \in Types PROVE NodeSettled(y) \/ NodeWorked(t, y)
    BY DEF NodesInv, NodeShape, NodeSettled, NodeWorked, NodeCall
<1> QED BY <1>1, <1>2 DEF NodesInv, NodesOf

LEMMA NodesOfOneNext ==
    ASSUME NEW t \in Tasks, \A u \in Tasks \ {t} : pc'[u] = "idle", NodesOf(t)'
    PROVE  NodesInv'
<1>1. NodeOfCall'
  <2>1. NodeCalled(t, node[KindOf[arg[t]]])'
      BY DEF NodesOf
  <2> QED BY <2>1 DEF NodeOfCall, NodeCalled
<1>2. ASSUME NEW y \in Types PROVE NodeShape(y)'
    BY DEF NodeShape, NodesOf, NodeSettled, NodeWorked
<1> QED BY <1>1, <1>2 DEF NodesInv, NodesOf

\* A step that writes no node and is no part of a call that does.
LEMMA NodesQuiet ==
    ASSUME NEW t \in Tasks, NodesOf(t), node' = node,
           pc[t] \notin NodeCall \ {"claim", "nodeCb"},
           pc'[t] \notin NodeCall \ {"claim"},
           \A c \in Callbacks : KindOf[c] # AppEvent => (c \in held <=> c \in held'),
           held \subseteq Callbacks, held' \subseteq Callbacks, AppEvent \notin Types
    PROVE  NodesOf(t)'
<1>1. \A y \in Types : NodeSettled(y)'
    BY DEF NodesOf, NodeSettled, NodeWorked, NodeIs
<1>2. NodeCalled(t, node[KindOf[arg[t]]])'
    BY DEF NodeCalled, NodeCall
<1>3. HeldInNode'
    BY DEF NodesOf, HeldInNode, NodeIs
<1> QED BY <1>1, <1>2, <1>3 DEF NodesOf

\* A step inside a call that does: the nodes of other types do not change.
LEMMA NodeStep ==
    ASSUME TypeOK, CallInv, NEW t \in Tasks, NodesOf(t),
           NodeCb(t) \/ NodeUse(t) \/ NodeNull(t) \/ NodeFree(t)
    PROVE  NodesOf(t)'
<1> PICK a : a = arg[t]
    OBVIOUS
<1> PICK k : k = KindOf[a]
    OBVIOUS
<1>1. /\ k \in Types /\ a \in Callbacks
      /\ \A y \in Types \ {k} : node'[y] = node[y]
      /\ NodeCb(t) => node'[k].cb = a /\ node'[k].use = node[k].use
      /\ NodeUse(t) => node'[k].cb = node[k].cb /\ node'[k].use
      /\ NodeNull(t) => node'[k].cb = NoCallback /\ node'[k].use = node[k].use
      /\ NodeFree(t) => node'[k].cb = node[k].cb /\ ~node'[k].use
    BY WriteNode
<1>2. arg' = arg /\ a \notin held /\ NoCallback \notin held
  <2>1. pc[t] \in NodeCall /\ arg' = arg
      BY DEF NodeCb, NodeUse, NodeNull, NodeFree, NodeCall
  <2> QED BY <2>1, BtCallbacksAssumption DEF CallInv, CallShape, TypeOK
<1>3. \A y \in Types \ {k} : NodeSettled(y)
    BY DEF NodesOf, NodeWorked
<1>4. ASSUME held \subseteq held' PROVE \A y \in Types \ {k} : NodeSettled(y)'
    BY <1>1, <1>3, <1>4 DEF NodeSettled, NodeIs
<1>5. ASSUME ~\E c \in held : c = node[k].cb /\ node[k].use
      PROVE  \A c \in held : KindOf[c] # AppEvent => KindOf[c] \in Types \ {k} /\ NodeIs(node'[KindOf[c]], c, TRUE)
    BY <1>1, <1>5, BtCallbacksAssumption DEF NodesOf, HeldInNode, NodeIs, TypeOK
<1>6. CASE NodeCb(t)
  <2>1. pc[t] = "nodeCb" /\ pc'[t] = "nodeUse" /\ held' = held
      BY <1>6 DEF NodeCb, Go, TypeOK, CallType
  <2>2. NodeIs(node[k], NoCallback, FALSE)
      BY <2>1 DEF NodesOf, NodeCalled
  <2>3. NodeIs(node'[k], a, FALSE)
      BY <1>1, <1>6, <2>2 DEF NodeIs
  <2>4. NodeCalled(t, node[KindOf[arg[t]]])'
      BY <1>2, <2>1, <2>3 DEF NodeCalled
  <2>5. HeldInNode'
      BY <1>5, <2>1, <2>2 DEF NodeIs, HeldInNode
  <2>6. NodeWorked(t, k)'
      BY <1>2, <2>1 DEF NodeWorked, NodeCall
  <2> QED BY <1>4, <2>1, <2>4, <2>5, <2>6 DEF NodesOf
<1>7. CASE NodeUse(t)
  <2>1. pc[t] = "nodeUse" /\ pc'[t] = "idle" /\ held' = held \cup {a}
      BY <1>7 DEF NodeUse, Go, TypeOK, CallType
  <2>2. NodeIs(node[k], a, FALSE)
      BY <2>1 DEF NodesOf, NodeCalled
  <2>3. NodeIs(node'[k], a, TRUE)
      BY <1>1, <1>7, <2>2 DEF NodeIs
  <2>4. NodeCalled(t, node[KindOf[arg[t]]])'
      BY <2>1 DEF NodeCalled
  <2>5. HeldInNode'
      BY <1>5, <2>1, <2>2, <2>3 DEF NodeIs, HeldInNode
  <2>6. NodeSettled(k)'
      BY <2>1, <2>3 DEF NodeSettled
  <2> QED BY <1>4, <2>1, <2>4, <2>5, <2>6 DEF NodesOf
<1>8. CASE NodeNull(t)
  <2>1. pc[t] = "nodeNull" /\ pc'[t] = "nodeFree" /\ held' = held
      BY <1>8 DEF NodeNull, Go, TypeOK, CallType
  <2>2. NodeIs(node[k], a, TRUE)
      BY <2>1 DEF NodesOf, NodeCalled
  <2>3. NodeIs(node'[k], NoCallback, TRUE)
      BY <1>1, <1>8, <2>2 DEF NodeIs
  <2>4. NodeCalled(t, node[KindOf[arg[t]]])'
      BY <1>2, <2>1, <2>3 DEF NodeCalled
  <2>5. HeldInNode'
      BY <1>2, <1>5, <2>1, <2>2 DEF NodeIs, HeldInNode
  <2>6. NodeWorked(t, k)'
      BY <1>2, <2>1 DEF NodeWorked, NodeCall
  <2> QED BY <1>4, <2>1, <2>4, <2>5, <2>6 DEF NodesOf
<1>9. CASE NodeFree(t)
  <2>1. pc[t] = "nodeFree" /\ pc'[t] = "idle" /\ held' = held
      BY <1>9 DEF NodeFree, Go, TypeOK, CallType
  <2>2. NodeIs(node[k], NoCallback, TRUE)
      BY <2>1 DEF NodesOf, NodeCalled
  <2>3. NodeIs(node'[k], NoCallback, FALSE)
      BY <1>1, <1>9, <2>2 DEF NodeIs
  <2>4. NodeCalled(t, node[KindOf[arg[t]]])'
      BY <2>1 DEF NodeCalled
  <2>5. HeldInNode'
      BY <1>2, <1>5, <2>1, <2>2 DEF NodeIs, HeldInNode
  <2>6. NodeSettled(k)'
      BY <2>3 DEF NodeSettled
  <2> QED BY <1>4, <2>1, <2>4, <2>5, <2>6 DEF NodesOf
<1> QED BY <1>6, <1>7, <1>8, <1>9

\* A call that claims the node of its type, and one that starts to leave it.
LEMMA ClaimStep ==
    ASSUME TypeOK, CallInv, NEW t \in Tasks, NodesOf(t), Claim(t) \/ Unclaim(t)
    PROVE  NodesOf(t)'
<1> PICK k : k = KindOf[arg[t]]
    OBVIOUS
<1>1. node' = node /\ held' = held /\ arg' = arg
    BY DEF Claim, Unclaim, table
<1>2. HeldInNode' /\ \A y \in Types : NodeSettled(y) => NodeSettled(y)'
    BY <1>1 DEF HeldInNode, NodesOf, NodeSettled
<1>3. CASE Claim(t)
  <2>1. pc[t] = "claim" /\ pc'[t] = IF node[k].use THEN "idle" ELSE "nodeCb"
      BY <1>3 DEF Claim, Go, TypeOK, CallType
  <2>2. k \in Types
      BY <2>1, BtCallbacksAssumption DEF CallInv, CallShape, NodeCall, EventCall
  <2>3. \A y \in Types : NodeSettled(y)
      BY <2>1 DEF NodesOf, NodeWorked
  <2>4. ~node[k].use => NodeIs(node[k], NoCallback, FALSE)
      BY <2>2, <2>3 DEF NodeSettled, NodeIs
  <2>5. NodeCalled(t, node[KindOf[arg[t]]])'
      BY <1>1, <2>1, <2>4 DEF NodeCalled
  <2> QED BY <1>2, <2>3, <2>5 DEF NodesOf
<1>4. CASE Unclaim(t)
  <2>1. pc[t] = "unclaim" /\ pc'[t] = IF node[k].use THEN "nodeNull" ELSE "idle"
      BY <1>4 DEF Unclaim, Go, TypeOK, CallType
  <2>2. NodeIs(node[k], arg[t], TRUE)
      BY <2>1 DEF NodesOf, NodeCalled
  <2>3. pc'[t] = "nodeNull"
      BY <2>1, <2>2 DEF NodeIs
  <2>4. NodeCalled(t, node[KindOf[arg[t]]])'
      BY <1>1, <2>2, <2>3 DEF NodeCalled
  <2>5. \A y \in Types : NodeWorked(t, y) => NodeWorked(t, y)'
      BY <1>1, <2>3 DEF NodeWorked, NodeCall
  <2> QED BY <1>2, <2>4, <2>5 DEF NodesOf
<1> QED BY <1>3, <1>4

LEMMA LeaveNodeStep ==
    ASSUME Agreed, TypeOK, NEW t \in Tasks, NodesOf(t), NEW c \in Callbacks, KindOf[c] # AppEvent,
           Deregister(t, c)
    PROVE  NodesOf(t)'
<1>1. /\ node' = node /\ held' = held \ {c} /\ pc[t] = "idle" /\ c \in held
      /\ pc'[t] = "unclaim" /\ arg'[t] = c /\ KindOf[c] \in Types
    BY BtCallbacksAssumption DEF Agreed, Deregister, MayCall, StartAt, Go, table, TypeOK, CallType
<1>2. NodeIs(node[KindOf[c]], c, TRUE)
    BY <1>1 DEF NodesOf, HeldInNode
<1>3. NodeCalled(t, node[KindOf[arg[t]]])'
    BY <1>1, <1>2 DEF NodeCalled
<1>4. \A y \in Types : NodeSettled(y)
    BY <1>1 DEF NodesOf, NodeWorked, NodeCall
<1>5. \A y \in Types : NodeSettled(y)' \/ NodeWorked(t, y)'
    BY <1>1, <1>4 DEF NodeSettled, NodeWorked, NodeCall
<1>6. HeldInNode'
    BY <1>1 DEF NodesOf, HeldInNode
<1> QED BY <1>3, <1>5, <1>6 DEF NodesOf

LEMMA NodesStep ==
    ASSUME Agreed, TypeOK, OneActive, CallInv, NodesInv, NEW t \in Tasks, User(t), held' \subseteq Callbacks
    PROVE  NodesInv'
<1>1. \A u \in Tasks \ {t} : pc[u] = "idle" /\ pc'[u] = "idle"
    BY Alone
<1>2. NodesOf(t)
    BY <1>1, NodesOfOne
<1> SUFFICES NodesOf(t)'
    BY <1>1, NodesOfOneNext
<1> DEFINE Quiet == /\ node' = node
                    /\ pc[t] \notin NodeCall \ {"claim", "nodeCb"} /\ pc'[t] \notin NodeCall \ {"claim"}
                    /\ \A c \in Callbacks : KindOf[c] # AppEvent => (c \in held <=> c \in held')
<1>3. ASSUME Quiet PROVE NodesOf(t)'
    BY <1>2, <1>3, NodesQuiet, BtCallbacksAssumption DEF TypeOK
<1> USE DEF Go, table
<1> HIDE DEF Quiet
<1>4. ASSUME NEW c \in Callbacks, Register(t, c) PROVE NodesOf(t)'
  <2>1. Quiet
      BY <1>4 DEF Quiet, Register, MayCall, StartAt, TypeOK, CallType, NodeCall
  <2> QED BY <2>1, <1>3
<1>5. ASSUME NEW c \in Callbacks, Deregister(t, c) PROVE NodesOf(t)'
  <2>1. CASE KindOf[c] # AppEvent
      BY <1>2, <1>5, <2>1, LeaveNodeStep
  <2>2. CASE KindOf[c] = AppEvent
    <3>1. Quiet
        BY <1>5, <2>2 DEF Quiet, Deregister, MayCall, StartAt, TypeOK, CallType, NodeCall
    <3> QED BY <3>1, <1>3
  <2> QED BY <2>1, <2>2
<1>6. CASE Find(t) \/ Match(t) \/ Clear(t)
  <2>1. node' = node /\ held' = held
      BY <1>6 DEF Find, Match, Clear
  <2>2. pc[t] \in {"find", "match", "clear"} /\ pc'[t] \in {"idle", "find", "fill", "match", "clear"}
      BY <1>6 DEF Find, Match, Clear, NextSlot, TypeOK, CallType
  <2>3. Quiet
      BY <2>1, <2>2 DEF Quiet, NodeCall
  <2> QED BY <2>3, <1>3
<1>7. CASE Fill(t)
  <2>1. KindOf[arg[t]] = AppEvent
      BY <1>7 DEF Fill, CallInv, CallShape, EventCall
  <2>2. pc[t] = "fill" /\ pc'[t] \in {"idle", "fill"} /\ node' = node /\ held' \in {held, held \cup {arg[t]}}
      BY <1>7 DEF Fill, TypeOK, CallType
  <2>3. Quiet
      BY <2>1, <2>2 DEF Quiet, NodeCall
  <2> QED BY <2>3, <1>3
<1>8. CASE Claim(t) \/ Unclaim(t)
    BY <1>2, <1>8, ClaimStep
<1>9. CASE NodeCb(t) \/ NodeUse(t) \/ NodeNull(t) \/ NodeFree(t)
    BY <1>2, <1>9, NodeStep
<1>10. ASSUME NEW r \in Records, AddRecord(t, r) PROVE NodesOf(t)'
  <2>1. Quiet
      BY <1>10 DEF Quiet, AddRecord, MayCall, StartAt, op, TypeOK, CallType, NodeCall
  <2> QED BY <2>1, <1>3
<1>11. CASE StoreRecord(t) \/ Bump(t)
  <2>1. Quiet
      BY <1>11 DEF Quiet, StoreRecord, Bump, TypeOK, CallType, NodeCall
  <2> QED BY <2>1, <1>3
<1> QED BY <1>4, <1>5, <1>6, <1>7, <1>8, <1>9, <1>10, <1>11 DEF User

-----------------------------------------------------------------------------
(* The dispatch. *)

\* The slot of a callback that is registered, and nowhere else.
LEMMA SlotOfHeld ==
    ASSUME TypeOK, SlotsInv, NEW c \in held, KindOf[c] = AppEvent
    PROVE  \E i \in 1 .. Slots : Holds(slot[i], c) /\ \A j \in 1 .. Slots : slot[j].cb = c => j = i
<1>1. PICK i \in 1 .. Slots : Holds(slot[i], c)
    BY DEF SlotsInv, HeldInSlot
<1>2. c # NoCallback
    BY BtCallbacksAssumption DEF TypeOK
<1> QED BY <1>1, <1>2 DEF SlotsInv, OneSlotEach, Holds

\* While no call is about to empty it, a slot in use with a mask holds a callback
\* that is registered.
LEMMA SlotInUse ==
    ASSUME TypeOK, CallInv, SlotsInv, pc[Bt] = "idle", NEW i \in 1 .. Slots, slot[i].use, slot[i].mask # {}
    PROVE  \E c \in held : KindOf[c] = AppEvent /\ Holds(slot[i], c)
<1>1. SlotShape(i)
    BY DEF SlotsInv
<1>2. \A t \in Tasks : pc[t] \notin {"match", "clear"}
    BY DEF CallInv, CallShape, Leaving
<1>3. \A t \in Tasks : ~Worked(t, i)
    BY <1>2 DEF Worked, SlotsInv, SlotOfCall, Filling
<1> QED BY <1>1, <1>2, <1>3 DEF SlotShape, Settled, Sought, Free

LEMMA NodeInUse ==
    ASSUME TypeOK, CallInv, NodesInv, pc[Bt] = "idle", NEW y \in Types, node[y].use
    PROVE  node[y].cb \in held
<1>1. \A t \in Tasks : pc[t] \notin NodeCall
    BY DEF CallInv, CallShape, NodeCall
<1> QED BY <1>1 DEF NodesInv, NodeShape, NodeIs

\* What the stack does itself.
LEMMA StackStep ==
    ASSUME TypeOK, CallInv, SlotsInv, NodesInv, StackInv, Stack
    PROVE  StackInv'
<1> USE DEF BtRuns
<1>1. UNCHANGED <<slot, node, pc, held>>
    BY StackReads
<1>2. ASSUME NEW m \in Modules, Event(m) PROVE StackInv'
  <2>1. /\ pc[Bt] = "idle" /\ at' = "check" /\ cur' = 1 /\ mod' = m /\ got' = {} /\ null' = null
        /\ due' = {c \in held : KindOf[c] = AppEvent /\ m \in MaskOf[c]}
      BY <1>2 DEF Event
  <2>2. Progress'
      BY <2>1 DEF Progress, Passed
  <2> QED BY <1>1, <2>1, <2>2 DEF StackInv, NoNullCall
<1>3. CASE Check
  <2>1. at = "check" /\ pc[Bt] = "idle" /\ UNCHANGED <<due, mod, got, null>> /\ cur \in 1 .. Slots + 1
      BY <1>3 DEF Check, StackInv, TypeOK, StackType
  <2>2. CASE cur > Slots /\ at' = "none"
    <3>1. ASSUME NEW c \in due PROVE c \in got
      <4>1. c \in held /\ KindOf[c] = AppEvent
          BY <2>1 DEF TypeOK, StackInv, Progress
      <4>2. PICK i \in 1 .. Slots : Holds(slot[i], c)
          BY <4>1, SlotOfHeld
      <4>3. i < cur
          BY <2>1, <2>2, <4>2, BtCallbacksAssumption
      <4> QED BY <2>1, <4>2, <4>3 DEF StackInv, Progress, Passed, Holds
    <3> QED BY <1>1, <2>1, <2>2, <3>1 DEF StackInv, Progress, NoNullCall
  <2>3. CASE cur <= Slots /\ slot[cur].use /\ mod \in slot[cur].mask /\ at' = "call" /\ cur' = cur
    <3>1. PICK c \in held : KindOf[c] = AppEvent /\ Holds(slot[cur], c)
        BY <2>1, <2>3, SlotInUse
    <3>2. mod \in MaskOf[c]
        BY <2>3, <3>1 DEF Holds
    <3>3. Progress'
        BY <1>1, <2>1, <2>3 DEF StackInv, Progress, Passed
    <3> QED BY <1>1, <2>1, <2>3, <3>1, <3>2, <3>3 DEF StackInv, NoNullCall
  <2>4. CASE cur <= Slots /\ ~(slot[cur].use /\ mod \in slot[cur].mask) /\ cur' = cur + 1 /\ at' = at
    <3>1. ASSUME NEW c \in due PROVE slot[cur].cb # c
      <4>1. c \in held /\ KindOf[c] = AppEvent /\ mod \in MaskOf[c]
          BY <2>1 DEF TypeOK, StackInv, Progress
      <4>2. PICK i \in 1 .. Slots : Holds(slot[i], c) /\ \A j \in 1 .. Slots : slot[j].cb = c => j = i
          BY <4>1, SlotOfHeld
      <4> QED BY <2>1, <2>4, <4>1, <4>2 DEF Holds
    <3>2. \A i \in 1 .. Slots : i < cur + 1 <=> i < cur \/ i = cur
        BY <2>1
    <3>3. Progress'
        BY <1>1, <2>1, <2>4, <3>1, <3>2 DEF StackInv, Progress, Passed
    <3> QED BY <1>1, <2>1, <2>4, <3>3 DEF StackInv, NoNullCall
  <2> QED BY <1>3, <2>2, <2>3, <2>4 DEF Check
<1>4. CASE CallSlot
  <2>1. at = "call" /\ at' = "user" /\ got' = got \cup {slot[cur].cb} /\ UNCHANGED <<due, cur, mod>>
        /\ cur \in 1 .. Slots
      BY <1>4 DEF CallSlot, StackInv, TypeOK, StackType
  <2>2. PICK c \in held : Holds(slot[cur], c)
      BY <2>1 DEF StackInv
  <2>3. c # NoCallback /\ slot[cur].cb = c
      BY <2>2, BtCallbacksAssumption DEF Holds, TypeOK
  <2>4. ~null'
      BY <1>4, <2>3, Zenon DEF CallSlot, StackInv, NoNullCall
  <2>5. \A i \in 1 .. Slots : slot[i].cb = c => i = cur
      BY <2>1, <2>3 DEF SlotsInv, OneSlotEach
  <2>6. ASSUME NEW d \in due, NEW i \in 1 .. Slots, slot[i].cb = d
        PROVE  d \in got' <=> i <= cur
    <3>1. d \in got <=> i < cur
        BY <2>1, <2>6 DEF StackInv, Progress, Passed
    <3>2. i = cur <=> d = c
        BY <2>3, <2>5, <2>6
    <3> QED BY <2>1, <2>3, <3>1, <3>2
  <2>7. Progress'
      BY <1>1, <2>1, <2>6 DEF StackInv, Progress, Passed
  <2> QED BY <1>1, <2>1, <2>4, <2>7 DEF StackInv, NoNullCall
<1>5. CASE Return
  <2>1. at = "user" /\ pc[Bt] = "idle" /\ at' = "check" /\ cur' = cur + 1
        /\ UNCHANGED <<due, mod, got, null>> /\ cur \in 1 .. Slots
      BY <1>5 DEF Return, StackInv, TypeOK, StackType
  <2>2. \A i \in 1 .. Slots : i < cur + 1 <=> i <= cur
      BY <2>1
  <2>3. Progress'
      BY <1>1, <2>1, <2>2 DEF StackInv, Progress, Passed
  <2> QED BY <1>1, <2>1, <2>3 DEF StackInv, NoNullCall
<1>6. ASSUME NEW y \in Types, Ask(y) PROVE StackInv'
  <2>1. /\ pc[Bt] = "idle" /\ at = "none" /\ at' = "test" /\ asked' = y /\ read' = node[y].cb
        /\ UNCHANGED <<due, got, null>>
      BY <1>6 DEF Ask
  <2>2. node[y].use => node[y].cb \in held
      BY <2>1, NodeInUse
  <2> QED BY <1>1, <2>1, <2>2 DEF StackInv, Progress, NoNullCall
<1>7. CASE Answer
  <2>1. at = "test" /\ at' = "none" /\ UNCHANGED <<due, got>>
      BY <1>7 DEF Answer
  <2>2. NoCallback \notin held
      BY BtCallbacksAssumption DEF TypeOK
  <2>3. node[asked].use => read # NoCallback
      BY <2>1, <2>2 DEF StackInv
  <2>4. ~null'
      BY <1>7, <2>3, Zenon DEF Answer, StackInv, NoNullCall
  <2> QED BY <1>1, <2>1, <2>4 DEF StackInv, Progress, NoNullCall
<1> QED BY <1>2, <1>3, <1>4, <1>5, <1>6, <1>7 DEF Stack

\* What the steps of the users leave of the tables to a dispatch in progress.
LEMMA UserMoves ==
    ASSUME Agreed, TypeOK, CallInv, SlotsInv, NEW t \in Tasks, User(t)
    PROVE  /\ due' \subseteq due
           /\ t # Bt => held \subseteq held' /\ node' = node
           /\ \A i \in 1 .. Slots : \/ slot'[i] = slot[i]
                                    \/ slot[i].cb \notin held /\ slot'[i].cb \notin due'
<1> DEFINE Goal == /\ due' \subseteq due
                   /\ t # Bt => held \subseteq held' /\ node' = node
                   /\ \A i \in 1 .. Slots : \/ slot'[i] = slot[i]
                                            \/ slot[i].cb \notin held /\ slot'[i].cb \notin due'
<1> USE DEF table
<1>1. ASSUME NEW c \in Callbacks, Register(t, c) PROVE Goal
    BY <1>1 DEF Register
<1>2. ASSUME NEW c \in Callbacks, Deregister(t, c) PROVE Goal
    BY <1>2 DEF Deregister, Agreed
<1>3. CASE Find(t) \/ Match(t)
    BY <1>3 DEF Find, Match
<1>4. CASE Fill(t)
  <2>1. pc[t] = "fill" /\ due' = due /\ node' = node /\ held \subseteq held'
      BY <1>4 DEF Fill
  <2>2. arg[t] \notin held /\ NoCallback \notin held
      BY <2>1, BtCallbacksAssumption DEF CallInv, CallShape, EventCall, TypeOK
  <2>3. slot[idx[t]].cb \notin held
      BY <2>1, <2>2 DEF SlotsInv, SlotOfCall, Filling
  <2>4. \A i \in 1 .. Slots \ {idx[t]} : slot'[i] = slot[i]
      BY <1>4, FillSlot
  <2>5. slot'[idx[t]].cb = arg[t]
      BY <1>4, FillSlot
  <2> QED BY <2>1, <2>2, <2>3, <2>4, <2>5 DEF TypeOK
<1>5. CASE Clear(t)
  <2>1. pc[t] = "clear" /\ due' = due /\ node' = node /\ held' = held
      BY <1>5 DEF Clear
  <2>2. arg[t] \notin held /\ NoCallback \notin held
      BY <2>1, BtCallbacksAssumption DEF CallInv, CallShape, EventCall, TypeOK
  <2>3. slot[idx[t]].cb \notin held
      BY <2>1, <2>2 DEF SlotsInv, SlotOfCall, Clearing
  <2>4. \A i \in 1 .. Slots \ {idx[t]} : slot'[i] = slot[i]
      BY <1>5, ClearSlot
  <2>5. slot'[idx[t]].cb = NoCallback
      BY <1>5, ClearSlot
  <2> QED BY <2>1, <2>2, <2>3, <2>4, <2>5 DEF TypeOK
<1>6. CASE Claim(t) \/ Unclaim(t)
    BY <1>6 DEF Claim, Unclaim
<1>7. CASE NodeCb(t) \/ NodeUse(t) \/ NodeNull(t) \/ NodeFree(t)
  <2>1. pc[t] \in NodeCall
      BY <1>7 DEF NodeCb, NodeUse, NodeNull, NodeFree, NodeCall
  <2>2. t = Bt
      BY <2>1 DEF CallInv, CallShape
  <2> QED BY <1>7, <2>2 DEF NodeCb, NodeUse, NodeNull, NodeFree
<1>8. ASSUME NEW r \in Records, AddRecord(t, r) PROVE Goal
    BY <1>8 DEF AddRecord
<1>9. CASE StoreRecord(t) \/ Bump(t)
    BY <1>9 DEF StoreRecord, Bump
<1> QED BY <1>1, <1>2, <1>3, <1>4, <1>5, <1>6, <1>7, <1>8, <1>9 DEF User

LEMMA UserStackStep ==
    ASSUME Agreed, TypeOK, OneActive, CallInv, SlotsInv, StackInv, NEW t \in Tasks, User(t)
    PROVE  StackInv'
<1>1. UNCHANGED <<at, cur, mod, asked, read, got, null>>
    BY UserLeavesStack
<1>2. /\ \A u \in Tasks \ {t} : pc[u] = "idle" /\ pc'[u] = "idle"
      /\ pc[t] = "idle" => MayCall(t)
    BY Alone
<1>3. /\ due' \subseteq due
      /\ t # Bt => held \subseteq held' /\ node' = node
      /\ \A i \in 1 .. Slots : \/ slot'[i] = slot[i]
                               \/ slot[i].cb \notin held /\ slot'[i].cb \notin due'
    BY UserMoves
<1>4. ASSUME at \in {"check", "call", "test"} PROVE t # Bt /\ pc'[Bt] = "idle"
  <2>1. pc[Bt] = "idle"
      BY <1>4 DEF StackInv
  <2>2. t # Bt
      BY <1>2, <1>4, <2>1 DEF MayCall
  <2> QED BY <1>2, <2>2, BtCallbacksAssumption
<1>5. Progress'
  <2>1. ASSUME NEW c \in due', NEW i \in 1 .. Slots, slot'[i].cb = c PROVE slot[i].cb = c
      BY <1>3, <2>1
  <2> QED BY <1>1, <1>3, <2>1 DEF StackInv, Progress, Passed
<1>6. ASSUME at = "call" PROVE \E c \in held' : Holds(slot'[cur], c) /\ mod \in MaskOf[c]
  <2>1. PICK c \in held : Holds(slot[cur], c) /\ mod \in MaskOf[c]
      BY <1>6 DEF StackInv
  <2>2. cur \in 1 .. Slots
      BY <1>6 DEF StackInv, TypeOK, StackType
  <2>3. slot'[cur] = slot[cur]
      BY <1>3, <2>1, <2>2 DEF Holds
  <2> QED BY <1>3, <1>4, <1>6, <2>1, <2>3
<1>7. ASSUME at = "test" PROVE node'[asked].use => read \in held'
    BY <1>3, <1>4, <1>7 DEF StackInv
<1> QED BY <1>1, <1>3, <1>4, <1>5, <1>6, <1>7 DEF StackInv, NoNullCall

-----------------------------------------------------------------------------
(* The invariant and what it says. *)

LEMMA CallbacksInit == Agreed /\ Init => TypeOK /\ CallbacksInv
<1> SUFFICES ASSUME Agreed, Init PROVE TypeOK /\ CallbacksInv
    OBVIOUS
<1>1. TypeOK
    BY TypeInit
<1>2. /\ \A t \in Tasks : pc[t] = "idle"
      /\ \A i \in 1 .. Slots : Free(slot[i])
      /\ \A y \in Types : NodeIs(node[y], NoCallback, FALSE)
      /\ held = {} /\ due = {} /\ at = "none" /\ number = 0 /\ added = {}
    BY DEF Init, Free, NodeIs
<1>3. OneActive /\ CallInv
    BY <1>2 DEF OneActive, CallInv, CallShape, EventCall, NodeCall, Leaving
<1>4. SlotsInv
    BY <1>2 DEF SlotsInv, SlotOfCall, SlotShape, Settled, OneSlotEach, HeldInSlot, Free
<1>5. NodesInv
    BY <1>2 DEF NodesInv, NodeOfCall, NodeShape, HeldInNode
<1>6. StackInv
  <2>1. ~null
      BY Zenon DEF Init
  <2> QED BY <1>2, <2>1 DEF StackInv, Progress, NoNullCall
<1>7. RecordsInv
    BY <1>2 DEF RecordsInv, Recorded
<1> QED BY <1>1, <1>3, <1>4, <1>5, <1>6, <1>7 DEF CallbacksInv

LEMMA CallbacksStep ==
    Agreed /\ TypeOK /\ CallbacksInv /\ [Next]_vars => TypeOK' /\ CallbacksInv'
<1> SUFFICES ASSUME Agreed, TypeOK, CallbacksInv, [Next]_vars PROVE TypeOK' /\ CallbacksInv'
    OBVIOUS
<1> USE DEF CallbacksInv
<1>1. TypeOK'
    BY TypeStep
<1>2. ASSUME NEW t \in Tasks, User(t) PROVE CallbacksInv'
  <2>1. held' \subseteq Callbacks
      BY <1>1 DEF TypeOK
  <2> QED BY <1>2, <2>1, CallStep, SlotsStep, NodesStep, UserStackStep, RecordsStep
<1>3. ASSUME UNCHANGED <<slot, node, records, number, added, pc, arg, idx, fld, held>>
      PROVE  OneActive' /\ CallInv' /\ SlotsInv' /\ NodesInv' /\ RecordsInv'
  <2>1. OneActive' /\ CallInv'
      BY <1>3 DEF OneActive, CallInv, CallShape
  <2>2. SlotsInv'
      BY <1>3 DEF SlotsInv, SlotOfCall, SlotShape, Settled, Worked, Sought, OneSlotEach, HeldInSlot,
                  Filling, Clearing
  <2>3. NodesInv'
      BY <1>3 DEF NodesInv, NodeOfCall, NodeShape, HeldInNode
  <2>4. RecordsInv'
      BY <1>3 DEF RecordsInv, Recorded
  <2> QED BY <2>1, <2>2, <2>3, <2>4
<1>4. CASE Stack
  <2>1. UNCHANGED <<slot, node, records, number, added, pc, arg, idx, fld, held>>
      BY <1>4, StackReads
  <2>2. StackInv'
      BY <1>4, StackStep
  <2> QED BY <1>1, <1>3, <2>1, <2>2
<1>5. CASE UNCHANGED vars
  <2>1. StackInv'
      BY <1>5 DEF vars, StackInv, Progress, Passed, NoNullCall
  <2>2. UNCHANGED <<slot, node, records, number, added, pc, arg, idx, fld, held>>
      BY <1>5 DEF vars
  <2> QED BY <1>1, <1>3, <2>1, <2>2
<1> QED BY <1>1, <1>2, <1>4, <1>5 DEF Next

\* The inductive invariant: every call is where the tables say, the tables hold what
\* is registered, and a dispatch has called whom it passed, whatever the others do.
THEOREM Invariance == ASSUME Agreed PROVE Spec => [](TypeOK /\ CallbacksInv)
<1>1. Init => TypeOK /\ CallbacksInv
    BY CallbacksInit
<1>2. TypeOK /\ CallbacksInv /\ [Next]_vars => (TypeOK /\ CallbacksInv)'
    BY CallbacksStep
<1> QED BY <1>1, <1>2, PTL DEF Spec

\* The tables, the calls and the stack keep their types.
THEOREM TypeCorrect == ASSUME Agreed PROVE Spec => []TypeOK
BY Invariance, PTL

\* No NULL callback is called, by a dispatch or for a query, although the fields of a
\* slot and of a node are written one by one.
THEOREM NeverNull == ASSUME Agreed PROVE Spec => []NoNullCall
<1>1. CallbacksInv => NoNullCall
    BY DEF CallbacksInv, StackInv
<1> QED BY <1>1, Invariance, PTL

\* What is registered stays registered, in exactly one slot, until it is deregistered.
THEOREM Keeps == ASSUME Agreed PROVE Spec => []Kept
<1>1. ASSUME TypeOK, CallbacksInv PROVE Kept
  <2> USE <1>1 DEF CallbacksInv
  <2>1. ASSUME NEW c \in held, KindOf[c] = AppEvent
        PROVE  /\ \E i \in 1 .. Slots : slot[i] = [cb |-> c, use |-> TRUE, mask |-> MaskOf[c]]
               /\ Cardinality({i \in 1 .. Slots : slot[i].use /\ slot[i].cb = c}) = 1
    <3>1. PICK i \in 1 .. Slots : Holds(slot[i], c) /\ \A j \in 1 .. Slots : slot[j].cb = c => j = i
        BY <2>1, SlotOfHeld
    <3>2. slot[i] \in SlotType
        BY DEF TypeOK, TableType
    <3>3. slot[i] = [cb |-> c, use |-> TRUE, mask |-> MaskOf[c]]
        BY <3>1, <3>2 DEF SlotType, Holds
    <3>4. {j \in 1 .. Slots : slot[j].use /\ slot[j].cb = c} = {i}
        BY <3>1 DEF Holds
    <3>5. Cardinality({i}) = 1
        BY FS_Singleton
    <3> QED BY <3>3, <3>4, <3>5
  <2>2. ASSUME NEW c \in held, KindOf[c] # AppEvent
        PROVE  node[KindOf[c]] = [cb |-> c, use |-> TRUE]
    <3>1. NodeIs(node[KindOf[c]], c, TRUE)
        BY <2>2 DEF NodesInv, HeldInNode
    <3>2. node[KindOf[c]] \in NodeType
        BY <2>2, BtCallbacksAssumption DEF TypeOK, TableType
    <3> QED BY <3>1, <3>2 DEF NodeType, NodeIs
  <2> QED BY <2>1, <2>2 DEF Kept
<1> QED BY <1>1, Invariance, PTL

\* A finished dispatch has told everyone the event was for, although callbacks came
\* and went while it ran.
THEOREM AllDelivered == ASSUME Agreed PROVE Spec => []Delivered
<1>1. CallbacksInv => Delivered
    BY DEF CallbacksInv, StackInv, Delivered
<1> QED BY <1>1, Invariance, PTL

\* A dispatch calls only what is registered, and nobody the event is for twice.
THEOREM OnceEach == ASSUME Agreed PROVE Spec => CalledOnce
<1>1. ASSUME TypeOK, CallbacksInv, at = "call"
      PROVE  slot[cur].cb \in held /\ (slot[cur].cb \in due => slot[cur].cb \notin got)
  <2>1. cur \in 1 .. Slots /\ slot[cur].cb \in held
      BY <1>1 DEF CallbacksInv, StackInv, TypeOK, StackType, Holds
  <2> QED BY <1>1, <2>1 DEF CallbacksInv, StackInv, Progress, Passed
<1> QED BY <1>1, Invariance, PTL DEF CalledOnce

\* Every record added with success is there, and no place before the number is empty.
THEOREM RecordsKept == ASSUME Agreed PROVE Spec => []Recorded
<1>1. CallbacksInv => Recorded
    BY DEF CallbacksInv, RecordsInv
<1> QED BY <1>1, Invariance, PTL

\* While a callback of a type is registered the stack gets its answer.
THEOREM AlwaysAnswered == ASSUME Agreed PROVE Spec => Answered
<1>1. ASSUME TypeOK, CallbacksInv, at = "test", NEW c \in held, KindOf[c] = asked
      PROVE  node[asked].use /\ read \in held
  <2>1. KindOf[c] # AppEvent
      BY <1>1, BtCallbacksAssumption DEF TypeOK, StackType
  <2>2. node[asked].use
      BY <1>1, <2>1 DEF CallbacksInv, NodesInv, HeldInNode, NodeIs
  <2> QED BY <1>1, <2>2 DEF CallbacksInv, StackInv
<1>2. TypeOK /\ CallbacksInv /\ [Next]_vars =>
         [at = "test" /\ at' = "none" /\ (\E c \in held : KindOf[c] = asked) =>
             node[asked].use /\ read \in held]_vars
    BY <1>1
<1> QED BY <1>2, Invariance, PTL DEF Answered, Spec
=============================================================================
