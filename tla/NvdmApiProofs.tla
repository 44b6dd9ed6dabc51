--------------------------- MODULE NvdmApiProofs ---------------------------
(***************************************************************************)
(* Proofs that the NVDM mutex and the query session do their work, for any *)
(* number of tasks, keys, groups and any length of the daemon's queue.     *)
(***************************************************************************)
EXTENDS NvdmApi, SequenceTheorems, TLAPS

\* What a task between two steps has in its locals: the call it is executing.
CallOK ==
    /\ \A t \in Tasks :
          /\ pc[t] = "take" => call[t] \in MutexCall
          /\ pc[t] \in {"read", "delete", "write"} =>
                call[t] \in MutexCall /\ call[t].op = pc[t]
    /\ pc[Daemon] \in {"idle", "take", "write", "callback"}
    /\ pc[Daemon] # "idle" => call[Daemon] \in Requests

InSessionCall(t) == pc[t] \in {"next_group", "next_item", "query_end"}

\* Who has the mutex, and why: the strengthening that makes OneOperation,
\* SessionExclusive and SnapshotStable inductive.
MutexInv ==
    /\ \A t \in Tasks : Working(t) => mutex = t /\ ~query.active
    /\ \A t \in Tasks : InSessionCall(t) =>
          mutex = t /\ query.active /\ query.handler = t
    /\ \A t \in Tasks : pc[t] = "give" => mutex = t /\ ~query.active
    /\ \A t \in Tasks : pc[t] = "query_build" => query.handler = t
    /\ query.active =>
          query.handler \in Tasks /\ mutex = query.handler /\ query.table = Present

-----------------------------------------------------------------------------
\* Every task runs a call or the daemon's loop: tasks are the clients or Daemon.
LEMMA TaskFacts ==
    /\ Daemon \in Tasks /\ Clients \subseteq Tasks
    /\ Nobody \notin Tasks /\ Daemon \notin Clients
BY ApiAssumption DEF Tasks

\* The daemon's requests are calls of nvdm_write_data_item.
LEMMA RequestsAreCalls ==
    ASSUME NEW r \in Requests
    PROVE  /\ r \in MutexCall /\ r.op = "write" /\ r.id \in 1 .. MaxAsync
           /\ r.key \in Keys /\ r.val \in Values
BY ApiAssumption DEF Requests, MutexCall

\* The operation of a call under the mutex is the label its task goes to.
LEMMA CallShape ==
    ASSUME NEW c \in MutexCall
    PROVE  /\ c.op \in {"read", "delete", "write", "query_begin"}
           /\ c.op = "read" => c.key \in Keys
           /\ c.op = "delete" => c.keys \subseteq Keys
           /\ c.op = "write" => c.key \in Keys /\ c.val \in Values
BY DEF MutexCall, DeleteSets

-----------------------------------------------------------------------------
(* Types. *)

LEMMA TypeInit == Init => TypeOK /\ CallOK
<1> SUFFICES ASSUME Init PROVE TypeOK /\ CallOK
    OBVIOUS
<1> USE TaskFacts, ApiAssumption DEF Init
<1>1. QueryType
    BY DEF QueryType, NoQuery
<1>2. QueueType
    BY DEF QueueType
<1>3. TaskType
    BY DEF TaskType, Labels, Statuses
<1>4. CallOK
    BY DEF CallOK
<1> QED BY <1>1, <1>2, <1>3, <1>4 DEF TypeOK

\* A task that returns leaves every task's locals in order.
LEMMA ReturnOK ==
    ASSUME TaskType, CallOK, NEW t \in Tasks, NEW status \in Statuses,
           Return(t, status), t = Daemon => pc[t] # "idle"
    PROVE  TaskType' /\ CallOK'
<1> USE TaskFacts DEF TaskType, Return, Goto
<1>1. TaskType'
    BY DEF Labels
<1>2. CallOK'
    BY DEF CallOK
<1> QED BY <1>1, <1>2

\* A task that goes on inside its call does so too.
LEMMA GotoOK ==
    ASSUME TaskType, CallOK, NEW t \in Tasks, t # Daemon,
           NEW label \in {"query_build", "next_group", "next_item", "query_end", "give"},
           Goto(t, label), UNCHANGED <<call, ret>>
    PROVE  TaskType' /\ CallOK'
<1> USE TaskFacts DEF TaskType, Goto
<1>1. TaskType'
    BY DEF Labels
<1>2. CallOK'
    BY DEF CallOK
<1> QED BY <1>1, <1>2

\* Every step keeps the types, and the locals of every task in order.
LEMMA TypeStep ==
    ASSUME TypeOK, CallOK, [Next]_vars
    PROVE  TypeOK' /\ CallOK'
<1> USE TaskFacts, ApiAssumption DEF TypeOK
<1>1. CASE NvdmInit
    BY <1>1 DEF NvdmInit, TaskType, QueryType, QueueType, CallOK
<1>2. ASSUME NEW t \in Clients, Call(t) PROVE TypeOK' /\ CallOK'
  <2>1. QueryType' /\ QueueType'
      BY <1>2 DEF Call, QueryType, QueueType
  <2>2. TaskType' /\ CallOK'
    <3>1. CASE inited
        BY <1>2, <3>1 DEF Call, Goto, TaskType, CallOK, Labels
    <3>2. CASE ~inited
      <4>1. Return(t, "ERROR")
          BY <1>2, <3>2 DEF Call
      <4> QED BY <4>1, ReturnOK DEF Statuses
    <3> QED BY <3>1, <3>2
  <2> QED BY <1>2, <2>1, <2>2 DEF Call
<1>3. ASSUME NEW t \in Clients, QueryHandler(t) PROVE TypeOK' /\ CallOK'
  <2>1. QueryType' /\ QueueType'
      BY <1>3 DEF QueryHandler, QueryType, QueueType
  <2>2. TaskType' /\ CallOK'
    <3>1. PICK c \in QueryCall :
             IF query.handler = t
             THEN /\ Goto(t, c.op)
                  /\ call' = [call EXCEPT ![t] = c]
                  /\ UNCHANGED ret
             ELSE Return(t, "ERROR")
        BY <1>3 DEF QueryHandler
    <3>2. c.op \in {"next_group", "next_item", "query_end"}
        BY DEF QueryCall
    <3>3. CASE query.handler = t
        BY <3>1, <3>2, <3>3 DEF Goto, TaskType, CallOK, Labels
    <3>4. CASE query.handler # t
        BY <3>1, <3>4, ReturnOK DEF Statuses
    <3> QED BY <3>3, <3>4
  <2> QED BY <1>3, <2>1, <2>2 DEF QueryHandler
<1>4. ASSUME NEW t \in Clients, WriteAsync(t) PROVE TypeOK' /\ CallOK'
  <2>1. PICK k \in Keys, v \in Values :
           IF inited /\ ~QueueFull
           THEN /\ queue' = Append(queue, NewRequest(k, v))
                /\ issued' = issued + 1
                /\ Return(t, "OK")
           ELSE UNCHANGED <<queue, issued>> /\ Return(t, "ERROR")
      BY <1>4 DEF WriteAsync
  <2>2. issued < MaxAsync /\ UNCHANGED <<inited, mutex, kv, query, answered>>
      BY <1>4 DEF WriteAsync
  <2>3. QueryType'
      BY <2>2 DEF QueryType
  <2>4. CASE inited /\ ~QueueFull
    <3>1. NewRequest(k, v) \in Requests
        BY <2>2 DEF NewRequest, Requests, QueueType
    <3>2. Append(queue, NewRequest(k, v)) \in Seq(Requests)
        BY <3>1 DEF QueueType
    <3>3. Len(Append(queue, NewRequest(k, v))) <= QueueLength
        BY <2>4, <3>1 DEF QueueType, QueueFull
    <3>4. QueueType'
      <4>1. issued + 1 \in 0 .. MaxAsync
          BY <2>2 DEF QueueType
      <4>2. queue' \in Seq(Requests) /\ Len(queue') <= QueueLength
          BY <2>1, <2>4, <3>2, <3>3
      <4> QED BY <2>1, <2>2, <2>4, <4>1, <4>2 DEF QueueType
    <3>5. TaskType' /\ CallOK'
        BY <2>1, <2>4, ReturnOK DEF Statuses
    <3> QED BY <2>2, <2>3, <3>4, <3>5
  <2>5. CASE ~(inited /\ ~QueueFull)
    <3>1. QueueType'
        BY <2>1, <2>2, <2>5 DEF QueueType
    <3>2. TaskType' /\ CallOK'
        BY <2>1, <2>5, ReturnOK DEF Statuses
    <3> QED BY <2>2, <2>3, <3>1, <3>2
  <2> QED BY <2>4, <2>5
<1>5. CASE Receive
  <2>1. /\ Head(queue) \in Requests /\ Tail(queue) \in Seq(Requests)
        /\ Len(Tail(queue)) <= QueueLength
      BY <1>5 DEF Receive, QueueType
  <2>2. Head(queue) \in MutexCall
      BY <2>1, RequestsAreCalls
  <2>3. QueryType' /\ QueueType'
      BY <1>5, <2>1 DEF Receive, QueryType, QueueType
  <2>4. TaskType' /\ CallOK'
      BY <1>5, <2>1, <2>2 DEF Receive, Goto, TaskType, CallOK, Labels
  <2> QED BY <1>5, <2>3, <2>4 DEF Receive
<1>6. CASE Callback
  <2>1. call[Daemon].id \in 0 .. MaxAsync
      BY <1>6, RequestsAreCalls DEF Callback, CallOK
  <2>2. QueryType' /\ QueueType'
      BY <1>6, <2>1 DEF Callback, QueryType, QueueType
  <2>3. TaskType' /\ CallOK'
      BY <1>6 DEF Callback, Goto, TaskType, CallOK, Labels
  <2> QED BY <1>6, <2>2, <2>3 DEF Callback
<1>7. ASSUME NEW t \in Tasks, Step(t) PROVE TypeOK' /\ CallOK'
  <2>0. QueueType' /\ (t = Daemon => pc[t] \in {"idle", "take", "write", "callback"})
      BY <1>7 DEF Step, Take, Read, Delete, Write, WriteNoSpace, WriteTooMany,
                  QueryBegin, QueryBuild, QueryNoMemory, NextGroup, NextItem,
                  QueryEnd, Give, Finish, QueueType, CallOK
  <2>1. CASE Take(t)
    <3>1. call[t] \in MutexCall /\ (t = Daemon => call[t].op = "write")
        BY <2>1, RequestsAreCalls DEF Take, CallOK
    <3>2. call[t].op \in {"read", "delete", "write", "query_begin"}
        BY <3>1, CallShape
    <3>3. TaskType' /\ CallOK'
        BY <2>1, <3>1, <3>2 DEF Take, Goto, TaskType, CallOK, Labels
    <3> QED BY <2>0, <2>1, <3>3 DEF Take, QueryType
  <2>2. CASE Read(t)
    <3>1. PICK status \in Statuses : Return(t, status)
        BY <2>2 DEF Read, Finish, Statuses
    <3>2. TaskType' /\ CallOK'
        BY <2>0, <2>2, <3>1, ReturnOK DEF Read
    <3> QED BY <2>0, <2>2, <3>2 DEF Read, Finish, QueryType
  <2>3. CASE Delete(t)
    <3>1. TaskType' /\ CallOK'
        BY <2>0, <2>3, ReturnOK DEF Delete, Finish, Statuses
    <3> QED BY <2>0, <2>3, <3>1 DEF Delete, Finish, QueryType
  <2>4. CASE Write(t)
    <3>1. call[t].key \in Keys /\ call[t].val \in Values
        BY <2>4, CallShape DEF Write, CallOK
    <3>2. TaskType' /\ CallOK'
        BY <2>0, <2>4, ReturnOK DEF Write, Finish, Statuses
    <3> QED BY <2>0, <2>4, <3>1, <3>2 DEF Write, Finish, QueryType
  <2>5. CASE WriteNoSpace(t)
    <3>1. TaskType' /\ CallOK'
        BY <2>0, <2>5, ReturnOK DEF WriteNoSpace, Finish, Statuses
    <3> QED BY <2>0, <2>5, <3>1 DEF WriteNoSpace, Finish, QueryType
  <2>6. CASE WriteTooMany(t)
    <3>1. TaskType' /\ CallOK'
        BY <2>0, <2>6, ReturnOK DEF WriteTooMany, Statuses
    <3> QED BY <2>0, <2>6, <3>1 DEF WriteTooMany, QueryType
  <2>7. CASE QueryBegin(t)
    <3>1. CASE query.active
      <4>1. TaskType' /\ CallOK'
          BY <2>0, <2>7, <3>1, ReturnOK DEF QueryBegin, Finish, Statuses
      <4> QED BY <2>0, <2>7, <3>1, <4>1 DEF QueryBegin, Finish, QueryType
    <3>2. CASE ~query.active
      <4>1. TaskType' /\ CallOK'
          BY <2>0, <2>7, <3>2, GotoOK DEF QueryBegin
      <4>2. QueryType'
          BY <2>7, <3>2 DEF QueryBegin, QueryType
      <4> QED BY <2>0, <2>7, <3>2, <4>1, <4>2 DEF QueryBegin
    <3> QED BY <3>1, <3>2
  <2>8. CASE QueryBuild(t)
    <3>1. TaskType' /\ CallOK'
        BY <2>0, <2>8, ReturnOK DEF QueryBuild, Statuses
    <3>2. Present \subseteq Keys /\ {GroupOf[k] : k \in Present} \subseteq Groups
        BY DEF Present
    <3>3. QueryType'
        BY <2>8, <3>2 DEF QueryBuild, QueryType
    <3> QED BY <2>0, <2>8, <3>1, <3>3 DEF QueryBuild
  <2>9. CASE QueryNoMemory(t)
    <3>1. TaskType' /\ CallOK'
        BY <2>0, <2>9, ReturnOK DEF QueryNoMemory, Finish, Statuses
    <3> QED BY <2>0, <2>9, <3>1 DEF QueryNoMemory, Finish, QueryType
  <2>10. CASE NextGroup(t)
    <3>1. PICK status \in Statuses : Return(t, status)
        BY <2>10 DEF NextGroup, Statuses
    <3>2. TaskType' /\ CallOK'
        BY <2>0, <2>10, <3>1, ReturnOK DEF NextGroup
    <3>3. QueryType'
      <4>1. \A g \in query.groups : InGroup(query.table, g) \subseteq Keys
          BY DEF InGroup, QueryType
      <4>2. CASE UNCHANGED query
          BY <4>2 DEF QueryType
      <4>3. CASE \E g \in query.groups :
                    query' = [query EXCEPT !.groups = @ \ {g}, !.current = g,
                                           !.names = InGroup(query.table, g)]
        <5>1. PICK g \in query.groups :
                 query' = [query EXCEPT !.groups = @ \ {g}, !.current = g,
                                        !.names = InGroup(query.table, g)]
            BY <4>3
        <5>2. /\ query.groups \ {g} \subseteq Groups /\ g \in Groups
              /\ InGroup(query.table, g) \subseteq Keys
            BY <4>1 DEF QueryType
        <5> QED BY <5>1, <5>2 DEF QueryType
      <4> QED BY <2>10, <4>2, <4>3 DEF NextGroup
    <3> QED BY <2>0, <2>10, <3>2, <3>3 DEF NextGroup
  <2>11. CASE NextItem(t)
    <3>1. PICK status \in Statuses : Return(t, status)
        BY <2>11 DEF NextItem, Statuses
    <3>2. TaskType' /\ CallOK'
        BY <2>0, <2>11, <3>1, ReturnOK DEF NextItem
    <3>3. QueryType'
        BY <2>11 DEF NextItem, QueryType
    <3> QED BY <2>0, <2>11, <3>2, <3>3 DEF NextItem
  <2>12. CASE QueryEnd(t)
    <3>1. TaskType' /\ CallOK'
        BY <2>0, <2>12, ReturnOK, GotoOK DEF QueryEnd, Statuses
    <3>2. QueryType'
        BY <2>12 DEF QueryEnd, QueryType, NoQuery
    <3> QED BY <2>0, <2>12, <3>1, <3>2 DEF QueryEnd
  <2>13. CASE Give(t)
    <3>1. TaskType' /\ CallOK'
        BY <2>0, <2>13, ReturnOK DEF Give, Statuses
    <3> QED BY <2>0, <2>13, <3>1 DEF Give, QueryType
  <2> QED BY <1>7, <2>1, <2>2, <2>3, <2>4, <2>5, <2>6, <2>7, <2>8, <2>9, <2>10,
             <2>11, <2>12, <2>13 DEF Step
<1>8. CASE UNCHANGED vars
    BY <1>8 DEF vars, TaskType, QueryType, QueueType, CallOK
<1> QED BY <1>1, <1>2, <1>3, <1>4, <1>5, <1>6, <1>7, <1>8 DEF Next

\* The state of the interface has its type in every reachable state.
THEOREM TypeCorrect == Spec => []TypeOK
<1>1. Init => TypeOK /\ CallOK
    BY TypeInit
<1>2. TypeOK /\ CallOK /\ [Next]_vars => (TypeOK /\ CallOK)'
    BY TypeStep
<1> QED BY <1>1, <1>2, PTL DEF Spec

-----------------------------------------------------------------------------
(* Mutual exclusion and the query session. *)

LEMMA MutexInit == Init => MutexInv
BY TaskFacts DEF Init, MutexInv, Working, InSessionCall, NoQuery

\* A task that has the mutex, runs an operation in it and ends it.
LEMMA FinishKeeps ==
    ASSUME TypeOK, MutexInv, NEW t \in Tasks, NEW status, Working(t), Finish(t, status),
           query' = query \/ (~query'.active /\ query'.handler = query.handler)
    PROVE  MutexInv'
BY TaskFacts DEF TypeOK, TaskType, MutexInv, Working, InSessionCall, Finish, Return, Goto

\* Exclusion is kept by every step when the query functions are called as they
\* are meant to be, inside a session of the caller.
LEMMA MutexStep ==
    ASSUME ~QueryOutside, TypeOK, CallOK, MutexInv, [Next]_vars
    PROVE  MutexInv'
<1> USE TaskFacts DEF TypeOK, TaskType, MutexInv, Working, InSessionCall
<1>1. CASE NvdmInit
    BY <1>1 DEF NvdmInit, Present
<1>2. ASSUME NEW t \in Clients, Call(t) PROVE MutexInv'
    BY <1>2 DEF Call, Return, Goto, Present
<1>3. ASSUME NEW t \in Clients, QueryHandler(t) PROVE MutexInv'
  <2>1. PICK c \in QueryCall :
           /\ MayCall(t, c)
           /\ IF query.handler = t
              THEN /\ Goto(t, c.op)
                   /\ call' = [call EXCEPT ![t] = c]
                   /\ UNCHANGED ret
              ELSE Return(t, "ERROR")
      BY <1>3 DEF QueryHandler
  <2>2. InSession(t)
      BY <2>1 DEF MayCall
  <2>3. Goto(t, c.op) /\ c.op \in {"next_group", "next_item", "query_end"}
      BY <2>1, <2>2 DEF InSession, QueryCall
  <2> QED BY <1>3, <2>2, <2>3 DEF QueryHandler, InSession, Goto, Present
<1>4. ASSUME NEW t \in Clients, WriteAsync(t) PROVE MutexInv'
    BY <1>4 DEF WriteAsync, Return, Goto, Present
<1>5. CASE Receive
    BY <1>5 DEF Receive, Goto, Present
<1>6. CASE Callback
    BY <1>6 DEF Callback, Goto, Present
<1>7. ASSUME NEW t \in Tasks, Step(t) PROVE MutexInv'
  <2>1. CASE Take(t)
    <3>1. call[t].op \in {"read", "delete", "write", "query_begin"}
        BY <2>1, CallShape DEF Take, CallOK
    <3> QED BY <2>1, <3>1 DEF Take, Goto, Present
  <2>2. CASE Read(t)
    <3>1. PICK status : Finish(t, status)
        BY <2>2 DEF Read
    <3> QED BY <2>2, <3>1, FinishKeeps DEF Read
  <2>3. CASE Delete(t)
      BY <2>3, FinishKeeps DEF Delete
  <2>4. CASE Write(t)
      BY <2>4, FinishKeeps DEF Write
  <2>5. CASE WriteNoSpace(t)
      BY <2>5, FinishKeeps DEF WriteNoSpace
  <2>6. CASE WriteTooMany(t)
      BY <2>6 DEF WriteTooMany, Return, Goto, Present
  <2>7. CASE QueryBegin(t)
      BY <2>7 DEF QueryBegin, QueryType, Goto, Present
  <2>8. CASE QueryBuild(t)
      BY <2>8 DEF QueryBuild, QueryType, Return, Goto, Present
  <2>9. CASE QueryNoMemory(t)
      BY <2>9, FinishKeeps DEF QueryNoMemory
  <2>10. CASE NextGroup(t)
    <3>1. /\ query'.active = query.active /\ query'.handler = query.handler
          /\ query'.table = query.table
        BY <2>10 DEF NextGroup, QueryType
    <3>2. UNCHANGED <<mutex, kv>> /\ \E status : Return(t, status)
        BY <2>10 DEF NextGroup
    <3>3. mutex = t /\ query.active /\ query.handler = t
        BY <2>10 DEF NextGroup
    <3>4. \A u \in Tasks \ {t} : pc'[u] = pc[u]
        BY <3>2 DEF Return, Goto
    <3>5. pc'[t] \in {"idle", "callback"}
        BY <3>2 DEF Return, Goto
    <3> QED BY <3>1, <3>2, <3>3, <3>4, <3>5 DEF Present
  <2>11. CASE NextItem(t)
      BY <2>11 DEF NextItem, QueryType, Return, Goto, Present
  <2>12. CASE QueryEnd(t)
      BY <2>12 DEF QueryEnd, QueryType, NoQuery, Return, Goto, Present
  <2>13. CASE Give(t)
      BY <2>13 DEF Give, Return, Goto, Present
  <2> QED BY <1>7, <2>1, <2>2, <2>3, <2>4, <2>5, <2>6, <2>7, <2>8, <2>9, <2>10,
             <2>11, <2>12, <2>13 DEF Step
<1>8. CASE UNCHANGED vars
    BY <1>8 DEF vars, Present
<1> QED BY <1>1, <1>2, <1>3, <1>4, <1>5, <1>6, <1>7, <1>8 DEF Next

LEMMA MutexInvariant == ASSUME ~QueryOutside PROVE Spec => [](TypeOK /\ CallOK /\ MutexInv)
<1>1. Init => TypeOK /\ CallOK /\ MutexInv
    BY TypeInit, MutexInit
<1>2. TypeOK /\ CallOK /\ MutexInv /\ [Next]_vars => (TypeOK /\ CallOK /\ MutexInv)'
    BY TypeStep, MutexStep
<1> QED BY <1>1, <1>2, PTL DEF Spec

\* Operations of different tasks exclude each other, and an open session
\* excludes them all, although begin and end are calls of their own.
THEOREM OperationsExclude == ASSUME ~QueryOutside PROVE Spec => []OneOperation
<1>1. MutexInv => OneOperation
    BY DEF MutexInv, OneOperation
<1> QED BY <1>1, MutexInvariant, PTL

\* The calls of a session, which take no mutex, run only in its owner.
THEOREM SessionsExclude == ASSUME ~QueryOutside PROVE Spec => []SessionExclusive
<1>1. MutexInv => SessionExclusive
    BY DEF MutexInv, SessionExclusive, InSessionCall
<1> QED BY <1>1, MutexInvariant, PTL

\* No task changes the items a session enumerates while the session lasts.
THEOREM SnapshotsAreStable == ASSUME ~QueryOutside PROVE Spec => []SnapshotStable
<1>1. MutexInv => SnapshotStable
    BY DEF MutexInv, SnapshotStable
<1> QED BY <1>1, MutexInvariant, PTL

-----------------------------------------------------------------------------
(* The order of the answers. *)

\* The daemon has a request exactly while it serves one.
IdleIsFree == pc[Daemon] = "idle" => call[Daemon] = NoCall

\* Sequences of numbers put together: one number, one at the end, three parts.
LEMMA OneNumber == ASSUME NEW n \in Nat PROVE <<n>> \in Seq(Nat) /\ Len(<<n>>) = 1 /\ <<n>>[1] = n
OBVIOUS

LEMMA AtEnd ==
    ASSUME NEW s \in Seq(Nat), NEW n \in Nat PROVE Append(s, n) = s \o <<n>>
BY AppendIsConcat, Zenon

LEMMA ThreeParts ==
    ASSUME NEW r \in Seq(Nat), NEW s \in Seq(Nat), NEW t \in Seq(Nat)
    PROVE  (r \o s) \o t = r \o (s \o t)
BY ConcatAssociative

LEMMA TwoParts ==
    ASSUME NEW r \in Seq(Nat), NEW s \in Seq(Nat)
    PROVE  /\ r \o s \in Seq(Nat) /\ Len(r \o s) = Len(r) + Len(s)
           /\ \A i \in 1 .. Len(r) + Len(s) :
                 (r \o s)[i] = IF i <= Len(r) THEN r[i] ELSE s[i - Len(r)]
BY ConcatProperties

\* The numbers of a sequence of requests.
IdsOf(q) == [i \in DOMAIN q |-> q[i].id]

LEMMA IdsType ==
    ASSUME NEW q \in Seq(Requests)
    PROVE  IdsOf(q) \in Seq(Nat) /\ Len(IdsOf(q)) = Len(q)
<1>1. Len(q) \in Nat /\ DOMAIN q = 1 .. Len(q)
    BY LenProperties
<1>2. \A i \in 1 .. Len(q) : q[i] \in Requests
    BY ElementOfSeq
<1>3. \A r \in Requests : r.id \in Nat
    BY ApiAssumption DEF Requests
<1>4. IdsOf(q) \in [1 .. Len(q) -> Nat]
    BY <1>1, <1>2, <1>3 DEF IdsOf
<1> QED BY <1>1, <1>4, SeqDef, LenProperties

\* Taking the first request takes the first number.
LEMMA IdsOfTail ==
    ASSUME NEW q \in Seq(Requests), q # <<>>
    PROVE  IdsOf(q) = <<Head(q).id>> \o IdsOf(Tail(q))
<1>1. /\ Tail(q) \in Seq(Requests) /\ Len(Tail(q)) = Len(q) - 1 /\ Len(q) \in Nat \ {0}
      /\ Head(q) \in Requests /\ Head(q) = q[1]
      /\ \A i \in 1 .. Len(Tail(q)) : Tail(q)[i] = q[i + 1]
    BY HeadTailProperties, EmptySeq
<1>2. /\ IdsOf(q) \in Seq(Nat) /\ Len(IdsOf(q)) = Len(q)
      /\ IdsOf(Tail(q)) \in Seq(Nat) /\ Len(IdsOf(Tail(q))) = Len(q) - 1
    BY <1>1, IdsType
<1>3. Head(q).id \in Nat
    BY <1>1, ApiAssumption DEF Requests
<1> DEFINE h == <<Head(q).id>>
           both == h \o IdsOf(Tail(q))
<1>4. h \in Seq(Nat) /\ Len(h) = 1 /\ h[1] = Head(q).id
    BY <1>3
<1>5. /\ both \in Seq(Nat) /\ Len(both) = Len(q)
      /\ \A i \in 1 .. Len(q) : both[i] = IF i <= 1 THEN h[i] ELSE IdsOf(Tail(q))[i - 1]
  <2> DEFINE s == IdsOf(Tail(q))
  <2> HIDE DEF h
  <2>0. s \in Seq(Nat) /\ Len(s) = Len(q) - 1
      BY <1>2, Zenon
  <2> HIDE DEF s
  <2>1. s \in Seq(Nat) /\ Len(s) = Len(q) - 1 /\ Len(h) + Len(s) = Len(q)
      BY <1>1, <1>4, <2>0
  <2>2. /\ h \o s \in Seq(Nat) /\ Len(h \o s) = Len(h) + Len(s)
        /\ \A i \in 1 .. Len(h) + Len(s) : (h \o s)[i] = IF i <= Len(h) THEN h[i] ELSE s[i - Len(h)]
      BY <1>4, <2>1, TwoParts, Zenon
  <2>3. \A i \in 1 .. Len(q) : (h \o s)[i] = IF i <= 1 THEN h[i] ELSE s[i - 1]
      BY <1>4, <2>1, <2>2
  <2>4. h \o s \in Seq(Nat) /\ Len(h \o s) = Len(q)
      BY <2>1, <2>2
  <2> QED BY <2>3, <2>4, Zenon DEF s
<1>6. ASSUME NEW i \in 1 .. Len(q) PROVE IdsOf(q)[i] = both[i]
  <2>1. IdsOf(q)[i] = q[i].id
      BY LenProperties DEF IdsOf
  <2>2. CASE i = 1
      BY <1>1, <1>4, <1>5, <2>1, <2>2
  <2>3. CASE i # 1
    <3>1. i - 1 \in 1 .. Len(Tail(q))
        BY <1>1, <2>3
    <3>2. IdsOf(Tail(q))[i - 1] = Tail(q)[i - 1].id
        BY <1>1, <3>1, LenProperties DEF IdsOf
    <3>3. Tail(q)[i - 1] = q[i]
        BY <1>1, <3>1
    <3> QED BY <1>1, <1>5, <2>1, <2>3, <3>2, <3>3
  <2> QED BY <2>2, <2>3
<1> HIDE DEF both
<1>7. IdsOf(q) = both
    BY <1>2, <1>5, <1>6, SeqEqual, Zenon
<1> QED BY <1>7 DEF both

\* A request added at the end adds its number at the end.
LEMMA IdsOfAppend ==
    ASSUME NEW q \in Seq(Requests), NEW r \in Requests
    PROVE  IdsOf(Append(q, r)) = Append(IdsOf(q), r.id)
<1>1. /\ Append(q, r) \in Seq(Requests) /\ Len(Append(q, r)) = Len(q) + 1 /\ Len(q) \in Nat
      /\ \A i \in 1 .. Len(q) : Append(q, r)[i] = q[i]
      /\ Append(q, r)[Len(q) + 1] = r
    BY AppendProperties, LenProperties
<1>2. r.id \in Nat
    BY ApiAssumption DEF Requests
<1>3. /\ IdsOf(q) \in Seq(Nat) /\ Len(IdsOf(q)) = Len(q)
      /\ IdsOf(Append(q, r)) \in Seq(Nat) /\ Len(IdsOf(Append(q, r))) = Len(q) + 1
    BY <1>1, IdsType
<1> DEFINE more == Append(IdsOf(q), r.id)
<1>4. /\ more \in Seq(Nat) /\ Len(more) = Len(q) + 1
      /\ \A i \in 1 .. Len(q) : more[i] = IdsOf(q)[i]
      /\ more[Len(q) + 1] = r.id
    BY <1>2, <1>3, AppendProperties
<1>5. ASSUME NEW i \in 1 .. Len(q) + 1 PROVE IdsOf(Append(q, r))[i] = more[i]
  <2>1. IdsOf(Append(q, r))[i] = Append(q, r)[i].id
      BY <1>1, LenProperties DEF IdsOf
  <2>2. CASE i = Len(q) + 1
      BY <1>1, <1>4, <2>1, <2>2
  <2>3. CASE i # Len(q) + 1
    <3>1. i \in 1 .. Len(q)
        BY <1>1, <2>3
    <3>2. IdsOf(q)[i] = q[i].id
        BY <3>1, LenProperties DEF IdsOf
    <3> QED BY <1>1, <1>4, <2>1, <3>1, <3>2
  <2> QED BY <2>2, <2>3
<1> HIDE DEF more
<1>6. IdsOf(Append(q, r)) = more
    BY <1>3, <1>4, <1>5, SeqEqual, Zenon
<1> QED BY <1>6 DEF more

\* The numbers up to n, in order.
UpTo(n) == [i \in 1 .. n |-> i]

LEMMA UpToNext ==
    ASSUME NEW n \in Nat
    PROVE  UpTo(n) \in Seq(Nat) /\ UpTo(n + 1) = UpTo(n) \o <<n + 1>>
<1>1. UpTo(n) \in [1 .. n -> Nat] /\ UpTo(n + 1) \in [1 .. n + 1 -> Nat]
    BY DEF UpTo
<1>2. /\ UpTo(n) \in Seq(Nat) /\ Len(UpTo(n)) = n
      /\ UpTo(n + 1) \in Seq(Nat) /\ Len(UpTo(n + 1)) = n + 1
    BY <1>1, SeqDef, LenProperties
<1>3. /\ Append(UpTo(n), n + 1) \in Seq(Nat) /\ Len(Append(UpTo(n), n + 1)) = n + 1
      /\ \A i \in 1 .. n : Append(UpTo(n), n + 1)[i] = UpTo(n)[i]
      /\ Append(UpTo(n), n + 1)[n + 1] = n + 1
    BY <1>2, AppendProperties
<1>4. \A i \in 1 .. n + 1 : UpTo(n + 1)[i] = Append(UpTo(n), n + 1)[i]
    BY <1>3 DEF UpTo
<1>5. UpTo(n + 1) = Append(UpTo(n), n + 1)
    BY <1>2, <1>3, <1>4, SeqEqual, Zenon
<1>6. UpTo(n + 1) = UpTo(n) \o <<n + 1>>
  <2>1. n + 1 \in Nat
      OBVIOUS
  <2>2. Append(UpTo(n), n + 1) = UpTo(n) \o <<n + 1>>
      BY <1>2, <2>1, AtEnd, Zenon
  <2> QED BY <1>5, <2>2, Zenon
<1> QED BY <1>2, <1>6

\* What is answered, in service and queued, as AnsweredInOrder puts it.
LEMMA OrderIs ==
    AnsweredInOrder <=> answered \o InService \o IdsOf(queue) = UpTo(issued)
BY DEF AnsweredInOrder, IdsOf, UpTo

LEMMA OrderInit == Init => AnsweredInOrder /\ IdleIsFree
<1> SUFFICES ASSUME Init PROVE AnsweredInOrder /\ IdleIsFree
    OBVIOUS
<1>1. call[Daemon] = NoCall /\ answered = <<>> /\ queue = <<>> /\ issued = 0
    BY TaskFacts DEF Init
<1>2. IdsOf(<<>>) = <<>> /\ UpTo(0) = <<>>
  <2>1. UpTo(0) \in [1 .. 0 -> Nat] /\ IdsOf(<<>>) \in [1 .. 0 -> Nat]
      BY DEF UpTo, IdsOf
  <2> QED BY <2>1
<1> QED BY <1>1, <1>2, OrderIs DEF InService, IdleIsFree

\* A step of a call leaves the daemon's request and its queue alone, and the daemon
\* busy when it is its own.
LEMMA StepKeepsRequest ==
    ASSUME TypeOK, CallOK, NEW t \in Tasks, Step(t)
    PROVE  /\ UNCHANGED <<queue, issued, answered>> /\ call'[Daemon] = call[Daemon]
           /\ pc'[Daemon] = "idle" => pc[Daemon] = "idle"
<1> USE TaskFacts DEF TypeOK, TaskType, Return, Goto, Finish
<1>1. CASE Take(t)
    BY <1>1, RequestsAreCalls DEF Take, CallOK
<1>2. CASE Read(t) \/ Delete(t) \/ Write(t) \/ WriteNoSpace(t) \/ WriteTooMany(t)
    BY <1>2 DEF Read, Delete, Write, WriteNoSpace, WriteTooMany
<1>3. CASE QueryBegin(t) \/ QueryBuild(t) \/ QueryNoMemory(t)
    BY <1>3 DEF QueryBegin, QueryBuild, QueryNoMemory
<1>4. CASE NextGroup(t) \/ NextItem(t)
    BY <1>4 DEF NextGroup, NextItem
<1>5. CASE QueryEnd(t) \/ Give(t)
    BY <1>5 DEF QueryEnd, Give
<1> QED BY <1>1, <1>2, <1>3, <1>4, <1>5 DEF Step

LEMMA OrderStep ==
    ASSUME TypeOK, CallOK, AnsweredInOrder, IdleIsFree, [Next]_vars
    PROVE  AnsweredInOrder' /\ IdleIsFree'
<1> USE TaskFacts DEF IdleIsFree
<1> DEFINE Same == /\ UNCHANGED <<queue, issued, answered>> /\ call'[Daemon] = call[Daemon]
                   /\ pc'[Daemon] = "idle" => pc[Daemon] = "idle"
<1>0. ASSUME Same PROVE AnsweredInOrder' /\ IdleIsFree'
    BY <1>0 DEF AnsweredInOrder, InService
<1>1. CASE NvdmInit \/ UNCHANGED vars
    BY <1>0, <1>1 DEF NvdmInit, vars
<1>2. ASSUME NEW t \in Clients, Call(t) \/ QueryHandler(t) PROVE Same
    BY <1>2 DEF Call, QueryHandler, Return, Goto, TypeOK, TaskType
<1>3. ASSUME NEW t \in Tasks, Step(t) PROVE Same
    BY <1>3, StepKeepsRequest
<1> DEFINE before == answered \o InService
<1>4. answered \in Seq(Nat) /\ queue \in Seq(Requests) /\ issued \in Nat
  <2>1. answered \in Seq(0 .. MaxAsync) /\ queue \in Seq(Requests) /\ issued \in 0 .. MaxAsync
      BY DEF TypeOK, QueueType
  <2> QED BY <2>1, ApiAssumption, SeqMonotonic
<1>5. InService \in Seq(Nat)
  <2>1. call[Daemon] # NoCall => call[Daemon] \in Requests
      BY DEF CallOK
  <2>2. call[Daemon] # NoCall => call[Daemon].id \in Nat
      BY <2>1, ApiAssumption DEF Requests
  <2> QED BY <2>2 DEF InService
<1>6. before \in Seq(Nat) /\ IdsOf(queue) \in Seq(Nat)
    BY <1>4, <1>5, ConcatProperties, IdsType
<1>7. before \o IdsOf(queue) = UpTo(issued)
    BY OrderIs
<1>8. ASSUME NEW t \in Clients, WriteAsync(t) PROVE AnsweredInOrder' /\ IdleIsFree'
  <2>1. PICK k \in Keys, v \in Values :
           IF inited /\ ~QueueFull
           THEN queue' = Append(queue, NewRequest(k, v)) /\ issued' = issued + 1
           ELSE UNCHANGED <<queue, issued>>
      BY <1>8 DEF WriteAsync
  <2>2. /\ answered' = answered /\ call'[Daemon] = call[Daemon] /\ pc'[Daemon] = pc[Daemon]
        /\ issued < MaxAsync
      BY <1>8 DEF WriteAsync, Return, Goto, TypeOK, TaskType
  <2>3. CASE UNCHANGED <<queue, issued>>
      BY <1>0, <2>2, <2>3
  <2>4. CASE queue' = Append(queue, NewRequest(k, v)) /\ issued' = issued + 1
    <3>1. NewRequest(k, v) \in Requests /\ NewRequest(k, v).id = issued + 1
        BY <1>4, <2>2, ApiAssumption DEF NewRequest, Requests
    <3>2. IdsOf(queue') = IdsOf(queue) \o <<issued + 1>>
      <4>1. IdsOf(queue') = Append(IdsOf(queue), issued + 1)
          BY <1>4, <2>4, <3>1, IdsOfAppend
      <4> QED BY <1>4, <1>6, <4>1, AtEnd
    <3>3. (answered \o InService)' = before
        BY <2>2 DEF InService
    <3>4. before \o IdsOf(queue') = UpTo(issued) \o <<issued + 1>>
      <4>1. <<issued + 1>> \in Seq(Nat)
          BY <1>4
      <4>2. (before \o IdsOf(queue)) \o <<issued + 1>> = before \o (IdsOf(queue) \o <<issued + 1>>)
          BY <1>6, <4>1, ThreeParts
      <4> QED BY <1>7, <3>2, <4>2
    <3>5. AnsweredInOrder'
      <4>1. (answered \o InService \o IdsOf(queue))' = UpTo(issued')
          BY <1>4, <2>4, <3>3, <3>4, UpToNext
      <4> QED BY <4>1 DEF AnsweredInOrder, IdsOf, UpTo
    <3> QED BY <2>2, <3>5
  <2> QED BY <2>1, <2>3, <2>4
<1>9. CASE Receive
  <2>1. /\ call'[Daemon] = Head(queue) /\ pc'[Daemon] = "take" /\ queue' = Tail(queue)
        /\ UNCHANGED <<issued, answered>> /\ queue # <<>> /\ InService = <<>>
      BY <1>9 DEF Receive, Goto, TypeOK, TaskType, InService
  <2>2. Head(queue) \in Requests /\ Tail(queue) \in Seq(Requests)
      BY <1>4, <2>1, HeadTailProperties
  <2>3. InService' = <<Head(queue).id>>
      BY <2>1, <2>2, NoCallAssumption DEF InService
  <2>4. <<Head(queue).id>> \in Seq(Nat) /\ IdsOf(Tail(queue)) \in Seq(Nat)
    <3>1. Head(queue).id \in Nat
        BY <2>2, ApiAssumption DEF Requests
    <3> QED BY <2>2, <3>1, IdsType, OneNumber
  <2>5. answered \o (<<Head(queue).id>> \o IdsOf(Tail(queue))) = UpTo(issued)
    <3>1. answered \o IdsOf(queue) = UpTo(issued)
        BY <1>4, <1>7, <2>1, ConcatEmptySeq
    <3> QED BY <1>4, <2>1, <3>1, IdsOfTail
  <2>6. (answered \o <<Head(queue).id>>) \o IdsOf(Tail(queue)) = UpTo(issued)
      BY <1>4, <2>4, <2>5, ThreeParts
  <2>7. (answered \o InService \o IdsOf(queue))' = UpTo(issued')
      BY <2>1, <2>3, <2>6
  <2> QED BY <2>1, <2>7 DEF AnsweredInOrder, IdsOf, UpTo
<1>10. CASE Callback
  <2>1. /\ answered' = Append(answered, call[Daemon].id) /\ call'[Daemon] = NoCall
        /\ UNCHANGED <<queue, issued>> /\ pc[Daemon] = "callback"
      BY <1>10 DEF Callback, TypeOK, TaskType
  <2>2. call[Daemon] \in Requests
      BY <2>1 DEF CallOK
  <2>3. call[Daemon].id \in Nat /\ InService = <<call[Daemon].id>>
      BY <2>2, NoCallAssumption, ApiAssumption DEF Requests, InService
  <2>4. answered' = before
      BY <1>4, <2>1, <2>3, AtEnd
  <2>5. (answered \o InService)' = before
      BY <1>6, <2>1, <2>4, ConcatEmptySeq DEF InService
  <2>6. (answered \o InService \o IdsOf(queue))' = UpTo(issued')
      BY <1>7, <2>1, <2>5
  <2> QED BY <2>1, <2>6 DEF AnsweredInOrder, IdsOf, UpTo
<1> QED BY <1>0, <1>1, <1>2, <1>3, <1>8, <1>9, <1>10 DEF Next

\* Accepted requests are answered once each and in the order they were accepted,
\* however the daemon's writes wait for the mutex and whatever they return.
THEOREM AnswersInOrder == Spec => []AnsweredInOrder
<1>1. Init => TypeOK /\ CallOK /\ AnsweredInOrder /\ IdleIsFree
    BY TypeInit, OrderInit
<1>2. TypeOK /\ CallOK /\ AnsweredInOrder /\ IdleIsFree /\ [Next]_vars
      => (TypeOK /\ CallOK /\ AnsweredInOrder /\ IdleIsFree)'
    BY TypeStep, OrderStep
<1> QED BY <1>1, <1>2, PTL DEF Spec
=============================================================================
