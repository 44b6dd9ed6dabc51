------------------------------ MODULE NvdmApi ------------------------------
(***************************************************************************)
(* The NVDM interface as tasks use it concurrently: the mutex around every *)
(* operation, the query session that keeps the mutex from nvdm_query_begin *)
(* to nvdm_query_end, and the non-blocking write that queues a request for *)
(* the system daemon task.  What an operation does to the flash is the     *)
(* atomic effect NvdmStore is shown to have.                               *)
(***************************************************************************)
EXTENDS Naturals, Sequences, FiniteSets

CONSTANTS
    Clients,        \* the application tasks
    Daemon,         \* system_daemon_task
    Nobody,         \* no task
    Keys, Values, Missing, NoCall,
    Groups, GroupOf,   \* the group name of each key
    MaxItems,       \* g_total_data_item_count
    QueueLength,    \* SYSTEM_DAEMON_QUEUE_LENGTH
    MaxAsync,       \* bound: non-blocking writes issued
    ReadInSession,  \* clients read items inside a query session
    QueryOutside    \* clients call the query functions outside of a session

Tasks == Clients \cup {Daemon}

ASSUME ApiAssumption ==
    /\ Daemon \notin Clients /\ Nobody \notin Tasks
    /\ Missing \notin Values
    /\ GroupOf \in [Keys -> Groups]
    /\ QueueLength \in Nat \ {0} /\ MaxAsync \in Nat /\ MaxItems \in Nat
    /\ {ReadInSession, QueryOutside} \subseteq BOOLEAN

VARIABLES
    inited,    \* nvdm_init_status
    mutex,     \* holder of g_nvdm_mutex
    kv,        \* the contents of the store
    pc,        \* per task: where its call is
    call,      \* per task: the call and its arguments
    ret,       \* per task: the status its last call returned
    query,     \* the query session: g_nvdm_query_is_active, g_task_handler, tables
    queue,     \* queue of the system daemon
    issued,    \* number of non-blocking writes the queue has accepted
    answered   \* the requests whose callback has run, in order

vars == <<inited, mutex, kv, pc, call, ret, query, queue, issued, answered>>

Statuses == {"NONE", "OK", "ERROR", "INVALID_PARAMETER", "INSUFFICIENT_SPACE",
             "ITEM_NOT_FOUND"}
\* One item, one group, or everything.
DeleteSets == {{k} : k \in Keys} \cup {{k \in Keys : GroupOf[k] = g} : g \in Groups}
              \cup {Keys}
MutexCall ==
    [op : {"read"}, key : Keys] \cup [op : {"delete"}, keys : DeleteSets]
    \cup [op : {"write"}, key : Keys, val : Values, id : 0 .. MaxAsync]
    \cup [op : {"query_begin"}]
QueryCall == [op : {"next_group", "next_item", "query_end"}]
Requests == [op : {"write"}, key : Keys, val : Values, id : 1 .. MaxAsync]
ASSUME NoCallAssumption == NoCall \notin Requests

NoGroup == "none"
NoQuery == [active |-> FALSE, handler |-> Nobody, table |-> {}, groups |-> {},
            current |-> NoGroup, names |-> {}]

Present == {k \in Keys : kv[k] # Missing}
InGroup(S, g) == {k \in S : GroupOf[k] = g}
InSession(t) == query.active /\ query.handler = t

Init ==
    /\ inited = FALSE
    /\ mutex = Nobody
    /\ kv = [k \in Keys |-> Missing]
    /\ pc = [t \in Tasks |-> "idle"]
    /\ call = [t \in Tasks |-> NoCall]
    /\ ret = [t \in Tasks |-> "NONE"]
    /\ query = NoQuery
    /\ queue = <<>>
    /\ issued = 0
    /\ answered = <<>>

\* nvdm_init: the status is set once recovery is done and the mutex exists.
NvdmInit ==
    /\ ~inited
    /\ inited' = TRUE
    /\ UNCHANGED <<mutex, kv, pc, call, ret, query, queue, issued, answered>>

-----------------------------------------------------------------------------
(* Operations under the mutex. *)

Goto(t, label) == pc' = [pc EXCEPT ![t] = label]
\* The daemon goes on to run the callback of the request it has served.
Return(t, status) ==
    /\ Goto(t, IF t = Daemon THEN "callback" ELSE "idle")
    /\ call' = IF t = Daemon THEN call ELSE [call EXCEPT ![t] = NoCall]
    /\ ret' = [ret EXCEPT ![t] = status]

\* What a client may call now; the documented loop reads inside its session.
MayCall(t, c) ==
    IF InSession(t) THEN c \in QueryCall \/ (ReadInSession /\ c.op = "read")
                    ELSE c \notin QueryCall \/ QueryOutside

\* The initialisation status is read before the mutex is taken.
Call(t) ==
    /\ t \in Clients /\ pc[t] = "idle"
    /\ \E c \in MutexCall :
          /\ MayCall(t, c)
          /\ c.op = "write" => c.id = 0
          /\ IF inited
             THEN /\ Goto(t, "take")
                  /\ call' = [call EXCEPT ![t] = c]
                  /\ UNCHANGED ret
             ELSE Return(t, "ERROR")
    /\ UNCHANGED <<inited, mutex, kv, query, queue, issued, answered>>

\* Mutant: the wait for the mutex runs into a time limit and the call goes on.
TakeTimeout(t) ==
    /\ pc[t] = "take"
    /\ mutex' = t
    /\ Goto(t, call[t].op)
    /\ UNCHANGED <<inited, kv, call, ret, query, queue, issued, answered>>

\* nvdm_port_mutex_take: the mutex is not recursive, and the wait has no limit.
Take(t) ==
    /\ pc[t] = "take"
    /\ mutex = Nobody
    /\ mutex' = t
    /\ Goto(t, call[t].op)
    /\ UNCHANGED <<inited, kv, call, ret, query, queue, issued, answered>>

Finish(t, status) ==
    /\ mutex' = Nobody
    /\ Return(t, status)
    /\ UNCHANGED <<inited, queue, issued, answered>>

\* nvdm_read_data_item and nvdm_query_data_item_length; the buffer may be small.
Read(t) ==
    /\ pc[t] = "read"
    /\ IF kv[call[t].key] = Missing
       THEN Finish(t, "ITEM_NOT_FOUND")
       ELSE \E status \in {"OK", "INVALID_PARAMETER"} : Finish(t, status)
    /\ UNCHANGED <<kv, query>>

Delete(t) ==
    /\ pc[t] = "delete"
    /\ kv' = [k \in Keys |-> IF k \in call[t].keys THEN Missing ELSE kv[k]]
    /\ Finish(t, IF Present \cap call[t].keys = {} THEN "ITEM_NOT_FOUND" ELSE "OK")
    /\ UNCHANGED query

\* Every header is in use and the key needs a new one.
TooMany(t) == kv[call[t].key] = Missing /\ Cardinality(Present) >= MaxItems

Write(t) ==
    /\ pc[t] = "write"
    /\ ~TooMany(t)
    /\ kv' = [kv EXCEPT ![call[t].key] = call[t].val]
    /\ Finish(t, "OK")
    /\ UNCHANGED query

WriteNoSpace(t) ==
    /\ pc[t] = "write"
    /\ Finish(t, "INSUFFICIENT_SPACE")
    /\ UNCHANGED <<kv, query>>

\* This error path does not give the mutex back.
WriteTooMany(t) ==
    /\ pc[t] = "write"
    /\ TooMany(t)
    /\ Return(t, "ERROR")
    /\ UNCHANGED <<inited, mutex, kv, query, queue, issued, answered>>

-----------------------------------------------------------------------------
(* The query session. *)

\* The handler is set before the tables are built and the session is active.
QueryBegin(t) ==
    /\ pc[t] = "query_begin"
    /\ IF query.active
       THEN Finish(t, "ERROR") /\ UNCHANGED query
       ELSE /\ query' = [query EXCEPT !.handler = t]
            /\ Goto(t, "query_build")
            /\ UNCHANGED <<inited, mutex, call, ret, queue, issued, answered>>
    /\ UNCHANGED kv

\* Mutant: the mutex is given back when the tables are built.
QueryBuildGive(t) ==
    /\ pc[t] = "query_build"
    /\ query' = [query EXCEPT !.active = TRUE, !.table = Present,
                              !.groups = {GroupOf[k] : k \in Present},
                              !.current = NoGroup, !.names = {}]
    /\ Finish(t, "OK")
    /\ UNCHANGED kv

\* Success: the mutex stays with the caller.
QueryBuild(t) ==
    /\ pc[t] = "query_build"
    /\ query' = [query EXCEPT !.active = TRUE, !.table = Present,
                              !.groups = {GroupOf[k] : k \in Present},
                              !.current = NoGroup, !.names = {}]
    /\ Return(t, "OK")
    /\ UNCHANGED <<inited, mutex, kv, queue, issued, answered>>

\* No memory for the tables.
QueryNoMemory(t) ==
    /\ pc[t] = "query_build"
    /\ Finish(t, "ERROR")
    /\ UNCHANGED <<kv, query>>

\* Session calls take no mutex: they check the handler, then the active flag.
QueryHandler(t) ==
    /\ t \in Clients /\ pc[t] = "idle"
    /\ \E c \in QueryCall :
          /\ MayCall(t, c)
          /\ IF query.handler = t
             THEN /\ Goto(t, c.op)
                  /\ call' = [call EXCEPT ![t] = c]
                  /\ UNCHANGED ret
             ELSE Return(t, "ERROR")
    /\ UNCHANGED <<inited, mutex, kv, query, queue, issued, answered>>

NextGroup(t) ==
    /\ pc[t] = "next_group"
    /\ \/ /\ query.active
          /\ \E g \in query.groups :
                query' = [query EXCEPT !.groups = @ \ {g}, !.current = g,
                                       !.names = InGroup(query.table, g)]
          /\ Return(t, "OK")
       \/ /\ query.active => query.groups = {}
          /\ Return(t, IF query.active THEN "ITEM_NOT_FOUND" ELSE "ERROR")
          /\ UNCHANGED query
    /\ UNCHANGED <<inited, mutex, kv, queue, issued, answered>>

\* The name is read through the header the table recorded at the beginning.
NextItem(t) ==
    /\ pc[t] = "next_item"
    /\ \/ /\ query.active
          /\ \E k \in query.names : query' = [query EXCEPT !.names = @ \ {k}]
          /\ Return(t, "OK")
       \/ /\ query.active => query.names = {}
          /\ Return(t, IF query.active /\ query.current # NoGroup
                       THEN "ITEM_NOT_FOUND" ELSE "ERROR")
          /\ UNCHANGED query
    /\ UNCHANGED <<inited, mutex, kv, queue, issued, answered>>

\* Mutant: the mutex is given back before the session is closed.
QueryEndGiveFirst(t) ==
    /\ pc[t] = "query_end"
    /\ IF query.active
       THEN /\ mutex' = Nobody
            /\ Goto(t, "give")
            /\ UNCHANGED <<call, ret>>
       ELSE /\ Return(t, "ERROR")
            /\ UNCHANGED mutex
    /\ UNCHANGED <<inited, kv, query, queue, issued, answered>>

\* Mutant: the check of the active flag is inverted.
QueryEndInverted(t) ==
    /\ pc[t] = "query_end"
    /\ IF query.active
       THEN /\ Return(t, "ERROR")
            /\ UNCHANGED query
       ELSE /\ query' = [NoQuery EXCEPT !.handler = query.handler]
            /\ Goto(t, "give")
            /\ UNCHANGED <<call, ret>>
    /\ UNCHANGED <<inited, mutex, kv, queue, issued, answered>>

QueryEnd(t) ==
    /\ pc[t] = "query_end"
    /\ IF query.active
       THEN /\ query' = [NoQuery EXCEPT !.handler = query.handler]
            /\ Goto(t, "give")
            /\ UNCHANGED <<call, ret>>
       ELSE /\ Return(t, "ERROR")
            /\ UNCHANGED query
    /\ UNCHANGED <<inited, mutex, kv, queue, issued, answered>>

Give(t) ==
    /\ pc[t] = "give"
    /\ mutex' = Nobody
    /\ Return(t, "OK")
    /\ UNCHANGED <<inited, kv, query, queue, issued, answered>>

-----------------------------------------------------------------------------
(* The non-blocking write and the system daemon. *)

\* Mutant: off by one.
QueueFullLate == Len(queue) > QueueLength
QueueFull == Len(queue) >= QueueLength

NewRequest(k, v) == [op |-> "write", key |-> k, val |-> v, id |-> issued + 1]
\* Mutant: a full queue drops its oldest request.
WriteAsyncOverwrite(t) ==
    /\ t \in Clients /\ pc[t] = "idle"
    /\ issued < MaxAsync
    /\ inited
    /\ \E k \in Keys, v \in Values :
          queue' = Append(IF QueueFull THEN Tail(queue) ELSE queue, NewRequest(k, v))
    /\ issued' = issued + 1
    /\ Return(t, "OK")
    /\ UNCHANGED <<inited, mutex, kv, query, answered>>

\* A full queue is an error at once; the request is dropped.
WriteAsync(t) ==
    /\ t \in Clients /\ pc[t] = "idle"
    /\ issued < MaxAsync
    /\ \E k \in Keys, v \in Values :
          IF inited /\ ~QueueFull
          THEN /\ queue' = Append(queue, NewRequest(k, v))
               /\ issued' = issued + 1
               /\ Return(t, "OK")
          ELSE /\ UNCHANGED <<queue, issued>>
               /\ Return(t, "ERROR")
    /\ UNCHANGED <<inited, mutex, kv, query, answered>>

\* system_daemon_task: one request after the other, each a blocking write.
Receive ==
    /\ pc[Daemon] = "idle"
    /\ queue # <<>>
    /\ call' = [call EXCEPT ![Daemon] = Head(queue)]
    /\ queue' = Tail(queue)
    /\ Goto(Daemon, "take")
    /\ UNCHANGED <<inited, mutex, kv, ret, query, issued, answered>>

\* Mutant: a failed write has no callback.
CallbackOnSuccess ==
    /\ pc[Daemon] = "callback"
    /\ answered' = IF ret[Daemon] = "OK" THEN Append(answered, call[Daemon].id)
                   ELSE answered
    /\ Goto(Daemon, "idle")
    /\ call' = [call EXCEPT ![Daemon] = NoCall]
    /\ UNCHANGED <<inited, mutex, kv, ret, query, queue, issued>>

\* The callback runs when the mutex is free again; then the request is freed.
Callback ==
    /\ pc[Daemon] = "callback"
    /\ answered' = Append(answered, call[Daemon].id)
    /\ Goto(Daemon, "idle")
    /\ call' = [call EXCEPT ![Daemon] = NoCall]
    /\ UNCHANGED <<inited, mutex, kv, ret, query, queue, issued>>

-----------------------------------------------------------------------------
\* Steps of a call that is executing.
Step(t) ==
    \/ Take(t)
    \/ Read(t) \/ Delete(t) \/ Write(t) \/ WriteNoSpace(t) \/ WriteTooMany(t)
    \/ QueryBegin(t) \/ QueryBuild(t) \/ QueryNoMemory(t)
    \/ NextGroup(t) \/ NextItem(t) \/ QueryEnd(t) \/ Give(t)

Next ==
    \/ NvdmInit
    \/ \E t \in Tasks : Step(t)
    \/ \E t \in Clients : Call(t) \/ QueryHandler(t) \/ WriteAsync(t)
    \/ Receive \/ Callback

Spec == Init /\ [][Next]_vars

\* A task in a call goes on, waiting tasks get the mutex in turn, and a client
\* ends the session it began.
EndSession(t) == QueryHandler(t) /\ call'[t] = [op |-> "query_end"]
FairSpec ==
    /\ Spec
    /\ \A t \in Tasks : WF_vars(Step(t)) /\ SF_vars(Take(t))
    /\ \A t \in Clients : SF_vars(EndSession(t))
    /\ WF_vars(Receive) /\ WF_vars(Callback)

-----------------------------------------------------------------------------
(* Properties. *)

Labels == {"idle", "take", "read", "write", "delete", "query_begin", "query_build",
           "next_group", "next_item", "query_end", "give", "callback"}

TaskType ==
    /\ pc \in [Tasks -> Labels]
    /\ call \in [Tasks -> MutexCall \cup QueryCall \cup {NoCall}]
    /\ ret \in [Tasks -> Statuses]
QueryType ==
    query \in [active : BOOLEAN, handler : Tasks \cup {Nobody},
               table : SUBSET Keys, groups : SUBSET Groups,
               current : Groups \cup {NoGroup}, names : SUBSET Keys]
QueueType ==
    /\ queue \in Seq(Requests) /\ Len(queue) <= QueueLength
    /\ issued \in 0 .. MaxAsync
    /\ answered \in Seq(0 .. MaxAsync)
\* Type of the state; the queue of the daemon never holds more than its length.
TypeOK ==
    /\ inited \in BOOLEAN
    /\ mutex \in Tasks \cup {Nobody}
    /\ kv \in [Keys -> Values \cup {Missing}]
    /\ TaskType /\ QueryType /\ QueueType

Working(t) == pc[t] \in {"read", "write", "delete", "query_begin", "query_build"}

\* "These operations are mutually exclusive" (nvdm.h:126): an operation at work
\* has the mutex, and no session is active beside it.
OneOperation ==
    /\ \A t \in Tasks : Working(t) => mutex = t /\ ~query.active
    /\ query.active => mutex = query.handler

\* A task past the handler check of a session call, while a session is active,
\* is the task that began this session.
SessionExclusive ==
    \A t \in Tasks :
        pc[t] \in {"next_group", "next_item", "query_end"} /\ query.active => mutex = t

\* The tables of a session name exactly the items of the store for as long as
\* the session lasts: no header they index is reused or freed under them.
SnapshotStable == query.active => query.table = Present

\* Accepted requests are answered in the order they were accepted, each once.
InService == IF call[Daemon] = NoCall THEN <<>> ELSE <<call[Daemon].id>>
AnsweredInOrder ==
    answered \o InService \o [i \in DOMAIN queue |-> queue[i].id]
        = [i \in 1 .. issued |-> i]

\* Every call returns; an operation that is occurring completes.
Returns == \A t \in Tasks : (pc[t] = "take") ~> (pc[t] = "idle")

\* The callback of every accepted request runs.
Answered ==
    \A id \in 1 .. MaxAsync : (issued = id) ~> (\E i \in DOMAIN answered : answered[i] = id)
=============================================================================
