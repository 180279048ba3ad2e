----------------------------- MODULE SpineProofs ----------------------------
(***************************************************************************)
(* Proofs about Spine, for every finite set of connections, all requests   *)
(* and every sequence of reloaded snapshots.                               *)
(***************************************************************************)
EXTENDS Spine, FiniteSetTheorems, TLAPS

\* Where a connection is in its life, and what that says of the ghosts and of
\* what has been decided: nothing is decided before a request is read, the
\* request does not change afterwards, and the connection is not older than
\* the routes.
ConnectionState(c) ==
    /\ phase[c] \in Unread \cup {"none", "refused"} => status[c] = 0
    /\ phase[c] \in {"upstream", "yielding", "writing", "answered"} => status[c] # 0
    /\ status[c] # 0 => input[c] # NoInput
    /\ WasAccepted(c) => since[c] \in 1..version

StateTypes ==
    /\ loop \in {"unspawned", "accepting", "done"}
    /\ isOpen \in BOOLEAN
    /\ io \in {"running", "stopped"}
    /\ phase \in [Conns -> Phases]
    /\ input \in [Conns -> Requests \cup {EmptyRequest, NoInput}]
    /\ gone \subseteq Conns
    /\ status \in [Conns -> Statuses]
    /\ version \in 1..Len(Routes)
    /\ metrics \in [Counters -> Nat]
    /\ since \in [Conns -> 0..Len(Routes)]

\* The part of the inductive invariant that is about single connections.
ConnInv ==
    /\ StateTypes
    /\ \A c \in Conns : ConnectionState(c)
    /\ AnswerFollowsRoutes

\* The inductive invariant.
IInv == ConnInv /\ MetricsMatchConnections

-----------------------------------------------------------------------------
(* The status of an answer.                                                *)

\* There is always at least the snapshot of the constructor.
LEMMA RoutesLength == Len(Routes) \in Nat /\ Len(Routes) >= 1
BY ReloadsAssumption DEF Routes

\* Every request is answered with a status, whatever the routes.
LEMMA StatusForType ==
    ASSUME NEW r \in Requests \cup {EmptyRequest}, NEW v
    PROVE  StatusFor(r, v) \in Statuses \ {0}
<1>1. r.parse \in ParseErrors \cup {"kSuccess"}
  BY RequestsAssumption DEF EmptyRequest
<1>2. CASE r.parse = "kSuccess"
  BY <1>2 DEF StatusFor, Statuses
<1>3. CASE r.parse \in ParseErrors
  <2>1. r.parse # "kSuccess"
    BY <1>3 DEF ParseErrors
  <2>2. ParseErrorToHttpStatus(r.parse) \in {400, 431, 500}
    BY <1>3 DEF ParseErrors, ParseErrorToHttpStatus
  <2> QED BY <2>1, <2>2 DEF StatusFor, Statuses
<1> QED BY <1>1, <1>2, <1>3

\* Every status is of one of the three classes.
LEMMA ClassType ==
    ASSUME NEW code \in Statuses \ {0}
    PROVE  Class(code) \in {"r2xx", "r4xx", "r5xx"}
BY DEF Statuses, Class

-----------------------------------------------------------------------------
(* Single connections.                                                     *)

\* Nothing is connected before the spine starts.
LEMMA InitConnInv == Init => ConnInv
<1> SUFFICES ASSUME Init PROVE ConnInv
  OBVIOUS
<1>1. StateTypes
  BY RoutesLength DEF Init, StateTypes, Phases, Statuses, Counters
<1>2. \A c \in Conns : ConnectionState(c)
  BY DEF Init, ConnectionState, Unread, WasAccepted
<1>3. AnswerFollowsRoutes
  BY DEF Init, AnswerFollowsRoutes
<1> QED BY <1>1, <1>2, <1>3 DEF ConnInv

\* One more of something.
LEMMA RecordType ==
    ASSUME StateTypes, NEW k \in Counters, Record(k)
    PROVE  metrics' \in [Counters -> Nat]
BY DEF StateTypes, Record

\* Steps that move a connection on after its request was read, or before,
\* without deciding anything.
LEMMA MoveConnInv ==
    ASSUME ConnInv, NEW c \in Conns, NEW p \in Phases, Goto(c, p),
           UNCHANGED <<loop, isOpen, io, input, gone, status, since, version>>,
           metrics' \in [Counters -> Nat],
           p \in Unread \cup {"none", "refused"} => status[c] = 0,
           p \in {"upstream", "yielding", "writing", "answered"} => status[c] # 0,
           p \notin {"none", "backlog", "refused"} => WasAccepted(c)
    PROVE  ConnInv'
<1>1. StateTypes'
  BY DEF Goto, ConnInv, StateTypes
<1>2. \A d \in Conns : ConnectionState(d)'
  BY DEF Goto, ConnInv, StateTypes, ConnectionState, WasAccepted
<1>3. AnswerFollowsRoutes'
  BY DEF ConnInv, AnswerFollowsRoutes, StatusFor, Matches
<1> QED BY <1>1, <1>2, <1>3 DEF ConnInv

\* The request is read and its answer decided, from the current routes.
LEMMA DispatchConnInv ==
    ASSUME ConnInv, NEW c \in Conns, Dispatch(c)
    PROVE  ConnInv'
<1> DEFINE code == StatusFor(input[c], version)
<1>1. /\ phase[c] = "reading" /\ input[c] # NoInput
      /\ status' = [status EXCEPT ![c] = code]
      /\ phase' = [phase EXCEPT ![c] =
                      IF CallsUpstream(input[c], version) THEN "upstream" ELSE "yielding"]
      /\ UNCHANGED <<loop, isOpen, io, input, gone, since, version>>
      /\ Record("requests")
  BY DEF Dispatch, Goto
<1>2. code \in Statuses \ {0}
  <2>1. input[c] \in Requests \cup {EmptyRequest}
    BY <1>1 DEF ConnInv, StateTypes
  <2> QED BY <2>1, StatusForType
<1>3. since[c] \in 1..version
  BY <1>1 DEF ConnInv, ConnectionState, WasAccepted
<1> HIDE DEF code
<1>4. StateTypes'
  <2>1. metrics' \in [Counters -> Nat]
    BY <1>1, RecordType DEF ConnInv, Counters
  <2> QED BY <1>1, <1>2, <2>1 DEF ConnInv, StateTypes, Phases, Established, Unread
<1>5. \A d \in Conns : ConnectionState(d)'
  <2>1. ConnectionState(c)'
    BY <1>1, <1>2, <1>3 DEF ConnInv, StateTypes, ConnectionState, WasAccepted, Unread
  <2>2. ASSUME NEW d \in Conns, d # c PROVE ConnectionState(d)'
    BY <1>1, <2>2 DEF ConnInv, StateTypes, ConnectionState, WasAccepted
  <2> QED BY <2>1, <2>2
<1>6. AnswerFollowsRoutes'
  <2> SUFFICES ASSUME NEW d \in Conns, status'[d] # 0
               PROVE  \E v \in since[d]..version : status'[d] = StatusFor(input[d], v)
    BY <1>1 DEF AnswerFollowsRoutes, StatusFor, Matches
  <2>1. CASE d = c
    <3>1. version \in since[c]..version
      BY <1>3 DEF ConnInv, StateTypes
    <3>2. status'[c] = StatusFor(input[c], version)
      BY <1>1 DEF ConnInv, StateTypes, code
    <3> QED BY <2>1, <3>1, <3>2
  <2>2. CASE d # c
    BY <1>1, <2>2 DEF ConnInv, StateTypes, AnswerFollowsRoutes
  <2> QED BY <2>1, <2>2
<1> QED BY <1>4, <1>5, <1>6 DEF ConnInv

\* What the clients, the owner and the accept loop do preserves it too.
LEMMA OuterConnInv ==
    ASSUME ConnInv,
           \/ \E c \in Conns : \/ Connect(c) \/ Abort(c) \/ Accept(c)
                               \/ \E r \in Requests \cup {EmptyRequest} : Send(c, r)
           \/ Start \/ Stop \/ StopIo \/ ReloadRouteConfig \/ AcceptLoopEnds
           \/ UNCHANGED vars
    PROVE  ConnInv'
<1> USE DEF ConnInv
<1>1. ASSUME NEW c \in Conns, Connect(c) PROVE ConnInv'
  <2>1. StateTypes'
    BY <1>1 DEF Connect, StateTypes, Phases, Established, Unread
  <2>2. \A d \in Conns : ConnectionState(d)'
    BY <1>1 DEF Connect, StateTypes, ConnectionState, WasAccepted, Unread
  <2>3. AnswerFollowsRoutes'
    BY <1>1 DEF Connect, AnswerFollowsRoutes
  <2> QED BY <2>1, <2>2, <2>3
<1>2. ASSUME NEW c \in Conns, Abort(c) PROVE ConnInv'
  <2>1. StateTypes'
    BY <1>2 DEF Abort, StateTypes
  <2>2. \A d \in Conns : ConnectionState(d)'
    BY <1>2 DEF Abort, ConnectionState, WasAccepted
  <2>3. AnswerFollowsRoutes'
    BY <1>2 DEF Abort, AnswerFollowsRoutes
  <2> QED BY <2>1, <2>2, <2>3
<1>3. ASSUME NEW c \in Conns, Accept(c) PROVE ConnInv'
  <2>1. StateTypes'
    <3>1. metrics' \in [Counters -> Nat]
      BY <1>3, RecordType DEF Accept, Counters
    <3> QED BY <1>3, <3>1 DEF Accept, StateTypes, Phases, Established, Unread
  <2>2. \A d \in Conns : ConnectionState(d)'
    BY <1>3 DEF Accept, StateTypes, ConnectionState, WasAccepted, Unread
  <2>3. AnswerFollowsRoutes'
    <3>1. status[c] = 0
      BY <1>3 DEF Accept, ConnectionState, Unread
    <3> QED BY <1>3, <3>1 DEF Accept, StateTypes, AnswerFollowsRoutes
  <2> QED BY <2>1, <2>2, <2>3
<1>4. ASSUME NEW c \in Conns, NEW r \in Requests \cup {EmptyRequest}, Send(c, r)
      PROVE  ConnInv'
  <2>1. StateTypes'
    BY <1>4 DEF Send, StateTypes
  <2>2. \A d \in Conns : ConnectionState(d)'
    BY <1>4 DEF Send, StateTypes, ConnectionState, WasAccepted
  <2>3. AnswerFollowsRoutes'
    <3>1. status[c] = 0
      BY <1>4 DEF Send, ConnectionState
    <3> QED BY <1>4, <3>1 DEF Send, StateTypes, AnswerFollowsRoutes
  <2> QED BY <2>1, <2>2, <2>3
<1>5. CASE Stop
  <2>1. StateTypes'
    BY <1>5 DEF Stop, StateTypes, Phases, Established, Unread
  <2>2. \A d \in Conns : ConnectionState(d)'
    BY <1>5 DEF Stop, StateTypes, ConnectionState, WasAccepted, Unread
  <2>3. AnswerFollowsRoutes'
    BY <1>5 DEF Stop, AnswerFollowsRoutes
  <2> QED BY <2>1, <2>2, <2>3
<1>6. CASE ReloadRouteConfig
  <2>1. StateTypes'
    BY <1>6, RoutesLength DEF ReloadRouteConfig, StateTypes, connVars
  <2>2. \A d \in Conns : ConnectionState(d)'
    BY <1>6 DEF ReloadRouteConfig, StateTypes, ConnectionState, WasAccepted, connVars
  <2>3. AnswerFollowsRoutes'
    <3>1. \A n \in 0..Len(Routes) : n..version \subseteq n..version'
      BY <1>6, RoutesLength DEF ReloadRouteConfig, StateTypes
    <3> QED BY <1>6, <3>1 DEF ReloadRouteConfig, StateTypes, AnswerFollowsRoutes, connVars
  <2> QED BY <2>1, <2>2, <2>3
<1>7. CASE Start \/ StopIo \/ AcceptLoopEnds \/ UNCHANGED vars
  <2>1. /\ UNCHANGED <<connVars, version, metrics>>
        /\ loop' \in {"unspawned", "accepting", "done"} /\ isOpen' \in BOOLEAN
        /\ io' \in {"running", "stopped"}
    BY <1>7 DEF Start, StopIo, AcceptLoopEnds, vars, StateTypes
  <2>2. StateTypes'
    BY <2>1 DEF StateTypes, connVars
  <2>3. \A d \in Conns : ConnectionState(d)'
    BY <2>1 DEF ConnectionState, WasAccepted, connVars
  <2>4. AnswerFollowsRoutes'
    BY <2>1 DEF AnswerFollowsRoutes, connVars
  <2> QED BY <2>2, <2>3, <2>4
<1> QED BY <1>1, <1>2, <1>3, <1>4, <1>5, <1>6, <1>7

\* Every stretch of a handle_connection coroutine preserves it.
LEMMA HandleConnInv ==
    ASSUME ConnInv, NEW c \in Conns, HandleConnection(c)
    PROVE  ConnInv'
<1>1. phase[c] \in Phases /\ ConnectionState(c) /\ metrics \in [Counters -> Nat]
  BY DEF ConnInv, StateTypes
<1> USE <1>1 DEF Phases, Established, Unread, ConnectionState, WasAccepted
<1>2. CASE BeginRead(c)
  BY <1>2, MoveConnInv DEF BeginRead
<1>3. CASE ReadError(c)
  BY <1>3, MoveConnInv DEF ReadError
<1>4. CASE Dispatch(c)
  BY <1>4, DispatchConnInv
<1>5. CASE UpstreamReturns(c)
  BY <1>5, MoveConnInv DEF UpstreamReturns
<1>6. CASE BeginWrite(c)
  BY <1>6, MoveConnInv DEF BeginWrite
<1>7. CASE Written(c)
  <2>1. Class(status[c]) \in Counters
    BY <1>7, ClassType DEF Written, ConnInv, StateTypes, Counters
  <2>2. metrics' \in [Counters -> Nat]
    BY <1>7, <2>1, RecordType DEF Written, ConnInv
  <2> QED BY <1>7, <2>2, MoveConnInv DEF Written
<1>8. CASE WriteError(c)
  BY <1>8, MoveConnInv DEF WriteError
<1> QED BY <1>2, <1>3, <1>4, <1>5, <1>6, <1>7, <1>8 DEF HandleConnection

\* Every step preserves what is true of single connections.
LEMMA NextConnInv == ConnInv /\ [Next]_vars => ConnInv'
BY OuterConnInv, HandleConnInv DEF Next, RunAccept, RunConnection, RunLoopEnd

-----------------------------------------------------------------------------
(* The metrics shard.                                                      *)

Accepted      == {c \in Conns : WasAccepted(c)}
Read          == {c \in Conns : WasRead(c)}
AnsweredAs(k) == {c \in Conns : WasAnswered(c) /\ Class(status[c]) = k}

\* The number of a set of connections, and of one more.
LEMMA CountOneMore ==
    ASSUME NEW S \in SUBSET Conns, NEW c \in Conns, c \notin S
    PROVE  Cardinality(S \cup {c}) = Cardinality(S) + 1
BY ConnsAssumption, FS_Subset, FS_AddElement

LEMMA CountType ==
    ASSUME NEW S \in SUBSET Conns
    PROVE  Cardinality(S) \in 0..Cardinality(Conns) /\ Cardinality(Conns) \in Nat
<1>1. IsFiniteSet(S) /\ Cardinality(S) <= Cardinality(Conns)
  BY ConnsAssumption, FS_Subset
<1> QED BY <1>1, ConnsAssumption, FS_CardinalityType

\* A step that counts nothing must change none of the sets that are counted.
LEMMA NothingCounted ==
    ASSUME MetricsMatchConnections, UNCHANGED metrics,
           Accepted' = Accepted, Read' = Read,
           \A k \in {"r2xx", "r4xx", "r5xx"} : AnsweredAs(k)' = AnsweredAs(k)
    PROVE  MetricsMatchConnections'
BY DEF MetricsMatchConnections, Accepted, Read, AnsweredAs

\* No connection and no request has been counted at first.
LEMMA InitMetrics == Init => MetricsMatchConnections
<1> SUFFICES ASSUME Init PROVE MetricsMatchConnections
  OBVIOUS
<1>1. Accepted = {} /\ Read = {} /\ \A k : AnsweredAs(k) = {}
  BY DEF Init, Accepted, Read, AnsweredAs, WasAccepted, WasRead, WasAnswered
<1>2. \A k \in Counters : metrics[k] = 0
  BY DEF Init
<1> QED BY <1>1, <1>2, FS_EmptySet
        DEF MetricsMatchConnections, Accepted, Read, AnsweredAs, Counters

\* A step that moves one connection between phases that are counted alike.
LEMMA MoveMetrics ==
    ASSUME ConnInv, MetricsMatchConnections, NEW c \in Conns, NEW p, Goto(c, p),
           UNCHANGED <<status, metrics>>,
           p \in {"none", "backlog", "refused"} <=> ~WasAccepted(c),
           p = "answered" <=> WasAnswered(c)
    PROVE  MetricsMatchConnections'
<1>1. Accepted' = Accepted
  BY DEF Goto, ConnInv, StateTypes, Accepted, WasAccepted
<1>2. Read' = Read
  BY DEF Read, WasRead
<1>3. \A k \in {"r2xx", "r4xx", "r5xx"} : AnsweredAs(k)' = AnsweredAs(k)
  BY DEF Goto, ConnInv, StateTypes, AnsweredAs, WasAnswered
<1> QED BY <1>1, <1>2, <1>3, NothingCounted

\* accept_loop counts the connection that it accepts.
LEMMA AcceptMetrics ==
    ASSUME ConnInv, MetricsMatchConnections, NEW c \in Conns, Accept(c)
    PROVE  MetricsMatchConnections'
<1>1. /\ phase[c] = "backlog" /\ phase' = [phase EXCEPT ![c] = "spawned"]
      /\ metrics' = [metrics EXCEPT !["accepts"] = @ + 1] /\ status' = status
  BY DEF Accept, Record
<1>2. Accepted' = Accepted \cup {c} /\ c \notin Accepted
  BY <1>1 DEF ConnInv, StateTypes, Accepted, WasAccepted
<1>3. Read' = Read /\ \A k : AnsweredAs(k)' = AnsweredAs(k)
  BY <1>1 DEF ConnInv, StateTypes, Read, AnsweredAs, WasRead, WasAnswered
<1>4. metrics'["accepts"] = metrics["accepts"] + 1
      /\ \A k \in Counters \ {"accepts"} : metrics'[k] = metrics[k]
  BY <1>1 DEF ConnInv, StateTypes, Counters
<1>5. Cardinality(Accepted \cup {c}) = Cardinality(Accepted) + 1
  BY <1>2, CountOneMore DEF Accepted
<1> QED BY <1>2, <1>3, <1>4, <1>5
        DEF MetricsMatchConnections, Accepted, Read, AnsweredAs, Counters

\* handle_connection counts the request that it has read.
LEMMA DispatchMetrics ==
    ASSUME ConnInv, MetricsMatchConnections, NEW c \in Conns, Dispatch(c)
    PROVE  MetricsMatchConnections'
<1>1. /\ phase[c] = "reading" /\ input[c] # NoInput
      /\ phase' = [phase EXCEPT ![c] = phase'[c]]
      /\ phase'[c] \in {"upstream", "yielding"}
      /\ status' = [status EXCEPT ![c] = StatusFor(input[c], version)]
      /\ metrics' = [metrics EXCEPT !["requests"] = @ + 1]
  BY DEF Dispatch, Goto, Record, ConnInv, StateTypes
<1>2. StatusFor(input[c], version) # 0 /\ status[c] = 0
  <2>1. input[c] \in Requests \cup {EmptyRequest}
    BY <1>1 DEF ConnInv, StateTypes
  <2> QED BY <1>1, <2>1, StatusForType DEF ConnInv, ConnectionState, Unread
<1>3. Read' = Read \cup {c} /\ c \notin Read
  BY <1>1, <1>2 DEF ConnInv, StateTypes, Read, WasRead
<1>4. Accepted' = Accepted /\ \A k : AnsweredAs(k)' = AnsweredAs(k)
  BY <1>1 DEF ConnInv, StateTypes, Accepted, AnsweredAs, WasAccepted, WasAnswered
<1>5. metrics'["requests"] = metrics["requests"] + 1
      /\ \A k \in Counters \ {"requests"} : metrics'[k] = metrics[k]
  BY <1>1 DEF ConnInv, StateTypes, Counters
<1>6. Cardinality(Read \cup {c}) = Cardinality(Read) + 1
  BY <1>3, CountOneMore DEF Read
<1> QED BY <1>3, <1>4, <1>5, <1>6
        DEF MetricsMatchConnections, Accepted, Read, AnsweredAs, Counters

\* handle_connection counts the response that it has written, in its class.
LEMMA WrittenMetrics ==
    ASSUME ConnInv, MetricsMatchConnections, NEW c \in Conns, Written(c)
    PROVE  MetricsMatchConnections'
<1>1. /\ phase[c] = "writing" /\ phase' = [phase EXCEPT ![c] = "answered"]
      /\ metrics' = [metrics EXCEPT ![Class(status[c])] = @ + 1] /\ status' = status
  BY DEF Written, Goto, Record
<1>2. PICK class \in {"r2xx", "r4xx", "r5xx"} : class = Class(status[c])
  BY <1>1, ClassType DEF ConnInv, StateTypes, ConnectionState
<1>3. Accepted' = Accepted /\ Read' = Read
  BY <1>1 DEF ConnInv, StateTypes, Accepted, Read, WasAccepted, WasRead
<1>4. AnsweredAs(class)' = AnsweredAs(class) \cup {c} /\ c \notin AnsweredAs(class)
      /\ \A k : k # class => AnsweredAs(k)' = AnsweredAs(k)
  BY <1>1, <1>2 DEF ConnInv, StateTypes, AnsweredAs, WasAnswered
<1>5. metrics'[class] = metrics[class] + 1
      /\ \A k \in Counters \ {class} : metrics'[k] = metrics[k]
  BY <1>1, <1>2 DEF ConnInv, StateTypes, Counters
<1>6. Cardinality(AnsweredAs(class) \cup {c}) = Cardinality(AnsweredAs(class)) + 1
  BY <1>4, CountOneMore DEF AnsweredAs
<1>7. \A k \in {"r2xx", "r4xx", "r5xx"} : metrics'[k] = Cardinality(AnsweredAs(k)')
  <2> SUFFICES ASSUME NEW k \in {"r2xx", "r4xx", "r5xx"}
               PROVE  metrics'[k] = Cardinality(AnsweredAs(k)')
    OBVIOUS
  <2>1. metrics[k] = Cardinality(AnsweredAs(k)) /\ k \in Counters
    BY DEF MetricsMatchConnections, AnsweredAs, Counters
  <2>2. CASE k = class
    BY <1>4, <1>5, <1>6, <2>1, <2>2
  <2>3. CASE k # class
    BY <1>4, <1>5, <2>1, <2>3
  <2> QED BY <2>2, <2>3
<1> QED BY <1>2, <1>3, <1>5, <1>7
        DEF MetricsMatchConnections, Accepted, Read, AnsweredAs, Counters

\* Every other step counts nothing and changes nothing that is counted.
LEMMA NextMetrics ==
    ASSUME ConnInv, MetricsMatchConnections, [Next]_vars
    PROVE  MetricsMatchConnections'
<1> USE DEF WasAccepted, WasRead, WasAnswered
<1>1. ASSUME NEW c \in Conns, Connect(c) PROVE MetricsMatchConnections'
  <2>1. Goto(c, "backlog")
    BY <1>1 DEF Connect, Goto
  <2> QED BY <1>1, <2>1, MoveMetrics DEF Connect
<1>2. CASE \/ \E c \in Conns : \/ Abort(c)
                              \/ \E r \in Requests \cup {EmptyRequest} : Send(c, r)
           \/ Start \/ StopIo \/ ReloadRouteConfig \/ AcceptLoopEnds \/ UNCHANGED vars
  <2>1. UNCHANGED <<phase, status, metrics>>
    BY <1>2 DEF Abort, Send, Start, StopIo, ReloadRouteConfig, AcceptLoopEnds, vars, connVars
  <2> QED BY <2>1, NothingCounted DEF Accepted, Read, AnsweredAs
<1>3. CASE Stop
  <2>1. Accepted' = Accepted /\ Read' = Read
    BY <1>3 DEF Stop, Accepted, Read
  <2>2. \A k : AnsweredAs(k)' = AnsweredAs(k)
    BY <1>3 DEF Stop, AnsweredAs
  <2> QED BY <1>3, <2>1, <2>2, NothingCounted DEF Stop
<1>4. ASSUME NEW c \in Conns, HandleConnection(c) PROVE MetricsMatchConnections'
  <2>1. CASE BeginRead(c) \/ ReadError(c) \/ UpstreamReturns(c) \/ BeginWrite(c)
               \/ WriteError(c)
    BY <2>1, MoveMetrics
       DEF BeginRead, ReadError, UpstreamReturns, BeginWrite, WriteError
  <2> QED BY <1>4, <2>1, DispatchMetrics, WrittenMetrics DEF HandleConnection
<1> QED BY <1>1, <1>2, <1>3, <1>4, AcceptMetrics
        DEF Next, RunAccept, RunConnection, RunLoopEnd

-----------------------------------------------------------------------------
(* The results.                                                            *)

\* The inductive invariant holds in every reachable state.
THEOREM Invariant == Spec => []IInv
<1>1. Init => IInv
  BY InitConnInv, InitMetrics DEF IInv
<1>2. IInv /\ [Next]_vars => IInv'
  BY NextConnInv, NextMetrics DEF IInv
<1> QED BY <1>1, <1>2, PTL DEF Spec

\* Every variable has its type; in particular no counter of the shard exceeds
\* the number of connections, whatever is accepted, lost or answered.
THEOREM TypeCorrect == Spec => []TypeOK
<1>1. IInv => TypeOK
  <2> SUFFICES ASSUME IInv PROVE TypeOK
    OBVIOUS
  <2>1. \A k \in Counters : metrics[k] \in 0..Cardinality(Conns)
    <3>1. /\ metrics["accepts"] \in 0..Cardinality(Conns)
          /\ metrics["requests"] \in 0..Cardinality(Conns)
      BY CountType DEF IInv, MetricsMatchConnections
    <3>2. \A k \in {"r2xx", "r4xx", "r5xx"} : metrics[k] \in 0..Cardinality(Conns)
      BY CountType DEF IInv, MetricsMatchConnections
    <3> QED BY <3>1, <3>2 DEF Counters
  <2> QED BY <2>1 DEF IInv, ConnInv, StateTypes, TypeOK
<1> QED BY <1>1, Invariant, PTL

\* A worker's shard counts each accepted connection, each request that was
\* read and each response that was written once, however the coroutines of
\* handle_connection, the accept loop, resets, stop() and reloads interleave.
THEOREM MetricsMatchConnectionsCorrect == Spec => []MetricsMatchConnections
<1>1. IInv => MetricsMatchConnections
  BY DEF IInv
<1> QED BY <1>1, Invariant, PTL

\* handle_connection decides an answer from one snapshot, which was current
\* between the acceptance of the connection and now.
THEOREM AnswerFollowsRoutesCorrect == Spec => []AnswerFollowsRoutes
<1>1. IInv => AnswerFollowsRoutes
  BY DEF IInv, ConnInv
<1> QED BY <1>1, Invariant, PTL
=============================================================================
