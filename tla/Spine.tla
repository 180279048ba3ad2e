------------------------------- MODULE Spine --------------------------------
(***************************************************************************)
(* RuntimeSpine of src/runtime/spine.cpp: the accept loop of one worker    *)
(* and one handle_connection coroutine per connection, all on the worker's *)
(* single-threaded io_context.  A coroutine runs from one co_await to the  *)
(* next without interruption, so every action is one such stretch, and the *)
(* coroutines interleave with each other, with clients that send, close or *)
(* reset, and with another thread that reloads the routes.                 *)
(*                                                                         *)
(* A request stands for what Http1Codec makes of the first segment that    *)
(* async_read_some returns; routes are rules of Routing, compiled and      *)
(* matched as RouteSnapshot does.  The executor affinity checks cannot     *)
(* fail here, because sockets and coroutines are all created on io_: they  *)
(* take no time and change nothing.                                        *)
(***************************************************************************)
EXTENDS Routing

CONSTANTS
    Conns,          \* client connections
    Requests,       \* [parse, method, host, target] a client may send
    Reloads         \* the rules of the snapshots that are published later

\* The errors that parse() may return.
ParseErrors == {"kNeedMoreData", "kInvalidRequestLine", "kMissingHost",
                "kContentLengthMismatch", "kHeaderTooLarge", "kTooManyHeaders",
                "kInternalError"}

ASSUME ConnsAssumption    == IsFiniteSet(Conns)
ASSUME RequestsAssumption ==
    \A r \in Requests : r.parse \in ParseErrors \cup {"kSuccess"}
ASSUME ReloadsAssumption  == Reloads \in Seq(Range(Reloads))

VARIABLES
    loop,           \* accept_loop: unspawned, accepting, done
    isOpen,         \* acceptor_.is_open()
    io,             \* the worker's io_context: running, stopped
    phase,          \* where each connection's coroutine is
    input,          \* what the client has sent: NoInput, EmptyRequest, a request
    gone,           \* connections the client has reset
    status,         \* response_status_code, 0 before it is decided
    version,        \* the snapshot that route_config_ holds
    metrics,        \* the worker's metrics shard
    since           \* ghost: version when the connection was accepted

connVars == <<phase, input, gone, status, since>>
vars == <<loop, isOpen, io, connVars, version, metrics>>

NoInput == [parse |-> "none", method |-> "", host |-> <<>>, target |-> <<>>]

\* End of stream before the first byte: the codec parses an empty buffer,
\* finds no error, and reports llhttp's method 0, which is DELETE.
EmptyRequest ==
    [parse |-> "kSuccess", method |-> "DELETE", host |-> <<>>, target |-> <<>>]

MetricsPath == <<"/", "metrics">>
LocalIp     == <<"127", ".", "0", ".", "0", ".", "1">>

\* The snapshot that the constructor publishes.
DefaultRules ==
    <<Rule(<<"*">>, <<"/", "proxy", "/", "mock">>, {}, 10),
      Rule(<<"*">>, <<"/">>, {}, 100)>>

Routes == <<DefaultRules>> \o Reloads

Counters == {"accepts", "requests", "r2xx", "r4xx", "r5xx"}

Init ==
    /\ loop = "unspawned"
    /\ isOpen = TRUE
    /\ io = "running"
    /\ phase = [c \in Conns |-> "none"]
    /\ input = [c \in Conns |-> NoInput]
    /\ gone = {}
    /\ status = [c \in Conns |-> 0]
    /\ version = 1
    /\ metrics = [k \in Counters |-> 0]
    /\ since = [c \in Conns |-> 0]

-----------------------------------------------------------------------------
(* The status a request is answered with.                                  *)

ParseErrorToHttpStatus(error) ==
    CASE error \in {"kNeedMoreData", "kInvalidRequestLine", "kMissingHost",
                    "kContentLengthMismatch"} -> 400
      [] error \in {"kHeaderTooLarge", "kTooManyHeaders"} -> 431
      [] error = "kInternalError" -> 500

\* The requests that the v-th snapshot matches, once it has been finalized.
MatchedBy ==
    {asked \in Requests \X DOMAIN Routes :
        LET r     == asked[1]
            rules == Routes[asked[2]]
        IN  \E trie \in Tries(rules, 0) :
                Match(rules, trie, r.host, r.target, LocalIp).matched}

Matches(r, v) == <<r, v>> \in MatchedBy

StatusFor(r, v) ==
    CASE r.parse # "kSuccess" -> ParseErrorToHttpStatus(r.parse)
      [] r.parse = "kSuccess" /\ r.method # "GET" -> 405
      [] OTHER -> IF r.target = MetricsPath \/ Matches(r, v) THEN 200 ELSE 404

\* Only a matched route goes through mock_upstream_call.
CallsUpstream(r, v) ==
    /\ r.parse = "kSuccess"
    /\ r.method = "GET"
    /\ r.target # MetricsPath
    /\ Matches(r, v)

Class(code) ==
    CASE code \in 200..299 -> "r2xx"
      [] code \in 400..499 -> "r4xx"
      [] code \in 500..599 -> "r5xx"

Record(counter) == metrics' = [metrics EXCEPT ![counter] = @ + 1]

-----------------------------------------------------------------------------
(* Clients.                                                                *)

Unread      == {"backlog", "spawned", "reading"}
Established == Unread \cup {"upstream", "yielding", "writing"}

Connect(c) ==
    /\ isOpen
    /\ phase[c] = "none"
    /\ phase' = [phase EXCEPT ![c] = "backlog"]
    /\ UNCHANGED <<loop, isOpen, io, input, gone, status, since, version, metrics>>

Send(c, r) ==
    /\ phase[c] \in Unread /\ c \notin gone
    /\ input[c] = NoInput
    /\ input' = [input EXCEPT ![c] = r]
    /\ UNCHANGED <<loop, isOpen, io, phase, gone, status, since, version, metrics>>

\* The client resets the connection.
Abort(c) ==
    /\ phase[c] \in Established /\ c \notin gone
    /\ gone' = gone \cup {c}
    /\ UNCHANGED <<loop, isOpen, io, phase, input, status, since, version, metrics>>

-----------------------------------------------------------------------------
(* The owner of the spine.                                                 *)

Start ==
    /\ loop = "unspawned"
    /\ loop' = "accepting"
    /\ UNCHANGED <<isOpen, io, connVars, version, metrics>>

\* stop() closes the acceptor and nothing else; the kernel refuses what is
\* still in the backlog.
Stop ==
    /\ isOpen
    /\ isOpen' = FALSE
    /\ phase' = [c \in Conns |->
                   IF phase[c] = "backlog" THEN "refused" ELSE phase[c]]
    /\ UNCHANGED <<loop, io, input, gone, status, since, version, metrics>>

\* GatewayRuntime stops the io_context once it has called stop() on every
\* spine, at the end and after a failed start: run() returns, and whatever
\* waits at a co_await is never resumed.
StopIo ==
    /\ ~isOpen
    /\ io = "running"
    /\ io' = "stopped"
    /\ UNCHANGED <<loop, isOpen, connVars, version, metrics>>

\* reload_route_config() publishes the next snapshot from another thread.
ReloadRouteConfig ==
    /\ version < Len(Routes)
    /\ version' = version + 1
    /\ UNCHANGED <<loop, isOpen, io, connVars, metrics>>

-----------------------------------------------------------------------------
(* accept_loop.                                                            *)

Accept(c) ==
    /\ loop = "accepting"
    /\ phase[c] = "backlog"
    /\ phase' = [phase EXCEPT ![c] = "spawned"]
    /\ Record("accepts")
    /\ since' = [since EXCEPT ![c] = version]
    /\ UNCHANGED <<loop, isOpen, io, input, gone, status, version>>

\* async_accept fails because the acceptor is closed.  A transient error
\* while it is open changes nothing: the loop goes round.
AcceptLoopEnds ==
    /\ loop = "accepting" /\ ~isOpen
    /\ loop' = "done"
    /\ UNCHANGED <<isOpen, io, connVars, version, metrics>>

-----------------------------------------------------------------------------
(* handle_connection.                                                      *)

Goto(c, p) == phase' = [phase EXCEPT ![c] = p]

BeginRead(c) ==
    /\ phase[c] = "spawned"
    /\ Goto(c, "reading")
    /\ UNCHANGED <<loop, isOpen, io, input, gone, status, since, version, metrics>>

\* Any error but end of stream: no answer and nothing counted.
ReadError(c) ==
    /\ phase[c] = "reading"
    /\ c \in gone
    /\ Goto(c, "abandoned")
    /\ UNCHANGED <<loop, isOpen, io, input, gone, status, since, version, metrics>>

Dispatch_StaleRoutes(c) ==
    /\ phase[c] = "reading"
    /\ input[c] # NoInput
    /\ Record("requests")
    /\ status' = [status EXCEPT ![c] = StatusFor(input[c], 1)]
    /\ Goto(c, IF CallsUpstream(input[c], 1) THEN "upstream" ELSE "yielding")
    /\ UNCHANGED <<loop, isOpen, io, input, gone, since, version>>

Dispatch_ReadsAgain(c) ==
    /\ phase[c] = "reading"
    /\ input[c] # NoInput
    /\ Record("requests")
    /\ status' = [status EXCEPT ![c] = StatusFor(input[c], version)]
    /\ UNCHANGED phase
    /\ UNCHANGED <<loop, isOpen, io, input, gone, since, version>>

\* The read completes: the request is counted, parsed, checked, and matched
\* against the snapshot that is current now, up to the next co_await.
Dispatch(c) ==
    /\ phase[c] = "reading"
    /\ input[c] # NoInput
    /\ Record("requests")
    /\ status' = [status EXCEPT ![c] = StatusFor(input[c], version)]
    /\ Goto(c, IF CallsUpstream(input[c], version) THEN "upstream"
                                                   ELSE "yielding")
    /\ UNCHANGED <<loop, isOpen, io, input, gone, since, version>>

UpstreamReturns_EndsEarly(c) ==
    /\ phase[c] = "upstream"
    /\ Goto(c, "abandoned")
    /\ UNCHANGED <<loop, isOpen, io, input, gone, status, since, version, metrics>>

\* mock_upstream_call yields once and returns.
UpstreamReturns(c) ==
    /\ phase[c] = "upstream"
    /\ Goto(c, "yielding")
    /\ UNCHANGED <<loop, isOpen, io, input, gone, status, since, version, metrics>>

BeginWrite(c) ==
    /\ phase[c] = "yielding"
    /\ Goto(c, "writing")
    /\ UNCHANGED <<loop, isOpen, io, input, gone, status, since, version, metrics>>

Written(c) ==
    /\ phase[c] = "writing"
    /\ c \notin gone
    /\ Record(Class(status[c]))
    /\ Goto(c, "answered")
    /\ UNCHANGED <<loop, isOpen, io, input, gone, status, since, version>>

WriteError_Counted(c) ==
    /\ phase[c] = "writing"
    /\ c \in gone
    /\ Record(Class(status[c]))
    /\ Goto(c, "abandoned")
    /\ UNCHANGED <<loop, isOpen, io, input, gone, status, since, version>>

\* The response is lost and not counted.
WriteError(c) ==
    /\ phase[c] = "writing"
    /\ c \in gone
    /\ Goto(c, "abandoned")
    /\ UNCHANGED <<loop, isOpen, io, input, gone, status, since, version, metrics>>

-----------------------------------------------------------------------------
HandleConnection(c) ==
    \/ BeginRead(c) \/ ReadError(c) \/ Dispatch(c)
    \/ UpstreamReturns(c) \/ BeginWrite(c) \/ Written(c) \/ WriteError(c)

\* The coroutines run inside io_context::run().
RunAccept(c)     == io = "running" /\ Accept(c)
RunConnection(c) == io = "running" /\ HandleConnection(c)
RunLoopEnd       == io = "running" /\ AcceptLoopEnds

Next ==
    \/ \E c \in Conns :
          \/ Connect(c) \/ Abort(c)
          \/ \E r \in Requests \cup {EmptyRequest} : Send(c, r)
          \/ RunAccept(c) \/ RunConnection(c)
    \/ Start \/ Stop \/ StopIo \/ ReloadRouteConfig \/ RunLoopEnd

Spec == Init /\ [][Next]_vars

\* As long as the io_context is not stopped, the worker thread runs every
\* handler that is ready.  Clients promise nothing, and nobody has to call
\* stop() or reload.
Fairness ==
    /\ \A c \in Conns : WF_vars(RunAccept(c)) /\ WF_vars(RunConnection(c))
    /\ WF_vars(RunLoopEnd)

FairSpec == Spec /\ Fairness

-----------------------------------------------------------------------------
(* Properties.                                                             *)

Phases == Established \cup {"none", "refused", "answered", "abandoned"}

Statuses == {0, 200, 400, 404, 405, 431, 500}

\* Every variable has its type.
TypeOK ==
    /\ loop \in {"unspawned", "accepting", "done"}
    /\ isOpen \in BOOLEAN
    /\ io \in {"running", "stopped"}
    /\ phase \in [Conns -> Phases]
    /\ input \in [Conns -> Requests \cup {EmptyRequest, NoInput}]
    /\ gone \subseteq Conns
    /\ status \in [Conns -> Statuses]
    /\ version \in 1..Len(Routes)
    /\ metrics \in [Counters -> 0..Cardinality(Conns)]
    /\ since \in [Conns -> 0..Len(Routes)]

WasAccepted(c) == phase[c] \notin {"none", "backlog", "refused"}
WasRead(c)     == status[c] # 0
WasAnswered(c) == phase[c] = "answered"

\* The shard tells the truth about what happened to the connections at every
\* instant, however their coroutines interleave: each accepted connection,
\* each request that was read and each response that was really written is
\* counted once, and lost reads and writes are not.
MetricsMatchConnections ==
    /\ metrics["accepts"] = Cardinality({c \in Conns : WasAccepted(c)})
    /\ metrics["requests"] = Cardinality({c \in Conns : WasRead(c)})
    /\ \A k \in {"r2xx", "r4xx", "r5xx"} :
          metrics[k] = Cardinality({c \in Conns : WasAnswered(c)
                                                  /\ Class(status[c]) = k})

\* A response follows the routes of some snapshot that was current while the
\* connection existed: a reload is never missed by a connection accepted
\* after it, and a reload during the co_awaits that follow the match does not
\* mix two snapshots in one answer.
AnswerFollowsRoutes ==
    \A c \in Conns : status[c] # 0 =>
        \E v \in since[c]..version : status[c] = StatusFor(input[c], v)

\* Whoever has sent a request, or has closed its side, gets an answer, unless
\* it resets the connection or the io_context is stopped while it waits: the
\* spine itself drops no connection that it has accepted, and stop() alone
\* does not keep it from answering.
RequestAnswered ==
    \A c \in Conns :
        phase[c] = "reading" /\ input[c] # NoInput
            ~> phase[c] = "answered" \/ c \in gone \/ io = "stopped"
=============================================================================
