--------------------------- MODULE ConnectionPool ---------------------------
(***************************************************************************)
(* The upstream keep-alive pool of src/upstream/connection_pool.cpp: one   *)
(* pool per core, used by coroutines (tasks) that borrow a connection to a *)
(* host:port, hold it across co_awaits and give it back.  borrow suspends  *)
(* while a new connection is resolved and connected, and other tasks       *)
(* borrow and return meanwhile.                                            *)
(*                                                                         *)
(* Time is the age of a connection since last_used_time_, in milliseconds, *)
(* and saturates just beyond the idle timeout.                             *)
(***************************************************************************)
EXTENDS Subsequences

CONSTANTS
    Tasks,              \* coroutines that use the pool
    Keys,               \* host:port pairs
    Connections,        \* UpstreamConnection objects that can exist at once
    MaxPerHost,         \* config_.max_connections_per_host
    IdleTimeout,        \* config_.idle_timeout
    None

ASSUME LimitsAssumption == MaxPerHost \in Nat /\ IdleTimeout \in Nat
ASSUME NoneAssumption   == None \notin Connections \cup Keys

VARIABLES
    pools,      \* pools_: per key, the idle connections, newest last
    conn,       \* per connection: age, open (local socket), peerClosed
    at,         \* per task: idle, popping, resolving, connecting, holding
    key,        \* per task: the key it passed to borrow_connection
    held,       \* per task: the connection it owns
    wanted      \* ghost: what the pool held, fit for use, when the loop that
                \* is running began, and is still fit

taskVars == <<at, key, held>>
poolVars == <<pools, conn, taskVars, wanted>>

Fresh == [age |-> 0, open |-> TRUE, peerClosed |-> FALSE]

PoolInit ==
    /\ pools = [k \in Keys |-> << >>]
    /\ conn = [c \in Connections |-> Fresh]
    /\ at = [t \in Tasks |-> "idle"]
    /\ key = [t \in Tasks |-> None]
    /\ held = [t \in Tasks |-> None]
    /\ wanted = {}

-----------------------------------------------------------------------------
Pooled(k) == {pools[k][n] : n \in DOMAIN pools[k]}
Held(k)   == {held[t] : t \in {u \in Tasks : at[u] = "holding" /\ key[u] = k}}
Live(k)   == Pooled(k) \cup Held(k)
Exists(c) == \E k \in Keys : c \in Live(k)

\* check_health() sees the idle time and the local end of the socket.
Healthy(c) == conn[c].age <= IdleTimeout /\ conn[c].open

\* A destroyed connection is gone; its place is taken by a fresh one later.
Destroyed(S) == [c \in Connections |-> IF c \in S THEN Fresh ELSE conn[c]]

BecomeIdle(t) ==
    /\ at' = [at EXCEPT ![t] = "idle"]
    /\ key' = [key EXCEPT ![t] = None]
    /\ held' = [held EXCEPT ![t] = None]

Hold(t, k, c) ==
    /\ at' = [at EXCEPT ![t] = "holding"]
    /\ key' = [key EXCEPT ![t] = k]
    /\ held' = [held EXCEPT ![t] = c]

-----------------------------------------------------------------------------
(* borrow_connection.  Its loop does not suspend: between two of its steps *)
(* no other task runs on the thread, but time passes and peers close.      *)

InLoop == \E t \in Tasks : at[t] = "popping"

Newest(k) == pools[k][Len(pools[k])]

Pop(k) == pools' = [pools EXCEPT ![k] = SubSeq(@, 1, Len(@) - 1)]

BorrowConnection(t, k) ==
    /\ ~InLoop
    /\ at[t] = "idle"
    /\ at' = [at EXCEPT ![t] = "popping"]
    /\ key' = [key EXCEPT ![t] = k]
    /\ wanted' = {c \in Pooled(k) : Healthy(c)}
    /\ UNCHANGED <<pools, conn, held>>

PopHealthy_Copies(t) ==
    /\ at[t] = "popping"
    /\ pools[key[t]] # << >>
    /\ Healthy(Newest(key[t]))
    /\ conn' = [conn EXCEPT ![Newest(key[t])].age = 0]
    /\ Hold(t, key[t], Newest(key[t]))
    /\ wanted' = {}
    /\ UNCHANGED pools

\* mark_used() and co_return.
PopHealthy(t) ==
    /\ at[t] = "popping"
    /\ pools[key[t]] # << >>
    /\ Healthy(Newest(key[t]))
    /\ Pop(key[t])
    /\ conn' = [conn EXCEPT ![Newest(key[t])].age = 0]
    /\ Hold(t, key[t], Newest(key[t]))
    /\ wanted' = {}

\* The unfit connection is destroyed at the end of the loop's body.
PopUnhealthy(t) ==
    /\ at[t] = "popping"
    /\ pools[key[t]] # << >>
    /\ ~Healthy(Newest(key[t]))
    /\ Pop(key[t])
    /\ conn' = Destroyed({Newest(key[t])})
    /\ UNCHANGED <<taskVars, wanted>>

StartConnect_LooksOnce(t) ==
    /\ at[t] = "popping"
    /\ pools[key[t]] # << >> => ~Healthy(Newest(key[t]))
    /\ at' = [at EXCEPT ![t] = "resolving"]
    /\ wanted' = {}
    /\ UNCHANGED <<pools, conn, key, held>>

\* The pool is empty: create_new_connection resolves the host.
StartConnect(t) ==
    /\ at[t] = "popping"
    /\ pools[key[t]] = << >>
    /\ at' = [at EXCEPT ![t] = "resolving"]
    /\ wanted' = {}
    /\ UNCHANGED <<pools, conn, key, held>>

Resolved(t) ==
    /\ ~InLoop
    /\ at[t] = "resolving"
    /\ at' = [at EXCEPT ![t] = "connecting"]
    /\ UNCHANGED <<pools, conn, key, held, wanted>>

Connected(t, c) ==
    /\ ~InLoop
    /\ at[t] = "connecting"
    /\ ~Exists(c)
    /\ Hold(t, key[t], c)
    /\ UNCHANGED <<pools, conn, wanted>>

ConnectFails_PoolsNull(t) ==
    /\ ~InLoop
    /\ at[t] \in {"resolving", "connecting"}
    /\ pools' = [pools EXCEPT ![key[t]] = Append(@, held[t])]
    /\ BecomeIdle(t)
    /\ UNCHANGED <<conn, wanted>>

\* Resolving or connecting throws: the caller gets no connection, and
\* kConnectTimeout or kAllUnavailable.  return_connection(nullptr) does nothing.
ConnectFails(t) ==
    /\ ~InLoop
    /\ at[t] \in {"resolving", "connecting"}
    /\ BecomeIdle(t)
    /\ UNCHANGED <<pools, conn, wanted>>

-----------------------------------------------------------------------------
(* return_connection.                                                      *)

Kept_IgnoresLimit(t) == Healthy(held[t])

Kept(t) == Healthy(held[t]) /\ Len(pools[key[t]]) < MaxPerHost

ReturnConnection(t) ==
    /\ ~InLoop
    /\ at[t] = "holding"
    /\ \/ /\ Kept(t)
          /\ pools' = [pools EXCEPT ![key[t]] = Append(@, held[t])]
          /\ UNCHANGED conn
       \/ /\ ~Kept(t)
          /\ conn' = Destroyed({held[t]})
          /\ UNCHANGED pools
    /\ BecomeIdle(t)
    /\ UNCHANGED wanted

\* The holder destroys the connection instead of returning it.
Drop(t) ==
    /\ ~InLoop
    /\ at[t] = "holding"
    /\ conn' = Destroyed({held[t]})
    /\ BecomeIdle(t)
    /\ UNCHANGED <<pools, wanted>>

\* The holder closes the socket after an I/O error.
CloseSocket(t) ==
    /\ ~InLoop
    /\ at[t] = "holding"
    /\ conn[held[t]].open
    /\ conn' = [conn EXCEPT ![held[t]].open = FALSE]
    /\ UNCHANGED <<pools, taskVars, wanted>>

-----------------------------------------------------------------------------
CleanupIdleConnections_ClearsPool ==
    /\ ~InLoop
    /\ \E k \in Keys, c \in Connections : c \in Pooled(k) /\ ~Healthy(c)
    /\ pools' = [k \in Keys |->
                   IF \A c \in Pooled(k) : Healthy(c) THEN pools[k] ELSE << >>]
    /\ UNCHANGED <<conn, taskVars, wanted>>

CleanupIdleConnections ==
    /\ ~InLoop
    /\ \E k \in Keys, c \in Connections : c \in Pooled(k) /\ ~Healthy(c)
    /\ pools' = [k \in Keys |->
                   At(pools[k], {n \in DOMAIN pools[k] : Healthy(pools[k][n])})]
    /\ conn' = Destroyed({c \in Connections :
                            ~Healthy(c) /\ \E k \in Keys : c \in Pooled(k)})
    /\ UNCHANGED <<taskVars, wanted>>

\* The upstream closes its end; nobody reads the socket while it is idle.
PeerCloses(c) ==
    /\ Exists(c)
    /\ ~conn[c].peerClosed
    /\ conn' = [conn EXCEPT ![c].peerClosed = TRUE]
    /\ UNCHANGED <<pools, taskVars, wanted>>

Aging == {c \in Connections : Exists(c) /\ conn[c].age <= IdleTimeout}

PoolTick ==
    /\ Aging # {}
    /\ conn' = [c \in Connections |->
                  IF c \in Aging THEN [conn[c] EXCEPT !.age = @ + 1] ELSE conn[c]]
    /\ wanted' = {c \in wanted : Healthy(c)'}
    /\ UNCHANGED <<pools, taskVars>>

PoolNext ==
    \/ \E t \in Tasks :
          \/ \E k \in Keys : BorrowConnection(t, k)
          \/ PopHealthy(t) \/ PopUnhealthy(t) \/ StartConnect(t)
          \/ Resolved(t)
          \/ \E c \in Connections : Connected(t, c)
          \/ ConnectFails(t)
          \/ ReturnConnection(t) \/ Drop(t) \/ CloseSocket(t)
    \/ CleanupIdleConnections
    \/ \E c \in Connections : PeerCloses(c)
    \/ PoolTick

PoolSpec == PoolInit /\ [][PoolNext]_poolVars

-----------------------------------------------------------------------------
(* Properties.                                                             *)

\* Every variable has its type.
PoolTypeOK ==
    /\ DOMAIN pools = Keys
    /\ \A k \in Keys : pools[k] \in Seq(Connections)
    /\ conn \in [Connections ->
                   [age : 0..IdleTimeout + 1, open : BOOLEAN, peerClosed : BOOLEAN]]
    /\ at \in [Tasks -> {"idle", "popping", "resolving", "connecting", "holding"}]
    /\ key \in [Tasks -> Keys \cup {None}]
    /\ held \in [Tasks -> Connections \cup {None}]
    /\ wanted \in SUBSET Connections

\* A connection has one owner: it is lent to one task or idle at one place of
\* one pool, never both, so that two requests cannot write to one socket.
SoleOwner ==
    /\ \A t, u \in Tasks :
          held[t] # None /\ held[t] = held[u] => t = u
    /\ \A k \in Keys, t \in Tasks : held[t] \notin Pooled(k)
    /\ \A k, l \in Keys : \A m \in DOMAIN pools[k], n \in DOMAIN pools[l] :
          pools[k][m] = pools[l][n] => k = l /\ m = n

\* return_connection keeps at most max_connections_per_host idle connections
\* for a host, whatever number of tasks return at the same time.
IdleWithinLimit == \A k \in Keys : Len(pools[k]) <= MaxPerHost

\* A connection that is fit for use is never thrown out of the pool: it stays
\* there or is lent.  The pool is ordered by time of return and health goes
\* by time of borrowing, so fit and unfit connections alternate in it.
HealthyNeverDiscarded ==
    [][\A k \in Keys : \A c \in Pooled(k) : Healthy(c) =>
         c \in Pooled(k)' \/ \E t \in Tasks : held'[t] = c]_poolVars

\* borrow_connection connects anew only if every connection that the pool
\* held when the call began has become unfit since or was so already: the
\* loop, which takes one connection at a time off the back while the clock
\* goes on, neither stops early nor loses one on the way.
ReuseBeforeConnect ==
    [][\A t \in Tasks : at[t] = "popping" /\ at'[t] = "resolving" => wanted = {}]_poolVars

\* What the comment on max_connections_per_host says: there are never more
\* connections to a host than that.
HostWithinLimit == \A k \in Keys : Cardinality(Live(k)) <= MaxPerHost

\* What the architecture document demands of reuse: a connection whose peer
\* has closed it is sorted out by the health check before it is lent again.
NoDeadReuse ==
    [][\A k \in Keys : \A c \in Pooled(k) : conn[c].peerClosed =>
         \A t \in Tasks : held'[t] # c]_poolVars
=============================================================================
