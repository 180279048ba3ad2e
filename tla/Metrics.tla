------------------------------- MODULE Metrics ------------------------------
(***************************************************************************)
(* MetricsRegistry of src/observability/metrics.cpp: every worker thread   *)
(* counts in a shard of its own with relaxed atomic additions, and any     *)
(* thread may render the totals while the others keep counting.  The       *)
(* registry holds shards by weak_ptr; a shard lives as long as its Worker, *)
(* its thread's lambda or a rendering that has locked it.                  *)
(*                                                                         *)
(* A shard is named by its worker.  A byte count is one unit per record;   *)
(* the counters are 64 bits wide and do not wrap within the bound.         *)
(***************************************************************************)
EXTENDS Integers, Sequences

CONSTANTS
    Recorders,      \* workers, and so shards
    Observers,      \* threads without a shard that may render
    Classes,        \* the status classes that responses have
    MaxRecords,     \* bound on the calls of record_accept, _request, _response
    NoThread

ASSUME MetricsAssumption ==
    /\ NoThread \notin Recorders \cup Observers /\ MaxRecords \in Nat
    /\ Classes \subseteq {"r2xx", "r4xx", "r5xx"}

Threads == Recorders \cup Observers

\* The order in which render_prometheus loads the fields of a shard.
Fields == <<"accepts", "requests", "r2xx", "r4xx", "r5xx", "bytesIn", "bytesOut">>

Counters == {Fields[n] : n \in 1..Len(Fields)}

\* The additions of record_accept, record_request and record_response.  (For a
\* status outside the three classes record_response adds the bytes only; no
\* caller has one.)
Records == {<<"accepts">>, <<"requests", "bytesIn">>}
             \cup {<<class, "bytesOut">> : class \in Classes}

Zero == [k \in Counters |-> 0]

VARIABLES
    shards,         \* shards_: the shards in the order of their creation
    owned,          \* workers whose Worker object holds its shard
    bound,          \* workers whose thread runs with its shard bound
    todo,           \* per thread: additions left of the record_ call it is in
    count,          \* per shard: its counters
    records,        \* record_ calls so far
    holder,         \* the thread that is rendering and holds shards_mu_
    place,          \* the position in shards_ that the rendering has reached
    field,          \* the field it loads next, 0 before weak.lock()
    sum,            \* its totals
    low             \* ghost: count when the rendering took the lock

recordVars == <<todo, count, records>>
renderVars == <<holder, place, field, sum, low>>
registryVars == <<shards, owned, bound, recordVars, renderVars>>

RegistryInit ==
    /\ shards = << >>
    /\ owned = {}
    /\ bound = {}
    /\ todo = [t \in Threads |-> << >>]
    /\ count = [w \in Recorders |-> Zero]
    /\ records = 0
    /\ holder = NoThread
    /\ place = 1
    /\ field = 0
    /\ sum = Zero
    /\ low = [w \in Recorders |-> Zero]

-----------------------------------------------------------------------------
(* The life of a worker, its thread and its shard.                         *)

CreateWorkerShard(w) ==
    /\ \A n \in DOMAIN shards : shards[n] # w
    /\ holder = NoThread
    /\ shards' = Append(shards, w)
    /\ owned' = owned \cup {w}
    /\ UNCHANGED <<bound, recordVars, renderVars>>

\* A new thread of the worker binds the shard, which its lambda holds too.
BindThreadLocalShard(w) ==
    /\ w \in owned \ bound
    /\ bound' = bound \cup {w}
    /\ UNCHANGED <<shards, owned, recordVars, renderVars>>

\* run() has returned, between two handlers and never inside one: the thread
\* unbinds the shard and ends.
UnbindThreadLocalShard(w) ==
    /\ w \in bound
    /\ todo[w] = << >> /\ holder # w
    /\ bound' = bound \ {w}
    /\ UNCHANGED <<shards, owned, recordVars, renderVars>>

\* The runtime joins the thread before it destroys its workers.
DestroyWorker(w) ==
    /\ w \in owned \ bound
    /\ owned' = owned \ {w}
    /\ UNCHANGED <<shards, bound, recordVars, renderVars>>

\* weak.lock() succeeds.
Alive(s) == s \in owned \cup bound

-----------------------------------------------------------------------------
(* Recording.                                                              *)

\* A thread runs handlers while it is in io->run(); an observer always runs.
Runs(t) == t \in bound \cup Observers

\* record_accept, record_request or record_response.  A thread that has no
\* shard bound returns at once.
BeginRecord(t, r) ==
    /\ t \in bound
    /\ todo[t] = << >> /\ holder # t
    /\ records < MaxRecords
    /\ records' = records + 1
    /\ todo' = [todo EXCEPT ![t] = r]
    /\ UNCHANGED <<shards, owned, bound, count, renderVars>>

Add(t) ==
    /\ todo[t] # << >>
    /\ count' = [count EXCEPT ![t][Head(todo[t])] = @ + 1]
    /\ todo' = [todo EXCEPT ![t] = Tail(@)]
    /\ UNCHANGED <<shards, owned, bound, records, renderVars>>

-----------------------------------------------------------------------------
(* render_prometheus.                                                      *)

\* The scoped_lock of shards_mu_.
BeginRender(t) ==
    /\ Runs(t) /\ todo[t] = << >>
    /\ holder = NoThread
    /\ holder' = t
    /\ low' = count
    /\ UNCHANGED <<shards, owned, bound, recordVars, place, field, sum>>

LockShard_StopsAtExpired(t) ==
    /\ holder = t /\ field = 0
    /\ place <= Len(shards)
    /\ IF Alive(shards[place])
       THEN field' = 1 /\ UNCHANGED place
       ELSE place' = Len(shards) + 1 /\ UNCHANGED field
    /\ UNCHANGED <<shards, owned, bound, recordVars, holder, sum, low>>

\* weak.lock(): an expired shard is passed over.
LockShard(t) ==
    /\ holder = t /\ field = 0
    /\ place <= Len(shards)
    /\ IF Alive(shards[place])
       THEN field' = 1 /\ UNCHANGED place
       ELSE place' = place + 1 /\ UNCHANGED field
    /\ UNCHANGED <<shards, owned, bound, recordVars, holder, sum, low>>

\* One relaxed load; after the last field the shard is released.
LoadField(t) ==
    /\ holder = t /\ field > 0
    /\ sum' = [sum EXCEPT ![Fields[field]] = @ + count[shards[place]][Fields[field]]]
    /\ IF field < Len(Fields)
       THEN field' = field + 1 /\ UNCHANGED place
       ELSE field' = 0 /\ place' = place + 1
    /\ UNCHANGED <<shards, owned, bound, recordVars, holder, low>>

EndRender_KeepsTotals(t) ==
    /\ holder = t /\ field = 0
    /\ place > Len(shards)
    /\ holder' = NoThread
    /\ place' = 1
    /\ low' = [w \in Recorders |-> Zero]
    /\ UNCHANGED <<shards, owned, bound, recordVars, field, sum>>

\* The lock is released and the totals are printed.
EndRender(t) ==
    /\ holder = t /\ field = 0
    /\ place > Len(shards)
    /\ holder' = NoThread
    /\ place' = 1
    /\ sum' = Zero
    /\ low' = [w \in Recorders |-> Zero]
    /\ UNCHANGED <<shards, owned, bound, recordVars, field>>

Render(t) == LockShard(t) \/ LoadField(t) \/ EndRender(t)

-----------------------------------------------------------------------------
LifeStep(w) ==
    \/ CreateWorkerShard(w) \/ DestroyWorker(w)
    \/ BindThreadLocalShard(w) \/ UnbindThreadLocalShard(w)

RegistryNext ==
    \/ \E w \in Recorders : LifeStep(w) \/ Add(w)
    \/ \E w \in Recorders, r \in Records : BeginRecord(w, r)
    \/ \E t \in Threads : BeginRender(t) \/ Render(t)

RegistrySpec == RegistryInit /\ [][RegistryNext]_registryVars

-----------------------------------------------------------------------------
(* Properties.                                                             *)

\* Every variable has its type.
RegistryTypeOK ==
    /\ shards \in Seq(Recorders)
    /\ owned \subseteq Recorders
    /\ bound \subseteq owned
    /\ todo \in [Threads -> Records \cup {Tail(r) : r \in Records}]
    /\ count \in [Recorders -> [Counters -> 0..MaxRecords]]
    /\ records \in 0..MaxRecords
    /\ holder \in Threads \cup {NoThread}
    /\ place \in 1..Len(shards) + 1
    /\ field \in 0..Len(Fields)
    /\ sum \in [Counters -> 0..MaxRecords]
    /\ low \in [Recorders -> [Counters -> 0..MaxRecords]]

\* The sum of values[1] to values[n].
SumTo(values, n) ==
    LET upTo[m \in 0..n] == IF m = 0 THEN 0 ELSE upTo[m - 1] + values[m]
    IN  upTo[n]

\* What each shard, in the order of shards_, has counted of k if its worker is in S.
Column(counts, k, S) ==
    [n \in 1..Len(shards) |-> IF shards[n] \in S THEN counts[shards[n]][k] ELSE 0]

\* What the shards of the workers in S have counted of k.
Total(counts, k, S) == SumTo(Column(counts, k, S), Len(shards))

\* What render_prometheus prints is never invented and never lost, although
\* the other threads count while it reads: each total is at least what the
\* shards that are still alive had counted when it took the lock, and at most
\* what all shards have counted when it is done.
RenderedTotalsAreBounded ==
    [][\A t \in Threads : EndRender(t) =>
          \A k \in Counters :
             /\ sum[k] >= Total(low, k, {w \in Recorders : Alive(w)})
             /\ sum[k] <= Total(count, k, Recorders)]_registryVars
=============================================================================
