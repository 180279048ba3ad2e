--------------------------- MODULE GatewayRuntime ---------------------------
(***************************************************************************)
(* The worker runtime of src/runtime/gateway_runtime.cpp: the thread that  *)
(* owns the runtime calls start(), stop() and the destructor; each worker  *)
(* has an io_context, a RuntimeSpine with an acceptor, and a thread that   *)
(* runs the io_context.  The owner closes acceptors and stops io_contexts  *)
(* while the workers run, so the two interleave step by step.              *)
(*                                                                         *)
(* Of a spine only what the runtime's start and stop depend on is here:    *)
(* its accept loop and how many connections keep its io_context busy.      *)
(* Module Spine models what happens inside a connection.                   *)
(***************************************************************************)
EXTENDS Integers

CONSTANTS
    N,                  \* worker_count
    CoreCounts,         \* possible std::thread::hardware_concurrency(), 1 for 0
    Conns,              \* connections that clients may open
    MaxStarts,          \* bound on calls of start()
    MaxAcceptErrors     \* bound on transient errors of async_accept

ASSUME WorkersAssumption == N \in Nat \ {0} /\ CoreCounts \subseteq Nat
ASSUME BoundsAssumption  == MaxStarts \in Nat /\ MaxAcceptErrors \in Nat

Workers == 1..N

VARIABLES
    cores,          \* the cores of the machine
    pc,             \* where the owner thread is
    i,              \* the worker its current loop has reached
    started,        \* started_
    destroying,     \* the destructor has been entered
    thread,         \* per worker: none (not joinable), created, running, exited
    loop,           \* per worker: accept_loop none, spawned, accepting, done
    open,           \* per worker: acceptor_ is open (and listening)
    stopped,        \* per worker: io->stopped()
    phase,          \* per connection: new, backlog, serving, finished, reset
    home,           \* per connection: the worker the kernel chose, or 0
    starts,         \* calls of start() so far
    acceptErrors,   \* transient accept errors so far
    shutdown,       \* ghost: a shutdown sequence has begun at some time
    terminated      \* ghost: a joinable std::thread was assigned or destroyed

ownerVars  == <<cores, pc, i, started, destroying, starts, shutdown, terminated>>
workerVars == <<thread, loop, open, stopped>>
connVars   == <<phase, home>>
callVars   == <<cores, destroying, starts, acceptErrors>>
vars == <<ownerVars, workerVars, connVars, acceptErrors>>

\* The constructor has opened every acceptor and set it listening.
Init ==
    /\ cores \in CoreCounts
    /\ pc = "idle"
    /\ i = 1
    /\ started = FALSE
    /\ destroying = FALSE
    /\ thread = [w \in Workers |-> "none"]
    /\ loop = [w \in Workers |-> "none"]
    /\ open = [w \in Workers |-> TRUE]
    /\ stopped = [w \in Workers |-> FALSE]
    /\ phase = [c \in Conns |-> "new"]
    /\ home = [c \in Conns |-> 0]
    /\ starts = 0
    /\ acceptErrors = 0
    /\ shutdown = FALSE
    /\ terminated = FALSE

-----------------------------------------------------------------------------
(* The owner thread.                                                       *)

\* stop(), and the catch block of start(): three loops over all workers.
BeginShutdown ==
    /\ pc' = "close"
    /\ i' = 1
    /\ shutdown' = TRUE

Advance_OffByOne(after) ==
    IF i <= N THEN i' = i + 1 /\ pc' = pc ELSE i' = 1 /\ pc' = after

\* The next worker of a loop, or the next loop.
Advance(after) ==
    IF i < N THEN i' = i + 1 /\ pc' = pc ELSE i' = 1 /\ pc' = after

Start ==
    /\ pc = "idle" /\ ~started /\ ~destroying
    /\ starts < MaxStarts
    /\ starts' = starts + 1
    /\ IF N > cores
       THEN BeginShutdown
       ELSE pc' = "spawn" /\ i' = 1 /\ UNCHANGED shutdown
    /\ UNCHANGED <<cores, started, destroying, terminated, workerVars,
                   connVars, acceptErrors>>

\* co_spawn posts the accept loop.  On a stopped io_context nothing runs it.
SpawnLoop ==
    loop' = IF stopped[i] THEN loop ELSE [loop EXCEPT ![i] = "spawned"]

NewThread ==
    /\ thread' = [thread EXCEPT ![i] = "created"]
    /\ terminated' = (terminated \/ thread[i] # "none")

SpawnWorker_ThreadFirst ==
    /\ pc = "spawn"
    /\ \/ /\ thread[i] = "none"
          /\ NewThread
          /\ UNCHANGED <<pc, loop>>
       \/ /\ thread[i] # "none"
          /\ SpawnLoop
          /\ pc' = "affinity"
          /\ UNCHANGED <<thread, terminated>>
    /\ UNCHANGED <<callVars, i, started, shutdown, open, stopped, connVars>>

\* spine->start() and the construction of the thread, which may throw.
SpawnWorker ==
    /\ pc = "spawn"
    /\ SpawnLoop
    /\ \/ /\ NewThread
          /\ pc' = "affinity"
          /\ UNCHANGED <<i, shutdown>>
       \/ /\ BeginShutdown
          /\ UNCHANGED <<thread, terminated>>
    /\ UNCHANGED <<callVars, started, open, stopped, connVars>>

\* bind_thread_to_core_or_throw.
PinWorker ==
    /\ pc = "affinity"
    /\ \/ /\ IF i < N THEN pc' = "spawn" /\ i' = i + 1 /\ UNCHANGED started
                      ELSE pc' = "idle" /\ started' = TRUE /\ i' = 1
          /\ UNCHANGED shutdown
       \/ BeginShutdown /\ UNCHANGED started
    /\ UNCHANGED <<callVars, terminated, workerVars, connVars>>

Stop ==
    /\ pc = "idle" /\ started /\ ~destroying
    /\ BeginShutdown
    /\ UNCHANGED <<callVars, started, terminated, workerVars, connVars>>

CloseAcceptor_OnlyStarted ==
    /\ pc = "close"
    /\ open' = IF thread[i] # "none" THEN [open EXCEPT ![i] = FALSE] ELSE open
    /\ Advance("halt")
    /\ UNCHANGED <<callVars, started, shutdown, terminated, thread, loop,
                   stopped, connVars>>

\* spine->stop(); the kernel resets what is still in the backlog.
CloseAcceptor ==
    /\ pc = "close"
    /\ open' = [open EXCEPT ![i] = FALSE]
    /\ phase' = [c \in Conns |->
                   IF phase[c] = "backlog" /\ home[c] = i
                   THEN "reset" ELSE phase[c]]
    /\ Advance("halt")
    /\ UNCHANGED <<callVars, started, shutdown, terminated, thread, loop,
                   stopped, home>>

StopIo_LeavesRunning ==
    /\ pc = "halt"
    /\ Advance("join")
    /\ UNCHANGED <<callVars, started, shutdown, terminated, workerVars,
                   connVars>>

StopIo ==
    /\ pc = "halt"
    /\ stopped' = [stopped EXCEPT ![i] = TRUE]
    /\ Advance("join")
    /\ UNCHANGED <<callVars, started, shutdown, terminated, thread, loop,
                   open, connVars>>

AfterShutdown == IF destroying THEN "members" ELSE "idle"

JoinWorker_Skipped ==
    /\ pc = "join"
    /\ Advance(AfterShutdown)
    /\ started' = (started /\ i < N)
    /\ UNCHANGED <<callVars, shutdown, terminated, workerVars, connVars>>

\* join() waits for the thread; a thread that is not joinable is skipped.
JoinWorker ==
    /\ pc = "join"
    /\ thread[i] \in {"none", "exited"}
    /\ thread' = [thread EXCEPT ![i] = "none"]
    /\ Advance(AfterShutdown)
    /\ started' = (started /\ i < N)
    /\ UNCHANGED <<callVars, shutdown, terminated, loop, open, stopped,
                   connVars>>

\* ~GatewayRuntime() calls stop(), which returns at once if not started.
Destroy ==
    /\ pc = "idle" /\ ~destroying
    /\ destroying' = TRUE
    /\ IF started THEN BeginShutdown
                  ELSE pc' = "members" /\ UNCHANGED <<i, shutdown>>
    /\ UNCHANGED <<cores, started, starts, terminated, workerVars, connVars,
                   acceptErrors>>

\* Then workers_ is destroyed: threads, acceptors and suspended coroutines.
DestroyMembers ==
    /\ pc = "members"
    /\ pc' = "destroyed"
    /\ terminated' = (terminated \/ \E w \in Workers : thread[w] # "none")
    /\ open' = [w \in Workers |-> FALSE]
    /\ phase' = [c \in Conns |->
                   IF phase[c] \in {"backlog", "serving"}
                   THEN "reset" ELSE phase[c]]
    /\ UNCHANGED <<callVars, i, started, shutdown, thread, loop, stopped,
                   home>>

-----------------------------------------------------------------------------
(* The worker threads.                                                     *)

InRun(w) == thread[w] = "running" /\ ~stopped[w]

\* The thread reaches io->run().
RunThread(w) ==
    /\ thread[w] = "created"
    /\ thread' = [thread EXCEPT ![w] = "running"]
    /\ UNCHANGED <<ownerVars, loop, open, stopped, connVars, acceptErrors>>

LoopBegin(w) ==
    /\ InRun(w)
    /\ loop[w] = "spawned"
    /\ loop' = [loop EXCEPT ![w] = "accepting"]
    /\ UNCHANGED <<ownerVars, thread, open, stopped, connVars, acceptErrors>>

\* async_accept succeeds: handle_connection is spawned, the loop goes round.
Accept(w, c) ==
    /\ InRun(w)
    /\ loop[w] = "accepting"
    /\ open[w]
    /\ phase[c] = "backlog" /\ home[c] = w
    /\ phase' = [phase EXCEPT ![c] = "serving"]
    /\ UNCHANGED <<ownerVars, workerVars, home, acceptErrors>>

AcceptError_EndsLoop(w) ==
    /\ InRun(w)
    /\ loop[w] = "accepting"
    /\ open[w]
    /\ acceptErrors < MaxAcceptErrors
    /\ acceptErrors' = acceptErrors + 1
    /\ loop' = [loop EXCEPT ![w] = "done"]
    /\ UNCHANGED <<ownerVars, thread, open, stopped, connVars>>

\* async_accept fails while the acceptor is open: the loop goes round.
AcceptError(w) ==
    /\ InRun(w)
    /\ loop[w] = "accepting"
    /\ open[w]
    /\ acceptErrors < MaxAcceptErrors
    /\ acceptErrors' = acceptErrors + 1
    /\ UNCHANGED <<ownerVars, workerVars, connVars>>

\* async_accept is aborted, or was called on the closed acceptor.
LoopEnd(w) ==
    /\ InRun(w)
    /\ loop[w] = "accepting"
    /\ ~open[w]
    /\ loop' = [loop EXCEPT ![w] = "done"]
    /\ UNCHANGED <<ownerVars, thread, open, stopped, connVars, acceptErrors>>

\* handle_connection ends; a silent client can keep it from ever ending.
Finish(w, c) ==
    /\ InRun(w)
    /\ phase[c] = "serving" /\ home[c] = w
    /\ phase' = [phase EXCEPT ![c] = "finished"]
    /\ UNCHANGED <<ownerVars, workerVars, home, acceptErrors>>

OutOfWork(w) ==
    /\ loop[w] \in {"none", "done"}
    /\ \A c \in Conns : ~(phase[c] = "serving" /\ home[c] = w)

\* run() returns when it was stopped or has nothing left to wait for; in the
\* second case it stops its io_context itself.
RunReturns(w) ==
    /\ thread[w] = "running"
    /\ stopped[w] \/ OutOfWork(w)
    /\ thread' = [thread EXCEPT ![w] = "exited"]
    /\ stopped' = [stopped EXCEPT ![w] = TRUE]
    /\ UNCHANGED <<ownerVars, loop, open, connVars, acceptErrors>>

\* A client connects; SO_REUSEPORT lets the kernel choose the acceptor.
Connect(c, w) ==
    /\ phase[c] = "new"
    /\ open[w]
    /\ phase' = [phase EXCEPT ![c] = "backlog"]
    /\ home' = [home EXCEPT ![c] = w]
    /\ UNCHANGED <<ownerVars, workerVars, acceptErrors>>

\* The runtime is gone.
Gone == pc = "destroyed" /\ UNCHANGED vars

-----------------------------------------------------------------------------
ShutdownStep == CloseAcceptor \/ StopIo \/ JoinWorker \/ DestroyMembers

OwnerStep ==
    \/ Start \/ SpawnWorker \/ PinWorker
    \/ Stop \/ Destroy
    \/ ShutdownStep

WorkerStep(w) ==
    \/ RunThread(w) \/ RunReturns(w)
    \/ LoopBegin(w) \/ AcceptError(w) \/ LoopEnd(w)
    \/ \E c \in Conns : Accept(w, c) \/ Finish(w, c)

Next ==
    \/ OwnerStep
    \/ \E w \in Workers : WorkerStep(w)
    \/ \E c \in Conns, w \in Workers : Connect(c, w)
    \/ Gone

Spec == Init /\ [][Next]_vars

\* The operating system schedules every thread, and a readied accept is
\* eventually delivered.  Nothing makes a client speak, so Finish is not fair,
\* and nothing makes the owner call stop().
Fairness ==
    /\ WF_vars(SpawnWorker) /\ WF_vars(PinWorker) /\ WF_vars(ShutdownStep)
    /\ \A w \in Workers :
          /\ WF_vars(RunThread(w)) /\ WF_vars(RunReturns(w))
          /\ WF_vars(LoopBegin(w)) /\ WF_vars(LoopEnd(w))
          /\ \A c \in Conns : WF_vars(Accept(w, c))

FairSpec == Spec /\ Fairness

-----------------------------------------------------------------------------
(* Properties.                                                             *)

\* Every variable has its type.
TypeOK ==
    /\ cores \in CoreCounts
    /\ pc \in {"idle", "spawn", "affinity", "close", "halt", "join",
               "members", "destroyed"}
    /\ i \in Workers
    /\ started \in BOOLEAN /\ destroying \in BOOLEAN
    /\ shutdown \in BOOLEAN /\ terminated \in BOOLEAN
    /\ thread \in [Workers -> {"none", "created", "running", "exited"}]
    /\ loop \in [Workers -> {"none", "spawned", "accepting", "done"}]
    /\ open \in [Workers -> BOOLEAN] /\ stopped \in [Workers -> BOOLEAN]
    /\ phase \in [Conns -> {"new", "backlog", "serving", "finished", "reset"}]
    /\ home \in [Conns -> 0..N]
    /\ starts \in 0..MaxStarts /\ acceptErrors \in 0..MaxAcceptErrors

\* No sequence of start(), failed start(), stop(), restart and destruction
\* assigns to or destroys a joinable std::thread, which would call
\* std::terminate: the catch block of start() has to join what it created,
\* because after it stop() and the destructor return at once.
NoTerminate == ~terminated

\* When the first start() has returned without an exception, every worker is
\* alive: no worker thread ran out of work before its accept loop was posted.
FirstStartServes ==
    pc = "idle" /\ started /\ ~shutdown =>
        \A w \in Workers :
            /\ thread[w] \in {"created", "running"}
            /\ loop[w] \in {"spawned", "accepting"}
            /\ open[w] /\ ~stopped[w]

\* After stop() and after a start() that threw, no worker is left half alive:
\* the threads are joined, nothing listens and no client waits in a backlog,
\* for workers that had been started and for those that had not.
QuietAfterShutdown ==
    pc = "idle" /\ ~started /\ shutdown =>
        /\ \A w \in Workers : thread[w] = "none" /\ ~open[w] /\ stopped[w]
        /\ \A c \in Conns : phase[c] # "backlog"

\* stop(), a failing start() and the destructor return: join() does not wait
\* for a client that never sends its request.
ShutdownCompletes ==
    pc \in {"close", "halt", "join"} ~> pc \in {"idle", "destroyed"}

\* While the runtime is started, a client in a worker's backlog is accepted,
\* whatever transient errors async_accept reports.
BacklogAccepted ==
    \A c \in Conns :
        phase[c] = "backlog" /\ started ~> phase[c] # "backlog" \/ ~started
=============================================================================
