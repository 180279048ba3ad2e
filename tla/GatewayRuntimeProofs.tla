------------------------ MODULE GatewayRuntimeProofs ------------------------
(***************************************************************************)
(* Proofs about GatewayRuntime, for every number of workers, every machine *)
(* and every set of client connections.                                    *)
(***************************************************************************)
EXTENDS GatewayRuntime, TLAPS

\* Which threads can be joinable at each point of the owner's calls: none
\* when the runtime is at rest, only those before the loop index while
\* start() creates them, only those from the loop index on while they are
\* joined.
ThreadsAccounted ==
    /\ ~terminated
    /\ pc = "idle" /\ ~started => \A w \in Workers : thread[w] = "none"
    /\ pc \in {"members", "destroyed"} =>
         ~started /\ \A w \in Workers : thread[w] = "none"
    /\ pc = "spawn" =>
         ~started /\ \A w \in Workers : w >= i => thread[w] = "none"
    /\ pc = "affinity" =>
         ~started /\ \A w \in Workers : w > i => thread[w] = "none"
    /\ pc = "join" => \A w \in Workers : w < i => thread[w] = "none"

\* Before any shutdown, every thread that exists has its accept loop to run.
AliveBeforeShutdown ==
    ~shutdown =>
        /\ pc \in {"idle", "spawn", "affinity", "members", "destroyed"}
        /\ pc # "destroyed" => \A w \in Workers : open[w]
        /\ \A w \in Workers : ~stopped[w]
        /\ \A w \in Workers : thread[w] # "none" =>
              /\ thread[w] \in {"created", "running"}
              /\ loop[w] \in {"spawned", "accepting"}
        /\ pc = "spawn" => \A w \in Workers : w < i => thread[w] # "none"
        /\ pc = "affinity" => \A w \in Workers : w <= i => thread[w] # "none"
        /\ pc = "idle" /\ started => \A w \in Workers : thread[w] # "none"

\* How far a shutdown has come.
ShutdownProgress ==
    shutdown =>
        /\ pc = "close" => \A w \in Workers : w < i => ~open[w]
        /\ pc = "halt" =>
             /\ \A w \in Workers : ~open[w]
             /\ \A w \in Workers : w < i => stopped[w]
        /\ pc \notin {"close", "halt"} =>
             \A w \in Workers : ~open[w] /\ stopped[w]

\* Only an open acceptor has a backlog.
BacklogIsOpen ==
    \A c \in Conns : phase[c] = "backlog" => home[c] \in Workers /\ open[home[c]]

\* The inductive invariant.
IInv ==
    /\ TypeOK
    /\ ThreadsAccounted
    /\ AliveBeforeShutdown
    /\ ShutdownProgress
    /\ BacklogIsOpen

\* The constructed runtime satisfies the inductive invariant.
LEMMA InitIInv == Init => IInv
<1> SUFFICES ASSUME Init PROVE IInv
  OBVIOUS
<1> USE WorkersAssumption, BoundsAssumption DEF Init, Workers
<1>1. TypeOK
  <2>1. open \in [Workers -> BOOLEAN] /\ stopped \in [Workers -> BOOLEAN]
    OBVIOUS
  <2>2. /\ thread \in [Workers -> {"none", "created", "running", "exited"}]
        /\ loop \in [Workers -> {"none", "spawned", "accepting", "done"}]
    OBVIOUS
  <2>3. /\ phase \in [Conns -> {"new", "backlog", "serving", "finished", "reset"}]
        /\ home \in [Conns -> 0..N]
    OBVIOUS
  <2>4. /\ started \in BOOLEAN /\ destroying \in BOOLEAN
        /\ shutdown \in BOOLEAN /\ terminated \in BOOLEAN
    OBVIOUS
  <2>5. /\ cores \in CoreCounts /\ i \in Workers
        /\ starts \in 0..MaxStarts /\ acceptErrors \in 0..MaxAcceptErrors
    OBVIOUS
  <2>6. pc \in {"idle", "spawn", "affinity", "close", "halt", "join",
               "members", "destroyed"}
    OBVIOUS
  <2> HIDE DEF Init
  <2> QED BY <2>1, <2>2, <2>3, <2>4, <2>5, <2>6 DEF TypeOK
<1>2. ThreadsAccounted
  BY DEF ThreadsAccounted
<1>3. AliveBeforeShutdown
  BY DEF AliveBeforeShutdown
<1>4. ShutdownProgress /\ BacklogIsOpen
  BY DEF ShutdownProgress, BacklogIsOpen
<1> QED BY <1>1, <1>2, <1>3, <1>4 DEF IInv

\* Every step of start(), stop() and the destructor preserves the invariant.
LEMMA OwnerIInv == IInv /\ OwnerStep => IInv'
<1> SUFFICES ASSUME IInv, OwnerStep PROVE IInv'
  OBVIOUS
<1> USE WorkersAssumption, BoundsAssumption
    DEF IInv, TypeOK, ThreadsAccounted, AliveBeforeShutdown, ShutdownProgress,
        BacklogIsOpen, Workers, workerVars, connVars, callVars
<1>1. CASE Start
  <2>1. CASE N > cores
    BY <1>1, <2>1 DEF Start, BeginShutdown
  <2>2. CASE ~(N > cores)
    BY <1>1, <2>2 DEF Start
  <2> QED BY <2>1, <2>2
<1>2. CASE SpawnWorker
  <2>1. CASE NewThread /\ pc' = "affinity" /\ UNCHANGED <<i, shutdown>>
    BY <1>2, <2>1 DEF SpawnWorker, SpawnLoop, NewThread
  <2>2. CASE BeginShutdown /\ UNCHANGED <<thread, terminated>>
    BY <1>2, <2>2 DEF SpawnWorker, SpawnLoop, BeginShutdown
  <2> QED BY <1>2, <2>1, <2>2 DEF SpawnWorker
<1>3. CASE PinWorker
  <2>0. UNCHANGED <<callVars, terminated, workerVars, connVars>> /\ pc = "affinity"
    BY <1>3 DEF PinWorker
  <2>1. CASE BeginShutdown /\ UNCHANGED started
    BY <2>0, <2>1 DEF BeginShutdown
  <2>2. CASE i < N /\ pc' = "spawn" /\ i' = i + 1 /\ UNCHANGED <<started, shutdown>>
    BY <2>0, <2>2
  <2>3. CASE ~(i < N) /\ pc' = "idle" /\ started' = TRUE /\ i' = 1 /\ UNCHANGED shutdown
    <3>1. i = N
      BY <2>3
    <3>2. TypeOK' /\ BacklogIsOpen'
      BY <2>0, <2>3
    <3>3. ThreadsAccounted'
      BY <2>0, <2>3
    <3>4. AliveBeforeShutdown'
      BY <2>0, <2>3, <3>1
    <3>5. ShutdownProgress'
      BY <2>0, <2>3
    <3> QED BY <3>2, <3>3, <3>4, <3>5
  <2> QED BY <1>3, <2>1, <2>2, <2>3 DEF PinWorker
<1>4. CASE Stop
  BY <1>4 DEF Stop, BeginShutdown
<1>5. CASE CloseAcceptor
  <2> USE <1>5 DEF CloseAcceptor, Advance
  <2>1. TypeOK' /\ ThreadsAccounted'
    OBVIOUS
  <2>2. AliveBeforeShutdown' /\ ShutdownProgress'
    OBVIOUS
  <2>3. BacklogIsOpen'
    OBVIOUS
  <2> QED BY <2>1, <2>2, <2>3
<1>6. CASE StopIo
  BY <1>6 DEF StopIo, Advance
<1>7. CASE JoinWorker
  BY <1>7 DEF JoinWorker, Advance, AfterShutdown
<1>8. CASE Destroy
  <2>1. CASE started
    BY <1>8, <2>1 DEF Destroy, BeginShutdown
  <2>2. CASE ~started
    BY <1>8, <2>2 DEF Destroy
  <2> QED BY <2>1, <2>2
<1>9. CASE DestroyMembers
  BY <1>9 DEF DestroyMembers
<1> QED BY <1>1, <1>2, <1>3, <1>4, <1>5, <1>6, <1>7, <1>8, <1>9
        DEF OwnerStep, ShutdownStep

\* Every step of a worker thread preserves the invariant.
LEMMA WorkerIInv ==
    ASSUME NEW w \in Workers, IInv, WorkerStep(w)
    PROVE  IInv'
<1> USE WorkersAssumption, BoundsAssumption
    DEF IInv, TypeOK, ThreadsAccounted, AliveBeforeShutdown, ShutdownProgress,
        BacklogIsOpen, Workers, ownerVars, workerVars, connVars, InRun
<1>1. CASE RunThread(w)
  BY <1>1 DEF RunThread
<1>2. CASE LoopBegin(w)
  BY <1>2 DEF LoopBegin
<1>3. CASE AcceptError(w)
  BY <1>3 DEF AcceptError
<1>4. CASE LoopEnd(w)
  BY <1>4 DEF LoopEnd
<1>5. CASE RunReturns(w)
  BY <1>5 DEF RunReturns, OutOfWork
<1>6. ASSUME NEW c \in Conns, Accept(w, c) PROVE IInv'
  BY <1>6 DEF Accept
<1>7. ASSUME NEW c \in Conns, Finish(w, c) PROVE IInv'
  BY <1>7 DEF Finish
<1> QED BY <1>1, <1>2, <1>3, <1>4, <1>5, <1>6, <1>7 DEF WorkerStep

\* Every step preserves the invariant.
LEMMA NextIInv == IInv /\ [Next]_vars => IInv'
<1> SUFFICES ASSUME IInv, [Next]_vars PROVE IInv'
  OBVIOUS
<1>1. CASE OwnerStep
  BY <1>1, OwnerIInv
<1>2. ASSUME NEW w \in Workers, WorkerStep(w) PROVE IInv'
  BY <1>2, WorkerIInv
<1>3. ASSUME NEW c \in Conns, NEW w \in Workers, Connect(c, w) PROVE IInv'
  BY <1>3, WorkersAssumption
     DEF Connect, IInv, TypeOK, ThreadsAccounted, AliveBeforeShutdown,
         ShutdownProgress, BacklogIsOpen, Workers, ownerVars, workerVars
<1>4. CASE UNCHANGED vars
  BY <1>4 DEF vars, ownerVars, workerVars, connVars, IInv, TypeOK,
              ThreadsAccounted, AliveBeforeShutdown, ShutdownProgress,
              BacklogIsOpen
<1> QED BY <1>1, <1>2, <1>3, <1>4 DEF Next, Gone

\* The inductive invariant holds in every reachable state.
THEOREM Inductive == Spec => []IInv
BY InitIInv, NextIInv, PTL DEF Spec

\* Type correctness.
THEOREM TypeCorrect == Spec => []TypeOK
<1>1. IInv => TypeOK
  BY DEF IInv
<1> QED BY <1>1, Inductive, PTL

\* The runtime never calls std::terminate through a joinable thread, for any
\* sequence of start(), stop(), failures of either and destruction.
THEOREM NoTerminateCorrect == Spec => []NoTerminate
<1>1. IInv => NoTerminate
  BY DEF IInv, ThreadsAccounted, NoTerminate
<1> QED BY <1>1, Inductive, PTL

\* A first start() that returns has brought every worker to life.
THEOREM FirstStartCorrect == Spec => []FirstStartServes
<1>1. IInv => FirstStartServes
  BY DEF IInv, AliveBeforeShutdown, FirstStartServes
<1> QED BY <1>1, Inductive, PTL

\* stop() and a failed start() leave nothing running, listening or queued.
THEOREM QuietCorrect == Spec => []QuietAfterShutdown
<1>1. IInv => QuietAfterShutdown
  BY DEF IInv, TypeOK, ThreadsAccounted, ShutdownProgress, BacklogIsOpen,
         QuietAfterShutdown
<1> QED BY <1>1, Inductive, PTL
=============================================================================
