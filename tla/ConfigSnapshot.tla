--------------------------- MODULE ConfigSnapshot ---------------------------
(***************************************************************************)
(* ConfigSnapshotManager<T> of include/netp2/config/config_snapshot.h:     *)
(* publish() and load() called from several threads, at the granularity of *)
(* the two words of the std::shared_ptr that mutex_ protects.              *)
(*                                                                         *)
(* A shared_ptr is a pair of words: ptr, the object, and ctl, its control  *)
(* block.  A reference count is kept as the set of its owners; a snapshot  *)
(* whose set is empty has been destroyed, and its memory may be used again *)
(* by the next snapshot that is built.                                     *)
(***************************************************************************)
CONSTANTS
    Publishers,     \* threads that call publish()
    Readers,        \* threads that call load()
    Snapshots,      \* memory blocks that can hold a snapshot
    Manager,        \* the owner of the reference held by current_
    Null

ASSUME ThreadsAssumption ==
    /\ Publishers \cap Readers = {}
    /\ Manager \notin Publishers \cup Readers
    /\ Null \notin Publishers \cup Readers \cup Snapshots

VARIABLES
    pc,         \* where each thread is
    writer,     \* exclusive owner of mutex_, or Null
    readers,    \* shared owners of mutex_
    current,    \* current_, as [ptr, ctl]
    local,      \* each thread's own shared_ptr, as [ptr, ctl]
    owners      \* who holds a reference to each snapshot

snapshotVars == <<pc, writer, readers, current, local, owners>>

Threads == Publishers \cup Readers
Blocks  == Snapshots \cup {Null}
Owners  == Threads \cup {Manager}
SharedPtr == [ptr : Blocks, ctl : Blocks]
NullPtr == [ptr |-> Null, ctl |-> Null]

SnapshotInit ==
    /\ pc = [t \in Threads |-> "idle"]
    /\ writer = Null
    /\ readers = {}
    /\ current = NullPtr
    /\ local = [t \in Threads |-> NullPtr]
    /\ owners = [s \in Snapshots |-> {}]

Jump(t, label) == pc' = [pc EXCEPT ![t] = label]

\* The owners after one of them drops and one acquires its reference; the
\* null shared_ptr has no control block and counts nothing.
WithOwner(t, c) ==
    [s \in Snapshots |-> IF s = c THEN owners[s] \cup {t} ELSE owners[s]]

WithoutOwner(t, c) ==
    [s \in Snapshots |-> IF s = c THEN owners[s] \ {t} ELSE owners[s]]

-----------------------------------------------------------------------------
(* publish(): current_ = std::move(snapshot) swaps the two words with a    *)
(* temporary and destroys the temporary before the lock is released.       *)

\* make_shared in the caller.
Build(p, s) ==
    /\ pc[p] = "idle"
    /\ owners[s] = {}
    /\ owners' = WithOwner(p, s)
    /\ local' = [local EXCEPT ![p] = [ptr |-> s, ctl |-> s]]
    /\ Jump(p, "lock")
    /\ UNCHANGED <<writer, readers, current>>

LockExclusive_IgnoresReaders(p) ==
    /\ pc[p] = "lock"
    /\ writer = Null
    /\ writer' = p
    /\ Jump(p, "swap_ptr")
    /\ UNCHANGED <<readers, current, local, owners>>

LockExclusive(p) ==
    /\ pc[p] = "lock"
    /\ writer = Null /\ readers = {}
    /\ writer' = p
    /\ Jump(p, "swap_ptr")
    /\ UNCHANGED <<readers, current, local, owners>>

SwapPtr(p) ==
    /\ pc[p] = "swap_ptr"
    /\ current' = [current EXCEPT !.ptr = local[p].ptr]
    /\ local' = [local EXCEPT ![p].ptr = current.ptr]
    /\ Jump(p, "swap_ctl")
    /\ UNCHANGED <<writer, readers, owners>>

SwapCtl_CopiesOld(p) ==
    /\ pc[p] = "swap_ctl"
    /\ current' = [current EXCEPT !.ctl = local[p].ctl]
    /\ local' = [local EXCEPT ![p].ctl = current.ctl]
    /\ owners' = WithOwner(Manager, local[p].ctl)
    /\ Jump(p, "release_old")
    /\ UNCHANGED <<writer, readers>>

\* The references move with the control blocks.
SwapCtl(p) ==
    /\ pc[p] = "swap_ctl"
    /\ current' = [current EXCEPT !.ctl = local[p].ctl]
    /\ local' = [local EXCEPT ![p].ctl = current.ctl]
    /\ owners' = [s \in Snapshots |->
                    CASE s = local[p].ctl -> (owners[s] \ {p}) \cup {Manager}
                      [] s = current.ctl  -> (owners[s] \ {Manager}) \cup {p}
                      [] OTHER -> owners[s]]
    /\ Jump(p, "release_old")
    /\ UNCHANGED <<writer, readers>>

ReleaseOld_Leaks(p) ==
    /\ pc[p] = "release_old"
    /\ local' = [local EXCEPT ![p] = NullPtr]
    /\ Jump(p, "unlock")
    /\ UNCHANGED <<writer, readers, current, owners>>

ReleaseOld(p) ==
    /\ pc[p] = "release_old"
    /\ owners' = WithoutOwner(p, local[p].ctl)
    /\ local' = [local EXCEPT ![p] = NullPtr]
    /\ Jump(p, "unlock")
    /\ UNCHANGED <<writer, readers, current>>

UnlockExclusive(p) ==
    /\ pc[p] = "unlock"
    /\ writer' = Null
    /\ Jump(p, "idle")
    /\ UNCHANGED <<readers, current, local, owners>>

-----------------------------------------------------------------------------
(* load(): the copy of current_ is made while the shared lock is held.     *)

LockShared_Unlocked(r) ==
    /\ pc[r] = "idle"
    /\ Jump(r, "copy_ptr")
    /\ UNCHANGED <<writer, readers, current, local, owners>>

LockShared_Exclusive(r) ==
    /\ pc[r] = "idle"
    /\ writer = Null /\ readers = {}
    /\ writer' = r
    /\ Jump(r, "copy_ptr")
    /\ UNCHANGED <<readers, current, local, owners>>

LockShared(r) ==
    /\ pc[r] = "idle"
    /\ writer = Null
    /\ readers' = readers \cup {r}
    /\ Jump(r, "copy_ptr")
    /\ UNCHANGED <<writer, current, local, owners>>

CopyPtr(r) ==
    /\ pc[r] = "copy_ptr"
    /\ local' = [local EXCEPT ![r].ptr = current.ptr]
    /\ Jump(r, "copy_ctl")
    /\ UNCHANGED <<writer, readers, current, owners>>

CopyCtl_Uncounted(r) ==
    /\ pc[r] = "copy_ctl"
    /\ local' = [local EXCEPT ![r].ctl = current.ctl]
    /\ Jump(r, "unlock_shared")
    /\ UNCHANGED <<writer, readers, current, owners>>

\* The copy constructor copies the control block and counts the reference.
CopyCtl(r) ==
    /\ pc[r] = "copy_ctl"
    /\ local' = [local EXCEPT ![r].ctl = current.ctl]
    /\ owners' = WithOwner(r, current.ctl)
    /\ Jump(r, "unlock_shared")
    /\ UNCHANGED <<writer, readers, current>>

UnlockShared(r) ==
    /\ pc[r] = "unlock_shared"
    /\ readers' = readers \ {r}
    /\ Jump(r, "using")
    /\ UNCHANGED <<writer, current, local, owners>>

\* The coroutine is done with the snapshot it loaded.
Release(r) ==
    /\ pc[r] = "using"
    /\ owners' = WithoutOwner(r, local[r].ctl)
    /\ local' = [local EXCEPT ![r] = NullPtr]
    /\ Jump(r, "idle")
    /\ UNCHANGED <<writer, readers, current>>

-----------------------------------------------------------------------------
PublishStep(p) ==
    \/ LockExclusive(p)
    \/ SwapPtr(p)
    \/ SwapCtl(p)
    \/ ReleaseOld(p)
    \/ UnlockExclusive(p)

LoadStep(r) ==
    \/ LockShared(r)
    \/ CopyPtr(r)
    \/ CopyCtl(r)
    \/ UnlockShared(r)
    \/ Release(r)

SnapshotNext ==
    \/ \E p \in Publishers : PublishStep(p) \/ \E s \in Snapshots : Build(p, s)
    \/ \E r \in Readers : LoadStep(r)

SnapshotSpec == SnapshotInit /\ [][SnapshotNext]_snapshotVars

\* A thread that holds the lock or a snapshot goes on.  Waiting for the lock
\* is not assumed to end: std::shared_mutex promises no fairness between
\* readers and writers.
SnapshotFairness ==
    /\ \A p \in Publishers : WF_snapshotVars(PublishStep(p) /\ pc[p] # "lock")
    /\ \A r \in Readers : WF_snapshotVars(LoadStep(r) /\ pc[r] # "idle")

SnapshotFairSpec == SnapshotSpec /\ SnapshotFairness

-----------------------------------------------------------------------------
(* Properties.                                                             *)

Labels ==
    {"idle", "lock", "swap_ptr", "swap_ctl", "release_old", "unlock",
     "copy_ptr", "copy_ctl", "unlock_shared", "using"}

\* Every variable has its type.
SnapshotTypeOK ==
    /\ pc \in [Threads -> Labels]
    /\ writer \in Publishers \cup {Null}
    /\ readers \subseteq Readers
    /\ current \in SharedPtr
    /\ local \in [Threads -> SharedPtr]
    /\ owners \in [Snapshots -> SUBSET Owners]

\* What load() returned is one snapshot and not the object of one publish
\* with the control block of another, and the reader's own reference keeps it
\* alive for as long as the reader uses it, however many publishes happen
\* in between.
LoadedIsProtected ==
    \A r \in Readers : pc[r] = "using" =>
        /\ local[r].ptr = local[r].ctl
        /\ local[r].ptr # Null => r \in owners[local[r].ptr]

\* current_ always owns the snapshot it names: no thread can find it
\* destroyed, not even between the two words of a swap.
CurrentIsAlive ==
    \A s \in Snapshots : Manager \in owners[s] <=> s = current.ctl

Retired(s) ==
    /\ owners[s] # {}
    /\ current.ctl # s
    /\ \A p \in Publishers : local[p].ctl # s

\* A replaced snapshot is destroyed once its readers have let it go, as the
\* class comment promises: no reference is leaked.
RetiredIsReclaimed ==
    \A s \in Snapshots : Retired(s) ~> owners[s] = {}

Register == INSTANCE SnapshotRegister WITH
    value <- current.ptr,
    view  <- [r \in Readers |->
                IF pc[r] \in {"unlock_shared", "using"}
                THEN {local[r].ptr} ELSE {}]

\* publish() and load() implement an atomic register: they take effect at
\* the write of ptr and at the end of the copy.
IsAtomicRegister == Register!Spec
=============================================================================
