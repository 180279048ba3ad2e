------------------------ MODULE ConfigSnapshotProofs ------------------------
(***************************************************************************)
(* Proofs about ConfigSnapshot, for every set of publishers, readers and   *)
(* memory blocks: what a reader has loaded is protected, and the manager   *)
(* implements the atomic register of SnapshotRegister.                     *)
(***************************************************************************)
EXTENDS ConfigSnapshot, TLAPS

Exclusive == {"swap_ptr", "swap_ctl", "release_old", "unlock"}
Shared    == {"copy_ptr", "copy_ctl", "unlock_shared"}

\* A thread is inside publish() or load() under the lock exactly when it is
\* recorded as an owner of mutex_, and the two kinds exclude each other.
LockState ==
    /\ \A p \in Publishers : pc[p] \in {"idle", "lock"} \cup Exclusive
    /\ \A r \in Readers : pc[r] \in {"idle", "using"} \cup Shared
    /\ \A p \in Publishers : pc[p] \in Exclusive <=> writer = p
    /\ \A r \in Readers : pc[r] \in Shared <=> r \in readers
    /\ writer # Null => readers = {}

\* The two words of current_ differ only between the two halves of a swap.
WordsAgree ==
    (\A p \in Publishers : pc[p] # "swap_ctl") => current.ptr = current.ctl

\* What a publisher's own shared_ptr holds at each point of publish().
PublisherHolds ==
    \A p \in Publishers :
        /\ pc[p] \in {"lock", "swap_ptr"} =>
             local[p].ptr \in Snapshots /\ local[p].ptr = local[p].ctl
        /\ pc[p] = "swap_ctl" =>
             /\ local[p].ctl \in Snapshots
             /\ current.ptr = local[p].ctl
             /\ local[p].ptr = current.ctl
        /\ pc[p] \in {"lock", "swap_ptr", "swap_ctl"} =>
             owners[local[p].ctl] = {p}

\* What a reader's own shared_ptr holds at each point of load().
ReaderHolds ==
    \A r \in Readers :
        /\ pc[r] = "copy_ctl" => local[r].ptr = current.ptr
        /\ pc[r] \in {"unlock_shared", "using"} =>
             /\ local[r].ptr = local[r].ctl
             /\ local[r].ptr \in Snapshots => r \in owners[local[r].ptr]

\* The inductive invariant.
IInv ==
    /\ SnapshotTypeOK
    /\ LockState
    /\ WordsAgree
    /\ CurrentIsAlive
    /\ PublisherHolds
    /\ ReaderHolds

\* A manager without a snapshot satisfies the inductive invariant.
LEMMA InitIInv == SnapshotInit => IInv
BY ThreadsAssumption
   DEF SnapshotInit, IInv, SnapshotTypeOK, LockState, WordsAgree, CurrentIsAlive,
       PublisherHolds, ReaderHolds, Threads, Blocks, Owners, SharedPtr,
       NullPtr, Labels, Exclusive, Shared

\* Every step of publish() preserves the inductive invariant.
LEMMA PublishIInv ==
    ASSUME NEW p \in Publishers, IInv,
           PublishStep(p) \/ \E s \in Snapshots : Build(p, s)
    PROVE  IInv'
<1> USE ThreadsAssumption
    DEF IInv, SnapshotTypeOK, LockState, WordsAgree, CurrentIsAlive, PublisherHolds,
        ReaderHolds, Threads, Blocks, Owners, SharedPtr, NullPtr, Labels,
        Exclusive, Shared, Jump
<1>1. ASSUME NEW s \in Snapshots, Build(p, s) PROVE IInv'
  <2> USE <1>1 DEF Build, WithOwner
  <2>1. SnapshotTypeOK'
    OBVIOUS
  <2>2. LockState'
    OBVIOUS
  <2>3. WordsAgree' /\ CurrentIsAlive'
    OBVIOUS
  <2>4. PublisherHolds'
    <3> SUFFICES ASSUME NEW q \in Publishers,
                        pc'[q] \in {"lock", "swap_ptr", "swap_ctl"}
                 PROVE  PublisherHolds!(q)'
      BY DEF PublisherHolds
    <3>1. CASE q = p
      <4>1. owners'[s] = {p}
        OBVIOUS
      <4>2. pc'[q] = "lock" /\ local'[q] = [ptr |-> s, ctl |-> s]
        BY <3>1
      <4> QED BY <3>1, <4>1, <4>2
    <3>2. CASE q # p
      <4>1. pc'[q] = pc[q] /\ local'[q] = local[q]
        BY <3>2
      <4>2. local[q].ctl \in Snapshots /\ owners[local[q].ctl] = {q}
        BY <4>1
      <4>3. local[q].ctl # s
        BY <4>2
      <4>4. owners'[local[q].ctl] = {q}
        BY <4>2, <4>3
      <4> QED BY <4>1, <4>2, <4>4
    <3> QED BY <3>1, <3>2
  <2>5. ReaderHolds'
    OBVIOUS
  <2> QED BY <2>1, <2>2, <2>3, <2>4, <2>5
<1>2. CASE LockExclusive(p)
  <2> USE <1>2 DEF LockExclusive
  <2>1. SnapshotTypeOK' /\ LockState'
    OBVIOUS
  <2>2. WordsAgree' /\ CurrentIsAlive'
    OBVIOUS
  <2>3. PublisherHolds' /\ ReaderHolds'
    OBVIOUS
  <2> QED BY <2>1, <2>2, <2>3
<1>3. CASE SwapPtr(p)
  <2> USE <1>3 DEF SwapPtr
  <2>1. SnapshotTypeOK' /\ LockState'
    OBVIOUS
  <2>2. WordsAgree' /\ CurrentIsAlive'
    OBVIOUS
  <2>3. PublisherHolds'
    OBVIOUS
  <2>4. ReaderHolds'
    OBVIOUS
  <2> QED BY <2>1, <2>2, <2>3, <2>4
<1>4. CASE SwapCtl(p)
  <2> USE <1>4 DEF SwapCtl
  <2>1. SnapshotTypeOK' /\ LockState'
    OBVIOUS
  <2>2. WordsAgree'
    OBVIOUS
  <2>3. CurrentIsAlive'
    OBVIOUS
  <2>4. PublisherHolds'
    <3> SUFFICES ASSUME NEW q \in Publishers,
                        pc'[q] \in {"lock", "swap_ptr", "swap_ctl"}
                 PROVE  PublisherHolds!(q)'
      BY DEF PublisherHolds
    <3>1. q # p /\ pc'[q] = pc[q] /\ local'[q] = local[q]
      OBVIOUS
    <3>2. pc[q] = "lock"
      BY <3>1
    <3>3. /\ local[q].ctl \in Snapshots /\ owners[local[q].ctl] = {q}
          /\ local[p].ctl \in Snapshots /\ owners[local[p].ctl] = {p}
      BY <3>2
    <3>4. local[q].ctl # local[p].ctl /\ local[q].ctl # current.ctl
      BY <3>1, <3>3
    <3>5. owners'[local[q].ctl] = {q}
      BY <3>3, <3>4
    <3> QED BY <3>1, <3>2, <3>3, <3>5
  <2>5. ReaderHolds'
    OBVIOUS
  <2> QED BY <2>1, <2>2, <2>3, <2>4, <2>5
<1>5. CASE ReleaseOld(p)
  <2> USE <1>5 DEF ReleaseOld, WithoutOwner
  <2>1. SnapshotTypeOK' /\ LockState'
    OBVIOUS
  <2>2. WordsAgree' /\ CurrentIsAlive'
    OBVIOUS
  <2>3. PublisherHolds' /\ ReaderHolds'
    OBVIOUS
  <2> QED BY <2>1, <2>2, <2>3
<1>6. CASE UnlockExclusive(p)
  <2> USE <1>6 DEF UnlockExclusive
  <2>1. SnapshotTypeOK' /\ LockState'
    OBVIOUS
  <2>2. WordsAgree' /\ CurrentIsAlive'
    OBVIOUS
  <2>3. PublisherHolds' /\ ReaderHolds'
    OBVIOUS
  <2> QED BY <2>1, <2>2, <2>3
<1> QED BY <1>1, <1>2, <1>3, <1>4, <1>5, <1>6 DEF PublishStep

\* Every step of load(), and the release of what it returned, preserves the
\* inductive invariant.
LEMMA LoadIInv ==
    ASSUME NEW r \in Readers, IInv, LoadStep(r)
    PROVE  IInv'
<1> USE ThreadsAssumption
    DEF IInv, SnapshotTypeOK, LockState, WordsAgree, CurrentIsAlive, PublisherHolds,
        ReaderHolds, Threads, Blocks, Owners, SharedPtr, NullPtr, Labels,
        Exclusive, Shared, Jump
<1>1. CASE LockShared(r)
  <2> USE <1>1 DEF LockShared
  <2>1. SnapshotTypeOK' /\ LockState'
    OBVIOUS
  <2>2. WordsAgree' /\ CurrentIsAlive' /\ PublisherHolds' /\ ReaderHolds'
    OBVIOUS
  <2> QED BY <2>1, <2>2
<1>2. CASE CopyPtr(r)
  <2> USE <1>2 DEF CopyPtr
  <2>1. SnapshotTypeOK' /\ LockState'
    OBVIOUS
  <2>2. WordsAgree' /\ CurrentIsAlive' /\ PublisherHolds' /\ ReaderHolds'
    OBVIOUS
  <2> QED BY <2>1, <2>2
<1>3. CASE CopyCtl(r)
  <2> USE <1>3 DEF CopyCtl, WithOwner
  <2>1. SnapshotTypeOK' /\ LockState'
    OBVIOUS
  <2>2. WordsAgree' /\ CurrentIsAlive'
    OBVIOUS
  <2>3. PublisherHolds'
    OBVIOUS
  <2>4. ReaderHolds'
    OBVIOUS
  <2> QED BY <2>1, <2>2, <2>3, <2>4
<1>4. CASE UnlockShared(r)
  <2> USE <1>4 DEF UnlockShared
  <2>1. SnapshotTypeOK' /\ LockState'
    OBVIOUS
  <2>2. WordsAgree' /\ CurrentIsAlive' /\ PublisherHolds' /\ ReaderHolds'
    OBVIOUS
  <2> QED BY <2>1, <2>2
<1>5. CASE Release(r)
  <2> USE <1>5 DEF Release, WithoutOwner
  <2>1. SnapshotTypeOK' /\ LockState'
    OBVIOUS
  <2>2. WordsAgree' /\ CurrentIsAlive'
    OBVIOUS
  <2>3. PublisherHolds'
    OBVIOUS
  <2>4. ReaderHolds'
    OBVIOUS
  <2> QED BY <2>1, <2>2, <2>3, <2>4
<1> QED BY <1>1, <1>2, <1>3, <1>4, <1>5 DEF LoadStep

\* The inductive invariant holds in every reachable state.
THEOREM Inductive == SnapshotSpec => []IInv
<1>1. IInv /\ UNCHANGED snapshotVars => IInv'
  BY DEF IInv, snapshotVars, SnapshotTypeOK, LockState, WordsAgree, CurrentIsAlive,
         PublisherHolds, ReaderHolds
<1>2. IInv /\ [SnapshotNext]_snapshotVars => IInv'
  BY <1>1, PublishIInv, LoadIInv DEF SnapshotNext
<1> QED BY InitIInv, <1>2, PTL DEF SnapshotSpec

\* Type correctness.
THEOREM TypeCorrect == SnapshotSpec => []SnapshotTypeOK
<1>1. IInv => SnapshotTypeOK
  BY DEF IInv
<1> QED BY <1>1, Inductive, PTL

\* load() returns one whole snapshot, kept alive by the reader's reference.
THEOREM LoadedCorrect == SnapshotSpec => []LoadedIsProtected
<1>1. IInv => LoadedIsProtected
  BY DEF IInv, SnapshotTypeOK, SharedPtr, Blocks, Threads, ReaderHolds, LoadedIsProtected
<1> QED BY <1>1, Inductive, PTL

\* current_ owns the snapshot it names, and no other.
THEOREM CurrentCorrect == SnapshotSpec => []CurrentIsAlive
<1>1. IInv => CurrentIsAlive
  BY DEF IInv
<1> QED BY <1>1, Inductive, PTL

\* publish() and load() implement the atomic register.
THEOREM RegisterCorrect == SnapshotSpec => IsAtomicRegister
<1>1. SnapshotInit => Register!Init
  BY DEF SnapshotInit, Register!Init, NullPtr, Threads
<1>2. IInv /\ [SnapshotNext]_snapshotVars => [Register!Next]_Register!vars
  <2> SUFFICES ASSUME IInv, SnapshotNext PROVE [Register!Next]_Register!vars
    BY DEF snapshotVars, Register!vars
  <2> USE ThreadsAssumption
      DEF IInv, SnapshotTypeOK, Threads, Jump, Register!vars, SharedPtr
  <2>1. ASSUME NEW p \in Publishers, PublishStep(p)
        PROVE  [Register!Next]_Register!vars
    <3>1. CASE SwapPtr(p)
      <4>1. Register!Publish(local[p].ptr)
        BY <3>1 DEF SwapPtr, Register!Publish
      <4>2. local[p].ptr \in Snapshots
        BY <3>1 DEF SwapPtr, PublisherHolds
      <4> QED BY <4>1, <4>2 DEF Register!Next
    <3>2. CASE LockExclusive(p) \/ SwapCtl(p) \/ ReleaseOld(p) \/ UnlockExclusive(p)
      BY <3>2 DEF LockExclusive, SwapCtl, ReleaseOld, UnlockExclusive
    <3> QED BY <2>1, <3>1, <3>2 DEF PublishStep
  <2>2. ASSUME NEW p \in Publishers, NEW s \in Snapshots, Build(p, s)
        PROVE  UNCHANGED Register!vars
    BY <2>2 DEF Build
  <2>3. ASSUME NEW r \in Readers, LoadStep(r)
        PROVE  [Register!Next]_Register!vars
    <3>1. CASE LockShared(r) \/ CopyPtr(r) \/ UnlockShared(r)
      BY <3>1 DEF LockShared, CopyPtr, UnlockShared
    <3>2. CASE CopyCtl(r)
      <4>1. Register!Load(r)
        BY <3>2 DEF CopyCtl, Register!Load, ReaderHolds
      <4> QED BY <4>1 DEF Register!Next
    <3>3. CASE Release(r)
      <4>1. Register!Release(r)
        BY <3>3 DEF Release, Register!Release
      <4> QED BY <4>1 DEF Register!Next
    <3> QED BY <2>3, <3>1, <3>2, <3>3 DEF LoadStep
  <2> QED BY <2>1, <2>2, <2>3 DEF SnapshotNext
<1> QED BY <1>1, <1>2, Inductive, PTL DEF SnapshotSpec, IsAtomicRegister, Register!Spec
=============================================================================
