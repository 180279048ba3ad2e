-------------------------- MODULE SnapshotRegister --------------------------
(***************************************************************************)
(* What ConfigSnapshotManager<T> promises to its callers: an atomic        *)
(* register.  publish() replaces the value in one step, load() takes the   *)
(* value of one instant, and what was loaded stays what it is until the    *)
(* reader lets go of it.                                                   *)
(***************************************************************************)
CONSTANTS Readers, Snapshots, Null

VARIABLES
    value,      \* the current snapshot, Null before the first publish
    view        \* per reader: {} or the one snapshot it has loaded

vars == <<value, view>>

Init ==
    /\ value = Null
    /\ view = [r \in Readers |-> {}]

Publish(s) ==
    /\ value' = s
    /\ UNCHANGED view

Load(r) ==
    /\ view[r] = {}
    /\ view' = [view EXCEPT ![r] = {value}]
    /\ UNCHANGED value

Release(r) ==
    /\ view[r] # {}
    /\ view' = [view EXCEPT ![r] = {}]
    /\ UNCHANGED value

Next ==
    \/ \E s \in Snapshots : Publish(s)
    \/ \E r \in Readers : Load(r) \/ Release(r)

Spec == Init /\ [][Next]_vars
=============================================================================
