---------------------------- MODULE VersionSlot ----------------------------
(***************************************************************************)
(* What a table's registry slot promises (spec.md 4.9, 4.10, 5): readers  *)
(* atomically take the current version as a protected handle; a writer    *)
(* atomically replaces the current version; a version is deleted only     *)
(* when it is no longer current and no reader holds a handle on it.       *)
(***************************************************************************)
CONSTANTS Readers, VersionIds, NULL

VARIABLES slot, held, dead

Init ==
  /\ slot = NULL
  /\ held = [r \in Readers |-> NULL]
  /\ dead = {}

Publish(v) ==
  /\ v \notin dead
  /\ slot' = v
  /\ UNCHANGED <<held, dead>>

Acquire(r) ==
  /\ held[r] = NULL
  /\ slot # NULL
  /\ held' = [held EXCEPT ![r] = slot]
  /\ UNCHANGED <<slot, dead>>

Release(r) ==
  /\ held[r] # NULL
  /\ held' = [held EXCEPT ![r] = NULL]
  /\ UNCHANGED <<slot, dead>>

Free(v) ==
  /\ v \notin dead
  /\ v # slot
  /\ \A r \in Readers : held[r] # v
  /\ dead' = dead \cup {v}
  /\ UNCHANGED <<slot, held>>

Next ==
  \/ \E v \in VersionIds : Publish(v) \/ Free(v)
  \/ \E r \in Readers : Acquire(r) \/ Release(r)

Spec == Init /\ [][Next]_<<slot, held, dead>>

=============================================================================
