--------------------------- MODULE RegistryStore ---------------------------
(***************************************************************************)
(* What src/storage.rs promises its callers: one map from app ids to saved *)
(* records.  insert_installed_app, remove_installed_app and                *)
(* update_installed_app each take effect at one instant, on the map as it  *)
(* is at that instant, or not at all.  Nothing else ever changes the map:  *)
(* not a crash, not a migration of an older registry, not a reader.        *)
(***************************************************************************)
CONSTANTS AppIds,   \* ids an app can be registered under
          Records,  \* saved records, told apart only by equality
          Absent,   \* the value of an id that is not registered
          Start     \* the map a store starts from

Contents == [AppIds -> Records \union {Absent}]

VARIABLE apps

Init == apps = Start

Insert(a, r) == /\ apps[a] = Absent
                /\ apps' = [apps EXCEPT ![a] = r]

Remove(a) == /\ apps[a] # Absent
             /\ apps' = [apps EXCEPT ![a] = Absent]

Update(a, r) == /\ apps[a] # Absent
                /\ apps' = [apps EXCEPT ![a] = r]

Next == \E a \in AppIds :
          \/ Remove(a)
          \/ \E r \in Records : Insert(a, r) \/ Update(a, r)

Spec == Init /\ [][Next]_apps

=============================================================================
