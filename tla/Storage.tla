------------------------------ MODULE Storage ------------------------------
(***************************************************************************)
(* storage.Memory: which users are stored, with the inbounds each one has, *)
(* and which inbounds the running backends have registered.  Every method  *)
(* takes the RWMutex for its whole body, so each is one atomic step.  A    *)
(* user's name and key are abstracted away, an inbound is its tag.         *)
(***************************************************************************)
CONSTANTS Uids,       \* user ids of real users (>= 1)
          Tags,       \* inbound tags
          NoRecord    \* stands for a missing entry of Memory.users

ASSUME NoRecordAssumption == NoRecord \notin Tags

VARIABLES users,      \* Memory.users: the tags of a stored user's inbounds
          inbounds    \* the keys of Memory.inbounds

storageVars == <<users, inbounds>>

\* What a lookup that misses returns; no set of tags is equal to it.
NotStored == {NoRecord}

\* A user record as GetUser returns it: its tags, or a miss.
Records == (SUBSET Tags) \cup {NotStored}

StorageTypeOK ==
    /\ users \in [Uids -> Records]
    /\ inbounds \subseteq Tags

GetUser(u) == users[u]

ListUsers == {u \in Uids : users[u] # NotStored}

\* An empty list of tags asks for every registered inbound; a tag that is not
\* registered is left out of the answer.
ListInbounds(tags) == IF tags = {} THEN inbounds ELSE tags \cap inbounds

UpdateUserInbounds(u, tags) ==
    /\ users' = [users EXCEPT ![u] = tags]
    /\ UNCHANGED inbounds

RemoveUser(u) ==
    /\ users' = [users EXCEPT ![u] = NotStored]
    /\ UNCHANGED inbounds
=============================================================================
