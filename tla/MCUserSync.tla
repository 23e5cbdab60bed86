----------------------------- MODULE MCUserSync -----------------------------
(* Messages, initial users and pools for the model-checking runs of UserSync. *)
EXTENDS UserSync

CONSTANTS u1, u2, A, B, C, s1, r1, w1, w2

Msg(u, tags) == [uid |-> u, named |-> TRUE, tags |-> tags]

Marker == Msg(NoUid, {})

\* A message without username: kept by a repopulate, applied by nobody.
NoName(u) == [uid |-> u, named |-> FALSE, tags |-> {A}]

MarkerOnly == {Marker}

\* Every way of asking for one user, and one for the other.
AllOfOne == {Msg(u1, T) : T \in SUBSET {A, B}} \cup {Msg(u2, {A})}

\* A user's moves, tags that are not registered or empty, a second user, and a
\* message without username.
Requests == {Msg(u1, T) : T \in {{}, {A}, {A, B}, {B, C}, {BlankTag}}}
            \cup {Msg(u2, {A, B}), NoName(u2)}

FirstAny == Requests \cup {Marker}

\* A user stored with A is sent again, moves to B, or is removed.
Moves == {Msg(u1, {A}), Msg(u1, {B}), Msg(u1, {})}

\* It moves to B, gains B or is removed, in any order; once it has moved, the
\* gain is of A.
Changes == {Msg(u1, {B}), Msg(u1, {A, B}), Msg(u1, {})}

FirstChange == Changes \cup MarkerOnly

\* u1 is stored with A.
OneStored == [u \in Uids |-> IF u = u1 THEN {A} ELSE NotStored]

\* Both users are stored.
BothStored == [u \in Uids |-> IF u = u1 THEN {A} ELSE {A, B}]

PoolOfStream == [w \in Workers |-> s1]
PoolOfUnary == [w \in Workers |-> r1]
PoolEach == [w \in Workers |-> IF w = w1 THEN s1 ELSE r1]
=============================================================================
