--------------------------- MODULE MCRegistration ----------------------------
(* Small nodes for TLC: two slots and queries that want different changes. *)
EXTENDS Registration, TLC

CONSTANTS q1, q2, q3, OBJECT_CREATE, OBJECT_DELETE

MCQueries == {q1, q2, q3}
MCEvents == {OBJECT_CREATE, OBJECT_DELETE}

WithoutStatus == q1 :> {OBJECT_CREATE} @@ q2 :> MCEvents @@ q3 :> {OBJECT_DELETE}
WithStatus == q1 :> {OBJECT_CREATE} @@ q2 :> MCEvents @@ q3 :> {OBJECT_DELETE, OBJECT_STATUS}

BothWishes == {WithoutStatus, WithStatus}
JustWithoutStatus == {WithoutStatus}
===============================================================================
