---------------------------- MODULE MC_KvdbDirect ----------------------------
(* Model values and definitions for the runs of KvdbDirect. *)
EXTENDS KvdbDirect

CONSTANTS c1, c2, p1, r1, a, b, nil

MCProcs == {c1, c2}
MCPersistKeys == {p1}
MCVolatileKeys == {r1}
MCNoVolatileKeys == {}
MCRoKeys == {r1}
MCNoRoKeys == {}
MCVals == {a, b}

(* No process starts with a property in its environment. *)
MCEnvEmpty == [p \in MCProcs |-> [k \in MCPersistKeys \cup MCVolatileKeys |-> nil]]

(* c1 is started with p1=a and r1=b in its environment. *)
MCEnvC1 == [MCEnvEmpty EXCEPT ![c1] = (p1 :> a) @@ (r1 :> b)]

(* c1 is started with p1=a in its environment (persist keys only). *)
MCEnvC1Persist == [p \in MCProcs |-> [k \in MCPersistKeys |-> IF p = c1 THEN a ELSE nil]]

(* No process starts with a property in its environment (persist keys only). *)
MCEnvEmptyPersist == [p \in MCProcs |-> [k \in MCPersistKeys |-> nil]]
=============================================================================
