-------------------------- MODULE MC_QemuProperties --------------------------
(* Model values and definitions for the runs of QemuProperties. *)
EXTENDS QemuProperties

CONSTANTS c1, q, p1, r1, a, b, nil

MCProcs == {c1, q}
MCPersistKeys == {p1}
MCVolatileKeys == {r1}
MCNoRoKeys == {}
MCVals == {a, b}

(* c1 is started with p1=a in its environment, the boot tool with none: *)
(* c1's calls on p1 take the environment path, on r1 the backend path.   *)
MCEnvC1 == [p \in MCProcs |-> [k \in MCPersistKeys \cup MCVolatileKeys |->
              IF p = c1 /\ k = p1 THEN a ELSE nil]]

(* The host sends a line without '=' longer than the pair after it, two  *)
(* pairs and the lone NUL that ends the list.                            *)
MCHostFrames == << <<a, a, a, a>>, <<p1, "=", b>>, <<r1, "=", a>>, <<NUL>> >>

(* A host whose first frame exceeds BUFF_SIZE - 1 bytes. *)
MCHostOversize == << <<a, a, a, a, a, a>>, <<p1, "=", b>>, <<NUL>> >>

(* BUFF_SIZE scaled so that every frame of MCHostFrames fits. *)
MCBuffSize == 6

(* The stack slots of header[] and temp[] start zeroed. *)
MCTempInit == {<< [i \in 1..4 |-> NUL], [i \in 1..MCBuffSize |-> NUL] >>}
=============================================================================
