--------------------------- MODULE MC_KvdbServer ----------------------------
(* Small instances of KvdbServer for TLC.                                  *)
EXTENDS KvdbServer, TLC

CONSTANTS c1, c2, p1, r1, a, b, pall, nil

MCClients == {c1, c2}
MCPersistKeys == {p1}
MCVolatileKeys == {r1}
MCRoKeys == {r1}
MCVals == {a, b}
(* One value is enough where only whether a key changed matters. *)
MCValsOne == {a}
MCPatterns == {pall}
(* The pattern "*": fnmatch accepts every key. *)
MCMatchSet == [p \in MCPatterns |-> MCPersistKeys \cup MCVolatileKeys]
(* The source file sets the ro. key and gives the persist. key a default. *)
MCSource == (r1 :> a) @@ (p1 :> a)

(* The requests that change the database or the monitor list. *)
MCOpsNoReload == {"S", "D", "C", "M"}
MCOpsAll == {"S", "G", "D", "L", "C", "R", "M"}

(* Clients that run setprop for their changes: none, or one. *)
MCSetpropNone == {}
MCSetpropOne == {c1}

MCSymmetry == Permutations(MCClients)
=============================================================================
