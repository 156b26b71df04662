---------------------------- MODULE KvdbAbstract ----------------------------
(***************************************************************************)
(* What the property store promises its clients (spec.md sections 3 and  *)
(* 8), with no daemon, sockets, backends or notifications: a map kv from  *)
(* keys to values, and saved, the part of it a restart finds again.       *)
(*                                                                         *)
(*  - a set or delete changes one key; a ro. key that has a value is      *)
(*    neither set nor deleted again, and a ro. key is never deleted;       *)
(*  - a commit makes the persist. namespace durable; when Synchronous,    *)
(*    every set and delete is durable when it completes;                   *)
(*  - a restart keeps the durable persist. keys, loses the volatile ones, *)
(*    then the loader stores the source file's keys that are absent and   *)
(*    commits;                                                             *)
(*  - a reload stores every key of the source file, also ro. keys, and    *)
(*    commits.                                                             *)
(***************************************************************************)
CONSTANTS
  PersistKeys,   \* keys of the persist. namespace
  VolatileKeys,  \* every other key
  RoKeys,        \* ro. keys
  Vals,          \* values
  NoValue,       \* absence of a value
  Source,        \* the source file: a function from some keys to values
  Synchronous    \* every mutation is durable at once

VARIABLES kv, saved

Keys == PersistKeys \cup VolatileKeys

(* The durable image of a store. *)
Durable(s) == [k \in PersistKeys |-> s[k]]

(* The store a restart finds: the saved persist. keys and nothing else. *)
Fresh(d) == [k \in Keys |-> IF k \in PersistKeys THEN d[k] ELSE NoValue]

(* The loader over store s: a key of the source file is stored when force *)
(* is set or the key is absent.                                           *)
Loaded(s, force) ==
  [k \in Keys |-> IF k \in DOMAIN Source /\ (force \/ s[k] = NoValue)
                    THEN Source[k] ELSE s[k]]

Init ==
  /\ saved \in [PersistKeys -> Vals \cup {NoValue}]
  /\ kv = Fresh(saved)

(* The durable image after a mutation that left kv'. *)
Saved(s) == IF Synchronous THEN saved' = Durable(s) ELSE saved' \in {saved, Durable(s)}

Set(k, v) ==
  /\ ~(k \in RoKeys /\ kv[k] # NoValue)
  /\ kv' = [kv EXCEPT ![k] = v]
  /\ Saved(kv')

Delete(k) ==
  /\ k \notin RoKeys
  /\ kv[k] # NoValue
  /\ kv' = [kv EXCEPT ![k] = NoValue]
  /\ Saved(kv')

Commit ==
  /\ saved' = Durable(kv)
  /\ UNCHANGED kv

Restart ==
  /\ kv' = Loaded(Fresh(saved), FALSE)
  /\ saved' = Durable(kv')

Reload ==
  /\ kv' = Loaded(kv, TRUE)
  /\ saved' = Durable(kv')

Next ==
  \/ \E k \in Keys, v \in Vals : Set(k, v)
  \/ \E k \in Keys : Delete(k)
  \/ Commit
  \/ Restart
  \/ Reload

Spec == Init /\ [][Next]_<<kv, saved>>

=============================================================================
