----------------------------- MODULE KvdbDirect -----------------------------
(***************************************************************************)
(* The client API without the daemon: direct.c, linked into each process  *)
(* in place of client.c, and the string layer of common.c above it.       *)
(*                                                                         *)
(* Every call of direct.c is kvdb_init, one kvdb_* operation, kvdb_uninit: *)
(* the process opens the backend, works on it and closes it.  A call is   *)
(* one step here; concurrent callers are serialised by the backend (the   *)
(* file system, unqlite's file lock, the configdata driver).  There is no *)
(* loader, and property_commit and property_reload return 0.              *)
(*                                                                         *)
(* common.c consults the process environment first: property_get returns  *)
(* an environment value, property_set of a key that is in the environment *)
(* calls setenv, property_delete (here in direct.c) calls unsetenv.  The  *)
(* environment belongs to one process and starts as InitEnv.              *)
(*                                                                         *)
(* Two variables are history, not code state: written[k] is the value of *)
(* the last successful set or delete of k that reached the backend        *)
(* (NoValue after a delete); only keys in known have one.                 *)
(***************************************************************************)
EXTENDS KvdbStore, Naturals

CONSTANTS
  Procs,        \* processes linked with direct.c
  InitEnv,      \* InitEnv[p][k]: k's value in p's environment at exec
  MaxCalls,     \* bound on library calls
  MaxReboots    \* bound on device reboots

ASSUME InitEnv \in [Procs -> Store]
ASSUME MaxCalls \in Nat /\ MaxReboots \in Nat

VARIABLES
  bk,        \* the backend's state
  env,       \* env[p]: p's environment
  ret,       \* ret[p]: what p's last call returned
  crashed,   \* processes killed by a fault
  written,
  known,
  listed,    \* listed[p]: the entries p's last property_list handed to its callback
  calls,
  reboots

vars == <<bk, env, ret, crashed, written, known, listed, calls, reboots>>

Returns == Errors \cup Vals \cup {"default", NoValue}

(* kvdb_get with a NULL buffer, as property_get(key, NULL, ...) issues it, *)
(* reports a positive length exactly when the existence probe finds k.    *)
NullGetFound(b, k) == KvdbProbe(b, k)

(* The value a fresh kvdb_init would read for k. *)
StoredValue(k) ==
  LET r == KvdbGet(KvdbInit(bk), k) IN IF r.err \in Vals THEN r.err ELSE NoValue

(* What property_get(k, buf, ...) of process p returns as the value. *)
Visible(p, k) == IF env[p][k] # NoValue THEN env[p][k] ELSE StoredValue(k)

(* The backend after a device reboot: RAM and tmpfs are gone. *)
Rebooted(b) ==
  [live |-> [k \in Keys |-> IF k \in PersistKeys THEN b.disk[k] ELSE NoValue],
   disk |-> b.disk]

Init ==
  /\ \E d \in [PersistKeys -> Vals \cup {NoValue}] :
       bk = Rebooted([live |-> EmptyStore, disk |-> d])
  /\ env = InitEnv
  /\ ret = [p \in Procs |-> NoValue]
  /\ crashed = {}
  /\ written = [k \in Keys |-> NoValue]
  /\ known = {}
  /\ listed = [p \in Procs |-> <<>>]
  /\ calls = 0
  /\ reboots = 0

(* A library call of a live process, within the bound. *)
Call(p) == p \notin crashed /\ calls < MaxCalls /\ calls' = calls + 1

(* property_set_binary: init, kvdb_set without force, uninit. *)
PropertySetBinary(b, k, v) ==
  LET r == KvdbSet(KvdbInit(b), k, v, FALSE)
  IN  Result(r.err, KvdbUninit(r.bk))

(* property_delete's backend path: init, kvdb_delete, uninit. *)
PropertyDeleteBinary(b, k) ==
  LET r == KvdbDelete(KvdbInit(b), k)
  IN  Result(r.err, KvdbUninit(r.bk))

(* property_set_: setenv when k is in p's environment, else the backend. *)
PropertySet(p, k, v) ==
  /\ Call(p)
  /\ \/ /\ env[p][k] # NoValue
        /\ env' = [env EXCEPT ![p][k] = v]
        /\ ret' = [ret EXCEPT ![p] = "OK"]
        /\ UNCHANGED <<bk, written, known>>
     \/ /\ env[p][k] = NoValue
        /\ LET r == PropertySetBinary(bk, k, v) IN
             /\ bk' = r.bk
             /\ ret' = [ret EXCEPT ![p] = r.err]
             /\ IF r.err = "OK"
                  THEN /\ written' = [written EXCEPT ![k] = v]
                       /\ known' = known \cup {k}
                  ELSE UNCHANGED <<written, known>>
        /\ UNCHANGED env
  /\ UNCHANGED <<crashed, listed, reboots>>

(* property_get(k, buf, default): the environment, else                 *)
(* property_get_binary; a length <= 0 gives the default.                 *)
PropertyGet(p, k) ==
  /\ Call(p)
  /\ ret' = [ret EXCEPT ![p] = IF Visible(p, k) # NoValue THEN Visible(p, k)
                                                          ELSE "default"]
  /\ UNCHANGED <<bk, env, crashed, written, known, listed, reboots>>

(* property_get(k, NULL, NULL), the existence test of                    *)
(* __system_property_find.  An environment hit returns its length.  A    *)
(* backend hit returns a positive length, and property_get then writes   *)
(* the terminating NUL through the NULL buffer: the process faults.      *)
PropertyGetNull(p, k) ==
  /\ Call(p)
  /\ \/ /\ env[p][k] # NoValue
        /\ ret' = [ret EXCEPT ![p] = env[p][k]]
        /\ UNCHANGED crashed
     \/ /\ env[p][k] = NoValue
        /\ ~NullGetFound(KvdbInit(bk), k)
        /\ ret' = [ret EXCEPT ![p] = "EINVAL"]
        /\ UNCHANGED crashed
     \/ /\ env[p][k] = NoValue
        /\ NullGetFound(KvdbInit(bk), k)
        /\ crashed' = crashed \cup {p}
        /\ UNCHANGED ret
  /\ UNCHANGED <<bk, env, written, known, listed, reboots>>

(* property_delete: unsetenv when k is in p's environment, else the      *)
(* backend.                                                               *)
PropertyDelete(p, k) ==
  /\ Call(p)
  /\ \/ /\ env[p][k] # NoValue
        /\ env' = [env EXCEPT ![p][k] = NoValue]
        /\ ret' = [ret EXCEPT ![p] = "OK"]
        /\ UNCHANGED <<bk, written, known>>
     \/ /\ env[p][k] = NoValue
        /\ LET r == PropertyDeleteBinary(bk, k) IN
             /\ bk' = r.bk
             /\ ret' = [ret EXCEPT ![p] = r.err]
             /\ IF r.err = "OK"
                  THEN /\ written' = [written EXCEPT ![k] = NoValue]
                       /\ known' = known \cup {k}
                  ELSE UNCHANGED <<written, known>>
        /\ UNCHANGED env
  /\ UNCHANGED <<crashed, listed, reboots>>

(* property_commit and property_reload do nothing and return 0. *)
PropertyCommit(p) ==
  /\ Call(p)
  /\ ret' = [ret EXCEPT ![p] = "OK"]
  /\ UNCHANGED <<bk, env, crashed, written, known, listed, reboots>>

PropertyReload(p) ==
  /\ Call(p)
  /\ ret' = [ret EXCEPT ![p] = "OK"]
  /\ UNCHANGED <<bk, env, crashed, written, known, listed, reboots>>

(* property_list, over direct.c's property_list_binary: init, kvdb_list *)
(* with property_list_fn as the consumer, uninit.  The environment is not *)
(* consulted.                                                             *)
PropertyList(p) ==
  /\ Call(p)
  /\ listed' = [listed EXCEPT ![p] = KvdbList(KvdbInit(bk))]
  /\ bk' = KvdbUninit(KvdbInit(bk))
  /\ ret' = [ret EXCEPT ![p] = "OK"]
  /\ UNCHANGED <<env, crashed, written, known, reboots>>

(* A process exits (or is killed) and is started again with InitEnv.     *)
ProcessRestart(p) ==
  /\ env' = [env EXCEPT ![p] = InitEnv[p]]
  /\ env' # env \/ p \in crashed
  /\ crashed' = crashed \ {p}
  /\ UNCHANGED <<bk, ret, written, known, listed, calls, reboots>>

(* A device reboot: every process restarts and the volatile namespace is *)
(* empty again.                                                           *)
Reboot ==
  /\ reboots < MaxReboots
  /\ reboots' = reboots + 1
  /\ bk' = Rebooted(bk)
  /\ env' = InitEnv
  /\ crashed' = {}
  /\ written' = [k \in Keys |-> IF k \in PersistKeys THEN written[k] ELSE NoValue]
  /\ known' = known \cup VolatileKeys
  /\ UNCHANGED <<ret, listed, calls>>

(* Any library call of process p, or its restart. *)
ProcessStep(p) ==
       \/ PropertyCommit(p)
       \/ PropertyReload(p)
       \/ PropertyList(p)
       \/ ProcessRestart(p)
       \/ \E k \in Keys :
            \/ PropertyGet(p, k)
            \/ PropertyGetNull(p, k)
            \/ PropertyDelete(p, k)
            \/ \E v \in Vals : PropertySet(p, k, v)

Next == (\E p \in Procs : ProcessStep(p)) \/ Reboot

Spec == Init /\ [][Next]_vars

----------------------------------------------------------------------------
(* Every variable has its type; the backend's disk holds only persist.   *)
(* keys.                                                                  *)
TypeOK ==
  /\ bk \in Backends
  /\ env \in [Procs -> Store]
  /\ ret \in [Procs -> Returns]
  /\ crashed \subseteq Procs
  /\ written \in Store
  /\ known \subseteq Keys
  /\ listed \in [Procs -> Seq([key : Keys, val : Vals])]
  /\ calls \in 0..MaxCalls
  /\ reboots \in 0..MaxReboots

(* Direct mode is as durable as the daemon: after property_set or        *)
(* property_delete returns 0, the next call of any process reads what    *)
(* was written, until the next write or a reboot (which empties only the *)
(* volatile namespace).  It depends on kvdb_uninit keeping what the call *)
(* wrote.                                                                 *)
DirectReadsLastWrite == \A k \in known : StoredValue(k) = written[k]

(* Direct mode implements the abstract store with every mutation durable *)
(* when the call returns (property_commit does nothing) and no loader: a  *)
(* fresh kvdb_init reads only what set and delete calls left, and a      *)
(* reboot loses only the volatile namespace.                             *)
Abs == INSTANCE KvdbAbstract
         WITH kv <- [k \in Keys |-> StoredValue(k)], saved <- bk.disk,
              Source <- [k \in {} |-> NoValue], Synchronous <- TRUE

DirectRefinement == Abs!Spec

(* property_list hands its callback every property the backend holds,    *)
(* each once, with the value the next property_get of a process without   *)
(* an environment entry reads (spec: list enumerates every key present in *)
(* every namespace exactly once).  It depends on kvdb_list walking every   *)
(* namespace and on nvs.c restoring the persist. prefix it strips.         *)
Stored == [k \in Keys |-> StoredValue(k)]

ListIsExact(s, store) ==
  /\ IsInjective([i \in DOMAIN s |-> s[i].key])
  /\ {s[i] : i \in DOMAIN s} =
       {[key |-> k, val |-> store[k]] : k \in {x \in Keys : store[x] # NoValue}}

DirectListIsExact ==
  [][\A p \in Procs : listed'[p] # listed[p] => ListIsExact(listed'[p], Stored')]_vars

(* No library call kills its caller: property_get(k, NULL, NULL), the    *)
(* documented existence test, returns a length or an error.              *)
NoClientFault == crashed = {}

=============================================================================
