----------------------------- MODULE KvdbStore -----------------------------
(***************************************************************************)
(* The storage layer of kvdb: the namespace router of common.c and the    *)
(* three backends behind the kvdb_* interface of internal.h: unqlite.c    *)
(* (an embedded KV engine, one database per namespace), file.c (one file  *)
(* per key) and nvs.c (a configdata device per namespace).  The backend   *)
(* is chosen at build time; here by the constant Backend.                 *)
(*                                                                         *)
(* A backend's state is a record                                           *)
(*   live : what kvdb_get reads (the engine's pages, the files),           *)
(*   disk : the persist. namespace as it would be found after a reboot.    *)
(* unqlite writes disk only in kvdb_commit; file.c and nvs.c write it on   *)
(* every set and delete, and their commit is a no-op.  The volatile       *)
(* namespace (unqlite's in-memory database, file.c's tmpfs directory, the *)
(* nvs temporary device) is never on disk.                                *)
(*                                                                         *)
(* Keys, values and errors are abstract: length limits and NUL checks are  *)
(* enforced by client.c before a request reaches a backend and are left    *)
(* out.  Every operator here is pure and returns [err, bk].                *)
(***************************************************************************)
EXTENDS TLC, SequencesExt

CONSTANTS
  PersistKeys,     \* keys that start with "persist."
  VolatileKeys,    \* every other key
  RoKeys,          \* keys that start with "ro." (never "persist.")
  Vals,            \* property values
  NoValue,         \* absence of a value (also used as "nothing")
  Backend,         \* "unqlite", "file" or "nvs"
  VolatileEnabled  \* CONFIG_KVDB_TEMPORARY_STORAGE

ASSUME PersistKeys \cap VolatileKeys = {}
ASSUME RoKeys \subseteq VolatileKeys
ASSUME NoValue \notin Vals
ASSUME Backend \in {"unqlite", "file", "nvs"}
ASSUME VolatileEnabled \in BOOLEAN

Keys == PersistKeys \cup VolatileKeys

Store == [Keys -> Vals \cup {NoValue}]

EmptyStore == [k \in Keys |-> NoValue]

Backends == [live : Store, disk : [PersistKeys -> Vals \cup {NoValue}]]

Errors == {"OK", "EPERM", "ENOENT", "EINVAL"}

Result(err, bk) == [err |-> err, bk |-> bk]

(* kvdb_get_index: the namespace a key routes to. *)
KvdbGetIndex(k) ==
  IF k \in PersistKeys THEN "persist"
  ELSE IF VolatileEnabled THEN "mem" ELSE "EINVAL"

(* kvdb_is_readonly *)
KvdbIsReadonly(k) == k \in RoKeys

UnqliteSet(bk, k, v, force) ==
  IF KvdbGetIndex(k) = "EINVAL" THEN Result("EINVAL", bk)
  ELSE IF ~force /\ KvdbIsReadonly(k) /\ bk.live[k] # NoValue
       THEN Result("EPERM", bk)
       ELSE Result("OK", [bk EXCEPT !.live[k] = v])

UnqliteGet(bk, k) ==
  IF KvdbGetIndex(k) = "EINVAL" THEN Result("EINVAL", bk)
  ELSE IF bk.live[k] = NoValue THEN Result("ENOENT", bk)
       ELSE Result(bk.live[k], bk)

(* kvdb_get(kvdb, key, key_len, NULL, 0), the loader's existence probe:    *)
(* unqlite_kv_fetch with a NULL buffer only reports the size.              *)
UnqliteProbe(bk, k) ==
  KvdbGetIndex(k) # "EINVAL" /\ bk.live[k] # NoValue

(* Variant of UnqliteDelete without the ro. check. *)
UnqliteDeleteNoRo(bk, k) ==
  IF KvdbGetIndex(k) = "EINVAL" THEN Result("EINVAL", bk)
  ELSE IF bk.live[k] = NoValue THEN Result("ENOENT", bk)
  ELSE Result("OK", [bk EXCEPT !.live[k] = NoValue])

(* A ro. key can never be deleted, not even when it does not exist. *)
UnqliteDelete(bk, k) ==
  IF KvdbIsReadonly(k) THEN Result("EPERM", bk)
  ELSE IF KvdbGetIndex(k) = "EINVAL" THEN Result("EINVAL", bk)
  ELSE IF bk.live[k] = NoValue THEN Result("ENOENT", bk)
  ELSE Result("OK", [bk EXCEPT !.live[k] = NoValue])

UnqliteCommit(bk) == [bk EXCEPT !.disk = [k \in PersistKeys |-> bk.live[k]]]

(* The file backend: a set is open(O_TRUNC) + write of the key's file, so  *)
(* a persist. key reaches disk at once.  force is unused: there is no ro.  *)
(* check.                                                                  *)
FileWrite(bk, k, v) ==
  [live |-> [bk.live EXCEPT ![k] = v],
   disk |-> IF k \in PersistKeys THEN [bk.disk EXCEPT ![k] = v] ELSE bk.disk]

FileSet(bk, k, v, force) ==
  IF KvdbGetIndex(k) = "EINVAL" THEN Result("EINVAL", bk)
  ELSE Result("OK", FileWrite(bk, k, v))

FileGet(bk, k) ==
  IF KvdbGetIndex(k) = "EINVAL" THEN Result("EINVAL", bk)
  ELSE IF bk.live[k] = NoValue THEN Result("ENOENT", bk)
       ELSE Result(bk.live[k], bk)

(* kvdb_get with value == NULL returns -EINVAL before looking at the key. *)
FileProbe(bk, k) == FALSE

(* Nothing is read-only.  kvdb_file_delete returns unlink()'s -1, not     *)
(* -errno, so a missing key is reported as -1, which is -EPERM.           *)
FileDelete(bk, k) ==
  IF KvdbGetIndex(k) = "EINVAL" THEN Result("EINVAL", bk)
  ELSE IF bk.live[k] = NoValue THEN Result("EPERM", bk)
  ELSE Result("OK", FileWrite(bk, k, NoValue))

FileCommit(bk) == bk

(* The nvs backend: each namespace is a configdata device (the persist.   *)
(* prefix is stripped from the name), written by ioctl at once; there is  *)
(* no ro. check and commit is a no-op.  The probe passes a NULL buffer of *)
(* length 0 to CFGDIOC_GETCONFIG, which reports whether the name exists.  *)
(* Variant of NvsWrite that issues the ioctl on the persist device,      *)
(* whatever namespace the key routes to.                                 *)
NvsWriteWrongDevice(bk, k, v) ==
  [live |-> IF k \in PersistKeys THEN [bk.live EXCEPT ![k] = v] ELSE bk.live,
   disk |-> [x \in DOMAIN bk.disk \cup {k} |-> IF x = k THEN v ELSE bk.disk[x]]]

(* Variant of NvsWrite that issues the ioctl on the temporary device     *)
(* whatever namespace the key routes to.                                 *)
NvsWriteTemporaryDevice(bk, k, v) == [bk EXCEPT !.live[k] = v]

NvsWrite(bk, k, v) == FileWrite(bk, k, v)

(* Variant of NvsSet that forgets kvdb_skip_prefix: a persist. key is     *)
(* stored under a name that kvdb_get never looks up.                     *)
NvsSetNoSkipPrefix(bk, k, v, force) ==
  IF KvdbGetIndex(k) = "EINVAL" THEN Result("EINVAL", bk)
  ELSE IF k \in PersistKeys THEN Result("OK", bk)
  ELSE Result("OK", NvsWrite(bk, k, v))

NvsSet(bk, k, v, force) ==
  IF KvdbGetIndex(k) = "EINVAL" THEN Result("EINVAL", bk)
  ELSE Result("OK", NvsWrite(bk, k, v))

NvsGet(bk, k) ==
  IF KvdbGetIndex(k) = "EINVAL" THEN Result("EINVAL", bk)
  ELSE IF bk.live[k] = NoValue THEN Result("ENOENT", bk)
       ELSE Result(bk.live[k], bk)

NvsProbe(bk, k) == KvdbGetIndex(k) # "EINVAL" /\ bk.live[k] # NoValue

NvsDelete(bk, k) ==
  IF KvdbGetIndex(k) = "EINVAL" THEN Result("EINVAL", bk)
  ELSE IF bk.live[k] = NoValue THEN Result("ENOENT", bk)
  ELSE Result("OK", NvsWrite(bk, k, NoValue))

NvsCommit(bk) == bk

(* The kvdb_* interface of internal.h, bound to the configured backend. *)
KvdbSet(bk, k, v, force) ==
  CASE Backend = "unqlite" -> UnqliteSet(bk, k, v, force)
    [] Backend = "file"    -> FileSet(bk, k, v, force)
    [] Backend = "nvs"     -> NvsSet(bk, k, v, force)

KvdbGet(bk, k) ==
  CASE Backend = "unqlite" -> UnqliteGet(bk, k)
    [] Backend = "file"    -> FileGet(bk, k)
    [] Backend = "nvs"     -> NvsGet(bk, k)

KvdbProbe(bk, k) ==
  CASE Backend = "unqlite" -> UnqliteProbe(bk, k)
    [] Backend = "file"    -> FileProbe(bk, k)
    [] Backend = "nvs"     -> NvsProbe(bk, k)

KvdbDelete(bk, k) ==
  CASE Backend = "unqlite" -> UnqliteDelete(bk, k)
    [] Backend = "file"    -> FileDelete(bk, k)
    [] Backend = "nvs"     -> NvsDelete(bk, k)

KvdbCommit(bk) ==
  CASE Backend = "unqlite" -> UnqliteCommit(bk)
    [] Backend = "file"    -> FileCommit(bk)
    [] Backend = "nvs"     -> NvsCommit(bk)

(* kvdb_init in a new process: unqlite opens the persist database from    *)
(* disk and a fresh in-memory volatile database; file.c opens nothing, so *)
(* every file, also those of the tmpfs volatile directory, is still there.*)
UnqliteInit(bk) ==
  [live |-> [k \in Keys |-> IF k \in PersistKeys THEN bk.disk[k] ELSE NoValue],
   disk |-> bk.disk]

FileInit(bk) == bk

(* nvs kvdb_init opens the configdata devices; what they hold is kept. *)
NvsInit(bk) == bk

KvdbInit(bk) ==
  CASE Backend = "unqlite" -> UnqliteInit(bk)
    [] Backend = "file"    -> FileInit(bk)
    [] Backend = "nvs"     -> NvsInit(bk)

(* kvdb_uninit: unqlite_close of the persist database commits what is    *)
(* pending, and the in-memory volatile database is gone with its handle;  *)
(* file.c and nvs.c only close descriptors.                               *)
UnqliteUninit(bk) == UnqliteInit(UnqliteCommit(bk))

FileUninit(bk) == bk

NvsUninit(bk) == bk

KvdbUninit(bk) ==
  CASE Backend = "unqlite" -> UnqliteUninit(bk)
    [] Backend = "file"    -> FileUninit(bk)
    [] Backend = "nvs"     -> NvsUninit(bk)

(* kvdb_list walks the namespaces in the order of the kvdb_db enum:       *)
(* KVDB_PERSIST, then KVDB_MEM when CONFIG_KVDB_TEMPORARY_STORAGE is set.  *)
(* Within a namespace the order is the backend's own (an unqlite cursor,   *)
(* readdir, CFGDIOC_NEXTCONFIG): some fixed order, SetToSeq's here.        *)
Entry(bk, k) == [key |-> k, val |-> bk.live[k]]

NsEntries(bk, ns) ==
  LET ks == SetToSeq({k \in ns : bk.live[k] # NoValue})
  IN  [i \in DOMAIN ks |-> Entry(bk, ks[i])]

VolatileEntries(bk) == IF VolatileEnabled THEN NsEntries(bk, VolatileKeys) ELSE <<>>

(* unqlite: a cursor over each database; the consumer gets the stored key *)
(* (with its NUL) and the value.                                           *)
UnqliteList(bk) == NsEntries(bk, PersistKeys) \o VolatileEntries(bk)

(* file.c: the regular files of CONFIG_KVDB_PERSIST_PATH, then of         *)
(* CONFIG_KVDB_TEMPORARY_PATH, each read back with kvdb_file_get.         *)
FileList(bk) == NsEntries(bk, PersistKeys) \o VolatileEntries(bk)

(* Variant of NvsList that returns at the first empty device (break      *)
(* instead of continue when CFGDIOC_FIRSTCONFIG fails).                  *)
NvsListStopAtEmpty(bk) ==
  IF NsEntries(bk, PersistKeys) = <<>> THEN <<>>
  ELSE NsEntries(bk, PersistKeys) \o VolatileEntries(bk)

(* nvs.c: FIRSTCONFIG then NEXTCONFIG on each device; an empty device is  *)
(* skipped, and kvdb_add_prefix puts back the persist. prefix that        *)
(* kvdb_set stripped, so the names listed are the keys that were set.     *)
NvsList(bk) == NsEntries(bk, PersistKeys) \o VolatileEntries(bk)

KvdbList(bk) ==
  CASE Backend = "unqlite" -> UnqliteList(bk)
    [] Backend = "file"    -> FileList(bk)
    [] Backend = "nvs"     -> NvsList(bk)

=============================================================================
