# TLA+ models of the kvdb property service

This directory holds TLA+ models of the property database in `src/kvdb`
(open-vela frameworks/system/utils). They cover:
- the daemon `kvdbd` (`server.c`) and the client library (`client.c`);
- the storage backends behind `internal.h`;
- the daemon-less direct mode (`direct.c`);
- the string, environment and typed layer of `common.c`;
- the `setprop` and `getprop` tools, and the `qemu_properties` boot tool
  (`qemu_properties.c`) composed with direct mode;
- the Android log facade of `src/log` (`log_write.c`);
- the atrace helpers of `src/include/cutils/trace.h`, `src/trace/trace.c` and
  the `atrace` command (`src/trace/atrace.c`).

TLC checks them.

## The system

| Part | Source | What it does |
|---|---|---|
| Namespace router | `common.c` `kvdb_get_index` | `persist.` keys go to the persistent database, others to the volatile one (`CONFIG_KVDB_TEMPORARY_STORAGE`), else `-EINVAL`. |
| unqlite backend | `unqlite.c` | One unqlite database per namespace. `kvdb_set` refuses an existing `ro.` key unless `force`. `kvdb_delete` refuses any `ro.` key. Writes reach disk in `kvdb_commit` and in `unqlite_close`. An empty path means in-memory. |
| file backend | `file.c` | One file per key. A set is `open(O_TRUNC)` plus `write`, so it is on disk at once. Commit is a no-op. There is no `ro.` check, and `kvdb_get(..., NULL, 0)` returns `-EINVAL`. |
| nvs backend | `nvs.c` | One configdata device per namespace, written by `ioctl` at once. The `persist.` prefix is stripped from the name. There is no `ro.` check, and commit is a no-op. |
| Daemon | `server.c` | Described below. |
| Watcher registry | `server.c` `kvdb_monitor_*` | A list of `(pattern, fd)`. A change goes to each matching monitor with one `sendmsg`. A failed send removes the monitor, and so does `EPOLLHUP`. |
| Loader | `server.c` `kvdb_load` | Stores each `key=value` line of the source files, then commits once. Keys that already exist are skipped unless `force`. The loader runs with `force` false at boot and true for `R`. |
| Client library | `client.c` | Each call connects (retrying on `ENOENT`), sends one frame and blocks on the reply; `property_reload` does not wait. A monitor is a connection kept open after `M`. `property_wait` opens a monitor, `poll`s it with a timeout, reads one note and closes it. |
| Direct client | `direct.c` | Linked instead of `client.c`. Each call is `kvdb_init`, one `kvdb_*` operation, then `kvdb_uninit`, inside the calling process. |
| Environment overlay | `common.c` `property_set_`, `property_get`; `direct.c` `property_delete` | A key in the process environment is read with `getenv`, set with `setenv` and deleted with `unsetenv`, and never reaches the store. |
| Typed API | `common.c` | Bool, int32, int64 and byte-buffer wrappers over the string calls. A buffer is stored as two lowercase hex digits per byte. |
| Log facade | `src/log/log_write.c` | `__android_log_print`, `_write`, `_assert` and the setters of minimum priority, default tag, logger and aborter. The minimum priority and default tag live in the process environment (`getenv`/`setenv`); the logger and aborter are globals. |
| Tools | `setprop.c`, `getprop.c` | `setprop` sets or deletes one key, then commits unless that failed. `getprop` reads one key or lists them all. |
| Trace | `trace.h`, `trace.c`, `atrace.c` | `ATRACE_*` helpers test their tag against the global `atrace_enabled_tags` and write one scheduler note if it is on. The `atrace` command parses category names and stores a new mask. |
| Boot tool | `qemu_properties.c` | At boot, connects to the emulator's `boot-properties` qemud service (up to `MAX_TRIES` opens), sends `list`, and reads frames: 4 hex digits of length, then the payload. It calls `property_set` for each `key=value` payload until a payload whose first byte is NUL. |
| `system_properties.c` | | See "What is not modelled". |

The daemon is a single thread. `main()` binds the socket, runs `kvdb_init`,
runs `kvdb_load(force = false)`, then enters `kvdb_loop`. Each iteration of the
loop does three things:

1. If the commit deadline `next` has passed, it commits and sets `next = 0`.
2. It calls `epoll_wait`.
3. It handles the returned events in order:
   - a readable listening socket: accept one connection and run `kvdb_client`
     on it;
   - `EPOLLHUP` on a monitor: close that monitor.

`kvdb_client` reads one frame and runs one operation. After a successful `S`
or `D` it calls `kvdb_monitor_notify` and then sends the reply. It closes the
connection, except for `M`. If the request changed the database and no
deadline is armed, the loop arms `next`.

## Modules

**`KvdbStore`** models the router and the three backends as pure operators
over a record `[live, disk]`:
- `live` is what `kvdb_get` reads;
- `disk` is the persistent namespace as a reboot would find it.

For each backend X there are the operators `XSet`, `XGet`, `XProbe`,
`XDelete`, `XCommit`, `XInit` and `XUninit`. `XProbe` is
`kvdb_get(..., NULL, 0)`, the existence test of the loader and of
`property_get(key, NULL, NULL)`. `XInit` is what a fresh process opens, and
`XUninit` is `kvdb_uninit`: for unqlite, `unqlite_close` commits the persistent
database and the in-memory one is gone. `KvdbSet`, `KvdbGet` and the other
`Kvdb*` operators bind the interface to the backend chosen by the constant
`Backend`.

Keys, values and errors are model values. The length and NUL checks are left
out because the client library enforces them before a request reaches a
backend.

**`KvdbServer`** (it EXTENDS `KvdbStore`) models the daemon, its monitor list
and the client processes.

The daemon's state:
- `sphase`: down, loop top, handling a batch, or notifying;
- `batch`: the events left from the last `epoll_wait`;
- `backlog`: the listening socket's accept queue;
- `next`: the deadline, as "off", "armed" or "due".

The monitor and client state:
- `mon`: the monitor list, one entry per client;
- `mq`: the notifications sitting in each monitor socket;
- `mpeer`: the client end of each monitor socket;
- `pending`, `reply` and `result`: each client's outstanding request, the
  daemon's answer, and what the library call returned;
- `connecting`: clients spinning in `property_connect` while the daemon is
  down (the socket path does not exist);
- `waiting`: clients inside `property_wait`;
- `setprop[c]`: "set" while the setprop tool c is between its change and its
  commit.

The actions follow the code:

| Action | Code |
|---|---|
| `Start` | `main`: `kvdb_init`, then `kvdb_load(false)` |
| `TimerCommit` | loop top with the deadline passed |
| `EpollWait` | `epoll_wait`; the ready events in any order |
| `EndBatch` | end of the event `for` loop |
| `HandleHup` | the `EPOLLHUP` branch |
| `HandleSet`, `HandleDelete`, `HandleGet`, `HandleList`, `HandleCommit`, `HandleReload`, `HandleMonitor` | accept, then the `kvdb_client` cases S, D, G, L, C, R, M |
| `NotifySend(m)` and `NotifyTimeout(m)` | one `sendmsg` of `kvdb_monitor_notify` |
| `FinishMutation` | send the reply, close, arm `next` |
| `ClientSet`, `ClientGet`, `ClientDelete`, `ClientList`, `ClientCommit`, `ClientMonitorOpen`, `ClientReload` | `property_set`, `property_get`, `property_delete`, `property_list`, `property_commit`, `property_monitor_open`, `property_reload` up to the sent frame |
| `ClientConnect` | a retry of `connect` in `property_connect` once the daemon is up |
| `ClientReceive` | the `recv` of the reply and the return value |
| `ClientMonitorRead`, `ClientMonitorClose` | `property_monitor_read`, `property_monitor_close` |
| `ClientWait`, then `WaitPoll` | `property_wait`: the monitor open, then `poll` returning a note, EOF (`-ENODATA`) or the timeout (`-ETIMEDOUT`), and the close |
| `Getprop` | `getprop`: one `G` or `L` call |
| `SetpropChange`, then `SetpropCommit` or `SetpropFail` | `setprop`: `property_set` or `property_delete`, then `property_commit` unless the change failed; the usage path only commits |

A client in the constant set `SetpropClients` is the setprop tool run again
and again; the other clients make any of the calls. The request bound
`MaxRequests` limits the calls that start a program, not setprop's commit, so
the bound never strands a setprop half way.

`kvdb_client` is split only where other processes can see the daemon in
between: after the backend call, around each notification send, and at the
reply.

`NotifySend(m)` has three outcomes:
- it fails when the peer has closed, and the monitor is freed;
- it queues the note when the socket has room;
- it blocks (no step) when the socket is full. `NotifyTimeout(m)` is the
  `SO_SNDTIMEO` failure that ends the block when `CONFIG_KVDB_TIMEOUT_INTERVAL`
  is set.

`ClientReceive` uses `CallResults`: what each call returns for what it got.
A reset or EOF gives an error, except in `property_commit`. There the length
test compares unsigned, so a failed `recv` returns an uninitialised value, and
EOF returns `-errno`, which may be 0. Both outcomes are possible.

`Expire` is the clock reaching the deadline. `Crash` is a daemon restart or a
device reboot: the daemon's memory and its connections are lost, and the
backend keeps only `bk.disk`.

Three variables are history, not code state:
- `mview[c]`: the store as it was when c's monitor was registered, with every
  note c has read applied to it;
- `delivered`: a note of the current change is already in a socket;
- `leaked`: the monitor fds the daemon has lost.

The fnmatch filter is the constant `MatchSet`: the keys each pattern accepts.
The source file is the constant `Source`: a function from keys to values.

**`KvdbDirect`** (it EXTENDS `KvdbStore`) models processes linked with
`direct.c`, and the environment overlay of `common.c`. Each library call is a
single step: `PropertySetBinary` and `PropertyDeleteBinary` are init, one
operation, uninit. Concurrent callers are serialised by the backend.

| Action | Code |
|---|---|
| `PropertySet`, `PropertyGet`, `PropertyDelete` | the environment branch or the backend branch |
| `PropertyGetNull` | `property_get(key, NULL, NULL)`, called by `__system_property_find` |
| `PropertyCommit`, `PropertyReload` | return 0 |
| `PropertyList` | `property_list_binary`: `kvdb_list` of each namespace, handing every entry to the callback (`listed[p]`) |
| `ProcessRestart` | a process exits or is killed and is started again with its initial environment |
| `Reboot` | the volatile namespace is lost and every process restarts |

`ProcessStep(p)` is any call of process p, or its restart; `Next` is a step of
any process, or a reboot.

**`QemuProperties`** (it EXTENDS `KvdbDirect`) composes the boot tool with
direct mode. The tool is the process `Qemu`, and its `property_set` is
`KvdbDirect`'s `PropertySet`. `BootNext` interleaves the other processes'
`ProcessStep`s, the tool's own steps, and `Reboot`, which also starts the tool
again on a new connection.

Bytes are symbols: the strings `"0"`..`"f"`, `"="` and `NUL`, and a model
value of `Keys` or `Vals` for a key or a value. The host side is a constant:
`HostStream` is each payload of `HostFrames` behind its `%04x` header. A read
of n bytes returns what is left of the stream, up to n. It overwrites only
that many bytes of its buffer. `header[]` and `temp[]` are the same stack
slots on every pass, so their other bytes are what the last pass left there.
errno is reduced to zero or not zero, which is all the sign of `-errno`
depends on.

| Action | Code |
|---|---|
| `QemuConnect` | one pass of the connect loop: `qemu_pipe_open_ns` returns an fd, or fails and `--tries` may end `main` with `EXIT_FAILURE` |
| `QemuList` | `qemud_channel_send(fd, "list", -1)`; a failed write ends `main` with `EXIT_FAILURE` |
| `QemuRecv` | one pass of the receive loop up to `property_set`: `ChannelRecv` (`qemud_channel_recv`: header read, `sscanf` as `HexPrefix`/`HexScan`, the size test, the payload read), then break, continue, or split at the first `=` |
| `QemuSet` | `property_set` as a direct-mode call; errno may be left set |

`Terminate` is `temp[len] = '\0'`. `CString` is what `strchr` and the key and
value strings see. Two history variables record the tool: `qsets`, the pairs
it has handed to `property_set`, and `readfail`, whether a read failed.

`written` and `known` are history: the last value a successful set or delete
of a key wrote to the backend.

**`KvdbTyped`** models the buffer and bool wrappers of `common.c` on ASCII
codes. A text is a sequence of codes, so `nibble2ascii`, `ascii2nibble`,
`tolower` and `isxdigit` are the code's own arithmetic. `Encode` and `Decode`
are the loops of `property_set_buffer_` and `property_get_buffer`, written as
RECURSIVE operators. `PropertyGetBoolResult` is `property_get_bool`.

`PropertySetInt`, `PropertyGetInt32` and `PropertyGetInt64` are the int
wrappers. `DecimalText` is `snprintf("%" PRId32)` (and PRId64). `Strtol` is
`strtol`/`strtoll` with base 0: leading white space, a sign, `0x` for hex, a
leading 0 for octal, `ERANGE` and the nearest bound out of range, and `end`
where the digits stop. `Wrap` is C's conversion of a `long` to `int32_t`,
which keeps the low bits. `PropertyGetIntResult` returns the default when
`errno` is set, characters follow the number, or there is none.

The state is one key: `stored`, written by the typed setters or by any other
writer (`PropertySet`). Reads record their argument and result in `last`.
`RefHex`, `RefGetBuffer` and `RefBool` are reference definitions written
independently of the loops: hex as an alphabet indexed by nibble, and
Android's table of boolean words.

**`KvdbAbstract`** is what the store promises its clients, with no daemon,
backend or socket: a map `kv` from keys to values and `saved`, the part a
restart finds again. Its actions are a set and a delete under the `ro.` rule,
a commit, a restart (saved `persist.` keys, then the loader fills in absent
keys and commits) and a reload (every source key stored, then a commit). The
constant `Synchronous` says whether every set and delete is durable at once.
It maps no code; the two refinement properties below instantiate it:
- `KvdbServer` maps `kv` to `bk.live` and `saved` to `bk.disk`, with
  `Synchronous` FALSE (the daemon's commits are deferred);
- `KvdbDirect` maps `kv` to the value each key's store holds and `saved` to
  the disk, with `Synchronous` TRUE (nvs writes reach the device at once).

**`AndroidLog`** models the threads of one process calling the log facade.
`envMin` and `envTag` are the two environment variables; `logger` and
`aborter` are the globals; `out` is what reached syslog, stderr or a user
logger. `getenv` returns a pointer into the environment, and NuttX's `setenv`
frees the string it replaces. So the default tag is a record `[gen, val]`,
and `tagGen` counts the `setenv`s of `ANDROID_LOG_DEFAULT_TAG`: a tag is
dangling once `tagGen` has moved past its `gen`.

| Action | Code |
|---|---|
| `LogPrint`, `LogAssert` then `LogVprintEmit` | `__android_log_buf_vprint`: the default tag and the priority test, then `syslog` (logd) or `__android_log_write_log_message_buf` |
| `LogWrite` then `LogWriteEmit` | `__android_log_buf_write`: the priority test, then `__android_log_write_log_message`, which takes the default tag itself |
| `CallAborter` (with `DefaultAborter`) | `__android_log_call_aborter(tag)` in `__android_log_assert`; a user aborter that returns leaves the thread in `while (1)` |
| `SetMinimumPriority`, `SetDefaultTag`, `SetLogger`, `SetAborter` | the four setters |

The formatted text, the file and line fields and buffer IDs are abstracted
away; a user logger or aborter is an opaque choice.

Two behaviours of `__android_log_assert` are kept as the code has them and
listed as hazards, not checked: the aborter receives the tag, not the message
(log_write.c:204), so the recorded abort message is the tag or `(null)`; and
a user aborter that returns leaves the thread spinning forever (line 207).

**`AndroidTrace`** models threads calling the `ATRACE_*` helpers while the
`atrace` command changes the mask. A tag is a set of bits: `Categories` plus
`ATRACE_TAG_ALWAYS`.

The state:
- `tags`: `atrace_enabled_tags`, which starts with every bit set (`~0ull`,
  trace.c:25);
- `stack[t]`: thread t's open sections, each with whether its B note was
  written;
- `async`: the open async events, each with whether its S note was written;
- `notes`: the scheduler's note stream.

| Action | Code |
|---|---|
| `AtraceBegin(t)`, `AtraceEnd(t)` | `ATRACE_BEGIN`, `ATRACE_END`: each tests the tag, then writes B or E |
| `AtraceAsyncBegin(t)`, `AtraceAsyncEnd(t)` | `ATRACE_ASYNC_BEGIN`/`END`: S and F notes with name and cookie |
| `AtraceMark(t)` | `ATRACE_INSTANT`, `ATRACE_INSTANT_FOR_TRACK`, `ATRACE_INT`, `ATRACE_INT64`: one standalone note |
| `AtraceCommand` | `atrace`'s `main`: the usage, `--list_categories`, or `atrace_category` and the store of the new mask |

`ParseCategories` is `atrace_category`'s loop, written as a RECURSIVE
operator. After `always` or `never` the loop tests `j == size` with `j` never
assigned. `CategoryOutcomes` therefore takes both values the stack can hold:
equal to the size, or not.

`ReadSlices` and `ReadAsync` are what a reader of the stream reconstructs:
per thread, the B slices not closed by an E, and the async events with an S
and no F. They fold over `notes`.

**`MC_KvdbServer`, `MC_KvdbDirect`, `MC_QemuProperties`, `MC_KvdbTyped`,
`MC_AndroidLog`, `MC_AndroidTrace`** hold the model values and the definitions the `.cfg` files
use.

## Runs

| Run | cfg | Expect | What it shows |
|---|---|---|---|
| safety | `MC_KvdbServer_safety.cfg` | pass | See the list after this table. 3,250,969 distinct states. |
| liveness | `MC_KvdbServer_live.cfg` | pass | `RequestsAnswered`: every client waiting for a reply gets one. This holds even when a watcher never reads, provided the send timeout is configured, and also for a call made while the daemon is down, whose `property_connect` spins until the daemon is back. `DirtyEventuallyCommitted`: every change of a `persist.` key reaches disk unless a restart loses it first. All seven operations are enabled, `kvdb_monitor_open` may fail, and client c1 is setprop. 203,547 distinct states. |
| notify_before_reply | `..._notify_order.cfg` | violation | A watcher holds the change before its author has the reply. The reply is sent after `kvdb_monitor_notify` (server.c:414-416). spec.md says the reverse. |
| monitor_uaf | `..._uaf.cfg` | violation | A client closes its monitor, then another client sets a key. One `epoll_wait` returns both the listening socket and the monitor's `EPOLLHUP`. The failed notify frees the monitor, then the `EPOLLHUP` entry is used: use after free. |
| monitor_fd_leak | `..._fdleak.cfg` | violation | When `kvdb_monitor_open` fails, the `M` branch returns without closing the fd. |
| commit_result | `..._commit_result.cfg` | violation | `property_commit` returns 0 when the daemon restarted before answering (client.c:747). |
| file_reboot | `..._file_reboot.cfg` | violation | With `file.c`, the startup load replaces persisted values with the source file's defaults, because the existence probe always fails. |
| direct_boot | `MC_QemuProperties.cfg` | pass | Direct mode over `nvs.c`. Client c1 has `p1` in its environment. The boot tool is a second process, pipe reads and writes may fail, and there is one reboot. `DirectReadsLastWrite`: after a set or delete returns 0, every later call of any process reads what was written, until a reboot clears the volatile namespace. `DirectRefinement`: direct mode implements `KvdbAbstract` with every mutation durable at once. `DirectListIsExact`: `property_list` hands every stored key to the callback exactly once, with its value. `QemuSetsHostPairs`: the pairs the tool hands to `property_set` are the host's `key=value` frames, in order, each once. If it returns `EXIT_SUCCESS` and no read failed, it has set all of them. The host's line without `=` is longer than the pair that follows it, so stale bytes sit in `temp[]`. There are no `ro.` keys here, because `nvs.c` has no `ro.` check (see below). 362,720 distinct states. |
| get_null | `MC_KvdbDirect_get_null.cfg` | violation | `property_get(key, NULL, NULL)` writes the NUL through the NULL buffer when the key exists in the store (common.c:186). |
| typed_codec | `MC_KvdbTyped.cfg` | pass | `TypedRoundTrip`: a buffer, bool or integer written by the typed setters reads back unchanged, and a too-small buffer gives `-E2BIG`. `CodecMatchesReference`: the stored text is the lowercase hex of the buffer, and the getters agree with the reference definitions on every text any writer can store. `IntReadIsExact`: an int getter that does not return its default returns exactly the number its text denotes, whatever another writer stored. 35,796 distinct states. |
| log_tag_uaf | `MC_AndroidLog_tag_uaf.cfg` | violation | `NoStaleTag`: thread 1 calls `__android_log_print` with a NULL tag and gets `getenv`'s pointer; thread 2 calls `__android_log_set_default_tag`, whose `setenv` frees that string; thread 1 then passes it to `syslog` (log_write.c:101-121): a use after free, in three steps. |
| trace_unbalanced | `MC_AndroidTrace_unbalanced.cfg` | violation | `TraceMatchesCode`: a thread's `ATRACE_BEGIN` writes B while its tag is on; the `atrace` command turns the tag off; `ATRACE_END` tests the tag again and writes no E (trace.h:136-153). The reader of the trace keeps a slice open that the code has closed, and the next section of that thread nests inside it. The header documents `ATRACE_END` as ending the context `ATRACE_BEGIN` started. |

The safety run checks four properties:
- `CommitArmedWhileDirty`: while the daemon runs and no request is between
  its change and its reply, a `persist.` change that is not on disk always
  has a commit deadline armed or due. `kvdb_loop` keeps a single deadline for
  many changes, arms it only when `next == 0`, and clears it only after the
  commit, so no change waits on a deadline nobody set;
- `MonitorSeesAllChanges`: a watcher replaying its notifications onto the store
  as it was at registration gets the current value of every key it matches;
- `PersistSurvivesRestart`: the startup load keeps every persisted key;
- `StoreRefinement`: the daemon's backend implements `KvdbAbstract`. Every
  change of `bk.live` and `bk.disk` is a step of the abstract store, or no
  change at all.

The safety run leaves out `R`, because `kvdb_load` calls `kvdb_set` directly
and never notifies. A reload changes keys behind the watchers' backs by
design; PROJECT.json lists this as a hazard.

Each property of the passing runs has a mutant in PROJECT.json. The mutant is
a plausible bug in the mapped code, and TLC finds it:

| Mutant | Bug | Breaks |
|---|---|---|
| `ArmCommitInverted` | the `next == 0` test inverted | `CommitArmedWhileDirty` |
| `HandleDeleteSilent` | D without notify | `MonitorSeesAllChanges` |
| `LoadEntryAlways` | the loader ignores existing keys | `PersistSurvivesRestart` |
| `NotifyTimeoutLate` | an off-by-one in the full-buffer test | `RequestsAnswered` |
| `ArmCommitNever` | the deadline is never armed | `DirtyEventuallyCommitted` |
| `NvsWriteWrongDevice` | every key goes to the persistent device | `QemuTypeOK` (direct) |
| `NvsSetNoSkipPrefix` | the `persist.` prefix is not stripped | `DirectReadsLastWrite` |
| `Nibble2AsciiOffByOne` | `nibble <= 10` | `TypedRoundTrip` |
| `DecodeNoLimit` | no `i >= buf_size` test | `CodecMatchesReference` |
| `UnqliteDeleteNoRo` | unqlite's delete has no `ro.` check | `StoreRefinement` |
| `NvsWriteTemporaryDevice` | an nvs write changes only the live view, not the device | `DirectRefinement` |
| `NvsListStopAtEmpty` | an empty device ends the listing (`break` for `continue`) | `DirectListIsExact` |
| `PropertyGetIntNoErrno` | no `errno` test after `strtol` | `IntReadIsExact` |
| `TerminateMissing` | the boot tool leaves out `temp[len] = '\0'` | `QemuSetsHostPairs` |

## Bounds

Server runs:
- Two clients, so two writers race and one can watch while the other writes.
  The clients are symmetric (`SYMMETRY` in the safety run; no property names a
  client).
- One `persist.` key `p1` and one volatile `ro.` key `r1`, so both namespaces
  and the read-only rule are exercised.
- Two values (one in the liveness run), so a change is visible.
- One pattern matching every key.
- A socket buffer of one notification, so a full monitor socket is reached in
  two changes.
- At most 4 requests (3 in the liveness run, plus the commit of each
  setprop) and one restart. In the liveness run client c1 is setprop, and
  `property_wait` has a finite timeout.

The source file sets both keys to `a`. The initial disk holds any value for
`p1`, or none.

These bounds reach every case the properties distinguish:
- a full socket;
- a monitor closed with notes unread;
- a hang-up in the same batch as a request;
- a restart with uncommitted changes;
- a `ro.` key set once and then refused.

The direct run uses client c1 and the boot tool, at most 5 library calls
between them, and one reboot. c1's environment holds `p1` and not `r1`, so
both of the overlay's branches occur. `MAX_TRIES` is the code's 5. The host
sends a 4-byte line without `=`, the pairs `p1=b` and `r1=a`, and the end
marker. `BUFF_SIZE` is scaled to 6 so that every frame fits, as the
emulator's frames fit the real buffer. The header and temp slots start
zeroed. Adding a second client takes the run past 13 minutes.
`MC_KvdbDirect_nvs.cfg` (two clients, no boot tool) is kept as a
supplementary configuration of `KvdbDirect` alone.

The log run uses two threads, two tags and the program name, priorities
DEBUG and FATAL, a settable minimum of WARN, an initial environment with or
without a default tag, and at most 3 calls. The use after free needs only one
call on each thread.

The typed run scales `PROP_VALUE_MAX` from 255 to 9. Every limit in the code is
a comparison with `PROP_VALUE_MAX` or with `2*size`, so 9 keeps each boundary:
- 4-byte buffers are refused;
- a 3-byte buffer passes the wrapper's test and its 6-digit text is stored;
- 7- and 8-character texts sit on either side of `property_set_binary`'s
  limit.

Buffers have 0 to 4 bytes over {0, 10, 159, 255}: each nibble class and both
edges. The texts cover:
- every boolean word, plus near misses;
- upper-case hex and odd lengths;
- non-hex characters.

Sizes are 0 to 3. At 255 the recursion would need stack depth TLC's workers do
not have.

TLC's integers are 32 bits, so the integer widths are scaled too: `int32_t`
and `long` to 8 bits, `int64_t` to 16. This is an ILP32 target, where `long`
is as wide as `int32_t`, which is NuttX's usual case. The integer values are
-128, -1, 0, 127, -32768, 300 and 32767, and their texts sit on the bounds.
Other writers' texts cover:
- values past a bound (`300` and `-129` for 8 bits, `70000` for 16);
- hex `0x1f`, a bare `0x`, octal `010`;
- a lone `-`, a leading blank with `+`, and trailing junk (`12a`).

With `LongBits = Int64Bits` (an LP64 simulator build) `IntReadIsExact`
fails: `strtol` of `300` sets no `ERANGE`, and the assignment to `int32_t`
keeps the low bits, giving 44. PROJECT.json lists this as a hazard at
common.c:348.

The trace run has two threads, one category, two names, one cookie, nesting
depth 2 and three notes. The mask change needs only one B, one command and
one E. The command's arguments include the usage, `--list_categories`,
`always`, `never`, the category, an unknown name and a list of two.

## Fairness

The daemon's thread always runs when it can, so the liveness run assumes weak
fairness of the whole `Server` disjunction. This does not make a blocked
`sendmsg` progress: on a full socket no step is enabled, except the timeout
when one is configured. The clock advances (`WF Expire`). A client blocked in
`recv` takes the reply it is sent (`WF ClientReceive`). A client spinning in
`property_connect` retries every millisecond (`WF ClientConnect`). The `poll`
of `property_wait` returns when its fd is readable or its timer fires
(`WF WaitPoll`). A setprop process whose change was answered runs on to its
commit or its exit: weak fairness of `SetpropCommit \/ SetpropFail` in the
"set" stage only, so fairness never makes a client start a program.

Clients need not send, read their monitors or close them. A watcher that never
reads is exactly the case the send timeout must cope with. Restarts are not
fair.

`CHECK_DEADLOCK` is off in the server runs, because the daemon legitimately
waits in `epoll_wait` forever once the clients stop. It is also off in the
direct runs, where processes stop calling once the call bound is used up and
the boot tool stops at its exit. The
typed run checks deadlock: a read is always enabled.

## What is not modelled

| Left out | Why |
|---|---|
| The second (rpmsg) listening socket | It behaves like the local one; planned. |
| Malformed frames | Abstracted (see the `key_len` 0 hazard in PROJECT.json). |
| Writes by a client into a monitor socket | Not modelled. |
| Backend I/O failures, including a failing commit | Not modelled. |
| Order of notify sends | The monitor list is walked in insertion order. Here sends go to the targets in any order, which includes the code's order. |
| The file backend's torn writes | Planned as a crash between truncate and write. |
| The oneway set retry, the client receive timeout | A timeout needs replies matched to connections, so that a late reply is told apart from the next call's. Both are listed as hazards. |
| The entries of `L` | A list is one "end" reply in `KvdbServer`. `property_list_binary`'s skip of an oversize entry without draining it is a hazard. In direct mode the entries are modelled (`DirectListIsExact`). |
| Printing in `getprop` and `setprop` | Output only. (getprop's hex dump prints a byte of 0x80 or more as `ffffff80`, because `temp[i]` is a signed `char`.) |
| `qemu_properties.c`: the host's side, logging, non-representable pairs | The emulator's service is a constant frame stream. The tool's `fprintf`s are output only. `QemuSet` hands on a one-symbol key and value, and stops the tool on any other text, which a conforming host never produces. `main` has no way to report a read error: it breaks and returns `EXIT_SUCCESS` (qemu_properties.c:174). `QemuSetsHostPairs` therefore claims completeness only when no read failed, and the hazard is listed. |
| `system_properties.c` apart from `__system_property_find` | Forwarding wrappers. `__system_property_wait` ignores `old_serial`, and its serial counts only the calling process's own sets; PROJECT.json lists this as a hazard. It also dereferences `__relative_timeout`, which its doc calls optional, and that is one call's argument handling. |
| Trace hooks `atrace_init`, `atrace_setup`, `atrace_update_tags` and the other no-ops of trace.c | They change no state. The note text and timestamps are abstracted to `[kind, tid, name, cookie]`. |
| `log_write.c` message formatting, `g_logprimap` out of range | Formatting is left out. `__android_log_buf_vprint` indexes `g_logprimap[prio]` with no clamp (log_write.c:121), so a priority outside 0..8 reads past the table. Callers pass `android_LogPriority` values, as the API asks. |
| `ro.` keys with the file and nvs backends | Neither backend checks `ro.`, matching the code. With unqlite, `StoreRefinement` covers the `ro.` rule (the abstract store refuses a second write). With `file.c` a `ro.` key can be set twice, and that divergence from spec.md is recorded as a hazard at file.c:226. |

A volatile path configured for unqlite (a file instead of memory) is assumed
empty.

`MC_KvdbDirect_volatile.cfg` is kept, but it is not a run. It reproduces the
direct-mode loss of volatile keys with unqlite's in-memory database: a
volatile key is gone when the call that set it returns (direct.c:69). That is
listed as a hazard.

`MC_QemuProperties_oversize.cfg` is also kept, and it is not a run either. Its
host sends a first frame longer than `BUFF_SIZE - 1`. `QemuSetsHostPairs`
fails in four steps: `qemud_channel_recv` returns `-errno`, which is 0 while
no call has failed, without reading the payload. `temp[0]` is NUL, so `main`
breaks and returns `EXIT_SUCCESS` with nothing set (qemu_properties.c:113).

## Plan for further work

1. Done: `KvdbAbstract`, refined by the daemon and by direct mode. Still
   open: a stream of change events per watcher in the abstract module.
2. Model the file backend's torn writes, client timeouts with replies matched
   to connections, and the oneway retry.
3. Add a `Glob` module: fnmatch as a recursive operator, checked against a
   reference over short strings, to replace the `MatchSet` constant.
4. Compose `KvdbTyped` with `KvdbDirect`, so that the typed getters read
   through the environment overlay.
5. Done: `AndroidTrace`. Still open: a property on the mask the `atrace`
   command leaves after `always`/`never`, once the intended behaviour is
   settled.
6. Done: `QemuProperties`, the boot tool over a byte-level pipe, composed
   with direct mode.
