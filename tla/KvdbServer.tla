----------------------------- MODULE KvdbServer ----------------------------
(***************************************************************************)
(* The kvdb property daemon (src/kvdb/server.c) and the client processes   *)
(* that talk to it through src/kvdb/client.c.                              *)
(*                                                                         *)
(* The daemon is one thread.  At the top of its loop it commits if the     *)
(* commit deadline has passed, then epoll_wait()s; the events of one wait  *)
(* (a batch) are handled in turn.  A readable listening socket accepts ONE *)
(* connection and runs kvdb_client() on it to completion; a hung-up        *)
(* monitor socket is closed.  kvdb_client() is split where other processes *)
(* can observe the daemon: after kvdb_set/kvdb_delete, each sendmsg() to a *)
(* matching monitor is a step (it can block on a full socket buffer, fail  *)
(* on a closed peer, or time out), and the reply is a last step.           *)
(*                                                                         *)
(* A client has at most one request connection and one monitor connection *)
(* at a time, so connections are named by their client.  A device reboot   *)
(* (Crash, then Start = main()) loses everything but the backend's disk.   *)
(***************************************************************************)
EXTENDS KvdbStore, Sequences, SequencesExt

CONSTANTS
  Clients,             \* client processes
  Patterns,            \* fnmatch() patterns clients monitor
  MatchSet,            \* MatchSet[p]: the keys fnmatch(p, key, FNM_NOESCAPE) accepts
  Source,              \* CONFIG_KVDB_SOURCE_PATH: a function from some keys to values
  Ops,                 \* the requests clients send, a subset of {"S","G","D","L","C","R","M"}
  SockBuf,             \* notifications a monitor socket holds before sendmsg() blocks
  SendTimeout,         \* CONFIG_KVDB_TIMEOUT_INTERVAL > 0: a blocked send fails (SO_SNDTIMEO)
  MonitorOpenMayFail,  \* zalloc() or epoll_ctl() in kvdb_monitor_open() may fail
  WaitTimeout,         \* property_wait's timeout is finite (>= 0), not -1
  SetpropClients,      \* clients that are the setprop tool, run again and again
  MaxRequests,         \* bound: requests sent in one behaviour
  MaxCrashes           \* bound: reboots in one behaviour

ASSUME MatchSet \in [Patterns -> SUBSET Keys] /\ SetpropClients \subseteq Clients
ASSUME DOMAIN Source \subseteq Keys /\ \A k \in DOMAIN Source : Source[k] \in Vals
ASSUME Ops \subseteq {"S", "G", "D", "L", "C", "R", "M"}
ASSUME SockBuf \in Nat \ {0}
ASSUME SendTimeout \in BOOLEAN /\ MonitorOpenMayFail \in BOOLEAN /\ WaitTimeout \in BOOLEAN
ASSUME MaxRequests \in Nat /\ MaxCrashes \in Nat

VARIABLES
  bk,         \* the backend: [live, disk] (KvdbStore)
  next,       \* kvdb_loop's commit deadline: "off" (next == 0), "armed", "due"
  sphase,     \* daemon: "down", "top" (loop top / epoll_wait), "batch", "notify"
  batch,      \* events of the last epoll_wait not handled yet
  backlog,    \* connections queued on the listening socket, with their request
  cur,        \* the S or D being notified: [req, note]
  toNotify,   \* monitors kvdb_monitor_notify() has still to send cur's note to
  mon,        \* the monitor list: mon[c] = pattern of c's monitor, or NoValue
  mq,         \* mq[c]: notifications in c's monitor socket, not read yet
  mpeer,      \* client side of c's monitor: "none", "open", "closed"
  pending,    \* pending[c]: the request c waits on, or NoValue
  connecting, \* clients looping in property_connect: no socket to connect to
  waiting,    \* clients inside property_wait (its monitor is c's monitor)
  setprop,    \* setprop[c]: "set" while c is setprop between its change and its commit
  reply,      \* reply[c]: what the daemon answered c (or "eof", "reset"), or NoValue
  result,     \* result[c]: what c's last property_* call returned, or NoValue
  mview,      \* history: c's store at registration with every note c read applied
  delivered,  \* history: a note of cur is already in some monitor socket
  leaked,     \* history: clients whose monitor connection fd the daemon lost
  nreq,       \* requests sent
  crashes     \* daemon restarts

loopVars == <<sphase, batch, backlog, cur, toNotify, delivered>>
monVars  == <<mon, mq, mpeer, mview>>
cliVars  == <<pending, connecting, waiting, setprop, reply, result>>
vars == <<bk, next, loopVars, monVars, cliVars, leaked, nreq, crashes>>

-----------------------------------------------------------------------------
(* Requests, notifications, replies and epoll events. *)

Req(c, op, k, v, p) == [client |-> c, op |-> op, key |-> k, val |-> v, pat |-> p]

Requests ==
  {Req(c, "S", k, v, NoValue) : c \in Clients, k \in Keys, v \in Vals}
  \cup {Req(c, o, k, NoValue, NoValue) : c \in Clients, o \in {"G", "D"}, k \in Keys}
  \cup {Req(c, o, NoValue, NoValue, NoValue) : c \in Clients, o \in {"L", "C", "R"}}
  \cup {Req(c, "M", NoValue, NoValue, p) : c \in Clients, p \in Patterns}

Notes == [key : Keys, val : Vals \cup {NoValue}]

(* A reply: a status, a value (G), the list terminator (L), or what recv *)
(* sees without one: EOF, or a reset when the daemon died.                 *)
Replies == Errors \cup Vals \cup {"ENOMEM", "end", "eof", "reset"}

Results == Errors \cup Vals \cup {"EOF", "ERR", "ETIMEDOUT", "ENODATA"}

ListenEv == [kind |-> "listen", mon |-> NoValue]
HupEv(m) == [kind |-> "hup", mon |-> m]
Events == {ListenEv} \cup {HupEv(m) : m \in Clients}

Registered == {c \in Clients : mon[c] # NoValue}

(* What the next epoll_wait reports: the listening socket while a         *)
(* connection is queued, and every monitor whose peer hung up.            *)
Ready ==
  (IF backlog # <<>> THEN {ListenEv} ELSE {})
  \cup {HupEv(m) : m \in {c \in Registered : mpeer[c] = "closed"}}

(* A client's replay of the notifications it reads. *)
ApplyNote(view, n) == [view EXCEPT ![n.key] = n.val]

-----------------------------------------------------------------------------
(* Variant of LoadEntry that ignores existing keys. *)
LoadEntryAlways(b, k, force) == KvdbSet(b, k, Source[k], TRUE).bk

(* kvdb_load: each key=value line of the source file is stored with force, *)
(* unless force is off and kvdb_get finds the key; then one commit.        *)
LoadEntry(b, k, force) ==
  IF ~force /\ KvdbProbe(b, k) THEN b ELSE KvdbSet(b, k, Source[k], TRUE).bk

RECURSIVE LoadKeys(_, _, _)
LoadKeys(b, ks, force) ==
  IF ks = {} THEN b
  ELSE LET k == CHOOSE x \in ks : TRUE
       IN LoadKeys(LoadEntry(b, k, force), ks \ {k}, force)

KvdbLoad(b, force) == KvdbCommit(LoadKeys(b, DOMAIN Source, force))

(* Variant of ArmCommit that never arms the deadline. *)
ArmCommitNever(n) == n

(* Variant of ArmCommit with the test of next inverted. *)
ArmCommitInverted(n) == IF n # "off" THEN "armed" ELSE n

(* kvdb_loop arms the deadline after a request that changed the database, *)
(* unless one is armed already.                                           *)
ArmCommit(n) == IF n = "off" THEN "armed" ELSE n

(* The monitors a change of key k is sent to (the fnmatch filter). *)
NotifyTargets(k) == {m \in Registered : k \in MatchSet[mon[m]]}

(* kvdb_monitor_close, and the failure branch of kvdb_monitor_notify:     *)
(* unlink m and close the daemon's end of its socket.  Notes already in   *)
(* the socket stay readable by a client that still has it open.           *)
DropMonitor(m) ==
  /\ mon' = [mon EXCEPT ![m] = NoValue]
  /\ mpeer' = [mpeer EXCEPT ![m] = IF @ = "closed" THEN "none" ELSE @]
  /\ mview' = [mview EXCEPT ![m] = IF mpeer[m] = "closed" THEN EmptyStore ELSE @]

-----------------------------------------------------------------------------
(* The daemon. *)

(* main(): kvdb_bind, kvdb_init, kvdb_load(force = false), kvdb_loop. *)
Start ==
  /\ sphase = "down"
  /\ bk' = KvdbLoad(KvdbInit(bk), FALSE)
  /\ sphase' = "top"
  /\ UNCHANGED <<next, batch, backlog, cur, toNotify, delivered, monVars, cliVars,
                 leaked, nreq, crashes>>

(* Loop top with the deadline passed: commit and disarm. *)
TimerCommit ==
  /\ sphase = "top"
  /\ next = "due"
  /\ bk' = KvdbCommit(bk)
  /\ next' = "off"
  /\ UNCHANGED <<loopVars, monVars, cliVars, leaked, nreq, crashes>>

(* epoll_wait returns the ready events in an order of its choosing. *)
EpollWait ==
  /\ sphase = "top"
  /\ next # "due"
  /\ Ready # {}
  /\ \E s \in SetToSeqs(Ready) : batch' = s
  /\ sphase' = "batch"
  /\ UNCHANGED <<bk, next, backlog, cur, toNotify, delivered, monVars, cliVars,
                 leaked, nreq, crashes>>

EndBatch ==
  /\ sphase = "batch"
  /\ batch = <<>>
  /\ sphase' = "top"
  /\ UNCHANGED <<bk, next, batch, backlog, cur, toNotify, delivered, monVars, cliVars,
                 leaked, nreq, crashes>>

(* EPOLLHUP on a monitor: close it.  The event carries a pointer to the   *)
(* monitor; if the monitor was freed since the wait, nothing is left to   *)
(* close (the code dereferences freed memory, see BatchRefsLive).         *)
HandleHup ==
  /\ sphase = "batch"
  /\ batch # <<>>
  /\ Head(batch).kind = "hup"
  /\ batch' = Tail(batch)
  /\ LET m == Head(batch).mon
     IN \/ m \in Registered /\ DropMonitor(m)
        \/ m \notin Registered /\ UNCHANGED <<mon, mpeer, mview>>
  /\ UNCHANGED <<bk, next, sphase, backlog, cur, toNotify, delivered, mq, cliVars,
                 leaked, nreq, crashes>>

(* The listening socket is next in the batch: accept() the oldest          *)
(* connection and read its request.                                        *)
Accepting == sphase = "batch" /\ batch # <<>> /\ Head(batch).kind = "listen"

(* kvdb_client() ends: reply (or not), close the socket, next event. *)
Answer(c, rep) ==
  /\ reply' = [reply EXCEPT ![c] = rep]
  /\ batch' = Tail(batch)

(* A successful set or delete: notify every matching monitor, then reply. *)
StartNotify(r, note) ==
  /\ cur' = [req |-> r, note |-> note]
  /\ toNotify' = NotifyTargets(note.key)
  /\ sphase' = "notify"

HandleSet ==
  /\ Accepting
  /\ LET r == Head(backlog)
         res == KvdbSet(bk, r.key, r.val, FALSE)
     IN /\ r.op = "S"
        /\ backlog' = Tail(backlog)
        /\ \/ /\ res.err = "OK"
              /\ bk' = res.bk
              /\ StartNotify(r, [key |-> r.key, val |-> r.val])
              /\ UNCHANGED <<batch, reply>>
           \/ /\ res.err # "OK"
              /\ Answer(r.client, res.err)
              /\ UNCHANGED <<bk, cur, toNotify, sphase>>
  /\ UNCHANGED <<next, delivered, monVars, pending, connecting, waiting, setprop, result, leaked, nreq, crashes>>

(* Variant of HandleDelete that replies without notifying. *)
HandleDeleteSilent ==
  /\ Accepting
  /\ LET r == Head(backlog)
         res == KvdbDelete(bk, r.key)
     IN /\ r.op = "D"
        /\ backlog' = Tail(backlog)
        /\ \/ /\ res.err = "OK"
              /\ bk' = res.bk
              /\ Answer(r.client, "OK")
              /\ UNCHANGED <<cur, toNotify, sphase>>
           \/ /\ res.err # "OK"
              /\ Answer(r.client, res.err)
              /\ UNCHANGED <<bk, cur, toNotify, sphase>>
  /\ UNCHANGED <<next, delivered, monVars, pending, connecting, waiting, setprop, result, leaked, nreq, crashes>>

HandleDelete ==
  /\ Accepting
  /\ LET r == Head(backlog)
         res == KvdbDelete(bk, r.key)
     IN /\ r.op = "D"
        /\ backlog' = Tail(backlog)
        /\ \/ /\ res.err = "OK"
              /\ bk' = res.bk
              /\ StartNotify(r, [key |-> r.key, val |-> NoValue])
              /\ UNCHANGED <<batch, reply>>
           \/ /\ res.err # "OK"
              /\ Answer(r.client, res.err)
              /\ UNCHANGED <<bk, cur, toNotify, sphase>>
  /\ UNCHANGED <<next, delivered, monVars, pending, connecting, waiting, setprop, result, leaked, nreq, crashes>>

(* Get: the value, or no reply at all when kvdb_get fails. *)
HandleGet ==
  /\ Accepting
  /\ LET r == Head(backlog)
         res == KvdbGet(bk, r.key)
     IN /\ r.op = "G"
        /\ backlog' = Tail(backlog)
        /\ Answer(r.client, IF res.err \in Vals THEN res.err ELSE "eof")
  /\ UNCHANGED <<bk, next, sphase, cur, toNotify, delivered, monVars, pending, connecting, waiting, setprop, result,
                 leaked, nreq, crashes>>

(* List (CONFIG_KVDB_DUMPLIST): kvdb_list sends one frame per entry       *)
(* (kvdb_list_consume), then the terminator.  The client reads as it goes, *)
(* so the sends complete; the entries it hands to its callback are not    *)
(* modelled.                                                               *)
HandleList ==
  /\ Accepting
  /\ Head(backlog).op = "L"
  /\ backlog' = Tail(backlog)
  /\ Answer(Head(backlog).client, "end")
  /\ UNCHANGED <<bk, next, sphase, cur, toNotify, delivered, monVars, pending, connecting, waiting, setprop, result,
                 leaked, nreq, crashes>>

HandleCommit ==
  /\ Accepting
  /\ Head(backlog).op = "C"
  /\ backlog' = Tail(backlog)
  /\ bk' = KvdbCommit(bk)
  /\ Answer(Head(backlog).client, "OK")
  /\ UNCHANGED <<next, sphase, cur, toNotify, delivered, monVars, pending, connecting, waiting, setprop, result,
                 leaked, nreq, crashes>>

(* Reload: kvdb_load(force = true); no reply, no notification, no commit  *)
(* deadline (kvdb_load commits itself).  The client has already closed.   *)
HandleReload ==
  /\ Accepting
  /\ Head(backlog).op = "R"
  /\ backlog' = Tail(backlog)
  /\ bk' = KvdbLoad(bk, TRUE)
  /\ batch' = Tail(batch)
  /\ UNCHANGED <<next, sphase, cur, toNotify, delivered, monVars, cliVars,
                 leaked, nreq, crashes>>

(* Monitor open: register [pattern, fd] and reply; the fd is never closed *)
(* here, also when kvdb_monitor_open fails.                               *)
HandleMonitor ==
  /\ Accepting
  /\ LET r == Head(backlog) IN
     /\ r.op = "M"
     /\ backlog' = Tail(backlog)
     /\ \/ /\ mon' = [mon EXCEPT ![r.client] = r.pat]
           /\ mq' = [mq EXCEPT ![r.client] = <<>>]
           /\ mview' = [mview EXCEPT ![r.client] = bk.live]
           /\ Answer(r.client, "OK")
           /\ UNCHANGED leaked
        \/ /\ MonitorOpenMayFail
           /\ Answer(r.client, "ENOMEM")
           /\ leaked' = leaked \cup {r.client}
           /\ UNCHANGED <<mon, mq, mview>>
  /\ UNCHANGED <<bk, next, sphase, cur, toNotify, delivered, mpeer, pending, connecting, waiting, setprop, result,
                 nreq, crashes>>

(* One sendmsg() of kvdb_monitor_notify: it fails on a closed peer (the   *)
(* monitor is dropped) and otherwise queues the note; on a full socket it *)
(* blocks (no step) unless a send timeout makes it fail.                  *)
NotifySend(m) ==
  /\ sphase = "notify"
  /\ m \in toNotify
  /\ toNotify' = toNotify \ {m}
  /\ \/ /\ mpeer[m] = "closed"
        /\ DropMonitor(m)
        /\ UNCHANGED <<mq, delivered>>
     \/ /\ mpeer[m] # "closed"
        /\ Len(mq[m]) < SockBuf
        /\ mq' = [mq EXCEPT ![m] = Append(@, cur.note)]
        /\ delivered' = TRUE
        /\ UNCHANGED <<mon, mpeer, mview>>
  /\ UNCHANGED <<bk, next, sphase, batch, backlog, cur, cliVars, leaked, nreq, crashes>>

(* Variant of NotifyTimeout whose full-socket test is off by one. *)
NotifyTimeoutLate(m) ==
  /\ SendTimeout
  /\ sphase = "notify"
  /\ m \in toNotify
  /\ mpeer[m] # "closed"
  /\ Len(mq[m]) > SockBuf
  /\ toNotify' = toNotify \ {m}
  /\ DropMonitor(m)
  /\ UNCHANGED <<bk, next, sphase, batch, backlog, cur, mq, delivered, cliVars,
                 leaked, nreq, crashes>>

NotifyTimeout(m) ==
  /\ SendTimeout
  /\ sphase = "notify"
  /\ m \in toNotify
  /\ mpeer[m] # "closed"
  /\ Len(mq[m]) = SockBuf
  /\ toNotify' = toNotify \ {m}
  /\ DropMonitor(m)
  /\ UNCHANGED <<bk, next, sphase, batch, backlog, cur, mq, delivered, cliVars,
                 leaked, nreq, crashes>>

(* After the notifications: reply 0, close, and arm the commit deadline. *)
FinishMutation ==
  /\ sphase = "notify"
  /\ toNotify = {}
  /\ Answer(cur.req.client, "OK")
  /\ next' = ArmCommit(next)
  /\ sphase' = "batch"
  /\ cur' = NoValue
  /\ delivered' = FALSE
  /\ UNCHANGED <<bk, backlog, toNotify, monVars, pending, connecting, waiting, setprop, result, leaked, nreq, crashes>>

-----------------------------------------------------------------------------
(* The environment: time passing and daemon restarts. *)

(* The monotonic clock reaches the commit deadline. *)
Expire ==
  /\ next = "armed"
  /\ next' = "due"
  /\ UNCHANGED <<bk, loopVars, monVars, cliVars, leaked, nreq, crashes>>

(* kvdbd dies and is started again.  Its memory and its end of every     *)
(* connection are gone; the backend keeps what it keeps (see KvdbInit in  *)
(* Start).  A client waiting on a reply sees a reset; notes already in a  *)
(* monitor socket stay readable, then the client reads EOF.               *)
Crash ==
  /\ sphase # "down"
  /\ crashes < MaxCrashes
  /\ crashes' = crashes + 1
  /\ sphase' = "down"
  /\ next' = "off"
  /\ batch' = <<>>
  /\ backlog' = <<>>
  /\ cur' = NoValue
  /\ toNotify' = {}
  /\ delivered' = FALSE
  /\ mon' = [c \in Clients |-> NoValue]
  /\ mpeer' = [c \in Clients |-> IF mpeer[c] = "closed" THEN "none" ELSE mpeer[c]]
  /\ reply' = [c \in Clients |->
                IF pending[c] # NoValue /\ c \notin connecting THEN "reset" ELSE NoValue]
  /\ leaked' = {}
  /\ UNCHANGED <<bk, mq, mview, pending, connecting, waiting, setprop, result, nreq>>

-----------------------------------------------------------------------------
(* The clients (client.c).  Each call connects (property_connect), sends   *)
(* one frame and, except property_reload, blocks in recv() for the reply.  *)

(* connect() succeeded: the request is queued on the listening socket.   *)
(* property_reload then closes and returns 0 without waiting for a reply. *)
Enqueue(c, r) ==
  /\ backlog' = Append(backlog, r)
  /\ pending' = [pending EXCEPT ![c] = IF r.op = "R" THEN NoValue ELSE r]
  /\ result' = IF r.op = "R" THEN [result EXCEPT ![c] = "OK"] ELSE result

(* A call connects; while the daemon is down the socket path does not     *)
(* exist (ENOENT) and property_connect sleeps and retries.  A client is   *)
(* one thread: it makes no call while it is inside property_wait.         *)
SendCall(c, r) ==
  /\ r.op \in Ops
  /\ pending[c] = NoValue
  /\ c \notin connecting \cup waiting
  /\ nreq' = nreq + 1
  /\ \/ /\ sphase # "down"
        /\ Enqueue(c, r)
        /\ UNCHANGED connecting
     \/ /\ sphase = "down"
        /\ pending' = [pending EXCEPT ![c] = r]
        /\ connecting' = connecting \cup {c}
        /\ UNCHANGED <<backlog, result>>
  /\ UNCHANGED <<bk, next, sphase, batch, cur, toNotify, delivered, monVars,
                 reply, leaked, crashes>>

(* A retry of connect() once the daemon has bound its socket. *)
ClientConnect(c) ==
  /\ c \in connecting
  /\ sphase # "down"
  /\ Enqueue(c, pending[c])
  /\ connecting' = connecting \ {c}
  /\ UNCHANGED <<bk, next, sphase, batch, cur, toNotify, delivered, monVars,
                 waiting, setprop, reply, leaked, nreq, crashes>>

(* Bound: a program makes at most MaxRequests calls in all, setprop's     *)
(* commit aside.                                                          *)
Room == nreq < MaxRequests

ClientSend(c, r) ==
  setprop[c] = "none" /\ Room /\ SendCall(c, r) /\ UNCHANGED <<waiting, setprop>>

ClientSet(c) ==
  \E k \in Keys, v \in Vals : ClientSend(c, Req(c, "S", k, v, NoValue))

ClientGet(c) == \E k \in Keys : ClientSend(c, Req(c, "G", k, NoValue, NoValue))

ClientDelete(c) == \E k \in Keys : ClientSend(c, Req(c, "D", k, NoValue, NoValue))

ClientList(c) == ClientSend(c, Req(c, "L", NoValue, NoValue, NoValue))

ClientCommit(c) == ClientSend(c, Req(c, "C", NoValue, NoValue, NoValue))

(* property_monitor_open, by a client that has no monitor. *)
ClientMonitorOpen(c) ==
  /\ mpeer[c] = "none"
  /\ \E p \in Patterns : ClientSend(c, Req(c, "M", NoValue, NoValue, p))

(* property_reload sends "R", closes and returns 0 at once. *)
ClientReload(c) == ClientSend(c, Req(c, "R", NoValue, NoValue, NoValue))

(* property_wait opens a monitor of its own (property_monitor_open). *)
ClientWait(c) ==
  /\ mpeer[c] = "none" /\ setprop[c] = "none" /\ Room
  /\ \E p \in Patterns : SendCall(c, Req(c, "M", NoValue, NoValue, p))
  /\ waiting' = waiting \cup {c}
  /\ UNCHANGED setprop

(* getprop <key>: property_get_binary; getprop alone (with               *)
(* CONFIG_KVDB_DUMPLIST): property_list_binary.  Printing is left out.    *)
Getprop(c) == ClientGet(c) \/ ClientList(c)

(* setprop <key> <value> and setprop <key>: property_set, property_delete. *)
(* setprop is a process of its own: it has no monitor.                    *)
SetpropChange(c) ==
  /\ setprop[c] = "none" /\ mpeer[c] = "none"
  /\ Room
  /\ \/ \E k \in Keys, v \in Vals : SendCall(c, Req(c, "S", k, v, NoValue))
     \/ \E k \in Keys : SendCall(c, Req(c, "D", k, NoValue, NoValue))
  /\ setprop' = [setprop EXCEPT ![c] = "set"]
  /\ UNCHANGED waiting

(* Then property_commit, unless the change failed (ret > 0: the error is  *)
(* printed and setprop exits at once).  setprop -h, or a wrong argument   *)
(* count, prints the usage and commits all the same.  The commit's result *)
(* is the exit status.                                                    *)
SetpropCommit(c) ==
  /\ \/ setprop[c] = "set" /\ pending[c] = NoValue /\ result[c] = "OK"
     \/ setprop[c] = "none" /\ mpeer[c] = "none" /\ Room
  /\ SendCall(c, Req(c, "C", NoValue, NoValue, NoValue))
  /\ setprop' = [setprop EXCEPT ![c] = "none"]
  /\ UNCHANGED waiting

SetpropFail(c) ==
  /\ setprop[c] = "set" /\ pending[c] = NoValue /\ result[c] # "OK"
  /\ setprop' = [setprop EXCEPT ![c] = "none"]
  /\ UNCHANGED <<bk, next, loopVars, monVars, pending, connecting, waiting, reply, result,
                 leaked, nreq, crashes>>

(* What a call returns for what it received.  A short read is an error,   *)
(* except in property_commit: there `ret < sizeof(value)` compares        *)
(* unsigned, so a failed recv() returns the uninitialised value, and EOF  *)
(* returns -errno with errno left from an earlier call, possibly 0; and   *)
(* property_list_binary returns -errno after recv_safe's -ENODATA, which  *)
(* leaves errno alone.                                                    *)
CallResults(op, rep) ==
  CASE rep \in Errors \ {"OK"}         -> {rep}
    [] rep \in {"OK", "end"}           -> {"OK"}
    [] op = "G" /\ rep \in Vals        -> {rep}
    [] op = "G" /\ rep = "eof"         -> {"EOF"}
    [] op \in {"C", "L"}               -> {"OK", "ERR"}
    [] OTHER                           -> {"ERR"}

(* recv() of the reply (or of EOF, or a reset); property_monitor_open     *)
(* keeps the socket when the daemon answered 0.                           *)
ClientReceive(c) ==
  /\ pending[c] # NoValue
  /\ reply[c] # NoValue
  /\ \E res \in CallResults(pending[c].op, reply[c]) :
        /\ result' = [result EXCEPT ![c] = res]
        /\ mpeer' = [mpeer EXCEPT ![c] =
                       IF pending[c].op = "M" /\ res = "OK" THEN "open" ELSE @]
        /\ waiting' = IF res = "OK" THEN waiting ELSE waiting \ {c}
  /\ pending' = [pending EXCEPT ![c] = NoValue]
  /\ reply' = [reply EXCEPT ![c] = NoValue]
  /\ UNCHANGED <<bk, next, loopVars, mon, mq, mview, connecting, setprop, leaked, nreq,
                 crashes>>

(* property_monitor_read of one notification. *)
ClientMonitorRead(c) ==
  /\ mpeer[c] = "open"
  /\ c \notin waiting
  /\ mq[c] # <<>>
  /\ mq' = [mq EXCEPT ![c] = Tail(@)]
  /\ mview' = [mview EXCEPT ![c] = ApplyNote(@, Head(mq[c]))]
  /\ UNCHANGED <<bk, next, loopVars, mon, mpeer, cliVars, leaked, nreq, crashes>>

(* property_monitor_close: unread notes are lost; the daemon sees HUP.    *)
(* A client also closes a monitor whose property_monitor_read returned    *)
(* -ENODATA because the daemon dropped it (EOF).                          *)
CloseMonitorFd(c) ==
  /\ mq' = [mq EXCEPT ![c] = <<>>]
  /\ mpeer' = [mpeer EXCEPT ![c] = IF c \in Registered THEN "closed" ELSE "none"]
  /\ mview' = [mview EXCEPT ![c] = EmptyStore]

ClientMonitorClose(c) ==
  /\ mpeer[c] = "open"
  /\ c \notin waiting
  /\ CloseMonitorFd(c)
  /\ UNCHANGED <<bk, next, loopVars, mon, cliVars, leaked, nreq, crashes>>

(* What property_monitor_read returns for a note: the value's length     *)
(* (here the value), or 0 for a deletion.                                 *)
NoteResult(n) == IF n.val = NoValue THEN "OK" ELSE n.val

(* property_wait after its monitor is open: poll() returns with a note to *)
(* read, with EOF when the daemon dropped the monitor (POLLIN, and the    *)
(* read gets -ENODATA), or after the timeout when nothing came            *)
(* (-ETIMEDOUT); in every case property_monitor_close follows.            *)
WaitPoll(c) ==
  /\ c \in waiting
  /\ mpeer[c] = "open"
  /\ \/ mq[c] # <<>> /\ result' = [result EXCEPT ![c] = NoteResult(Head(mq[c]))]
     \/ /\ mq[c] = <<>> /\ c \notin Registered
        /\ result' = [result EXCEPT ![c] = "ENODATA"]
     \/ /\ mq[c] = <<>> /\ c \in Registered /\ WaitTimeout
        /\ result' = [result EXCEPT ![c] = "ETIMEDOUT"]
  /\ CloseMonitorFd(c)
  /\ waiting' = waiting \ {c}
  /\ UNCHANGED <<bk, next, loopVars, mon, pending, connecting, setprop, reply, leaked, nreq,
                 crashes>>

-----------------------------------------------------------------------------
Init ==
  /\ bk \in {[live |-> [k \in Keys |-> IF k \in PersistKeys THEN d[k] ELSE NoValue],
              disk |-> d] : d \in [PersistKeys -> Vals \cup {NoValue}]}
  /\ next = "off"
  /\ sphase = "down"
  /\ batch = <<>>
  /\ backlog = <<>>
  /\ cur = NoValue
  /\ toNotify = {}
  /\ mon = [c \in Clients |-> NoValue]
  /\ mq = [c \in Clients |-> <<>>]
  /\ mpeer = [c \in Clients |-> "none"]
  /\ pending = [c \in Clients |-> NoValue]
  /\ connecting = {}
  /\ waiting = {}
  /\ setprop = [c \in Clients |-> "none"]
  /\ reply = [c \in Clients |-> NoValue]
  /\ result = [c \in Clients |-> NoValue]
  /\ mview = [c \in Clients |-> EmptyStore]
  /\ delivered = FALSE
  /\ leaked = {}
  /\ nreq = 0
  /\ crashes = 0

Server ==
  \/ Start \/ TimerCommit \/ EpollWait \/ EndBatch \/ HandleHup
  \/ HandleSet \/ HandleDelete \/ HandleGet \/ HandleList \/ HandleCommit \/ HandleReload
  \/ HandleMonitor \/ FinishMutation
  \/ \E m \in Clients : NotifySend(m) \/ NotifyTimeout(m)

(* A client in SetpropClients runs setprop again and again; the others   *)
(* are programs that make any of the calls.                               *)
Client(c) ==
  \/ /\ c \notin SetpropClients
     /\ \/ ClientSet(c) \/ ClientDelete(c) \/ ClientCommit(c) \/ Getprop(c)
        \/ ClientReload(c) \/ ClientMonitorOpen(c) \/ ClientWait(c) \/ WaitPoll(c)
        \/ ClientMonitorRead(c) \/ ClientMonitorClose(c)
  \/ c \in SetpropClients /\ (SetpropChange(c) \/ SetpropCommit(c) \/ SetpropFail(c))
  \/ ClientConnect(c) \/ ClientReceive(c)

Next == Server \/ Expire \/ Crash \/ \E c \in Clients : Client(c)

(* The daemon's single thread runs whenever it is not blocked, the clock  *)
(* advances, a client blocked in recv() takes the reply it is sent, and  *)
(* one looping in property_connect retries every millisecond; the poll() *)
(* of property_wait returns when its fd is readable or its timer fires.  *)
(* setprop, once its change is answered, runs on to its exit.  Clients   *)
(* need not send, read their monitors or close them.                      *)
Fairness ==
  /\ WF_vars(Server)
  /\ WF_vars(Expire)
  /\ \A c \in Clients :
        /\ WF_vars(ClientReceive(c)) /\ WF_vars(ClientConnect(c)) /\ WF_vars(WaitPoll(c))
        /\ WF_vars(setprop[c] = "set" /\ (SetpropCommit(c) \/ SetpropFail(c)))

Spec == Init /\ [][Next]_vars

FairSpec == Spec /\ Fairness

-----------------------------------------------------------------------------
(* Properties. *)

(* A monitor that replays the notifications it was sent onto the store as *)
(* it was when kvdb_monitor_open registered it sees the current value of  *)
(* every key its pattern matches: every change the daemon makes to such a *)
(* key (kvdb_set / kvdb_delete in kvdb_client, kvdb_load) is sent to it,  *)
(* in order.  Excepted: a monitor the daemon is about to send the current *)
(* change to, and one whose client has closed it.                         *)
MonitorSeesAllChanges ==
  \A c \in Registered :
     (mpeer[c] # "closed" /\ ~(sphase = "notify" /\ c \in toNotify)) =>
        LET view == FoldLeft(ApplyNote, mview[c], mq[c])
        IN \A k \in MatchSet[mon[c]] : view[k] = bk.live[k]

(* The startup load (force = false) keeps every persist. key that is on   *)
(* disk: the source file only fills in keys that do not exist.            *)
PersistSurvivesRestart ==
  [][(sphase = "down" /\ sphase' = "top") =>
       \A k \in PersistKeys : bk.disk[k] # NoValue => bk'.live[k] = bk.disk[k]]_vars

(* Every client blocked on a reply gets one (or EOF, or a reset). *)
RequestsAnswered ==
  \A c \in Clients : pending[c] # NoValue ~> pending[c] = NoValue

(* A change of a persist. key that is not on disk yet eventually is (or   *)
(* is lost with a reboot): the deferred commit always runs.               *)
Unsaved == sphase # "down" /\ \E k \in PersistKeys : bk.live[k] # bk.disk[k]

DirtyEventuallyCommitted == Unsaved ~> ~Unsaved

(* While the daemon runs and no request is between its kvdb_set/kvdb_delete *)
(* and its reply, a persist. change not yet on disk always has a commit    *)
(* deadline armed (or due): kvdb_loop keeps one deadline for many changes, *)
(* arms it only when next == 0, and TimerCommit clears it only after the   *)
(* commit, so no change is left waiting on a deadline nobody set.          *)
CommitArmedWhileDirty == (Unsaved /\ cur = NoValue) => next # "off"

(* A watcher never has a change in its socket before the client that made *)
(* the change has its reply (spec: the reply write precedes the notify).  *)
ReplyPrecedesNotify == ~(sphase = "notify" /\ delivered)

(* property_commit returns 0 only if the daemon committed for it and      *)
(* answered 0 (its doc: 0 on success, -errno otherwise).                  *)
CommitReportsTruth ==
  [][\A c \in Clients :
       (pending[c] # NoValue /\ pending[c].op = "C" /\ pending'[c] = NoValue
          /\ result'[c] = "OK") => reply[c] = "OK"]_vars

(* The daemon implements the abstract store: its backend's live contents *)
(* and disk change only by a set, a delete, a commit, the startup load or *)
(* a reload, each with the read-only rule and the loader's skip of        *)
(* existing keys.  Commits are deferred (kvdb_loop's deadline).            *)
Abs == INSTANCE KvdbAbstract WITH kv <- bk.live, saved <- bk.disk, Synchronous <- FALSE

StoreRefinement == Abs!Spec

(* Every event the daemon still holds from epoll_wait refers to a monitor *)
(* that is still allocated.                                               *)
BatchRefsLive ==
  \A i \in 1..Len(batch) : batch[i].kind = "hup" => batch[i].mon \in Registered

(* Every connection the daemon accepted is closed or owned by the monitor *)
(* list.                                                                  *)
NoLeakedFd == leaked = {}
=============================================================================
