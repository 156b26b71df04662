--------------------------- MODULE QemuProperties ---------------------------
(***************************************************************************)
(* qemu_properties.c: the boot tool that copies the emulator's boot        *)
(* properties into kvdb.  It connects to the "boot-properties" qemud      *)
(* service (up to MAX_TRIES opens), sends "list", then reads frames -- a   *)
(* 4-digit hex length and that many bytes -- and calls property_set for    *)
(* every "key=value" frame until a frame whose first byte is NUL.          *)
(*                                                                         *)
(* The tool is the process Qemu of direct mode: its property_set is        *)
(* KvdbDirect's PropertySet, interleaved with the calls of the other       *)
(* processes.                                                              *)
(*                                                                         *)
(* Bytes are symbols: the strings "0".."f" (hex digits), "=" and NUL, and  *)
(* the model values of Keys and Vals standing for a key or a value.  A     *)
(* conforming host sends a single-symbol key and value in a pair frame.   *)
(* The pipe is a byte stream (HostStream); a read of n bytes returns what  *)
(* is left of it, up to n, and overwrites only those bytes of its buffer:  *)
(* the header and temp buffers are the same stack slots on every pass of   *)
(* the loop, so their other bytes are what the previous pass left.         *)
(*                                                                         *)
(* errno is abstracted to whether it is still 0 (no call has failed since  *)
(* exec), which is all -errno's sign depends on.                           *)
(***************************************************************************)
EXTENDS KvdbDirect

CONSTANTS
  Qemu,         \* the boot tool's process
  HostFrames,   \* the payloads the service sends after "list"
  MaxTries,     \* MAX_TRIES
  BuffSize,     \* BUFF_SIZE, PROPERTY_KEY_MAX + PROPERTY_VALUE_MAX + 2
  TempInit,     \* what the uninitialised header and temp slots may hold
  PipeErrors    \* whether a write or read on the pipe may fail

NUL == "NUL"
HexDigits == <<"0", "1", "2", "3", "4", "5", "6", "7",
               "8", "9", "a", "b", "c", "d", "e", "f">>
HexChars == {HexDigits[i] : i \in 1..16}
HexValue(c) == CHOOSE i \in 0..15 : HexDigits[i + 1] = c

ASSUME Qemu \in Procs /\ MaxTries \in Nat \ {0} /\ BuffSize \in 2..16
ASSUME PipeErrors \in BOOLEAN
ASSUME \A t \in TempInit : Len(t[1]) = 4 /\ Len(t[2]) = BuffSize

(* The service's qemud_channel_send of a payload: "%04x" then the bytes. *)
Frame(f) == [i \in 1..4 |-> HexDigits[((Len(f) \div 16^(4 - i)) % 16) + 1]] \o f

HostStream == FlattenSeq([i \in DOMAIN HostFrames |-> Frame(HostFrames[i])])

VARIABLES
  qpc,       \* "connect", "list", "recv", "set" or "exit"
  tries,
  errset,    \* errno # 0
  pos,       \* index in HostStream of the next byte the pipe delivers
  header,    \* header[] of qemud_channel_recv
  temp,      \* temp[] of main's loop
  prop,      \* the key and value text main hands to property_set
  status,    \* main's return value once qpc = "exit"
  qsets,     \* history: every [key, val] main passed to property_set
  readfail   \* history: a read on the pipe failed

qvars == <<qpc, tries, errset, pos, header, temp, prop, status, qsets, readfail>>
allvars == <<vars, qvars>>

Faults == IF PipeErrors THEN BOOLEAN ELSE {FALSE}

(* The bytes a read of n bytes at pos returns. *)
Avail(p, n) == SubSeq(HostStream, p, IF p + n - 1 < Len(HostStream)
                                       THEN p + n - 1 ELSE Len(HostStream))

(* buf after a read put the bytes got at its start. *)
Overwrite(buf, got) ==
  [i \in DOMAIN buf |-> IF i <= Len(got) THEN got[i] ELSE buf[i]]

(* The number of hex digits "%04x" consumes from the NUL-ended header. *)
HexPrefix(h) == CHOOSE n \in 0..4 : /\ \A i \in 1..n : h[i] \in HexChars
                                    /\ n < 4 => h[n + 1] \notin HexChars

(* The unsigned value of a string of hex digits. *)
HexScan(s) == FoldLeft(LAMBDA acc, c : 16 * acc + HexValue(c), 0, s)

(* -errno as its sign: a negative length, or 0 while errno is 0. *)
MinusErrno(e) == IF e THEN -1 ELSE 0

(* qemud_channel_recv(pipe, temp, BUFF_SIZE - 1), the header read         *)
(* failing when hf and the payload read when pf.                          *)
ChannelRecv(hf, pf) ==
  LET got  == Avail(pos, 4)
      h    == Overwrite(header, got)
      at   == pos + Len(got)
      size == HexScan(SubSeq(h, 1, HexPrefix(h)))
      body == Avail(at, size)
      Out(len, p, hh, tt, e) == [len |-> len, pos |-> p, header |-> hh,
                                 temp |-> tt, errset |-> e]
  IN CASE hf -> Out(-1, pos, header, temp, TRUE)
       [] HexPrefix(h) = 0 \/ size > BuffSize - 1 ->
            Out(MinusErrno(errset), at, h, temp, errset)
       [] pf -> Out(-1, at, h, temp, TRUE)
       [] OTHER -> Out(size, at + Len(body), h, Overwrite(temp, body), errset)

(* A main that leaves out temp[len] = '\0'. *)
TerminateMissing(buf, len) == buf

(* temp[len] = '\0'. *)
Terminate(buf, len) == [buf EXCEPT ![len + 1] = NUL]

(* The C string at the start of buf: up to its first NUL. *)
CString(buf) ==
  LET n == IF \E i \in DOMAIN buf : buf[i] = NUL
             THEN SelectInSeq(buf, LAMBDA c : c = NUL) - 1 ELSE Len(buf)
  IN SubSeq(buf, 1, n)

(* main at exec: nothing read, errno 0, the stack slots as they come. *)
QemuStart(pc, tr, e, p, h, t, pr, st, qs, rf) ==
  /\ pc = "connect"
  /\ tr = MaxTries
  /\ e = FALSE
  /\ p = 1
  /\ \E x \in TempInit : h = x[1] /\ t = x[2]
  /\ pr = [key |-> <<>>, val |-> <<>>]
  /\ st = "none"
  /\ qs = <<>>
  /\ rf = FALSE

QemuInit == QemuStart(qpc, tries, errset, pos, header, temp, prop, status, qsets, readfail)

(* One pass of the connect loop: qemu_pipe_open_ns either returns an fd   *)
(* or -errno (the open of /dev/goldfish_pipe or the write of the service  *)
(* name failed); after MAX_TRIES failures main returns EXIT_FAILURE.      *)
QemuConnect ==
  /\ qpc = "connect"
  /\ \/ qpc' = "list" /\ UNCHANGED <<tries, errset, status>>
     \/ /\ tries' = tries - 1
        /\ errset' = TRUE
        /\ IF tries - 1 <= 0 THEN qpc' = "exit" /\ status' = "FAILURE"
                             ELSE UNCHANGED <<qpc, status>>
  /\ UNCHANGED <<pos, header, temp, prop, qsets, readfail>>

(* qemud_channel_send(fd, "list", -1): two writes; either failing ends    *)
(* main with EXIT_FAILURE.                                                 *)
QemuList ==
  /\ qpc = "list"
  /\ \E fail \in Faults :
       IF fail THEN qpc' = "exit" /\ status' = "FAILURE" /\ errset' = TRUE
               ELSE qpc' = "recv" /\ UNCHANGED <<status, errset>>
  /\ UNCHANGED <<tries, pos, header, temp, prop, qsets, readfail>>

(* One pass of the receive loop up to property_set: break (then close and *)
(* EXIT_SUCCESS) on a negative length or a first byte NUL, continue on a  *)
(* string without '=', else split at the first '='.                       *)
QemuRecv ==
  /\ qpc = "recv"
  /\ \E hf, pf \in Faults :
       LET r  == ChannelRecv(hf, pf)
           t  == Terminate(r.temp, r.len)
           s  == CString(t)
           eq == SelectInSeq(s, LAMBDA c : c = "=")
       IN /\ pos' = r.pos
          /\ header' = r.header
          /\ errset' = r.errset
          /\ readfail' = (readfail \/ hf \/ pf)
          /\ CASE r.len < 0 \/ r.len > BuffSize - 1 \/ r.temp[1] = NUL ->
                    /\ qpc' = "exit" /\ status' = "SUCCESS"
                    /\ temp' = r.temp
                    /\ UNCHANGED prop
               [] eq = 0 -> temp' = t /\ UNCHANGED <<qpc, status, prop>>
               [] OTHER ->
                    /\ qpc' = "set"
                    /\ temp' = [t EXCEPT ![eq] = NUL]
                    /\ prop' = [key |-> SubSeq(s, 1, eq - 1),
                                val |-> SubSeq(s, eq + 1, Len(s))]
                    /\ UNCHANGED status
  /\ UNCHANGED <<tries, qsets>>

(* property_set(prop_key, prop_value) as a direct-mode call; its result   *)
(* is ignored (continue either way).  A library call may leave errno set. *)
(* Only a one-symbol key and value are handed on: a conforming host sends  *)
(* no other pair, and for another text the tool stops here.                *)
QemuSet ==
  /\ qpc = "set"
  /\ Len(prop.key) = 1 /\ Len(prop.val) = 1
  /\ prop.key[1] \in Keys /\ prop.val[1] \in Vals
  /\ PropertySet(Qemu, prop.key[1], prop.val[1])
  /\ qsets' = Append(qsets, prop)
  /\ qpc' = "recv"
  /\ errset' \in {errset, TRUE}
  /\ UNCHANGED <<tries, pos, header, temp, prop, status, readfail>>

(* The pairs of the frames before the end marker, in order. *)
HostPairs ==
  LET ends  == {i \in DOMAIN HostFrames : HostFrames[i] = <<>> \/ HostFrames[i][1] = NUL}
      last  == IF ends = {} THEN Len(HostFrames)
               ELSE (CHOOSE i \in ends : \A j \in ends : i <= j) - 1
      pairs == SelectSeq(SubSeq(HostFrames, 1, last),
                         LAMBDA f : \E i \in DOMAIN f : f[i] = "=")
      Split(f) == LET eq == SelectInSeq(f, LAMBDA c : c = "=")
                  IN [key |-> SubSeq(f, 1, eq - 1), val |-> SubSeq(f, eq + 1, Len(f))]
  IN [i \in DOMAIN pairs |-> Split(pairs[i])]

(* The other processes of direct mode, as in KvdbDirect's Next. *)
Others == Procs \ {Qemu}

BootInit == Init /\ QemuInit

(* A device reboot also starts the boot tool again on a new connection. *)
BootNext ==
  \/ /\ \E p \in Others : ProcessStep(p)
     /\ UNCHANGED qvars
  \/ /\ QemuConnect \/ QemuList \/ QemuRecv
     /\ UNCHANGED vars
  \/ QemuSet
  \/ /\ Reboot
     /\ QemuStart(qpc', tries', errset', pos', header', temp', prop', status',
                  qsets', readfail')

BootSpec == BootInit /\ [][BootNext]_allvars

----------------------------------------------------------------------------
(* Every variable of the tool has its type. *)
QemuTypeOK ==
  /\ TypeOK
  /\ qpc \in {"connect", "list", "recv", "set", "exit"}
  /\ tries \in 0..MaxTries
  /\ errset \in BOOLEAN /\ readfail \in BOOLEAN
  /\ pos \in 1..(Len(HostStream) + 1)
  /\ Len(header) = 4 /\ Len(temp) = BuffSize
  /\ status \in {"none", "SUCCESS", "FAILURE"}
  /\ qpc = "exit" <=> status # "none"

(* main hands property_set exactly the host's key=value frames, in the     *)
(* order sent and each once, however the pipe's reads, the stale bytes of *)
(* temp and header, and errno fall: what it has set (and is about to set)  *)
(* is a prefix of the host's pairs, and it returns EXIT_SUCCESS with all   *)
(* of them set unless a read failed.  It depends on qemud_channel_recv     *)
(* consuming exactly one frame per pass and on temp[len] = '\0' cutting    *)
(* off the longer frame an earlier pass left in temp.                      *)
QemuSetsHostPairs ==
  LET sent == IF qpc = "set" THEN Append(qsets, prop) ELSE qsets IN
  /\ IsPrefix(sent, HostPairs)
  /\ qpc = "exit" /\ status = "SUCCESS" /\ ~readfail => qsets = HostPairs
====
