----------------------------- MODULE AndroidLog -----------------------------
(***************************************************************************)
(* The liblog facade of src/log: threads of one process writing log       *)
(* messages and changing the facade's configuration.                      *)
(*                                                                         *)
(* The configuration is two process environment variables                 *)
(* (ANDROID_LOG_MIN_PRIORITY, ANDROID_LOG_DEFAULT_TAG) and two globals    *)
(* (g_logger_function, g_aborter_function).  getenv returns a pointer     *)
(* into the environment; setenv of the same variable frees the string it *)
(* replaces.  A default tag is such a pointer: it is a record [gen, val] *)
(* here, and it is dangling once tagGen has moved past gen.              *)
(*                                                                         *)
(* A call is split where it holds that pointer: __android_log_buf_vprint  *)
(* takes the tag and checks the priority, then formats and emits;         *)
(* __android_log_buf_write checks the priority and                        *)
(* __android_log_write_log_message takes the tag, then emits.  What is    *)
(* emitted (to syslog, stderr or a user logger) is appended to out.      *)
(***************************************************************************)
EXTENDS Integers, Sequences

CONSTANTS
  Threads,    \* threads of the process
  Tags,       \* tags callers pass or set as the default
  ProgName,   \* getprogname()
  Texts,      \* messages (the formatted text)
  Prios,      \* android_LogPriority values callers log with
  MinPrios,   \* values passed to __android_log_set_minimum_priority
  InitMin,    \* ANDROID_LOG_MIN_PRIORITY at exec: NoValue or atoi of its text
  InitTag,    \* ANDROID_LOG_DEFAULT_TAG at exec: NoValue or a tag
  MaxCalls,   \* bound on calls
  NoValue     \* unset variable, NULL argument

ANDROID_LOG_DEFAULT == 1
ANDROID_LOG_VERBOSE == 2
ANDROID_LOG_FATAL == 7
ANDROID_LOG_SILENT == 8

ASSUME Prios \subseteq 0..ANDROID_LOG_SILENT
ASSUME MinPrios \subseteq Int /\ InitMin \subseteq Int \cup {NoValue}
ASSUME InitTag \subseteq Tags \cup {NoValue}
ASSUME MaxCalls \in Nat

(* syslog levels *)
LOG_ALERT == 1
LOG_CRIT == 2
LOG_ERR == 3
LOG_WARNING == 4
LOG_INFO == 6
LOG_DEBUG == 7

(* g_logprimap: android priority to syslog level. *)
g_logprimap ==
  [p \in 0..ANDROID_LOG_SILENT |->
     CASE p = 4 -> LOG_INFO
       [] p = 5 -> LOG_WARNING
       [] p = 6 -> LOG_ERR
       [] p = 7 -> LOG_CRIT
       [] OTHER -> LOG_DEBUG]

Loggers == {"logd", "stderr", "user"}
Aborters == {"default", "user"}

VARIABLES
  envMin,   \* ANDROID_LOG_MIN_PRIORITY as atoi reads it, or NoValue
  envTag,   \* ANDROID_LOG_DEFAULT_TAG, or NoValue
  tagGen,   \* setenv calls on ANDROID_LOG_DEFAULT_TAG so far
  logger,   \* g_logger_function
  aborter,  \* g_aborter_function
  pc,       \* pc[t]: "idle", "vprint", "write", "abort", "spin", "dead"
  call,     \* call[t]: the message t is writing
  out,      \* what reached syslog, stderr or the user logger
  calls     \* calls started

vars == <<envMin, envTag, tagGen, logger, aborter, pc, call, out, calls>>

(* __android_log_get_minimum_priority *)
MinimumPriority == IF envMin = NoValue THEN ANDROID_LOG_DEFAULT ELSE envMin

(* __android_log_is_loggable (and _len, which calls it) *)
IsLoggable(prio, default) ==
  IF MinimumPriority # ANDROID_LOG_DEFAULT THEN prio >= MinimumPriority
  ELSE prio >= default

(* __android_log_get_default_tag: getenv's pointer, or getprogname(). *)
DefaultTag == IF envTag = NoValue THEN ProgName ELSE [gen |-> tagGen, val |-> envTag]

IsPointer(tag) == tag \notin Tags \cup {ProgName}

(* What reading the tag gives: the string, or freed memory. *)
TagText(tag) ==
  IF ~IsPointer(tag) THEN tag ELSE IF tag.gen = tagGen THEN tag.val ELSE "freed"

Record(sink, level, tag, text) == [sink |-> sink, level |-> level, tag |-> tag, text |-> text]

(* android_set_abort_message: syslog(LOG_ALERT, "Abort Message: %s"). *)
AbortMessage(text) == Record("syslog", LOG_ALERT, "abort", text)

(* The loggers applied to message msg. *)
LogdLogger(msg) ==
  <<Record("syslog", g_logprimap[IF msg.prio > ANDROID_LOG_SILENT THEN ANDROID_LOG_FATAL
                                 ELSE msg.prio], TagText(msg.tag), msg.text)>>

StderrLogger(msg) ==
  IF IsLoggable(msg.prio, ANDROID_LOG_VERBOSE)
    THEN <<Record("stderr", msg.prio, TagText(msg.tag), msg.text)>>
    ELSE <<>>

UserLogger(msg) == <<Record("user", msg.prio, TagText(msg.tag), msg.text)>>

(* __android_log_write_log_message, with the tag already resolved: the   *)
(* abort message of a FATAL message, then g_logger_function.              *)
WriteLogMessage(msg) ==
  (IF msg.prio = ANDROID_LOG_FATAL THEN <<AbortMessage(msg.text)>> ELSE <<>>)
  \o CASE logger = "logd"   -> LogdLogger(msg)
       [] logger = "stderr" -> StderrLogger(msg)
       [] logger = "user"   -> UserLogger(msg)

(* A message: the tag argument as passed (arg) and as resolved (tag), and *)
(* whether g_logger_function was logd when __android_log_buf_vprint      *)
(* tested it.                                                             *)
Message(prio, arg, text, assert) ==
  [prio |-> prio, arg |-> arg, tag |-> IF arg = NoValue THEN DefaultTag ELSE arg,
   text |-> text, assert |-> assert, logd |-> logger = "logd"]

Init ==
  /\ envMin \in InitMin
  /\ envTag \in InitTag
  /\ tagGen = 0
  /\ logger = "logd"
  /\ aborter = "default"
  /\ pc = [t \in Threads |-> "idle"]
  /\ call = [t \in Threads |-> NoValue]
  /\ out = <<>>
  /\ calls = 0

Begin(t) == pc[t] = "idle" /\ calls < MaxCalls /\ calls' = calls + 1

(* __android_log_buf_vprint up to the logger test (also __android_log_print, *)
(* _vprint, _buf_print, _error_write): a NULL tag becomes the default     *)
(* tag; a priority below the minimum returns -EPERM.  assert marks the    *)
(* call __android_log_assert makes, which goes on to the aborter.         *)
LogVprint(t, prio, tag, text, assert) ==
  /\ pc' = [pc EXCEPT ![t] = IF IsLoggable(prio, ANDROID_LOG_VERBOSE) THEN "vprint"
                             ELSE IF assert THEN "abort" ELSE "idle"]
  /\ call' = [call EXCEPT ![t] = Message(prio, tag, text, assert)]
  /\ UNCHANGED <<envMin, envTag, tagGen, logger, aborter, out>>

LogPrint(t) ==
  /\ Begin(t)
  /\ \E prio \in Prios, tag \in Tags \cup {NoValue}, text \in Texts :
       LogVprint(t, prio, tag, text, FALSE)

(* __android_log_assert(cond, tag, fmt): the FATAL message, then the     *)
(* aborter with tag as its message.                                       *)
LogAssert(t) ==
  /\ Begin(t)
  /\ \E tag \in Tags \cup {NoValue}, text \in Texts :
       LogVprint(t, ANDROID_LOG_FATAL, tag, text, TRUE)

(* The rest of __android_log_buf_vprint: syslog with the call's priority *)
(* mapped by g_logprimap when the logger was logd at the test, else      *)
(* __android_log_write_log_message_buf with the logger now installed.    *)
LogVprintEmit(t) ==
  LET msg == call[t] IN
  /\ pc[t] = "vprint"
  /\ out' = out \o IF msg.logd
                     THEN <<Record("syslog", g_logprimap[msg.prio], TagText(msg.tag), msg.text)>>
                     ELSE WriteLogMessage(msg)
  /\ pc' = [pc EXCEPT ![t] = IF msg.assert THEN "abort" ELSE "idle"]
  /\ UNCHANGED <<envMin, envTag, tagGen, logger, aborter, call, calls>>

(* __android_log_buf_write (and __android_log_write): the priority test; *)
(* the tag argument is resolved only when the message is written.        *)
LogWrite(t) ==
  /\ Begin(t)
  /\ \E prio \in Prios, tag \in Tags \cup {NoValue}, text \in Texts :
       /\ pc' = [pc EXCEPT ![t] = IF IsLoggable(prio, ANDROID_LOG_VERBOSE) THEN "write"
                                  ELSE "idle"]
       /\ call' = [call EXCEPT ![t] =
                     Message(prio, tag, text, FALSE)]
  /\ UNCHANGED <<envMin, envTag, tagGen, logger, aborter, out>>

LogWriteEmit(t) ==
  /\ pc[t] = "write"
  /\ out' = out \o WriteLogMessage([call[t] EXCEPT !.tag = IF call[t].arg = NoValue
                                                            THEN DefaultTag ELSE call[t].arg])
  /\ pc' = [pc EXCEPT ![t] = "idle"]
  /\ UNCHANGED <<envMin, envTag, tagGen, logger, aborter, call, calls>>

(* __android_log_default_aborter: the abort message, then abort() ends   *)
(* every thread of the process.                                          *)
DefaultAborter(t) ==
  /\ out' = Append(out, AbortMessage(call[t].arg))
  /\ pc' = [u \in Threads |-> "dead"]

(* __android_log_call_aborter(tag), from __android_log_assert: the      *)
(* default aborter, or a user aborter that returns, after which          *)
(* __android_log_assert spins in while (1).                               *)
CallAborter(t) ==
  /\ pc[t] = "abort"
  /\ \/ aborter = "default" /\ DefaultAborter(t)
     \/ /\ aborter = "user"
        /\ pc' = [pc EXCEPT ![t] = "spin"]
        /\ UNCHANGED out
  /\ UNCHANGED <<envMin, envTag, tagGen, logger, aborter, call, calls>>

(* __android_log_set_minimum_priority: above SILENT becomes FATAL, then  *)
(* setenv of itoa's text.                                                 *)
SetMinimumPriority(t) ==
  /\ Begin(t)
  /\ \E p \in MinPrios :
       envMin' = IF p > ANDROID_LOG_SILENT THEN ANDROID_LOG_FATAL ELSE p
  /\ UNCHANGED <<envTag, tagGen, logger, aborter, pc, call, out>>

(* __android_log_set_default_tag: setenv unless the tag is NULL. *)
SetDefaultTag(t) ==
  /\ Begin(t)
  /\ \E tag \in Tags :
       /\ envTag' = tag
       /\ tagGen' = tagGen + 1
  /\ UNCHANGED <<envMin, logger, aborter, pc, call, out>>

SetLogger(t) ==
  /\ Begin(t)
  /\ \E f \in Loggers : logger' = f
  /\ UNCHANGED <<envMin, envTag, tagGen, aborter, pc, call, out>>

SetAborter(t) ==
  /\ Begin(t)
  /\ \E f \in Aborters : aborter' = f
  /\ UNCHANGED <<envMin, envTag, tagGen, logger, pc, call, out>>

Next ==
  \E t \in Threads :
    \/ LogPrint(t) \/ LogAssert(t) \/ LogVprintEmit(t)
    \/ LogWrite(t) \/ LogWriteEmit(t) \/ CallAborter(t)
    \/ SetMinimumPriority(t) \/ SetDefaultTag(t) \/ SetLogger(t) \/ SetAborter(t)

Spec == Init /\ [][Next]_vars

----------------------------------------------------------------------------
TypeOK ==
  /\ envMin \in Int \cup {NoValue}
  /\ envTag \in Tags \cup {NoValue}
  /\ logger \in Loggers /\ aborter \in Aborters
  /\ pc \in [Threads -> {"idle", "vprint", "write", "abort", "spin", "dead"}]
  /\ calls \in 0..MaxCalls

(* A thread about to emit a formatted message holds a live tag: the      *)
(* default tag __android_log_buf_vprint got from getenv before its        *)
(* priority test has not been freed by a setenv of another thread's      *)
(* __android_log_set_default_tag before the message reaches syslog.      *)
NoStaleTag ==
  \A t \in Threads :
    pc[t] = "vprint" /\ IsPointer(call[t].tag) =>
      call[t].tag.gen = tagGen

=============================================================================
