---------------------------- MODULE AndroidTrace ----------------------------
(***************************************************************************)
(* The atrace layer: the inline helpers of src/include/cutils/trace.h, the *)
(* note writers of src/trace/trace.c and the atrace command of            *)
(* src/trace/atrace.c.                                                     *)
(*                                                                         *)
(* Threads open and close nested sections (ATRACE_BEGIN/ATRACE_END),      *)
(* open and close asynchronous events (ATRACE_ASYNC_BEGIN/END) and write  *)
(* standalone notes (instant, counter).  Each helper tests its tag        *)
(* against the global atrace_enabled_tags and, if enabled, appends one    *)
(* note to the scheduler's note stream.  The atrace command, another task *)
(* of the same address space, parses its arguments and stores a new mask. *)
(* A 64-bit tag is a set of bits: the categories, plus the bit of         *)
(* ATRACE_TAG_ALWAYS; every section tag lies in the low word, so a torn   *)
(* 64-bit store on a 32-bit core never changes what a test sees.          *)
(***************************************************************************)
EXTENDS Naturals, Sequences, SequencesExt, FiniteSets

CONSTANTS
  Threads,        \* traced threads
  Categories,     \* category_list from index 2 on: a sequence of names
  SectionTags,    \* the ATRACE_TAG values the traced code is built with
  Names,          \* section and event names
  Cookies,        \* async event cookies
  CmdArgs,        \* argument vectors (argv[1..]) the atrace command is run with
  MaxDepth,       \* bound: nesting depth of sections of one thread
  MaxNotes        \* bound: notes in the stream

(* ATRACE_TAG_ALWAYS is bit 0; UINT64_MAX sets it and every category. *)
Bits == {"always"} \cup Range(Categories)

ASSUME SectionTags \subseteq Bits /\ MaxDepth \in Nat /\ MaxNotes \in Nat

VARIABLES
  tags,    \* atrace_enabled_tags (trace.c), as the set of its bits
  stack,   \* stack[t]: t's open sections, [tag, name, b]; b: its B note was written
  async,   \* open async events: [tag, name, cookie, s]; s: its S note was written
  notes    \* the note stream: [kind, tid, name, cookie]

vars == <<tags, stack, async, notes>>

-----------------------------------------------------------------------------
(* atrace.c *)

(* category_list: "never", "always", then the named categories; the index *)
(* j of a name, and its size N.                                           *)
CategoryList == <<"never", "always">> \o Categories
N == Len(CategoryList)
CatIndex(a) == CHOOSE i \in 3..N : CategoryList[i] = a

(* atrace_category: "always" sets every bit, "never" clears them, a name  *)
(* adds its bit; after each argument, j == size means the name was not    *)
(* found.  "always" and "never" leave j as it was, so with one of them    *)
(* first the test reads j uninitialised: j0 is whatever the stack holds,  *)
(* equal to the size (the error path) or not.                             *)
RECURSIVE ParseCategories(_, _, _, _)
ParseCategories(args, i, tag, j) ==
  IF i > Len(args) THEN [err |-> "OK", tag |-> tag]
  ELSE LET a   == args[i]
           known == a \in Range(Categories)
           tag2 == CASE a = "always" -> Bits
                     [] a = "never"  -> {}
                     [] known        -> tag \cup {a}
                     [] OTHER        -> tag
           j2   == CASE a \in {"always", "never"} -> j
                     [] known                     -> CatIndex(a)
                     [] OTHER                     -> N + 1
       IN IF j2 = N + 1 THEN [err |-> "EINVAL", tag |-> tag2]
          ELSE ParseCategories(args, i + 1, tag2, j2)

(* The outcomes of atrace_category over the values j0 can hold; C's       *)
(* j == size is j2 = N + 1 here (1-based indices).                        *)
CategoryOutcomes(args) == {ParseCategories(args, 1, {}, j0) : j0 \in {1, N + 1}}

(* main: fewer than one argument prints the usage, --list_categories      *)
(* prints the table, anything else is a category list; a successful one   *)
(* stores the new mask.                                                   *)
NoCategories(args) == IF args = <<>> THEN TRUE ELSE args[1] = "--list_categories"

AtraceCommand ==
  /\ \E args \in CmdArgs :
       \/ /\ NoCategories(args)
          /\ UNCHANGED tags
       \/ /\ ~NoCategories(args)
          /\ \E res \in CategoryOutcomes(args) :
                tags' = IF res.err = "OK" THEN res.tag ELSE tags
  /\ UNCHANGED <<stack, async, notes>>

-----------------------------------------------------------------------------
(* trace.h and trace.c *)

(* atrace_is_tag_enabled: atrace_get_enabled_tags() & tag. *)
Enabled(tag) == tag \in tags

Note(kind, t, name, cookie) == [kind |-> kind, tid |-> t, name |-> name, cookie |-> cookie]

(* A helper appends its note (sched_note_printf) only if its tag is on. *)
Emit(tag, note) == notes' = IF Enabled(tag) THEN Append(notes, note) ELSE notes

Room == Len(notes) < MaxNotes

(* ATRACE_BEGIN: atrace_begin tests the tag; atrace_begin_body writes B. *)
AtraceBegin(t) ==
  /\ Room /\ Len(stack[t]) < MaxDepth
  /\ \E tag \in SectionTags, name \in Names :
       /\ stack' = [stack EXCEPT ![t] = Append(@, [tag |-> tag, name |-> name,
                                                   b |-> Enabled(tag)])]
       /\ Emit(tag, Note("B", t, name, 0))
  /\ UNCHANGED <<tags, async>>

(* ATRACE_END: atrace_end tests the tag again; atrace_end_body writes E,  *)
(* which names no section: the reader closes t's innermost open slice.    *)
AtraceEnd(t) ==
  /\ Room /\ stack[t] # <<>>
  /\ stack' = [stack EXCEPT ![t] = Front(@)]
  /\ Emit(Last(stack[t]).tag, Note("E", t, 0, 0))
  /\ UNCHANGED <<tags, async>>

(* ATRACE_ASYNC_BEGIN: writes S with its cookie. *)
AtraceAsyncBegin(t) ==
  /\ Room
  /\ \E tag \in SectionTags, name \in Names, cookie \in Cookies :
       /\ \A e \in async : e.name # name \/ e.cookie # cookie
       /\ async' = async \cup {[tag |-> tag, name |-> name, cookie |-> cookie,
                                 s |-> Enabled(tag)]}
       /\ Emit(tag, Note("S", t, name, cookie))
  /\ UNCHANGED <<tags, stack>>

(* ATRACE_ASYNC_END: writes F with the name and cookie, from any thread. *)
AtraceAsyncEnd(t) ==
  /\ Room
  /\ \E e \in async :
       /\ async' = async \ {e}
       /\ Emit(e.tag, Note("F", t, e.name, e.cookie))
  /\ UNCHANGED <<tags, stack>>

(* ATRACE_INSTANT, ATRACE_INSTANT_FOR_TRACK, ATRACE_INT, ATRACE_INT64:     *)
(* one standalone note (I, N, C) that opens and closes nothing.           *)
AtraceMark(t) ==
  /\ Room
  /\ \E tag \in SectionTags, kind \in {"I", "N", "C"}, name \in Names :
       Emit(tag, Note(kind, t, name, 0))
  /\ UNCHANGED <<tags, stack, async>>

-----------------------------------------------------------------------------
(* atrace_enabled_tags starts as ~0ull (trace.c). *)
Init ==
  /\ tags = Bits
  /\ stack = [t \in Threads |-> <<>>]
  /\ async = {}
  /\ notes = <<>>

Next ==
  \/ AtraceCommand
  \/ \E t \in Threads :
       \/ AtraceBegin(t) \/ AtraceEnd(t) \/ AtraceAsyncBegin(t) \/ AtraceAsyncEnd(t)
       \/ AtraceMark(t)

Spec == Init /\ [][Next]_vars

-----------------------------------------------------------------------------
(* Properties. *)

Notes == [kind : {"B", "E", "S", "F", "I", "N", "C"}, tid : Threads,
          name : Names \cup {0}, cookie : Cookies \cup {0}]

TypeOK ==
  /\ tags \subseteq Bits
  /\ stack \in [Threads -> Seq([tag : SectionTags, name : Names, b : BOOLEAN])]
  /\ async \subseteq [tag : SectionTags, name : Names, cookie : Cookies, s : BOOLEAN]
  /\ notes \in Seq(Notes)

(* What a reader of the stream holds open: per thread, the B slices not   *)
(* yet closed by an E (an E with none open is dropped); and the async     *)
(* events with an S and no F.                                             *)
ReadSlices(t) ==
  LET step(open, n) ==
        CASE n.tid = t /\ n.kind = "B" -> Append(open, n.name)
          [] n.tid = t /\ n.kind = "E" /\ open # <<>> -> Front(open)
          [] OTHER -> open
  IN FoldLeft(step, <<>>, notes)

ReadAsync ==
  LET step(open, n) ==
        CASE n.kind = "S" -> open \cup {<<n.name, n.cookie>>}
          [] n.kind = "F" -> open \ {<<n.name, n.cookie>>}
          [] OTHER -> open
  IN FoldLeft(step, {}, notes)

(* The trace tells the truth about the code: the slices a reader has open *)
(* for a thread are that thread's open sections whose B was written, in   *)
(* order, and its open async events are those open in the code whose S    *)
(* was written.  ATRACE_END's doc: it ends the context ATRACE_BEGIN       *)
(* started; atrace_begin and atrace_end test the mask separately.         *)
TraceMatchesCode ==
  /\ \A t \in Threads :
       ReadSlices(t) = [i \in 1..Len(SelectSeq(stack[t], LAMBDA s : s.b)) |->
                          SelectSeq(stack[t], LAMBDA s : s.b)[i].name]
  /\ ReadAsync = {<<e.name, e.cookie>> : e \in {x \in async : x.s}}
=============================================================================
