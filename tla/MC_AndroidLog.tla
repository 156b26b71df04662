---------------------------- MODULE MC_AndroidLog ----------------------------
(* Model values and definitions for the runs of AndroidLog. *)
EXTENDS AndroidLog

CONSTANTS t1, t2, ta, tb, prog, m, nil

MCThreads == {t1, t2}
MCTags == {ta, tb}
(* ANDROID_LOG_DEBUG and ANDROID_LOG_FATAL: one message the default      *)
(* minimum filters and one that reaches the abort path.                  *)
MCPrios == {3, 7}
(* ANDROID_LOG_WARN *)
MCMinPrios == {5}
MCInitMin == {nil}
(* The process starts with or without a default tag in its environment. *)
MCInitTag == {nil, ta}
=============================================================================
