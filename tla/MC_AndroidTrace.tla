---------------------------- MODULE MC_AndroidTrace ----------------------------
(* Model values and definitions for the runs of AndroidTrace. *)
EXTENDS AndroidTrace

CONSTANTS t1, t2, n1, n2

MCThreads == {t1, t2}
(* One named category ("gfx"), the one the traced code is built with. *)
MCCategories == <<"gfx">>
MCSectionTags == {"gfx"}
MCNames == {n1, n2}
MCCookies == {1}
(* No arguments, the table, each keyword, the category, an unknown name, *)
(* and a list that turns the category on and off again.                   *)
MCCmdArgs == {<<>>, <<"--list_categories">>, <<"always">>, <<"never">>, <<"gfx">>,
              <<"foo">>, <<"gfx", "never">>}
=============================================================================
