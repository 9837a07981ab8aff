---------------------------- MODULE MCSharedConsole ----------------------------
(***************************************************************************)
(* Two writers on a screen of three rows and two columns.                  *)
(***************************************************************************)
EXTENDS SharedConsole

OneLetter == {<<65>>}
=============================================================================
