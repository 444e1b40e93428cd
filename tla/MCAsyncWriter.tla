---------------------------- MODULE MCAsyncWriter ----------------------------
(***************************************************************************)
(* Inputs for checking AsyncWriter: the second message is malformed, the   *)
(* last one cannot be written.                                             *)
(***************************************************************************)
EXTENDS AsyncWriter

SecondOne == {2}
LastOne == {MaxMessages}
=============================================================================
