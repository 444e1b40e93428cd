---------------------------- MODULE MCSubscriber ----------------------------
(***************************************************************************)
(* Inputs for checking Subscriber: the last or the first message is odd,   *)
(* and the file writer may raise on any or on none.                        *)
(***************************************************************************)
EXTENDS Subscriber

LastMalformed == {MaxMessages}
NoMessage == {}
FirstRejected == {1}
AnyMessage == 1 .. MaxMessages
=============================================================================
