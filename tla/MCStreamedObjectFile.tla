------------------------ MODULE MCStreamedObjectFile ------------------------
(***************************************************************************)
(* Inputs for checking RawObjectFile, which includes StreamedObjectFile: a *)
(* small object that is collected and a large one that fills a bunch.      *)
(***************************************************************************)
EXTENDS RawObjectFile

TwoObjects == {1, 2}
Sizes == [o \in TwoObjects |-> o]
ShorterOrLonger == {1, 3}
=============================================================================
