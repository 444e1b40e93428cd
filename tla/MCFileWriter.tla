---------------------------- MODULE MCFileWriter ----------------------------
(***************************************************************************)
(* Inputs for checking FileWriter: readout numbers, of which 1 starts a    *)
(* run (SSFileWriter.data_cond).                                           *)
(***************************************************************************)
EXTENDS FileWriter

Readouts == {1, 2}
FirstReadout == {1}
AllEnumerators == {"date", "order", "None"}
ByDate == {"date"}
NoLimitOrOne == {0, 1}
=============================================================================
