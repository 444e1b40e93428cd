------------------------- MODULE MCReadoutAssembler -------------------------
(***************************************************************************)
(* Inputs for checking ReadoutAssembler with two target modules.           *)
(***************************************************************************)
EXTENDS ReadoutAssembler, TLC

D(octet, tacks) == [octet |-> octet, whole |-> TRUE, tacks |-> tacks]

\* Four triggers 5 apart, with up to 2 between the modules' clocks: neighbours
\* come as close as readout_tw = 3.  Modules have the addresses .0 and .33 of a
\* standalone setup, so the relaxed numbering is used.
EventDatagrams ==
  {D(0, <<10>>),  D(0, <<16>>),  D(0, <<20>>),  D(0, <<25>>),
   D(33, <<11>>), D(33, <<14>>), D(33, <<20>>)}

ASSUME EventsSeparated == EventDatagrams = Datagrams => Separated

\* Packets that overlap in time, with one or two readouts, together with what
\* the protocol rejects and an empty payload.
IrregularDatagrams ==
  {D(0, <<10>>), D(101, <<11, 17>>), D(0, <<12>>), D(1, <<14>>), D(0, <<16, 16>>),
   D(200, << >>), D(2, <<10>>), [octet |-> 1, whole |-> FALSE, tacks |-> << >>]}
=============================================================================
