---------------------------- MODULE MCOperation ----------------------------
(* A receiver, the MonitorReceiver and a writer; commands for all and for one *)
EXTENDS Operation

MCConfig == <<"Trigger", "Monitor">>
MCWriterConfig == <<"Writer">>
MCMatches == [n \in {"Moni"} |-> {"Monitor"}]
MCNameLists == {<<>>, <<"Moni">>}
=============================================================================
