------------------------------ MODULE LogStream ------------------------------
(***************************************************************************)
(* The logs of ssdaq/logging.py on their way through LogReceiver           *)
(* (ssdaq/receivers/log_receiver.py).  A handler writes each log as a      *)
(* protocol buffer, with nothing to tell its length, to a TCP connection;  *)
(* the receiver publishes whatever piece the connection delivers as one    *)
(* log, and the subscriber parses it.                                      *)
(***************************************************************************)
EXTENDS Integers, Sequences, SequencesExt

CONSTANT LogFields  \* the fields of LogData, all of them required, by number

ASSUME LogAssumption ==
  /\ LogFields \in Seq(Range(LogFields)) /\ LogFields # <<>>
  /\ \A i, j \in DOMAIN LogFields : LogFields[i] = LogFields[j] => i = j

Field(f, v) == [field |-> f, value |-> v]

\* A protocol buffer is its fields, one after the other.
MakePickle(log) == [i \in DOMAIN LogFields |-> Field(LogFields[i], log[LogFields[i]])]

\* What data_received gets: the first n fields on the wire, whatever log they are of; a
\* torn piece has the beginning of the next field too.
Pieces(wire) ==
  [fields : {SubSeq(wire, 1, n) : n \in 1 .. Len(wire)}, torn : {FALSE}]
    \union [fields : {SubSeq(wire, 1, n) : n \in 0 .. Len(wire) - 1}, torn : {TRUE}]

LogPiece(log) == [fields |-> MakePickle(log), torn |-> FALSE]

\* ParseFromString raises when a field is cut or a required one is missing.
Parseable(piece) ==
  /\ ~ piece.torn
  /\ \A f \in Range(LogFields) : \E i \in DOMAIN piece.fields : piece.fields[i].field = f

\* Of a field that comes again the last value counts.
Parse(piece) ==
  LET last(f) == SelectLastInSeq(piece.fields, LAMBDA p : p.field = f)
  IN  [f \in Range(LogFields) |-> piece.fields[last(f)].value]
=============================================================================
