------------------------------ MODULE Displays ------------------------------
(***************************************************************************)
(* The programs that show a stream while it is written to files:           *)
(* timestampdump of ssdaq/bin/terminaldumpers.py, which counts the time    *)
(* stamps it misses and prints a frequency, slowsignaldump, which prints   *)
(* the rate of the readouts, and timestampviewer of                        *)
(* ssdaq/bin/slowsignalviewer.py, which plots the frequency of the readout *)
(* triggers.  Each has a subscriber of its own; time stamps and readouts   *)
(* may be lost on their way to it.                                         *)
(*                                                                         *)
(* The programs compute times as floating point numbers of picoseconds,    *)
(* which at the seconds of our days are multiples of 2^18: two times are   *)
(* equal or differ by more than any of the limits they are compared with.  *)
(* A time is {t}, or {} when the message has none.                         *)
(***************************************************************************)
EXTENDS DataFiles

CONSTANTS
  ReadoutTrigger, BusyTrigger  \* the types of the time stamps

VARIABLES
  program, \* the program that runs beside the writer
  taken,   \* what its subscriber received or lost
  lost,    \* history: those lost
  stats    \* type -> what the program keeps of the time stamps of a type

displayVars == <<program, taken, lost, stats>>
vars == <<dataVars, displayVars>>

Types == {ReadoutTrigger, BusyTrigger}

ASSUME DisplayAssumption ==
  /\ Stamps \subseteq [type : Types, time : SUBSET Nat]
  /\ \A s \in Stamps : \A t, u \in s.time : t = u

NoStamp == [type |-> ReadoutTrigger, time |-> {}, event_counter |-> 0]

\* myStats, and the counters beside it; rates has the frequencies as printed or plotted,
\* [trig, from, to]: that many triggers in the time between.
FreshStats ==
  [fTrigger |-> 0, fLast_ts |-> NoStamp, fCurrent_ts |-> NoStamp,
   counter_missed |-> 0, counter_last |-> 0, ts_smaller |-> 0, rates |-> <<>>]

Init ==
  /\ DataInit
  /\ program \in CASE kind = "timestamp"  -> {"timestampdump", "timestampviewer"}
                    [] kind = "slowsignal" -> {"none", "slowsignaldump"}
                    [] OTHER               -> {"none"}
  /\ taken = 0 /\ lost = {}
  /\ stats = [t \in Types |-> FreshStats]

-----------------------------------------------------------------------------
(* Statistics *)

isValidTS(ts) == ts.time # {}

\* Fields that are not set are zero.
PicoSeconds(ts) == IF isValidTS(ts) THEN CHOOSE t \in ts.time : TRUE ELSE 0

DeltaT(st) == PicoSeconds(st.fCurrent_ts) - PicoSeconds(st.fLast_ts)

add_timestamp(st, ts) ==
  [st EXCEPT !.fTrigger = @ + 1,
             !.fCurrent_ts = ts,
             !.fLast_ts = IF isValidTS(@) THEN @ ELSE ts]

Rate(st) ==
  [trig |-> st.fTrigger, from |-> PicoSeconds(st.fLast_ts), to |-> PicoSeconds(st.fCurrent_ts)]

\* Mutant: the viewer resets as timestampdump does.
FrequencyResets(st) ==
  LET reset == [st EXCEPT !.fTrigger = 0, !.fLast_ts = st.fCurrent_ts]
  IN  IF DeltaT(st) <= 0 THEN reset ELSE [reset EXCEPT !.rates = Append(@, Rate(st))]

\* get_frequency_in_Hz.  In timestampdump the count is reset first, whatever the times;
\* there it is called when they differ only.
Frequency(st) ==
  IF DeltaT(st) <= 0 THEN st
  ELSE [st EXCEPT !.rates = Append(@, Rate(st)), !.fTrigger = 0, !.fLast_ts = st.fCurrent_ts]

\* Mutant: the counter is compared after it was kept.
CountMissedLate(st, ts) ==
  [st EXCEPT !.counter_missed = IF ts.event_counter # 0 THEN @ + 1 ELSE @,
             !.counter_last = ts.event_counter]

CountMissed(st, ts) ==
  [st EXCEPT !.counter_missed = IF st.counter_last # 0 /\ st.counter_last + 1 # ts.event_counter
                                THEN @ + 1 ELSE @,
             !.counter_last = ts.event_counter]

\* Counted as smaller is a last time that is not after the current one.
CountSmaller(st) == [st EXCEPT !.ts_smaller = IF DeltaT(st) >= 0 THEN @ + 1 ELSE @]

-----------------------------------------------------------------------------
(* Steps *)

Stamp == sent[taken + 1]

\* ZeroMQ drops what a subscriber is too slow for.
Lose ==
  /\ program # "none" /\ taken < Len(sent)
  /\ taken' = taken + 1
  /\ lost' = lost \union {taken + 1}
  /\ UNCHANGED <<dataVars, program, stats>>

Take(t, st) ==
  /\ taken < Len(sent)
  /\ taken' = taken + 1
  /\ stats' = [stats EXCEPT ![t] = st]
  /\ UNCHANGED <<dataVars, program, lost>>

\* One round of timestampdump
DumpTakes ==
  /\ program = "timestampdump" /\ taken < Len(sent)
  /\ LET counted == CountSmaller(CountMissed(add_timestamp(stats[Stamp.type], Stamp), Stamp))
     IN  Take(Stamp.type, IF DeltaT(counted) > 0 THEN Frequency(counted) ELSE counted)

\* get_ts_data takes what there is,
ViewerTakes ==
  /\ program = "timestampviewer" /\ taken < Len(sent)
  /\ LET st == stats[ReadoutTrigger]
     IN  Take(ReadoutTrigger, IF Stamp.type = ReadoutTrigger THEN add_timestamp(st, Stamp) ELSE st)

\* then gives one frequency for all, if it can.
ViewerUpdates ==
  /\ program = "timestampviewer"
  /\ stats' = [stats EXCEPT ![ReadoutTrigger] = Frequency(@)]
  /\ UNCHANGED <<dataVars, program, taken, lost>>

\* One round of slowsignaldump, in which no rate is given when last_tack is the readout's
\* time; last_tack is zero at first.
SlowSignalDumpTakes ==
  /\ program = "slowsignaldump" /\ taken < Len(sent)
  /\ LET tack == [NoStamp EXCEPT !.time = {Stamp.time}]
         st == [stats[ReadoutTrigger] EXCEPT !.fTrigger = 1, !.fCurrent_ts = tack]
     IN  Take(ReadoutTrigger,
              [st EXCEPT !.rates = IF DeltaT(st) = 0 THEN @ ELSE Append(@, Rate(st)),
                         !.fLast_ts = tack])

Next ==
  \/ DataNext /\ UNCHANGED displayVars
  \/ Lose
  \/ DumpTakes
  \/ ViewerTakes
  \/ ViewerUpdates
  \/ SlowSignalDumpTakes

Spec == Init /\ [][Next]_vars

-----------------------------------------------------------------------------
(* Properties *)

\* The time stamps of a type that the program has
Received(t) == {i \in 1 .. taken \ lost : sent[i].type = t}

\* The triggers that rates count
RateSum(rates) ==
  LET trig == [i \in 1 .. Len(rates) |-> rates[i].trig]
      sum[i \in 1 .. Len(rates) + 1] == IF i = 1 THEN 0 ELSE sum[i - 1] + trig[i - 1]
  IN  sum[Len(rates) + 1]

\* What a program shows rates of
Shown == IF program = "timestampdump" THEN Types ELSE {ReadoutTrigger}

\* The frequencies shown cover the stream: each is over a time that begins where the one
\* before ended and is not empty, however the times jump.  Every time stamp received is
\* counted in exactly one, or waits for the next; of readouts, which are counted alone, the
\* last time is that of the last rate.
RatesCoverStream ==
  \A t \in Shown :
    LET rates == stats[t].rates
    IN  /\ \A i \in DOMAIN rates :
             /\ rates[i].from # rates[i].to
             /\ i > 1 => rates[i - 1].to = rates[i].from
        /\ program \in {"timestampdump", "timestampviewer"} =>
             /\ \A i \in DOMAIN rates : rates[i].from < rates[i].to
             /\ RateSum(rates) + stats[t].fTrigger = Cardinality(Received(t))
        /\ program = "slowsignaldump" /\ rates # <<>> =>
             \E i \in 1 .. taken \ lost :
               /\ Last(rates).to = sent[i].time
               /\ \A j \in 1 .. taken \ lost : j <= i

\* timestampdump counts each gap in the event counters once, of the gaps between two time
\* stamps that it received; it is blind to one behind the counter zero.
GapsAreCounted ==
  program = "timestampdump" =>
    \A t \in Types :
      stats[t].counter_missed =
        Cardinality({i \in Received(t) :
          \E j \in Received(t) :
            /\ j < i /\ \A k \in Received(t) : k <= j \/ k >= i
            /\ sent[j].event_counter # 0
            /\ \E k \in lost : j < k /\ k < i /\ sent[k].type = t})
=============================================================================
