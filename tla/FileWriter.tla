----------------------------- MODULE FileWriter -----------------------------
(***************************************************************************)
(* BaseFileWriter of ssdaq/core/io.py: data go to a file until its size or *)
(* the data themselves ask for a new one, whose name is made from a prefix *)
(* and an enumerator.  A file that is opened is truncated.  One or more    *)
(* sessions of a writer application use the same folder and prefix, one    *)
(* after the other; a session ends in close or in a crash.                 *)
(***************************************************************************)
EXTENDS Integers, Sequences, FiniteSets

CONSTANTS
  Data,         \* what can be written
  NewFileData,  \* the data for which data_cond asks for a new file
  Enumerators,  \* the values of file_enumerator to consider
  Limits,       \* the values of filesize_lim to consider; 0 stands for None
  CheckEvery,   \* the size is looked at once for so many data: 100
  MaxData,      \* bound on the data written in a session
  MaxSessions,  \* bound on the sessions
  MaxMinute     \* bound on the clock

ASSUME NewFileDataAssumption == NewFileData \subseteq Data
ASSUME EnumeratorsAssumption == Enumerators \subseteq {"date", "order", "None"}
ASSUME LimitsAssumption == Limits \subseteq Nat
ASSUME CheckEveryAssumption == CheckEvery \in Nat \ {0}
ASSUME BoundsAssumption == {MaxData, MaxSessions, MaxMinute} \subseteq Nat

VARIABLES
  minute,           \* the clock, at the grain of the date in a file name
  file_enumerator,  \* fixed by the configuration
  filesize_lim,     \* fixed by the configuration
  open,             \* whether a session is running
  filename,         \* the suffix of the open file's name
  data_counter,     \* data written in this session
  file_counter,     \* files opened in this session
  disk,             \* the content of each file: a function on suffixes
  buffer,           \* data given to the open file and not yet on disk
  segments          \* history: for each open of a file, what was written to it

config  == <<file_enumerator, filesize_lim>>
counters == <<data_counter, file_counter>>
vars == <<minute, config, open, filename, counters, disk, buffer, segments>>

-----------------------------------------------------------------------------

\* The suffix of the name of a file opened now as number n of its session
Suffix(n) == CASE file_enumerator = "date"  -> minute
               [] file_enumerator = "order" -> n
               [] OTHER                     -> 0

\* Opening for writing creates the file or empties it.
Truncated(d, name) ==
  [x \in DOMAIN d \cup {name} |-> IF x = name THEN << >> ELSE d[x]]

Stored(d, name, items) == [d EXCEPT ![name] = @ \o items]

LastSegment == segments[Len(segments)]
Session == IF segments = << >> THEN 0 ELSE LastSegment.session

Segment(name, items, session) ==
  [name |-> name, items |-> items, session |-> session, crashed |-> FALSE]

\* Mutant: looked at as seldom as the size.
DataCondRarely(x) == x \in NewFileData /\ data_counter > 0 /\ data_counter % CheckEvery = 0

DataCond(x) == x \in NewFileData /\ data_counter > 0

SizeExceeded ==
  /\ filesize_lim # 0
  /\ data_counter % CheckEvery = 0
  /\ Len(disk[filename]) > filesize_lim

-----------------------------------------------------------------------------

Tick ==
  /\ minute < MaxMinute
  /\ minute' = minute + 1
  /\ UNCHANGED <<config, open, filename, counters, disk, buffer, segments>>

\* A writer is created and opens its first file.
Start ==
  /\ ~ open
  /\ Session < MaxSessions
  /\ open' = TRUE
  /\ data_counter' = 0
  /\ file_counter' = 1
  /\ filename' = Suffix(1)
  /\ disk' = Truncated(disk, Suffix(1))
  /\ buffer' = << >>
  /\ segments' = Append(segments, Segment(Suffix(1), << >>, Session + 1))
  /\ UNCHANGED <<minute, config>>

\* How much of what it has been given the file writer puts on disk now is up to
\* it: it collects bunches, and so does the file object under it.
WriteSame(x) ==
  /\ open
  /\ data_counter < MaxData
  /\ ~ DataCond(x)
  /\ ~ SizeExceeded
  /\ LET given == Append(buffer, x)
     IN  \E k \in 0 .. Len(given) :
           /\ disk' = Stored(disk, filename, SubSeq(given, 1, k))
           /\ buffer' = SubSeq(given, k + 1, Len(given))
  /\ data_counter' = data_counter + 1
  /\ segments' = [segments EXCEPT ![Len(segments)].items = Append(@, x)]
  /\ UNCHANGED <<minute, config, open, filename, file_counter>>

\* Mutant: the file counter is left.
WriteNewSameNumber(x) ==
  /\ open
  /\ data_counter < MaxData
  /\ DataCond(x) \/ SizeExceeded
  /\ LET name   == Suffix(file_counter)
         closed == Stored(disk, filename, buffer)
     IN  /\ filename' = name
         /\ \E k \in 0 .. 1 :
              /\ disk' = Stored(Truncated(closed, name), name, SubSeq(<<x>>, 1, k))
              /\ buffer' = SubSeq(<<x>>, k + 1, 1)
         /\ segments' = Append(segments, Segment(name, <<x>>, Session))
  /\ file_counter' = file_counter
  /\ data_counter' = data_counter + 1
  /\ UNCHANGED <<minute, config, open>>

\* Mutant: the old file is not closed.
WriteNewUnclosed(x) ==
  /\ open
  /\ data_counter < MaxData
  /\ DataCond(x) \/ SizeExceeded
  /\ LET name   == Suffix(file_counter + 1)
         closed == disk
     IN  /\ filename' = name
         /\ \E k \in 0 .. 1 :
              /\ disk' = Stored(Truncated(closed, name), name, SubSeq(<<x>>, 1, k))
              /\ buffer' = SubSeq(<<x>>, k + 1, 1)
         /\ segments' = Append(segments, Segment(name, <<x>>, Session))
  /\ file_counter' = file_counter + 1
  /\ data_counter' = data_counter + 1
  /\ UNCHANGED <<minute, config, open>>

\* The open file is closed, which puts all of it on disk, and the next opened.
WriteNew(x) ==
  /\ open
  /\ data_counter < MaxData
  /\ DataCond(x) \/ SizeExceeded
  /\ LET name   == Suffix(file_counter + 1)
         closed == Stored(disk, filename, buffer)
     IN  /\ filename' = name
         /\ \E k \in 0 .. 1 :
              /\ disk' = Stored(Truncated(closed, name), name, SubSeq(<<x>>, 1, k))
              /\ buffer' = SubSeq(<<x>>, k + 1, 1)
         /\ segments' = Append(segments, Segment(name, <<x>>, Session))
  /\ file_counter' = file_counter + 1
  /\ data_counter' = data_counter + 1
  /\ UNCHANGED <<minute, config, open>>

Close ==
  /\ open
  /\ open' = FALSE
  /\ disk' = Stored(disk, filename, buffer)
  /\ buffer' = << >>
  /\ UNCHANGED <<minute, config, filename, counters, segments>>

\* The process is killed: what is not on disk is gone.
Crash ==
  /\ open
  /\ open' = FALSE
  /\ buffer' = << >>
  /\ segments' = [segments EXCEPT ![Len(segments)].crashed = TRUE]
  /\ UNCHANGED <<minute, config, filename, counters, disk>>

Init ==
  /\ minute = 0
  /\ file_enumerator \in Enumerators
  /\ filesize_lim \in Limits
  /\ open = FALSE
  /\ filename = 0
  /\ data_counter = 0
  /\ file_counter = 0
  /\ disk = << >>
  /\ buffer = << >>
  /\ segments = << >>

Next ==
  \/ Tick
  \/ Start
  \/ \E x \in Data : WriteSame(x) \/ WriteNew(x)
  \/ Close
  \/ Crash

Spec == Init /\ [][Next]_vars
-----------------------------------------------------------------------------
(* Properties *)

IsPrefix(s, t) == Len(s) <= Len(t) /\ s = SubSeq(t, 1, Len(s))

\* No later open took the name of segment k.
NotReopened(k) == \A j \in k + 1 .. Len(segments) : segments[j].name # segments[k].name

\* Whatever rotations, sessions and crashes there are, a file that was not
\* opened again holds exactly the data that were written to it, in order: all
\* of them once it is closed, the first ones when the process was killed.
KeptUnlessReopened ==
  \A k \in DOMAIN segments :
    NotReopened(k) =>
      LET seg == segments[k]
          current == open /\ k = Len(segments)
      IN  IF seg.crashed THEN IsPrefix(disk[seg.name], seg.items)
          ELSE disk[seg.name] \o (IF current THEN buffer ELSE << >>) = seg.items

\* With numbered files a session never opens the same name twice, whatever the
\* clock does.
NumbersAreFresh ==
  file_enumerator = "order" =>
    \A j, k \in DOMAIN segments :
      segments[j].session = segments[k].session /\ j # k
      => segments[j].name # segments[k].name

\* Data that start a new run are the first of their file: a file never holds
\* readouts of two runs.
RunsApart ==
  \A k \in DOMAIN segments : \A i \in 2 .. Len(segments[k].items) :
    segments[k].items[i] \notin NewFileData

\* The session's files, and the data in them
SessionFiles == {segments[k].name : k \in {j \in DOMAIN segments :
                                             segments[j].session = Session}}
SessionData == UNION {{<<n, i>> : i \in DOMAIN disk[n]} : n \in SessionFiles}

\* close ends with the message "FileWriter has written a total of %d events to
\* %d file(s)" (core/io.py:768-769): so many are there.
TotalsAreTrue ==
  ~ open /\ segments # << >> /\ ~ LastSegment.crashed =>
    /\ Cardinality(SessionFiles) = file_counter
    /\ Cardinality(SessionData) = data_counter
=============================================================================
