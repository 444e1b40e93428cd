---------------------------- MODULE EventBuilder ----------------------------
(***************************************************************************)
(* What the event builder of ssdaq/receivers/readout_assembler.py promises *)
(* to those who read its stream of readouts: no deque with a length, no    *)
(* queue and no coroutine, but a set of open events and the stream.        *)
(*                                                                         *)
(* A packet joins an open event from whose time it is less than Window     *)
(* away, or opens one that is at least Window later than every open event, *)
(* or has no effect.  The oldest event is closed once the newest is more   *)
(* than Horizon ahead of it, and only then; closing it appends its         *)
(* readouts to the stream.  The builder may fail, and is silent afterwards.*)
(***************************************************************************)
EXTENDS Integers, Sequences

CONSTANTS
  Module,   \* the target modules
  Window,   \* packets closer than this belong together
  Horizon   \* age at which an event is closed

VARIABLES
  events,  \* the open events: time, number of readouts, payload by module
  stream,  \* the readouts that were or will be published, in order
  alive    \* the builder has not failed

vars == <<events, stream, alive>>

Distance(x, y) == IF x < y THEN y - x ELSE x - y

Present(e) == {t \in Module : e.data[t] # << >>}

\* Event f is event e with the payload of one more packet.
Extends(f, e) ==
  /\ f.tack = e.tack
  /\ f.nreadouts = e.nreadouts
  /\ \E t \in Module :
       /\ t \in Present(f)
       /\ Distance(f.data[t][1], e.tack) < Window
       /\ \A u \in Module \ {t} : f.data[u] = e.data[u]

Join ==
  /\ alive
  /\ \E e \in events, f \in events' :
       Extends(f, e) /\ events' = (events \ {e}) \cup {f}
  /\ UNCHANGED <<stream, alive>>

Open ==
  /\ alive
  /\ \E f \in events' :
       /\ events' = events \cup {f}
       /\ \A e \in events : f.tack >= e.tack + Window
       /\ \E t \in Module :
            /\ Present(f) = {t}
            /\ f.tack = f.data[t][1]
            /\ f.nreadouts = Len(f.data[t])
  /\ UNCHANGED <<stream, alive>>

Oldest(e) == e \in events /\ \A f \in events : e.tack <= f.tack

Due(e) == Oldest(e) /\ \E f \in events : f.tack > e.tack + Horizon

\* The readouts of event e, numbered on: the time is that of one of its modules.
Built(e, leader) ==
  [i \in 1 .. e.nreadouts |->
     [iro  |-> Len(stream) + i,
      tack |-> e.data[leader][i],
      rows |-> [t \in Module |-> IF t \in Present(e) THEN e.data[t][i] ELSE -1]]]

\* Its packets have a row for every readout.
Filled(e) == \A t \in Present(e) : e.nreadouts <= Len(e.data[t])

Complete ==
  /\ alive
  /\ \E e \in events :
       /\ Due(e)
       /\ Filled(e)
       /\ events' = events \ {e}
       /\ \E leader \in Present(e) : stream' = stream \o Built(e, leader)
  /\ UNCHANGED alive

\* The builder fails, and the event it was about to close may be gone.
Fail ==
  /\ alive
  /\ alive' = FALSE
  /\ \/ UNCHANGED events
     \/ \E e \in events : Due(e) /\ events' = events \ {e}
  /\ UNCHANGED stream

Init ==
  /\ events = {}
  /\ stream = << >>
  /\ alive = TRUE

Next == Join \/ Open \/ Complete \/ Fail

Spec == Init /\ [][Next]_vars
=============================================================================
