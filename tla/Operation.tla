------------------------------ MODULE Operation ------------------------------
(***************************************************************************)
(* The daemons of ssdaq at work, and what an operator sees of them: each   *)
(* receiver (ssdaq/core/receiver_server.py, ssdaq/receivers) relays what   *)
(* it receives and reports once a second to the MonitorReceiver            *)
(* (mon_sender.py), which relays the reports to the screen of              *)
(* ssdaq/bin/dash.py; the screen shows a receiver offline that it has not  *)
(* heard of for more than one and a half seconds.                          *)
(*                                                                         *)
(* A tick of the clock is half a second.  A report is relayed and shown in *)
(* less than that, and asyncio wakes what is due in less than that.        *)
(***************************************************************************)
EXTENDS Daemon

CONSTANTS
  Monitor,    \* the MonitorReceiver
  Screened,   \* the receivers that have a place on the screen
  Second,     \* ticks of a second: 2
  Silence,    \* ticks that may pass without news: 3
  MaxBacklog  \* bound: reports kept for the MonitorReceiver, and for the screen

ASSUME OperationAssumption ==
  /\ Monitor \in Receivers
  /\ Screened \subseteq Receivers
  /\ Second \in Nat \ {0} /\ Silence \in Nat
  /\ MaxBacklog \in Nat \ {0}

VARIABLES
  relaying, \* receiver -> whether the coroutine that relays (ct_...) runs
  timer,    \* receiver -> ticks since sendmon went to sleep
  past,     \* receiver -> whether _compute_rates was called before
  gotData,  \* receiver -> got_data
  reports,  \* receiver -> its reports on their way to the MonitorReceiver
  screenQ,  \* reports on their way to the screen
  waiting,  \* ticks that the screen has waited for a report
  unseen,   \* receiver -> ticks since last_seen
  lastMon   \* receiver -> last_mon: the last report shown, or NoReport

monVars == <<relaying, timer, past, gotData, reports>>
dashVars == <<waiting, unseen, lastMon>>
vars == <<daemonVars, monVars, screenQ, dashVars>>

NoReport == [name |-> "none", data |-> FALSE]
Offline == NoReport  \* what render keeps when it shows a receiver offline

OperationInit ==
  /\ DaemonInit
  /\ relaying = [c \in Receivers |-> FALSE]
  /\ timer = [c \in Receivers |-> 0]
  /\ past = [c \in Receivers |-> FALSE]
  /\ gotData = [c \in Receivers |-> FALSE]
  /\ reports = [c \in Receivers |-> <<>>]
  /\ screenQ = <<>>
  /\ waiting = 0
  /\ unseen = [c \in Screened |-> 0]
  /\ lastMon = [c \in Screened |-> NoReport]

-----------------------------------------------------------------------------
(* Receivers *)

\* The constructor of the receiver starts sendmon, run the coroutines named ct_.
ReceiverRuns(p) ==
  /\ RunReceiver(p)
  /\ relaying' = [relaying EXCEPT ![owner[p]] = TRUE]
  /\ UNCHANGED <<timer, past, gotData, reports, screenQ, dashVars>>

register_data_packet(c) == gotData' = [gotData EXCEPT ![c] = TRUE]

\* A packet is received, registered and published.
Relay(c) ==
  /\ Running(c) /\ relaying[c] /\ c # Monitor
  /\ ~ gotData[c]
  /\ register_data_packet(c)
  /\ UNCHANGED <<daemonVars, relaying, timer, past, reports, screenQ, dashVars>>

\* A coroutine ends with an exception, of a bunch of triggers that does not parse or of the
\* data base; the loop runs on.
RelayEnds(c) ==
  /\ Running(c) /\ relaying[c] /\ c # Monitor
  /\ relaying' = [relaying EXCEPT ![c] = FALSE]
  /\ UNCHANGED <<daemonVars, timer, past, gotData, reports, screenQ, dashVars>>

Due(c) == Running(c) /\ timer[c] = Second

Report(c) ==
  /\ reports' = [reports EXCEPT ![c] =
                   IF Len(@) < MaxBacklog THEN Append(@, [name |-> c, data |-> gotData[c]]) ELSE @]
  /\ gotData' = [gotData EXCEPT ![c] = FALSE]

\* One round of sendmon; in the first there is no rate yet, and no report.
SendMon(c) ==
  /\ Due(c)
  /\ timer' = [timer EXCEPT ![c] = 0]
  /\ past' = [past EXCEPT ![c] = TRUE]
  /\ IF past[c] THEN Report(c) ELSE UNCHANGED <<reports, gotData>>
  /\ UNCHANGED <<daemonVars, relaying, screenQ, dashVars>>

\* The MonitorReceiver registers and publishes a report, its own too.
RelayReport(c) ==
  /\ Running(Monitor) /\ reports[c] # <<>> /\ Len(screenQ) < MaxBacklog
  /\ screenQ' = Append(screenQ, Head(reports[c]))
  /\ reports' = [reports EXCEPT ![c] = Tail(@)]
  /\ register_data_packet(Monitor)
  /\ UNCHANGED <<daemonVars, relaying, timer, past, dashVars>>

\* With a daemon goes its memory, and the reports it could not send.
DaemonEnds(p) ==
  LET Reset(f, initially) == [c \in Receivers |-> IF c = owner[p] THEN initially ELSE f[c]]
  IN  /\ Die(p) \/ Crash(p)
      /\ relaying' = Reset(relaying, FALSE)
      /\ timer' = Reset(timer, 0)
      /\ past' = Reset(past, FALSE)
      /\ gotData' = Reset(gotData, FALSE)
      /\ reports' = IF Running(Monitor) /\ owner[p] # Monitor
                    THEN reports ELSE Reset(reports, <<>>)
      /\ UNCHANGED <<screenQ, dashVars>>

-----------------------------------------------------------------------------
(* The screen *)

\* Mutant: every receiver is taken to be seen with any report.
RenderAll(mon, seen, shown) ==
  LET New(c) == CASE mon.name = c        -> [unseen |-> 0, mon |-> mon]
                  [] mon.name # c /\ seen[c] > Silence -> [unseen |-> 0, mon |-> Offline]
                  [] OTHER               -> [unseen |-> 0, mon |-> shown[c]]
  IN  [c \in Screened |-> New(c)]

\* render of each receiver: a report of another, or none, counts only after Silence.
Render(mon, seen, shown) ==
  LET New(c) == CASE mon.name = c        -> [unseen |-> 0, mon |-> mon]
                  [] mon.name # c /\ seen[c] > Silence -> [unseen |-> 0, mon |-> Offline]
                  [] OTHER               -> [unseen |-> seen[c], mon |-> shown[c]]
  IN  [c \in Screened |-> New(c)]

\* One round of the loop, with a report or after a second without
Show(mon, seen, shown) ==
  /\ unseen' = [c \in Screened |-> Render(mon, seen, shown)[c].unseen]
  /\ lastMon' = [c \in Screened |-> Render(mon, seen, shown)[c].mon]
  /\ waiting' = 0
  /\ UNCHANGED monVars

ScreenGets ==
  /\ screenQ # <<>>
  /\ Show(Head(screenQ), unseen, lastMon)
  /\ screenQ' = Tail(screenQ)
  /\ UNCHANGED daemonVars

ScreenTimesOut ==
  /\ screenQ = <<>> /\ waiting = Second
  /\ Show(NoReport, unseen, lastMon)
  /\ UNCHANGED <<daemonVars, screenQ>>

\* A round after the size of the terminal has changed: the last report of each receiver is
\* rendered once more, and counts as news of it.
ScreenRedraws ==
  /\ screenQ # <<>> \/ waiting = Second
  /\ accidents < MaxAccidents
  /\ accidents' = accidents + 1
  /\ LET redrawn == [c \in Screened |-> Render(lastMon[c], unseen, lastMon)[c]]
     IN  Show(IF screenQ = <<>> THEN NoReport ELSE Head(screenQ),
              [c \in Screened |-> redrawn[c].unseen], [c \in Screened |-> redrawn[c].mon])
  /\ screenQ' = IF screenQ = <<>> THEN <<>> ELSE Tail(screenQ)
  /\ UNCHANGED <<owner, stage, pidfile, command, stopped, issued>>

-----------------------------------------------------------------------------
(* The clock *)

Tick ==
  /\ screenQ = <<>> /\ waiting < Second
  /\ \A p \in Pids : stage[p] \in {"none", "running"}
  /\ \A c \in Receivers : ~ Due(c) /\ (Running(Monitor) => reports[c] = <<>>)
  /\ waiting' = waiting + 1
  /\ timer' = [c \in Receivers |-> IF Running(c) THEN timer[c] + 1 ELSE 0]
  /\ unseen' = [c \in Screened |-> IF unseen[c] > Silence THEN unseen[c] ELSE unseen[c] + 1]
  /\ UNCHANGED <<daemonVars, relaying, past, gotData, reports, screenQ, lastMon>>

-----------------------------------------------------------------------------
DaemonSteps(p) ==
  \/ WritePid(p)
  \/ RunWriter(p)
  \/ \E who \in Foreign : ForeignStarts(p, who)
  \/ ForeignEnds(p)

Next ==
  \/ CommandSteps /\ UNCHANGED <<monVars, screenQ, dashVars>>
  \/ \E p \in Pids : DaemonSteps(p) /\ UNCHANGED <<monVars, screenQ, dashVars>>
  \/ \E p \in Pids : ReceiverRuns(p) \/ DaemonEnds(p)
  \/ \E c \in Receivers : Relay(c) \/ RelayEnds(c) \/ SendMon(c) \/ RelayReport(c)
  \/ ScreenGets
  \/ ScreenTimesOut
  \/ ScreenRedraws
  \/ Tick

Spec == OperationInit /\ [][Next]_vars

\* Daemons, once forked, come up, dying processes die, a loop runs what is due, and time
\* passes.  Nothing makes a user give commands or data arrive.
FairSpec ==
  /\ Spec
  /\ \A p \in Pids : WF_vars((WritePid(p) \/ RunWriter(p)) /\ UNCHANGED <<monVars, screenQ, dashVars>>)
  /\ \A p \in Pids : WF_vars(ReceiverRuns(p)) /\ WF_vars(stage[p] = "dying" /\ DaemonEnds(p))
  /\ \A c \in Receivers : WF_vars(SendMon(c)) /\ WF_vars(RelayReport(c))
  /\ WF_vars(ScreenGets) /\ WF_vars(ScreenTimesOut) /\ WF_vars(Tick)

-----------------------------------------------------------------------------
(* Properties *)

ShownOnline(c) == lastMon[c].name = c

\* The screen is right in the end: once receivers stop coming and going, it shows those
\* online, for good, that run beside a running MonitorReceiver, and all others offline; and
\* it reports no data for one whose relaying coroutine has ended.
ScreenSettles ==
  <>[]\A c \in Screened :
        /\ ShownOnline(c) <=> (Running(c) /\ Running(Monitor))
        /\ ShownOnline(c) /\ lastMon[c].data => relaying[c]
=============================================================================
