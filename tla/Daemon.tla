------------------------------- MODULE Daemon -------------------------------
(***************************************************************************)
(* The daemons and the commands that start and stop them:                  *)
(* ssdaq/utils/daemon.py and ssdaq/bin/ssdaq_control.py.                   *)
(*                                                                         *)
(* A component has a pidfile, which its daemon writes after two forks.     *)
(* start trusts the pidfile if a process with the pid exists, whatever     *)
(* process that is, and stop kills it.  Receivers are started and stopped  *)
(* by the commands "daq", writers by the commands "dw".  Daemons end       *)
(* without a word as well, and leave their pidfiles; processes that have   *)
(* nothing to do with ssdaq get pids from the same numbers.                *)
(*                                                                         *)
(* Commands are given one after the other, by a user who lets the daemons  *)
(* of the last one write their pidfiles: start daq sleeps a second after   *)
(* each daemon for that.                                                   *)
(***************************************************************************)
EXTENDS Integers, Sequences, SequencesExt

CONSTANTS
  Config,       \* the receivers of the configuration, in order
  WriterConfig, \* the writers of theirs
  Matches,     \* what a command names -> the components whose name starts like it
  NameLists,   \* the lists of names given to commands
  Pids,        \* process ids
  None,        \* no process
  MaxCommands, \* bound: commands
  MaxAccidents \* bound: daemons that end by themselves, processes of others that start

Receivers == {Config[i] : i \in DOMAIN Config}
Writers == {WriterConfig[i] : i \in DOMAIN WriterConfig}
Components == Receivers \union Writers

ASSUME DaemonAssumption ==
  /\ Config \in Seq(Receivers) /\ WriterConfig \in Seq(Writers)
  /\ \A i, j \in DOMAIN Config : Config[i] = Config[j] => i = j
  /\ \A i, j \in DOMAIN WriterConfig : WriterConfig[i] = WriterConfig[j] => i = j
  /\ Receivers \intersect Writers = {}
  /\ Components \intersect {"mine", "other", "free"} = {}
  /\ None \notin Pids

Foreign == {"mine", "other"}  \* processes of this user and of another

VARIABLES
  owner,   \* pid -> the component it is a daemon of, a foreign process, or "free"
  stage,   \* pid -> of a daemon: "forked", "written", "running"; of any: "dying"
  pidfile, \* component -> the pid in its file, or None
  command, \* the command being executed
  stopped, \* history: components that were stopped, and not started since
  issued, accidents \* counters, bounded

daemonVars == <<owner, stage, pidfile, command, stopped, issued, accidents>>

\* given and names are the names of the command and those of them not found yet, todo the
\* components to go through, killing what stop has read, then what restart does next.
Idle == [op |-> "none", given |-> <<>>, names |-> <<>>, todo |-> <<>>, killing |-> None,
         then |-> "none"]

DaemonInit ==
  /\ owner = [p \in Pids |-> "free"]
  /\ stage = [p \in Pids |-> "none"]
  /\ pidfile = [c \in Components |-> None]
  /\ command = Idle
  /\ stopped = {}
  /\ issued = 0 /\ accidents = 0

Exists(p) == p # None /\ owner[p] # "free"
DaemonsOf(c) == {p \in Pids : owner[p] = c}
Running(c) == \E p \in DaemonsOf(c) : stage[p] = "running"

-----------------------------------------------------------------------------
(* Commands *)

\* A command goes through the components of its configuration, all of them if it names none.
Command(op, components, given, then) ==
  [op |-> op, given |-> given, names |-> given, todo |-> components, killing |-> None,
   then |-> then]

Issue(op, components, given, then) ==
  /\ command = Idle /\ issued < MaxCommands
  /\ \A p \in Pids : stage[p] # "forked"
  /\ command' = Command(op, components, given, then)
  /\ issued' = issued + 1
  /\ UNCHANGED <<owner, stage, pidfile, stopped, accidents>>

\* foundcmp: the first name that the component starts like
Hits(c) == {i \in DOMAIN command.names : c \in Matches[command.names[i]]}
Found(c) == command.given = <<>> \/ Hits(c) # {}

At(c) == command.todo # <<>> /\ c = Head(command.todo)

\* The command goes on with the next component; foundcmp has taken the name from the list.
Done(c) ==
  [command EXCEPT !.todo = Tail(@), !.killing = None,
     !.names = IF Hits(c) = {} THEN @ ELSE RemoveAt(@, Min(Hits(c)))]

Skip(c) ==
  /\ At(c) /\ ~ Found(c)
  /\ command' = Done(c)
  /\ UNCHANGED <<owner, stage, pidfile, stopped, issued, accidents>>

CommandEnds ==
  /\ command.op # "none" /\ command.todo = <<>>
  /\ command' = IF command.then = "none" THEN Idle
                ELSE Command(command.then, Config, command.given, "none")
  /\ UNCHANGED <<owner, stage, pidfile, stopped, issued, accidents>>

-----------------------------------------------------------------------------
(* start *)

Starts(c) == command.op = "start" /\ At(c) /\ Found(c)

\* Mutant: start does not look whether the process exists.
AlreadyRunsNever(c) == FALSE

AlreadyRuns(c) == Exists(pidfile[c])

\* sys.exit(1): with receivers it ends the process made for this one.
Refuse(c) ==
  /\ Starts(c) /\ AlreadyRuns(c)
  /\ command' = IF c \in Writers THEN Idle ELSE Done(c)
  /\ UNCHANGED <<owner, stage, pidfile, stopped, issued, accidents>>

\* daemonize: the parent exits, and with writers that parent is the command.
Fork(c, p) ==
  /\ Starts(c) /\ ~ AlreadyRuns(c) /\ ~ Exists(p)
  /\ owner' = [owner EXCEPT ![p] = c]
  /\ stage' = [stage EXCEPT ![p] = "forked"]
  /\ stopped' = stopped \ {c}
  /\ command' = IF c \in Writers THEN Idle ELSE Done(c)
  /\ UNCHANGED <<pidfile, issued, accidents>>

WritePid(p) ==
  /\ stage[p] = "forked"
  /\ pidfile' = [pidfile EXCEPT ![owner[p]] = p]
  /\ stage' = [stage EXCEPT ![p] = "written"]
  /\ UNCHANGED <<owner, command, stopped, issued, accidents>>

Freed(p) ==
  /\ owner' = [owner EXCEPT ![p] = "free"]
  /\ stage' = [stage EXCEPT ![p] = "none"]

\* run of a receiver binds its sockets, which no other daemon of it holds (OneDaemonEach).
RunReceiver(p) ==
  /\ stage[p] = "written" /\ owner[p] \in Receivers
  /\ stage' = [stage EXCEPT ![p] = "running"]
  /\ UNCHANGED <<owner, pidfile, command, stopped, issued, accidents>>

\* run of a writer raises: the writers have no attribute loop.  The interpreter exits
\* and runs delpid.
RunWriter(p) ==
  /\ stage[p] = "written" /\ owner[p] \in Writers
  /\ pidfile' = [pidfile EXCEPT ![owner[p]] = None]
  /\ Freed(p)
  /\ UNCHANGED <<command, stopped, issued, accidents>>

-----------------------------------------------------------------------------
(* stop *)

Stops(c) == command.op = "stop" /\ At(c) /\ Found(c)

\* No pidfile: for receivers a message, for writers the end of the command.
StopNothing(c) ==
  /\ Stops(c) /\ command.killing = None /\ pidfile[c] = None
  /\ command' = IF c \in Writers THEN Idle ELSE Done(c)
  /\ stopped' = IF c \in Writers THEN stopped ELSE stopped \union {c}
  /\ UNCHANGED <<owner, stage, pidfile, issued, accidents>>

StopReads(c) ==
  /\ Stops(c) /\ command.killing = None /\ pidfile[c] # None /\ c \in Receivers
  /\ command' = [command EXCEPT !.killing = pidfile[c]]
  /\ UNCHANGED <<owner, stage, pidfile, stopped, issued, accidents>>

\* The signal: SIGTERM, sent again until the process is gone
StopKills(c) ==
  /\ Stops(c) /\ command.killing # None
  /\ Exists(command.killing) /\ owner[command.killing] # "other"
  /\ stage[command.killing] # "dying"
  /\ stage' = [stage EXCEPT ![command.killing] = "dying"]
  /\ UNCHANGED <<owner, pidfile, command, stopped, issued, accidents>>

\* Operation not permitted: exit(1) ends the command.
StopForbidden(c) ==
  /\ Stops(c) /\ command.killing # None
  /\ owner[command.killing] = "other"
  /\ command' = Idle
  /\ UNCHANGED <<owner, stage, pidfile, stopped, issued, accidents>>

\* Mutant: one signal is taken to be enough.
GoneAfterSignal(p) == ~ Exists(p) \/ stage[p] = "dying"

Gone(p) == ~ Exists(p)

StopSucceeds(c) ==
  /\ Stops(c) /\ command.killing # None /\ Gone(command.killing)
  /\ pidfile' = [pidfile EXCEPT ![c] = None]
  /\ stopped' = stopped \union {c}
  /\ command' = Done(c)
  /\ UNCHANGED <<owner, stage, issued, accidents>>

\* stop dw sends SIGHUP, once, and leaves the pidfile.
StopWriter(c) ==
  /\ Stops(c) /\ pidfile[c] # None /\ c \in Writers
  /\ stage' = IF Exists(pidfile[c]) /\ owner[pidfile[c]] # "other"
              THEN [stage EXCEPT ![pidfile[c]] = "dying"] ELSE stage
  /\ command' = IF owner[pidfile[c]] = "other" THEN Idle ELSE Done(c)
  /\ UNCHANGED <<owner, pidfile, stopped, issued, accidents>>

-----------------------------------------------------------------------------
(* Processes end and begin; pids are used again. *)

Die(p) ==
  /\ stage[p] = "dying"
  /\ Freed(p)
  /\ UNCHANGED <<pidfile, command, stopped, issued, accidents>>

Crash(p) ==
  /\ owner[p] \in Components /\ stage[p] \in {"written", "running"} /\ accidents < MaxAccidents
  /\ Freed(p)
  /\ accidents' = accidents + 1
  /\ UNCHANGED <<pidfile, command, stopped, issued>>

\* Only those matter whose pid is in a pidfile.
ForeignStarts(p, who) ==
  /\ \E c \in Components : pidfile[c] = p
  /\ ~ Exists(p) /\ accidents < MaxAccidents
  /\ owner' = [owner EXCEPT ![p] = who]
  /\ accidents' = accidents + 1
  /\ UNCHANGED <<stage, pidfile, command, stopped, issued>>

ForeignEnds(p) ==
  /\ owner[p] \in Foreign
  /\ Freed(p)
  /\ UNCHANGED <<pidfile, command, stopped, issued, accidents>>

\* restart is of receivers only.
CommandSteps ==
  \/ \E op \in {"start", "stop"}, names \in NameLists : Issue(op, Config, names, "none")
  \/ \E op \in {"start", "stop"}, names \in NameLists : Issue(op, WriterConfig, names, "none")
  \/ \E names \in NameLists : Issue("stop", Config, names, "start")
  \/ CommandEnds
  \/ \E c \in Components :
       \/ Skip(c)
       \/ Refuse(c)
       \/ \E p \in Pids : Fork(c, p)
       \/ StopNothing(c)
       \/ StopReads(c)
       \/ StopKills(c)
       \/ StopForbidden(c)
       \/ StopSucceeds(c)
       \/ StopWriter(c)

-----------------------------------------------------------------------------
(* Properties *)

\* Whatever ends and whatever pids are used again, a component has one daemon at most, and
\* the pidfile names it from the moment it is written: a stop will find it.
OneDaemonEach ==
  /\ \A c \in Components : \A p, q \in DaemonsOf(c) : p = q
  /\ \A c \in Components : \A p \in DaemonsOf(c) :
       stage[p] \in {"written", "running"} => pidfile[c] = p

\* Once stop has returned for a receiver none of its daemons is left, until a start.
StoppedIsDead == \A c \in stopped : DaemonsOf(c) = {}
=============================================================================
