---------------------------- MODULE DaemonProofs ----------------------------
(***************************************************************************)
(* Theorems about the daemons and the commands (Daemon) at work            *)
(* (Operation), for every configuration, all lists of names, every set of  *)
(* pids, and however many daemons die and pids are used again.             *)
(***************************************************************************)
EXTENDS Operation, SequenceTheorems, TLAPS

NoRepeats(s) == \A i, j \in DOMAIN s : s[i] = s[j] => i = j

Typed ==
  /\ owner \in [Pids -> Components \union Foreign \union {"free"}]
  /\ stage \in [Pids -> {"none", "forked", "written", "running", "dying"}]
  /\ pidfile \in [Components -> Pids \union {None}]
  /\ stopped \subseteq Components

\* A command goes once through components; a restart's stop has its start to come.
CommandTyped ==
  /\ command = [op |-> command.op, given |-> command.given, names |-> command.names,
                todo |-> command.todo, killing |-> command.killing, then |-> command.then]
  /\ command.op \in {"none", "start", "stop"}
  /\ command.todo \in Seq(Components)
  /\ NoRepeats(command.todo)
  /\ command.killing \in Pids \union {None}
  /\ command.then \in {"none", "start"}
  /\ command.then # "none" => command.op = "stop"

\* What has not yet come to its end is a daemon.
StagesAreOfDaemons ==
  \A p \in Pids : stage[p] \in {"forked", "written", "running"} => owner[p] \in Components

OneEach == \A p, q \in Pids : owner[p] \in Components /\ owner[p] = owner[q] => p = q

\* Also a daemon that got its signal: start and stop find it until it is gone.
InPidfile ==
  \A p \in Pids : owner[p] \in Components /\ stage[p] # "forked" => pidfile[owner[p]] = p

\* While a daemon has no pidfile yet no command will come to its component.
ForkedIsBehind ==
  \A p \in Pids : stage[p] = "forked" =>
    /\ command.op # "stop"
    /\ \A i \in DOMAIN command.todo : command.todo[i] # owner[p]

\* stop kills the process in the pidfile of the receiver that it is at.
KillsNamed ==
  command.killing # None =>
    /\ command.op = "stop"
    /\ command.todo # << >>
    /\ Head(command.todo) \in Receivers
    /\ pidfile[Head(command.todo)] = command.killing

DInv ==
  /\ Typed
  /\ CommandTyped
  /\ StagesAreOfDaemons
  /\ OneEach
  /\ InPidfile
  /\ ForkedIsBehind
  /\ KillsNamed
  /\ StoppedIsDead

\* Components are no other processes, and receivers no writers.
LEMMA Names ==
  /\ "free" \notin Components /\ "mine" \notin Components /\ "other" \notin Components
  /\ None \notin Pids
  /\ Receivers \subseteq Components /\ Writers \subseteq Components
  /\ Receivers \intersect Writers = {}
BY DaemonAssumption DEF Components

\* A configuration starts no receiver twice.
LEMMA Configurations ==
  ASSUME NEW s \in {Config, WriterConfig}
  PROVE  s \in Seq(Components) /\ NoRepeats(s)
BY DaemonAssumption DEF Components, NoRepeats

\* What is left to go through when a command has dealt with its first component
LEMMA Todo ==
  ASSUME NEW s \in Seq(Components), s # << >>, NoRepeats(s)
  PROVE  /\ Tail(s) \in Seq(Components)
         /\ NoRepeats(Tail(s))
         /\ \A i \in DOMAIN Tail(s) : /\ Tail(s)[i] # Head(s)
                                      /\ \E j \in DOMAIN s : Tail(s)[i] = s[j]
<1>1. /\ Tail(s) \in Seq(Components) /\ Len(s) \in Nat /\ Len(s) >= 1
      /\ Len(Tail(s)) = Len(s) - 1 /\ Head(s) = s[1]
      /\ \A i \in 1 .. Len(s) - 1 : Tail(s)[i] = s[i + 1]
  BY HeadTailProperties, EmptySeq
<1>2. DOMAIN s = 1 .. Len(s) /\ DOMAIN Tail(s) = 1 .. Len(s) - 1
  BY <1>1
<1>3. \A i \in DOMAIN Tail(s) : i + 1 \in DOMAIN s /\ Tail(s)[i] = s[i + 1] /\ 1 \in DOMAIN s /\ i + 1 # 1
  BY <1>1, <1>2
<1>4. \A i, j \in DOMAIN Tail(s) : Tail(s)[i] = Tail(s)[j] => i = j
  <2>1. SUFFICES ASSUME NEW i \in DOMAIN Tail(s), NEW j \in DOMAIN Tail(s), Tail(s)[i] = Tail(s)[j]
                 PROVE  i = j
    OBVIOUS
  <2>2. i + 1 = j + 1
    BY <1>3, <2>1 DEF NoRepeats
  <2>3. QED
    BY <1>2, <2>2
<1>5. \A i \in DOMAIN Tail(s) : Tail(s)[i] # Head(s)
  BY <1>1, <1>3 DEF NoRepeats
<1>6. QED
  BY <1>1, <1>3, <1>4, <1>5 DEF NoRepeats

-----------------------------------------------------------------------------
(* The command *)

\* The parts of the invariant about the command, when it goes on with the next component
LEMMA GoesOn ==
  ASSUME DInv, NEW c \in Components, At(c), command' = Done(c)
  PROVE  /\ CommandTyped'
         /\ command'.op = command.op
         /\ command'.killing = None
         /\ \A i \in DOMAIN command'.todo :
              /\ command'.todo[i] # c
              /\ \E j \in DOMAIN command.todo : command'.todo[i] = command.todo[j]
<1>1. /\ command'.op = command.op /\ command'.todo = Tail(command.todo)
      /\ command'.killing = None /\ command'.then = command.then
      /\ command' = [op |-> command'.op, given |-> command'.given, names |-> command'.names,
                     todo |-> command'.todo, killing |-> command'.killing, then |-> command'.then]
  BY DEF DInv, CommandTyped, Done
<1>2. /\ Tail(command.todo) \in Seq(Components)
      /\ NoRepeats(Tail(command.todo))
      /\ \A i \in DOMAIN Tail(command.todo) :
           /\ Tail(command.todo)[i] # c
           /\ \E j \in DOMAIN command.todo : Tail(command.todo)[i] = command.todo[j]
  BY Todo DEF DInv, CommandTyped, At
<1>3. QED
  BY <1>1, <1>2 DEF DInv, CommandTyped

\* The parts of the invariant about the command, when it ends
LEMMA Ends ==
  ASSUME command' = Idle
  PROVE  /\ CommandTyped'
         /\ command'.op = "none" /\ command'.killing = None /\ DOMAIN command'.todo = {}
BY DEF Idle, CommandTyped, NoRepeats

\* The same, when a command is given or a restart goes on to its start
LEMMA Begins ==
  ASSUME NEW op \in {"start", "stop"}, NEW s \in {Config, WriterConfig}, NEW given,
         NEW then \in {"none", "start"}, then # "none" => op = "stop",
         command' = Command(op, s, given, then)
  PROVE  CommandTyped' /\ command'.killing = None
BY Configurations DEF Command, CommandTyped

\* A command that goes on, ends or is refused without a change of the processes
LEMMA OnlyCommand ==
  ASSUME DInv, UNCHANGED <<owner, stage, pidfile, stopped>>,
         \/ command' = Idle
         \/ \E c \in Components : At(c) /\ command' = Done(c)
  PROVE  DInv'
<1>1. Typed' /\ StagesAreOfDaemons' /\ OneEach' /\ InPidfile' /\ StoppedIsDead'
  BY DEF DInv, Typed, StagesAreOfDaemons, OneEach, InPidfile, StoppedIsDead, DaemonsOf
<1>2. CommandTyped' /\ command'.killing = None
  BY GoesOn, Ends
<1>3. ForkedIsBehind'
  <2>1. CASE command' = Idle
    BY <2>1, Ends DEF ForkedIsBehind
  <2>2. ASSUME NEW c \in Components, At(c), command' = Done(c)
        PROVE  ForkedIsBehind'
    BY <2>2, GoesOn DEF DInv, ForkedIsBehind
  <2>3. QED
    BY <2>1, <2>2
<1>4. QED
  BY <1>1, <1>2, <1>3 DEF DInv, KillsNamed

-----------------------------------------------------------------------------
(* The processes *)

\* Processes that end, begin or are killed change neither the command nor the pidfiles.
LEMMA ProcessEnds ==
  ASSUME DInv, NEW p \in Pids, Freed(p), UNCHANGED <<pidfile, command, stopped>>
  PROVE  DInv'
<1>1. /\ owner' = [owner EXCEPT ![p] = "free"] /\ stage' = [stage EXCEPT ![p] = "none"]
  BY DEF Freed
<1>2. Typed' /\ CommandTyped' /\ KillsNamed'
  BY <1>1 DEF DInv, Typed, CommandTyped, KillsNamed
<1>3. \A q \in Pids : IF q = p THEN owner'[q] = "free" /\ stage'[q] = "none"
                                ELSE owner'[q] = owner[q] /\ stage'[q] = stage[q]
  BY <1>1 DEF DInv, Typed
<1>4. StagesAreOfDaemons' /\ OneEach' /\ InPidfile' /\ ForkedIsBehind' /\ StoppedIsDead'
  <2>1. StagesAreOfDaemons' /\ OneEach'
    BY <1>3, Names DEF DInv, StagesAreOfDaemons, OneEach
  <2>2. InPidfile' /\ ForkedIsBehind'
    BY <1>3, Names DEF DInv, InPidfile, ForkedIsBehind
  <2>3. StoppedIsDead'
    BY <1>3, Names DEF DInv, Typed, StoppedIsDead, DaemonsOf
  <2>4. QED
    BY <2>1, <2>2, <2>3
<1>5. QED
  BY <1>2, <1>4 DEF DInv

\* A process that is no daemon gets a pid that is in a pidfile.
LEMMA ForeignBegins ==
  ASSUME DInv, NEW p \in Pids, NEW who \in Foreign, ForeignStarts(p, who)
  PROVE  DInv'
<1>1. /\ owner[p] = "free" /\ owner' = [owner EXCEPT ![p] = who]
      /\ UNCHANGED <<stage, pidfile, command, stopped>>
  BY Names DEF ForeignStarts, Exists
<1>2. who \notin Components /\ who \in {"mine", "other"}
  BY Names DEF Foreign
<1>3. Typed' /\ CommandTyped' /\ KillsNamed'
  BY <1>1, <1>2 DEF DInv, Typed, CommandTyped, KillsNamed, Foreign
<1>4. \A q \in Pids : owner'[q] = IF q = p THEN who ELSE owner[q]
  BY <1>1 DEF DInv, Typed
<1>5. stage[p] \notin {"forked", "written", "running"}
  BY <1>1, Names DEF DInv, StagesAreOfDaemons
<1>6. StagesAreOfDaemons' /\ OneEach' /\ InPidfile' /\ ForkedIsBehind' /\ StoppedIsDead'
  <2>1. StagesAreOfDaemons' /\ OneEach'
    BY <1>1, <1>2, <1>4, <1>5 DEF DInv, StagesAreOfDaemons, OneEach
  <2>2. InPidfile' /\ ForkedIsBehind'
    BY <1>1, <1>2, <1>4, <1>5 DEF DInv, InPidfile, ForkedIsBehind
  <2>3. StoppedIsDead'
    BY <1>1, <1>2, <1>4 DEF DInv, Typed, StoppedIsDead, DaemonsOf
  <2>4. QED
    BY <2>1, <2>2, <2>3
<1>7. QED
  BY <1>3, <1>6 DEF DInv

\* A signal to a process, while a stop is at its component
LEMMA Signalled ==
  ASSUME DInv, NEW p \in Pids, command.op = "stop", stage' = [stage EXCEPT ![p] = "dying"],
         UNCHANGED <<owner, pidfile, stopped>>,
         \/ command' = command
         \/ command' = Idle
         \/ \E c \in Components : At(c) /\ command' = Done(c)
  PROVE  DInv'
<1>1. /\ Typed' /\ OneEach' /\ StoppedIsDead'
  BY DEF DInv, Typed, OneEach, StoppedIsDead, DaemonsOf
<1>2. \A q \in Pids : stage'[q] = IF q = p THEN "dying" ELSE stage[q]
  BY DEF DInv, Typed
<1>3. \A q \in Pids : stage[q] # "forked"
  BY DEF DInv, ForkedIsBehind
<1>4. StagesAreOfDaemons' /\ InPidfile' /\ ForkedIsBehind'
  BY <1>2, <1>3 DEF DInv, StagesAreOfDaemons, InPidfile, ForkedIsBehind
<1>5. CommandTyped' /\ KillsNamed'
  <2>1. CASE command' = command
    BY <2>1 DEF DInv, CommandTyped, KillsNamed
  <2>2. CASE command' # command
    BY <2>2, GoesOn, Ends DEF KillsNamed
  <2>3. QED
    BY <2>1, <2>2
<1>6. QED
  BY <1>1, <1>4, <1>5 DEF DInv

\* No other daemon of the component is left when start finds no process of its pidfile:
\* one with a pidfile would be that process, and one without would be behind the command.
LEMMA Forked ==
  ASSUME DInv, NEW c \in Components, NEW p \in Pids, Fork(c, p)
  PROVE  DInv'
<1>1. /\ command.op = "start" /\ At(c) /\ ~ Exists(pidfile[c]) /\ owner[p] = "free"
      /\ owner' = [owner EXCEPT ![p] = c] /\ stage' = [stage EXCEPT ![p] = "forked"]
      /\ stopped' = stopped \ {c} /\ pidfile' = pidfile
      /\ command' = Idle \/ command' = Done(c)
  BY Names DEF Fork, Starts, AlreadyRuns, Exists
<1>2. \A q \in Pids : IF q = p THEN owner'[q] = c /\ stage'[q] = "forked"
                                ELSE owner'[q] = owner[q] /\ stage'[q] = stage[q]
  BY <1>1 DEF DInv, Typed
<1>3. \A q \in Pids : owner[q] # c
  <2>1. SUFFICES ASSUME NEW q \in Pids, owner[q] = c
                 PROVE  FALSE
    OBVIOUS
  <2>2. CASE stage[q] = "forked"
    <3>1. command.todo # << >> /\ c = Head(command.todo) /\ command.todo \in Seq(Components)
      BY <1>1 DEF At, DInv, CommandTyped
    <3>2. 1 \in DOMAIN command.todo /\ command.todo[1] = c
      BY <3>1, EmptySeq
    <3>3. QED
      BY <2>1, <2>2, <3>2 DEF DInv, ForkedIsBehind
  <2>3. CASE stage[q] # "forked"
    <3>1. pidfile[c] = q
      BY <2>1, <2>3 DEF DInv, InPidfile
    <3>2. QED
      BY <1>1, <2>1, <3>1, Names DEF Exists
  <2>4. QED
    BY <2>2, <2>3
<1>4. Typed'
  BY <1>1 DEF DInv, Typed
<1>5. /\ CommandTyped' /\ command'.killing = None /\ command'.op # "stop"
      /\ \A i \in DOMAIN command'.todo :
           /\ command'.todo[i] # c
           /\ \E j \in DOMAIN command.todo : command'.todo[i] = command.todo[j]
  BY <1>1, GoesOn, Ends
<1>6. ForkedIsBehind'
  <2>1. SUFFICES ASSUME NEW q \in Pids, stage'[q] = "forked", NEW i \in DOMAIN command'.todo
                 PROVE  command'.todo[i] # owner'[q]
    BY <1>5 DEF ForkedIsBehind
  <2>2. CASE q = p
    BY <2>2, <1>2, <1>5
  <2>3. CASE q # p
    BY <2>1, <2>3, <1>2, <1>5 DEF DInv, ForkedIsBehind
  <2>4. QED
    BY <2>2, <2>3
<1>7. StagesAreOfDaemons' /\ OneEach' /\ InPidfile' /\ StoppedIsDead'
  BY <1>1, <1>2, <1>3 DEF DInv, StagesAreOfDaemons, OneEach, InPidfile, StoppedIsDead, DaemonsOf
<1>8. QED
  BY <1>4, <1>5, <1>6, <1>7 DEF DInv, KillsNamed

\* The daemon that writes its pidfile is the only one of its component.
LEMMA PidWritten ==
  ASSUME DInv, NEW p \in Pids, WritePid(p)
  PROVE  DInv'
<1>1. /\ stage[p] = "forked" /\ owner[p] \in Components /\ command.op # "stop"
      /\ pidfile' = [pidfile EXCEPT ![owner[p]] = p] /\ stage' = [stage EXCEPT ![p] = "written"]
      /\ UNCHANGED <<owner, command, stopped>>
  BY DEF WritePid, DInv, StagesAreOfDaemons, ForkedIsBehind
<1>2. /\ \A q \in Pids : stage'[q] = IF q = p THEN "written" ELSE stage[q]
      /\ \A c \in Components : pidfile'[c] = IF c = owner[p] THEN p ELSE pidfile[c]
  BY <1>1 DEF DInv, Typed
<1>3. Typed' /\ CommandTyped' /\ OneEach' /\ StoppedIsDead'
  BY <1>1 DEF DInv, Typed, CommandTyped, OneEach, StoppedIsDead, DaemonsOf
<1>4. StagesAreOfDaemons' /\ ForkedIsBehind' /\ KillsNamed'
  BY <1>1, <1>2 DEF DInv, StagesAreOfDaemons, ForkedIsBehind, KillsNamed
<1>5. InPidfile'
  BY <1>1, <1>2 DEF DInv, InPidfile, OneEach
<1>6. QED
  BY <1>3, <1>4, <1>5 DEF DInv

\* A writer's daemon ends at its start and takes its pidfile along; no stop is killing by it.
LEMMA WriterFails ==
  ASSUME DInv, NEW p \in Pids, RunWriter(p)
  PROVE  DInv'
<1>1. /\ stage[p] = "written" /\ owner[p] \in Writers /\ owner[p] \in Components
      /\ pidfile' = [pidfile EXCEPT ![owner[p]] = None] /\ Freed(p)
      /\ UNCHANGED <<command, stopped>>
  BY Names DEF RunWriter
<1>2. \A q \in Pids : IF q = p THEN owner'[q] = "free" /\ stage'[q] = "none"
                                ELSE owner'[q] = owner[q] /\ stage'[q] = stage[q]
  BY <1>1 DEF DInv, Typed, Freed
<1>3. \A c \in Components : pidfile'[c] = IF c = owner[p] THEN None ELSE pidfile[c]
  BY <1>1 DEF DInv, Typed
<1>4. Typed' /\ CommandTyped'
  BY <1>1 DEF DInv, Typed, CommandTyped, Freed
<1>5. StagesAreOfDaemons' /\ OneEach' /\ ForkedIsBehind' /\ StoppedIsDead'
  <2>1. StagesAreOfDaemons' /\ OneEach'
    BY <1>2, Names DEF DInv, StagesAreOfDaemons, OneEach
  <2>2. command' = command /\ stopped' = stopped
    BY <1>1
  <2>3. ForkedIsBehind'
    BY <1>2, <2>2 DEF DInv, ForkedIsBehind
  <2>4. StoppedIsDead'
    BY <1>2, <2>2, Names DEF DInv, Typed, StoppedIsDead, DaemonsOf
  <2>5. QED
    BY <2>1, <2>3, <2>4
<1>6. InPidfile'
  BY <1>1, <1>2, <1>3, Names DEF DInv, InPidfile, OneEach
<1>7. KillsNamed'
  BY <1>1, <1>3, Names DEF DInv, KillsNamed
<1>8. QED
  BY <1>4, <1>5, <1>6, <1>7 DEF DInv

\* A receiver begins to run.
LEMMA ReceiverComesUp ==
  ASSUME DInv, NEW p \in Pids, RunReceiver(p)
  PROVE  DInv'
<1>1. /\ stage[p] = "written" /\ stage' = [stage EXCEPT ![p] = "running"]
      /\ UNCHANGED <<owner, pidfile, command, stopped>>
  BY DEF RunReceiver
<1>2. \A q \in Pids : stage'[q] = IF q = p THEN "running" ELSE stage[q]
  BY <1>1 DEF DInv, Typed
<1>3. Typed' /\ CommandTyped' /\ OneEach' /\ StoppedIsDead' /\ KillsNamed'
  BY <1>1 DEF DInv, Typed, CommandTyped, OneEach, StoppedIsDead, DaemonsOf, KillsNamed
<1>4. StagesAreOfDaemons' /\ InPidfile' /\ ForkedIsBehind'
  BY <1>1, <1>2 DEF DInv, StagesAreOfDaemons, InPidfile, ForkedIsBehind
<1>5. QED
  BY <1>3, <1>4 DEF DInv

-----------------------------------------------------------------------------
(* The steps *)

\* stop has returned for a receiver when the pid of its pidfile, or the pidfile, is gone.
LEMMA Stopped ==
  ASSUME DInv, NEW c \in Components, command.op = "stop", At(c), command' = Done(c),
         UNCHANGED <<owner, stage>>, stopped' = stopped \union {c},
         \/ pidfile[c] = None /\ pidfile' = pidfile
         \/ /\ command.killing # None /\ ~ Exists(command.killing)
            /\ pidfile' = [pidfile EXCEPT ![c] = None]
  PROVE  DInv'
<1>1. \A p \in Pids : stage[p] # "forked" /\ (owner[p] = c => pidfile[c] = p)
  BY DEF DInv, ForkedIsBehind, InPidfile
<1>2. \A p \in Pids : owner[p] # c
  <2>1. SUFFICES ASSUME NEW p \in Pids, owner[p] = c
                 PROVE  FALSE
    OBVIOUS
  <2>2. pidfile[c] = p /\ p # None
    BY <1>1, <2>1, Names
  <2>3. command.killing = p
    BY <2>2 DEF DInv, KillsNamed, At
  <2>4. Exists(p)
    BY <2>1, <2>2, Names DEF Exists
  <2>5. QED
    BY <2>2, <2>3, <2>4
<1>3. /\ CommandTyped' /\ command'.op = "stop" /\ command'.killing = None
  BY GoesOn
<1>4. \A d \in Components : d # c => pidfile'[d] = pidfile[d]
  BY DEF DInv, Typed
<1>5. Typed' /\ StagesAreOfDaemons' /\ OneEach'
  BY DEF DInv, Typed, StagesAreOfDaemons, OneEach
<1>6. InPidfile'
  BY <1>2, <1>4 DEF DInv, InPidfile
<1>7. ForkedIsBehind' /\ KillsNamed'
  BY <1>1, <1>3 DEF ForkedIsBehind, KillsNamed
<1>8. StoppedIsDead'
  BY <1>2 DEF DInv, StoppedIsDead, DaemonsOf
<1>9. QED
  BY <1>3, <1>5, <1>6, <1>7, <1>8 DEF DInv

\* A command is given when every daemon has its pidfile.
LEMMA Issued ==
  ASSUME DInv, NEW op \in {"start", "stop"}, NEW s \in {Config, WriterConfig}, NEW names,
         NEW then \in {"none", "start"}, then # "none" => op = "stop", Issue(op, s, names, then)
  PROVE  DInv'
<1>1. /\ \A p \in Pids : stage[p] # "forked"
      /\ command' = Command(op, s, names, then)
      /\ UNCHANGED <<owner, stage, pidfile, stopped>>
  BY DEF Issue
<1>2. CommandTyped' /\ command'.killing = None
  BY <1>1, Begins
<1>3. Typed' /\ StagesAreOfDaemons' /\ OneEach' /\ InPidfile' /\ StoppedIsDead'
  BY <1>1 DEF DInv, Typed, StagesAreOfDaemons, OneEach, InPidfile, StoppedIsDead, DaemonsOf
<1>4. ForkedIsBehind' /\ KillsNamed'
  BY <1>1, <1>2 DEF ForkedIsBehind, KillsNamed
<1>5. QED
  BY <1>2, <1>3, <1>4 DEF DInv

\* The last component is done; a restart goes on to its start with every pidfile written.
LEMMA Ended ==
  ASSUME DInv, CommandEnds
  PROVE  DInv'
<1>1. CASE command.then = "none"
  BY <1>1, OnlyCommand DEF CommandEnds
<1>2. CASE command.then # "none"
  <2>1. /\ command' = Command(command.then, Config, command.given, "none")
        /\ command.then = "start" /\ command.op = "stop"
        /\ UNCHANGED <<owner, stage, pidfile, stopped>>
    BY <1>2 DEF CommandEnds, DInv, CommandTyped
  <2>2. \A p \in Pids : stage[p] # "forked"
    BY <2>1 DEF DInv, ForkedIsBehind
  <2>3. CommandTyped' /\ command'.killing = None
    BY <2>1, Begins
  <2>4. Typed' /\ StagesAreOfDaemons' /\ OneEach' /\ InPidfile' /\ StoppedIsDead'
    BY <2>1 DEF DInv, Typed, StagesAreOfDaemons, OneEach, InPidfile, StoppedIsDead, DaemonsOf
  <2>5. ForkedIsBehind' /\ KillsNamed'
    BY <2>1, <2>2, <2>3 DEF ForkedIsBehind, KillsNamed
  <2>6. QED
    BY <2>3, <2>4, <2>5 DEF DInv
<1>3. QED
  BY <1>1, <1>2

\* stop reads the pidfile that it will kill by.
LEMMA PidRead ==
  ASSUME DInv, NEW c \in Components, StopReads(c)
  PROVE  DInv'
<1>1. /\ command.op = "stop" /\ At(c) /\ c \in Receivers
      /\ command' = [command EXCEPT !.killing = pidfile[c]]
      /\ UNCHANGED <<owner, stage, pidfile, stopped>>
  BY DEF StopReads, Stops
<1>2. /\ command'.op = command.op /\ command'.todo = command.todo
      /\ command'.then = command.then /\ command'.killing = pidfile[c]
      /\ command' = [op |-> command'.op, given |-> command'.given, names |-> command'.names,
                     todo |-> command'.todo, killing |-> command'.killing, then |-> command'.then]
  BY <1>1 DEF DInv, CommandTyped
<1>3. Typed' /\ StagesAreOfDaemons' /\ OneEach' /\ InPidfile' /\ StoppedIsDead'
  BY <1>1 DEF DInv, Typed, StagesAreOfDaemons, OneEach, InPidfile, StoppedIsDead, DaemonsOf
<1>4. CommandTyped' /\ ForkedIsBehind' /\ KillsNamed'
  BY <1>1, <1>2 DEF DInv, Typed, CommandTyped, ForkedIsBehind, KillsNamed, At
<1>5. QED
  BY <1>3, <1>4 DEF DInv

\* Every step of a command preserves the invariant.
LEMMA CommandStep ==
  ASSUME DInv, CommandSteps
  PROVE  DInv'
<1>1. ASSUME NEW op \in {"start", "stop"}, NEW names \in NameLists,
             Issue(op, Config, names, "none") \/ Issue(op, WriterConfig, names, "none")
      PROVE  DInv'
  BY <1>1, Issued
<1>2. ASSUME NEW names \in NameLists, Issue("stop", Config, names, "start")
      PROVE  DInv'
  BY <1>2, Issued
<1>3. CASE CommandEnds
  BY <1>3, Ended
<1>4. ASSUME NEW c \in Components, Skip(c) \/ Refuse(c)
      PROVE  DInv'
  BY <1>4, OnlyCommand DEF Skip, Refuse, Starts
<1>5. ASSUME NEW c \in Components, NEW p \in Pids, Fork(c, p)
      PROVE  DInv'
  BY <1>5, Forked
<1>6. ASSUME NEW c \in Components, StopNothing(c)
      PROVE  DInv'
  <2>1. CASE c \in Writers
    BY <1>6, <2>1, OnlyCommand DEF StopNothing
  <2>2. CASE c \notin Writers
    BY <1>6, <2>2, Stopped DEF StopNothing, Stops
  <2>3. QED
    BY <2>1, <2>2
<1>7. ASSUME NEW c \in Components, StopReads(c)
      PROVE  DInv'
  BY <1>7, PidRead
<1>8. ASSUME NEW c \in Components, StopKills(c)
      PROVE  DInv'
  <2>1. command.killing \in Pids
    BY <1>8 DEF StopKills, DInv, CommandTyped
  <2>2. QED
    BY <1>8, <2>1, Signalled DEF StopKills, Stops
<1>9. ASSUME NEW c \in Components, StopForbidden(c)
      PROVE  DInv'
  BY <1>9, OnlyCommand DEF StopForbidden
<1>10. ASSUME NEW c \in Components, StopSucceeds(c)
       PROVE  DInv'
  BY <1>10, Stopped DEF StopSucceeds, Stops, Gone
<1>11. ASSUME NEW c \in Components, StopWriter(c)
       PROVE  DInv'
  <2>1. /\ command.op = "stop" /\ At(c) /\ pidfile[c] \in Pids
        /\ command' = Idle \/ command' = Done(c)
        /\ UNCHANGED <<owner, pidfile, stopped>>
    BY <1>11 DEF StopWriter, Stops, DInv, Typed
  <2>2. stage' = [stage EXCEPT ![pidfile[c]] = "dying"] \/ stage' = stage
    BY <1>11 DEF StopWriter
  <2>3. CASE stage' = stage
    BY <2>1, <2>3, OnlyCommand
  <2>4. CASE stage' = [stage EXCEPT ![pidfile[c]] = "dying"]
    BY <2>1, <2>4, Signalled
  <2>5. QED
    BY <2>2, <2>3, <2>4
<1>12. QED
  BY <1>1, <1>2, <1>3, <1>4, <1>5, <1>6, <1>7, <1>8, <1>9, <1>10, <1>11 DEF CommandSteps

\* Steps of the loops, the screen and the clock
LEMMA Elsewhere ==
  ASSUME DInv, UNCHANGED <<owner, stage, pidfile, command, stopped>>
  PROVE  DInv'
BY DEF DInv, Typed, CommandTyped, StagesAreOfDaemons, OneEach, InPidfile, ForkedIsBehind,
       KillsNamed, StoppedIsDead, DaemonsOf

\* There are no daemons at first.
LEMMA Initially == OperationInit => DInv
<1>1. SUFFICES ASSUME OperationInit PROVE DInv
  OBVIOUS
<1>2. Typed /\ StagesAreOfDaemons /\ StoppedIsDead
  BY <1>1 DEF OperationInit, DaemonInit, Typed, StagesAreOfDaemons, StoppedIsDead
<1>3. CommandTyped /\ KillsNamed
  BY <1>1 DEF OperationInit, DaemonInit, Idle, CommandTyped, KillsNamed, NoRepeats
<1>4. OneEach /\ InPidfile /\ ForkedIsBehind
  BY <1>1, Names DEF OperationInit, DaemonInit, OneEach, InPidfile, ForkedIsBehind
<1>5. QED
  BY <1>2, <1>3, <1>4 DEF DInv

\* Every step preserves the invariant.
LEMMA Inductive == DInv /\ [Next]_vars => DInv'
<1>1. SUFFICES ASSUME DInv, [Next]_vars PROVE DInv'
  OBVIOUS
<1>2. CASE CommandSteps
  BY <1>1, <1>2, CommandStep
<1>3. ASSUME NEW p \in Pids, DaemonSteps(p)
      PROVE  DInv'
  <2>1. CASE WritePid(p)
    BY <1>1, <2>1, PidWritten
  <2>2. CASE RunWriter(p)
    BY <1>1, <2>2, WriterFails
  <2>3. ASSUME NEW who \in Foreign, ForeignStarts(p, who)
        PROVE  DInv'
    BY <1>1, <2>3, ForeignBegins
  <2>4. CASE ForeignEnds(p)
    BY <1>1, <2>4, ProcessEnds DEF ForeignEnds
  <2>5. QED
    BY <1>3, <2>1, <2>2, <2>3, <2>4 DEF DaemonSteps
<1>4. ASSUME NEW p \in Pids, ReceiverRuns(p) \/ DaemonEnds(p)
      PROVE  DInv'
  <2>1. CASE ReceiverRuns(p)
    BY <1>1, <2>1, ReceiverComesUp DEF ReceiverRuns
  <2>2. CASE DaemonEnds(p)
    <3>1. Die(p) \/ Crash(p)
      BY <2>2 DEF DaemonEnds
    <3>2. Freed(p) /\ UNCHANGED <<pidfile, command, stopped>>
      BY <3>1 DEF Die, Crash
    <3>3. QED
      BY <1>1, <3>2, ProcessEnds
  <2>3. QED
    BY <1>4, <2>1, <2>2
<1>5. ASSUME NEW c \in Receivers, Relay(c) \/ RelayEnds(c) \/ SendMon(c) \/ RelayReport(c)
      PROVE  DInv'
  BY <1>1, <1>5, Elsewhere DEF Relay, RelayEnds, SendMon, RelayReport, daemonVars
<1>6. CASE ScreenGets \/ ScreenTimesOut \/ ScreenRedraws \/ Tick \/ UNCHANGED vars
  BY <1>1, <1>6, Elsewhere DEF ScreenGets, ScreenTimesOut, ScreenRedraws, Tick, daemonVars, vars
<1>7. QED
  BY <1>1, <1>2, <1>3, <1>4, <1>5, <1>6 DEF Next

-----------------------------------------------------------------------------
(* Theorems *)

\* The invariant of the daemons, their pidfiles and the command under way
THEOREM DaemonInvariance == Spec => []DInv
BY Initially, Inductive, PTL DEF Spec

\* However daemons die and pids are used again, no component ever has two daemons (two
\* would fight for its ports), and from the moment its pidfile is written it names the
\* daemon, so that a stop finds it (Daemon.start, Daemon.stop).
THEOREM OneDaemon == Spec => []OneDaemonEach
<1>1. DInv => OneDaemonEach
  BY DEF DInv, OneEach, InPidfile, OneDaemonEach, DaemonsOf
<1>2. QED
  BY <1>1, DaemonInvariance, PTL

\* Once stop has returned for a receiver, none of its daemons is left: neither one that
\* the pidfile does not name, nor one that got its signal and has not ended (Daemon.stop).
THEOREM StopStops == Spec => []StoppedIsDead
<1>1. DInv => StoppedIsDead
  BY DEF DInv
<1>2. QED
  BY <1>1, DaemonInvariance, PTL
=============================================================================
