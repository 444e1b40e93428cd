----------------------------- MODULE AsyncWriter -----------------------------
(***************************************************************************)
(* The asyncio file writers: AsyncSubscriber and AsyncWriterSubscriber of  *)
(* ssdaq/core/basesubscribers.py and the application around them, made by  *)
(* asyncwriterfactory of ssdaq/bin/writers.py.                             *)
(*                                                                         *)
(* Everything runs on one event loop, which executes the callbacks in its  *)
(* ready queue in order: steps of the tasks receive and run, the puts into *)
(* the data buffer, each a task of its own, and the steps of one or two    *)
(* coroutines close, a soft one after the user's "yes" and a hard one      *)
(* after Ctrl-C.  A step of the loop is one callback: what a coroutine     *)
(* does from where it was suspended to where it is suspended next.  An     *)
(* await of what is already there does not suspend.                        *)
(***************************************************************************)
EXTENDS Integers, Sequences, Functions

CONSTANTS
  MaxMessages,  \* bound on the number of messages published
  Malformed,    \* the messages on which unpack raises: None is passed off
  Unwritable    \* the messages on which the file writer raises

ASSUME MaxMessagesAssumption == MaxMessages \in Nat
ASSUME MalformedAssumption   == Malformed \subseteq Nat \ {0}
ASSUME UnwritableAssumption  == Unwritable \subseteq Nat \ {0}

None == 0
Message == Nat \ {0}
Closers == {"soft", "hard"}

VARIABLES
  sent,      \* number of messages that reached the SUB socket
  sock,      \* messages in the SUB socket
  ready,     \* the loop's queue of callbacks
  rpc,       \* the task receive: "start", "recv" (suspended there) or "done"
  rcancel,   \* CancelledError is thrown into receive at its next step
  hand,      \* the message that the awaited recv was resolved with, or None
  queue,     \* AsyncSubscriber._data_buffer
  wpc,       \* the task run: "start", "get", "done" or "raised"
  wcancel,   \* as rcancel, for run
  running,   \* AsyncWriterSubscriber._running
  stopping,  \* AsyncWriterSubscriber.stopping
  cpc,       \* each close: "no", "start", "sub", "writer", "closed" or "raised"
  closed,    \* the file is closed
  loop,      \* "running", "stopping" or "stopped"
  received,  \* history: what receive has passed off
  due,       \* history: what was received when the soft close was called
  written,   \* what run is done with: a message is in the file, None is skipped
  failed     \* history: the message on which the file writer raised, if any

recvVars  == <<sock, rpc, rcancel, hand, received>>
writeVars == <<wpc, wcancel, written, failed>>
flagVars  == <<running, stopping>>
closeVars == <<cpc, closed, due>>
vars == <<sent, ready, queue, loop, recvVars, writeVars, flagVars, closeVars>>

-----------------------------------------------------------------------------
(* The event loop *)

\* Entries of the ready queue: a step of a task, a put, or loop.stop
Step(t) == [task |-> t, item |-> None]
Put(x)  == [task |-> "put", item |-> x]
StopLoop == Step("stop")

InReady(t) == \E i \in DOMAIN ready : ready[i].task = t

\* Runs the callback at the head of the ready queue, and schedules later ones, which
\* are not executed if the loop is about to stop.
Callback(t, later) ==
  /\ loop # "stopped"
  /\ ready # << >>
  /\ Head(ready).task = t
  /\ ready' = Tail(ready) \o (IF loop = "running" THEN later ELSE << >>)

\* What schedules a step of task t: nothing, if one is already scheduled
Wake(t) == IF InReady(t) THEN << >> ELSE <<Step(t)>>

\* The step of close c, if it waits at place p
WakeCloser(c, p) == IF cpc[c] = p THEN <<Step(c)>> ELSE << >>

\* Mutant: only the first one is woken.
WakeFirstCloser(p) ==
  IF cpc["soft"] = p THEN <<Step("soft")>> ELSE WakeCloser("hard", p)

\* The coroutines close that wait at place p, in the order in which they came
WakeClosers(p) == WakeCloser("soft", p) \o WakeCloser("hard", p)

-----------------------------------------------------------------------------
(* The SUB socket *)

\* A message arrives; a recv that waits is resolved with it.
Arrive ==
  /\ loop = "running"
  /\ ~ stopping         \* close closes the socket when it sets stopping
  /\ sent < MaxMessages
  /\ sent' = sent + 1
  /\ \/ /\ rpc = "recv" /\ ~ InReady("receive")
        /\ hand' = sent + 1
        /\ ready' = Append(ready, Step("receive"))
        /\ UNCHANGED sock
     \/ /\ rpc = "start" \/ InReady("receive")
        /\ sock' = Append(sock, sent + 1)
        /\ UNCHANGED <<hand, ready>>
  /\ UNCHANGED <<queue, loop, rpc, rcancel, received, writeVars, flagVars, closeVars>>

-----------------------------------------------------------------------------
(* AsyncSubscriber.receive *)

Unpack(m) == IF m \in Malformed THEN None ELSE m

\* Takes what it was woken with and all that is in the socket, makes a put task
\* for each, and waits at the next recv.
Receive ==
  LET taken == (IF hand = None THEN << >> ELSE <<hand>>) \o sock
      items == [i \in DOMAIN taken |-> Unpack(taken[i])]
  IN  /\ ~ rcancel
      /\ Callback("receive", [i \in DOMAIN items |-> Put(items[i])])
      /\ sock' = << >>
      /\ hand' = None
      /\ rpc' = "recv"
      /\ received' = received \o items
      /\ UNCHANGED <<sent, queue, loop, rcancel, writeVars, flagVars, closeVars>>

\* CancelledError: the coroutine returns.  A message it was woken with is gone.
ReceiveCancelled ==
  /\ rcancel
  /\ Callback("receive", WakeClosers("sub"))
  /\ rpc' = "done"
  /\ rcancel' = FALSE
  /\ hand' = None
  /\ UNCHANGED <<sent, sock, queue, loop, received, writeVars, flagVars, closeVars>>

\* Mutant: the put overtakes what is in the buffer.
PutFirst ==
  /\ Callback("put", IF wpc = "get" THEN Wake("run") ELSE << >>)
  /\ queue' = <<Head(ready).item>> \o queue
  /\ UNCHANGED <<sent, loop, recvVars, writeVars, flagVars, closeVars>>

\* The buffer has no bound, so a put never waits; it wakes a get that does.
PutItem ==
  /\ Callback("put", IF wpc = "get" THEN Wake("run") ELSE << >>)
  /\ queue' = Append(queue, Head(ready).item)
  /\ UNCHANGED <<sent, loop, recvVars, writeVars, flagVars, closeVars>>

-----------------------------------------------------------------------------
(* AsyncWriterSubscriber.run *)

\* How many items run takes in a step: all up to one the file writer raises on,
\* but when _running is false only the one its get was woken for.
Takes(woken, run) ==
  LET most == IF run THEN Len(queue) ELSE IF woken THEN 1 ELSE 0
      bad  == {i \in 1 .. most : queue[i] \in Unwritable}
  IN  IF bad = {} THEN most ELSE CHOOSE i \in bad : \A j \in bad : i <= j

\* Mutant: when stopping, run ends without looking at the buffer.
RunLeaves ==
  LET run   == wpc = "start" \/ running
      k     == IF stopping THEN 0 ELSE Takes(wpc = "get" /\ ~ wcancel, run)
      bad   == k > 0 /\ queue[k] \in Unwritable
      after == IF bad THEN "raised" ELSE IF ~ run \/ stopping THEN "done" ELSE "get"
  IN  /\ Callback("run", IF after = "get" THEN << >> ELSE WakeClosers("writer"))
      /\ running' = run
      /\ queue' = SubSeq(queue, k + 1, Len(queue))
      /\ written' = written \o SubSeq(queue, 1, IF bad THEN k - 1 ELSE k)
      /\ failed' = IF bad THEN <<queue[k]>> ELSE failed
      /\ wpc' = after
      /\ wcancel' = FALSE
      /\ UNCHANGED <<sent, loop, recvVars, stopping, closeVars>>

\* One step of run.  At its start it sets _running.  A CancelledError in get is
\* caught and the loop goes on, so that cancelling it only makes it look at the
\* flags again.  It writes until the buffer is empty and then waits, or ends when
\* stopping is set.
Run ==
  LET run   == wpc = "start" \/ running
      k     == Takes(wpc = "get" /\ ~ wcancel, run)
      bad   == k > 0 /\ queue[k] \in Unwritable
      after == IF bad THEN "raised" ELSE IF ~ run \/ stopping THEN "done" ELSE "get"
  IN  /\ Callback("run", IF after = "get" THEN << >> ELSE WakeClosers("writer"))
      /\ running' = run
      /\ queue' = SubSeq(queue, k + 1, Len(queue))
      /\ written' = written \o SubSeq(queue, 1, IF bad THEN k - 1 ELSE k)
      /\ failed' = IF bad THEN <<queue[k]>> ELSE failed
      /\ wpc' = after
      /\ wcancel' = FALSE
      /\ UNCHANGED <<sent, loop, recvVars, stopping, closeVars>>

-----------------------------------------------------------------------------
(* AsyncWriterSubscriber.close and the application *)

\* "yes" at the prompt, which Ctrl-C cancels: a task that closes softly.
\* Ctrl-C while the loop waits for events: a hard close, whatever is under way
CallClose(c) ==
  /\ loop = "running"
  /\ cpc[c] = "no"
  /\ cpc["hard"] = "no"
  /\ cpc' = [cpc EXCEPT ![c] = "start"]
  /\ ready' = Append(ready, Step(c))
  /\ due' = IF c = "soft" THEN received ELSE due
  /\ UNCHANGED <<sent, queue, loop, recvVars, writeVars, flagVars, closed>>

\* Up to where close waits for receive: the flags are set, the socket closed with
\* what is in it, and receive cancelled.  A second close finds it done or on its way.
CloseSubscriber(c) ==
  /\ cpc[c] = "start"
  /\ rpc # "done"
  /\ Callback(c, Wake("receive"))
  /\ running' = (running /\ c = "soft")
  /\ stopping' = TRUE
  /\ sock' = << >>
  /\ rcancel' = TRUE
  /\ cpc' = [cpc EXCEPT ![c] = "sub"]
  /\ UNCHANGED <<sent, queue, loop, rpc, hand, received, writeVars, closed, due>>

\* close continues when receive has ended, or comes that far at once
SubscriberClosed(c) == cpc[c] = "sub" \/ (cpc[c] = "start" /\ rpc = "done")

SetsFlags(c) ==
  /\ running' = (IF cpc[c] = "start" /\ c = "hard" THEN FALSE ELSE running)
  /\ stopping' = TRUE

\* Mutant: run is not cancelled.
CloseLeavesWriter(c) ==
  /\ SubscriberClosed(c)
  /\ wpc \in {"start", "get"}
  /\ SetsFlags(c)
  /\ Callback(c, << >>)
  /\ UNCHANGED wcancel
  /\ cpc' = [cpc EXCEPT ![c] = "writer"]
  /\ UNCHANGED <<sent, queue, loop, recvVars, wpc, written, failed, closed, due>>

\* Up to where close waits for run, which is cancelled if the buffer is empty.
CloseWriter(c) ==
  /\ SubscriberClosed(c)
  /\ wpc \in {"start", "get"}
  /\ SetsFlags(c)
  /\ Callback(c, IF queue = << >> THEN Wake("run") ELSE << >>)
  /\ wcancel' = (wcancel \/ queue = << >>)
  /\ cpc' = [cpc EXCEPT ![c] = "writer"]
  /\ UNCHANGED <<sent, queue, loop, recvVars, wpc, written, failed, closed, due>>

\* Mutant: run is not waited for.
CloseFileEarly(c) ==
  /\ SubscriberClosed(c) \/ cpc[c] = "writer"
  /\ SetsFlags(c)
  /\ Callback(c, <<StopLoop>>)
  /\ cpc' = [cpc EXCEPT ![c] = IF wpc = "raised" THEN "raised" ELSE "closed"]
  /\ closed' = (closed \/ wpc # "raised")
  /\ UNCHANGED <<sent, queue, loop, recvVars, writeVars, due>>

\* run has ended: the file is closed, or the exception that ended it raised again.
\* Either way the loop is told to stop.
CloseFile(c) ==
  /\ SubscriberClosed(c) \/ cpc[c] = "writer"
  /\ wpc \notin {"start", "get"}
  /\ SetsFlags(c)
  /\ Callback(c, <<StopLoop>>)
  /\ cpc' = [cpc EXCEPT ![c] = IF wpc = "raised" THEN "raised" ELSE "closed"]
  /\ closed' = (closed \/ wpc # "raised")
  /\ UNCHANGED <<sent, queue, loop, recvVars, writeVars, due>>

\* loop.stop: what is ready is still executed, then run_forever, or run_until_complete
\* in the handler of Ctrl-C, returns.
Stop ==
  /\ Callback("stop", << >>)
  /\ loop' = "stopping"
  /\ UNCHANGED <<sent, queue, recvVars, writeVars, flagVars, closeVars>>

Return ==
  /\ loop = "stopping"
  /\ ready = << >>
  /\ loop' = "stopped"
  /\ UNCHANGED <<sent, ready, queue, recvVars, writeVars, flagVars, closeVars>>

-----------------------------------------------------------------------------

Init ==
  /\ sent = 0
  /\ sock = << >>
  /\ ready = <<Step("receive"), Step("run")>>
  /\ rpc = "start"
  /\ rcancel = FALSE
  /\ hand = None
  /\ queue = << >>
  /\ wpc = "start"
  /\ wcancel = FALSE
  /\ running = FALSE
  /\ stopping = FALSE
  /\ cpc = [c \in Closers |-> "no"]
  /\ closed = FALSE
  /\ loop = "running"
  /\ received = << >>
  /\ due = << >>
  /\ written = << >>
  /\ failed = << >>

LoopStep ==
  \/ Receive
  \/ ReceiveCancelled
  \/ PutItem
  \/ Run
  \/ \E c \in Closers : \/ CloseSubscriber(c)
                        \/ CloseWriter(c)
                        \/ CloseFile(c)
  \/ Stop
  \/ Return

Next == Arrive \/ LoopStep \/ (\E c \in Closers : CallClose(c))

Spec == Init /\ [][Next]_vars

\* The loop executes what is ready.
FairSpec == Spec /\ WF_vars(LoopStep)
-----------------------------------------------------------------------------
(* Properties *)

\* The messages in s, which is a sequence of messages and None
Messages(s) == Range(s) \ {None}

\* The messages in s are in the order of their publication, none of them twice.
InOrder(s) ==
  \A i, j \in DOMAIN s : i < j /\ s[i] # None /\ s[j] # None => s[i] < s[j]

\* The items of the puts that have not run yet; the other callbacks have none.
Items == [i \in DOMAIN ready |-> ready[i].item]

\* From the file back to the put tasks.
Path == written \o failed \o queue \o Items

\* Every message that receive has taken is, in order, in the file, in the buffer or
\* on its way to it, whatever is cancelled when.
NothingLost == Messages(Path) = Messages(received) /\ InOrder(Path)

\* A soft close that comes to its end without a Ctrl-C has written everything that
\* receive had taken when it was called, the last put included, which was a task of
\* its own then.  What receive takes between the call and its cancellation may stay in
\* the buffer: run, woken in between, finds the buffer empty and stopping set.
SoftCloseKeepsAll ==
  cpc["soft"] = "closed" /\ cpc["hard"] = "no" => Messages(due) \subseteq Messages(written)

\* When the loop stops no close is left in the middle (run_until_complete would
\* raise), and the file is closed unless the file writer had raised.
StopsClosed ==
  loop = "stopped" =>
    /\ \A c \in Closers : cpc[c] \in {"no", "closed", "raised"}
    /\ closed \/ failed # << >>

\* Nothing is written to a closed file.
QuietWhenClosed == [][closed => UNCHANGED written]_vars

\* A close, soft or hard, comes to an end, and the application with it.
CloseEnds ==
  \A c \in Closers : cpc[c] = "start" ~> loop = "stopped"
=============================================================================
