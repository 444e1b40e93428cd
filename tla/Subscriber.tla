----------------------------- MODULE Subscriber -----------------------------
(***************************************************************************)
(* The threads of a file writer application: ssdaq/core/basesubscribers.py *)
(* and ssdaq/bin/writers.py.                                               *)
(*                                                                         *)
(* The listener thread (BasicSubscriber.run) moves messages from a zmq     *)
(* socket to a queue.Queue, the writer thread (WriterSubscriber.run) moves *)
(* them from the queue to a file, and the main thread closes both: softly  *)
(* when the user asks for it, hard when the user interrupts that.          *)
(*                                                                         *)
(* A step is one operation that other threads can see: a queue operation,  *)
(* a read or write of a shared flag, a socket operation.  Each is atomic   *)
(* under the interpreter lock.                                             *)
(***************************************************************************)
EXTENDS Integers, Sequences, SequencesExt

CONSTANTS
  MaxMessages,  \* bound on the number of messages published
  Malformed,    \* the messages on which the subscriber's unpack raises
  Rejected,     \* those for which it returns None (TriggerPacket.unpack)
  Unwritable    \* the messages on which the file writer may raise

ASSUME MaxMessagesAssumption == MaxMessages \in Nat
ASSUME MalformedAssumption   == Malformed \subseteq Nat \ {0}
ASSUME RejectedAssumption    == Rejected \subseteq (Nat \ {0}) \ Malformed
ASSUME UnwritableAssumption  == Unwritable \subseteq Nat \ {0}

\* Messages are numbered in the order in which they are published; the queue
\* also carries the sentinel None.
None == 0
Message == Nat \ {0}
Item == Message \cup {None}

VARIABLES
  sent,         \* number of messages that reached the SUB socket so far
  sock,         \* messages in the listener's SUB socket
  close_sock,   \* number of messages in the listener's close socket
  sub_running,  \* BasicSubscriber._running
  data_buffer,  \* BasicSubscriber._data_buffer
  unfinished,   \* its count of items for which task_done is still due
  lpc,          \* where the listener thread is
  received,     \* history: the messages the listener has put in the queue
  running,      \* WriterSubscriber._running
  stopping,     \* WriterSubscriber.stopping
  wpc,          \* where the writer thread is
  data,         \* the writer's item
  written,      \* the messages for which write returned
  mpc,          \* where the main thread is
  hard,         \* whether the close in progress is a hard one
  before        \* history: the value of sent when close was called

subVars    == <<sub_running, close_sock>>
queueVars  == <<data_buffer, unfinished>>
listenVars == <<sock, lpc, received>>
writerVars == <<wpc, data, written>>
mainVars   == <<stopping, mpc, hard, before>>
vars == <<sent, subVars, queueVars, listenVars, running, writerVars, mainVars>>

-----------------------------------------------------------------------------
(* The publisher *)

Publish ==
  /\ sent < MaxMessages
  /\ sent' = sent + 1
  /\ sock' = Append(sock, sent + 1)
  /\ UNCHANGED <<subVars, queueVars, lpc, received, running, writerVars, mainVars>>

-----------------------------------------------------------------------------
(* The listener thread: BasicSubscriber.run *)

Listener(from, to) == lpc = from /\ lpc' = to

Put(item) == /\ data_buffer' = Append(data_buffer, item)
             /\ unfinished' = unfinished + 1

\* Connects the close socket, then says that it runs.
ListenerStarts ==
  /\ Listener("start", "test")
  /\ sub_running' = TRUE
  /\ UNCHANGED <<sent, close_sock, queueVars, sock, received, running, writerVars, mainVars>>

ListenerTests ==
  /\ Listener("test", IF sub_running THEN "poll" ELSE "exit")
  /\ UNCHANGED <<sent, subVars, queueVars, sock, received, running, writerVars, mainVars>>

\* poll() returned and data is among what is ready, whatever else is.
ListenerReceives ==
  /\ sock # << >>
  /\ Listener("poll", IF Head(sock) \in Malformed THEN "raised" ELSE "put")
  /\ UNCHANGED <<sent, subVars, queueVars, sock, received, running, writerVars, mainVars>>

Unpack(m) == IF m \in Rejected THEN None ELSE m

ListenerPuts ==
  /\ Listener("put", "test")
  /\ LET item == Unpack(Head(sock))
     IN  /\ Put(item)
         /\ received' = IF item = None THEN received ELSE Append(received, item)
  /\ sock' = Tail(sock)
  /\ UNCHANGED <<sent, subVars, running, writerVars, mainVars>>

\* Mutant: the close socket is looked at before the data socket.
ListenerStopsFirst ==
  /\ Listener("poll", "exit")
  /\ close_sock > 0
  /\ Put(None)
  /\ UNCHANGED <<sent, subVars, sock, received, running, writerVars, mainVars>>

\* Mutant: the loop is not left after the sentinel.
ListenerStopsNoBreak ==
  /\ Listener("poll", "test")
  /\ sock = << >>
  /\ close_sock > 0
  /\ Put(None)
  /\ UNCHANGED <<sent, subVars, sock, received, running, writerVars, mainVars>>

\* poll() returned because of the close socket alone.
ListenerStops ==
  /\ Listener("poll", "exit")
  /\ sock = << >>
  /\ close_sock > 0
  /\ Put(None)
  /\ UNCHANGED <<sent, subVars, sock, received, running, writerVars, mainVars>>

ListenerExits ==
  /\ Listener("exit", "ended")
  /\ sub_running' = FALSE
  /\ UNCHANGED <<sent, close_sock, queueVars, sock, received, running, writerVars, mainVars>>

ListenerThread ==
  \/ ListenerStarts
  \/ ListenerTests
  \/ ListenerReceives
  \/ ListenerPuts
  \/ ListenerStops
  \/ ListenerExits

-----------------------------------------------------------------------------
(* The writer thread: WriterSubscriber.run *)

Writer(from, to) == wpc = from /\ wpc' = to

WriterStarts ==
  /\ Writer("start", "started")
  /\ lpc' = "start"
  /\ UNCHANGED <<sent, subVars, queueVars, sock, received, running, data, written, mainVars>>

WriterRuns ==
  /\ Writer("started", "test")
  /\ running' = TRUE
  /\ UNCHANGED <<sent, subVars, queueVars, listenVars, data, written, mainVars>>

WriterTests ==
  /\ Writer("test", IF running THEN "get" ELSE "ended")
  /\ UNCHANGED <<sent, subVars, queueVars, listenVars, running, data, written, mainVars>>

\* Mutant: a LIFO queue.
WriterGetsLast ==
  /\ Writer("get", "done")
  /\ data_buffer # << >>
  /\ data' = Last(data_buffer)
  /\ data_buffer' = Front(data_buffer)
  /\ UNCHANGED <<sent, subVars, unfinished, listenVars, running, written, mainVars>>

WriterGets ==
  /\ Writer("get", "done")
  /\ data_buffer # << >>
  /\ data' = Head(data_buffer)
  /\ data_buffer' = Tail(data_buffer)
  /\ UNCHANGED <<sent, subVars, unfinished, listenVars, running, written, mainVars>>

\* Mutant: the sentinel is written like a message.
WriterTaskDoneWrites ==
  /\ Writer("done", "write")
  /\ unfinished' = unfinished - 1
  /\ UNCHANGED <<sent, subVars, data_buffer, listenVars, running, data, written, mainVars>>

WriterTaskDone ==
  /\ Writer("done", IF data = None THEN "none" ELSE "write")
  /\ unfinished' = unfinished - 1
  /\ UNCHANGED <<sent, subVars, data_buffer, listenVars, running, data, written, mainVars>>

\* Mutant: the loop is not left.
WriterGotNoneGoesOn ==
  /\ Writer("none", "test")
  /\ UNCHANGED <<sent, subVars, queueVars, listenVars, running, data, written, mainVars>>

WriterGotNone ==
  /\ Writer("none", IF stopping /\ data_buffer = << >> THEN "ended" ELSE "test")
  /\ UNCHANGED <<sent, subVars, queueVars, listenVars, running, data, written, mainVars>>

WriterWrites ==
  /\ Writer("write", "test")
  /\ written' = Append(written, data)
  /\ UNCHANGED <<sent, subVars, queueVars, listenVars, running, data, mainVars>>

\* write is not in a try: an exception of the file writer ends the thread.
WriterRaises ==
  /\ data \in Unwritable
  /\ Writer("write", "raised")
  /\ UNCHANGED <<sent, subVars, queueVars, listenVars, running, data, written, mainVars>>

WriterThread ==
  \/ WriterStarts
  \/ WriterRuns
  \/ WriterTests
  \/ WriterGets
  \/ WriterTaskDone
  \/ WriterGotNone
  \/ WriterWrites
  \/ WriterRaises

-----------------------------------------------------------------------------
(* The main thread: WriterSubscriber.close and BasicSubscriber.close *)

Main(from, to) == mpc = from /\ mpc' = to

\* close(hard=...) is called.
BeginClose(h) ==
  /\ mpc' = "stopping"
  /\ hard' = h
  /\ before' = sent
  /\ running' = (running /\ ~ h)
  /\ UNCHANGED <<sent, subVars, queueVars, listenVars, writerVars, stopping>>

Close == mpc = "idle" /\ \E h \in BOOLEAN : BeginClose(h)

\* The user interrupts a soft close, which is retried as a hard one.
Interrupt ==
  /\ mpc \in {"stopping", "check", "send", "clear", "join"}
  /\ ~ hard
  /\ BeginClose(TRUE)

MainSetsStopping ==
  /\ Main("stopping", "check")
  /\ stopping' = TRUE
  /\ UNCHANGED <<sent, subVars, queueVars, listenVars, running, writerVars, hard, before>>

\* Mutant: a soft close empties the buffer too.
AfterCloseEmpty == "empty"

\* Where close goes on once the listener is told, or is not running
AfterClose == IF hard THEN "empty" ELSE "join"

MainChecks ==
  /\ Main("check", IF sub_running THEN "send" ELSE AfterClose)
  /\ UNCHANGED <<sent, subVars, queueVars, listenVars, running, writerVars, stopping, hard, before>>

\* A PAIR socket without a peer blocks: the listener's end of it goes away when
\* run returns or raises.
MainSends ==
  /\ Main("send", "clear")
  /\ lpc \notin {"ended", "raised"}
  /\ close_sock' = close_sock + 1
  /\ UNCHANGED <<sent, sub_running, queueVars, listenVars, running, writerVars, stopping, hard, before>>

MainClears ==
  /\ Main("clear", AfterClose)
  /\ sub_running' = FALSE
  /\ UNCHANGED <<sent, close_sock, queueVars, listenVars, running, writerVars, stopping, hard, before>>

MainTestsEmpty ==
  /\ Main("empty", IF data_buffer = << >> THEN "joinqueue" ELSE "drain")
  /\ UNCHANGED <<sent, subVars, queueVars, listenVars, running, writerVars, stopping, hard, before>>

\* Mutant: no task_done for the items that are dropped.
MainDrainsOnly ==
  /\ Main("drain", "empty")
  /\ data_buffer # << >>
  /\ data_buffer' = Tail(data_buffer)
  /\ UNCHANGED <<sent, subVars, unfinished, listenVars, running, writerVars, stopping, hard, before>>

MainDrains ==
  /\ Main("drain", "drained")
  /\ data_buffer # << >>
  /\ data_buffer' = Tail(data_buffer)
  /\ UNCHANGED <<sent, subVars, unfinished, listenVars, running, writerVars, stopping, hard, before>>

MainTaskDone ==
  /\ Main("drained", "empty")
  /\ unfinished' = unfinished - 1
  /\ UNCHANGED <<sent, subVars, data_buffer, listenVars, running, writerVars, stopping, hard, before>>

MainJoinsQueue ==
  /\ Main("joinqueue", "join")
  /\ unfinished = 0
  /\ UNCHANGED <<sent, subVars, queueVars, listenVars, running, writerVars, stopping, hard, before>>

\* Mutant: the writer thread is not waited for.
MainJoinsNot ==
  /\ Main("join", "closed")
  /\ UNCHANGED <<sent, subVars, queueVars, listenVars, running, writerVars, stopping, hard, before>>

\* Joins the writer thread, however it ended, and closes the file.
MainJoins ==
  /\ Main("join", "closed")
  /\ wpc \in {"ended", "raised"}
  /\ UNCHANGED <<sent, subVars, queueVars, listenVars, running, writerVars, stopping, hard, before>>

\* Closing the file flushes what write has collected, which may raise as write does.
MainCloseRaises ==
  /\ Main("join", "raised")
  /\ wpc = "raised" \/ (wpc = "ended" /\ \E m \in Unwritable : Contains(written, m))
  /\ UNCHANGED <<sent, subVars, queueVars, listenVars, running, writerVars, stopping, hard, before>>

MainThread ==
  \/ MainSetsStopping
  \/ MainChecks
  \/ MainSends
  \/ MainClears
  \/ MainTestsEmpty
  \/ MainDrains
  \/ MainTaskDone
  \/ MainJoinsQueue
  \/ MainJoins
  \/ MainCloseRaises

-----------------------------------------------------------------------------

Init ==
  /\ sent = 0
  /\ sock = << >>
  /\ close_sock = 0
  /\ sub_running = FALSE
  /\ data_buffer = << >>
  /\ unfinished = 0
  /\ lpc = "new"
  /\ received = << >>
  /\ running = FALSE
  /\ stopping = FALSE
  /\ wpc = "start"
  /\ data = None
  /\ written = << >>
  /\ mpc = "idle"
  /\ hard = FALSE
  /\ before = 0

Next == Publish \/ ListenerThread \/ WriterThread \/ Close \/ Interrupt \/ MainThread

Spec == Init /\ [][Next]_vars

\* The operating system runs every thread that is not blocked.  Publishing,
\* closing and interrupting are up to others.
FairSpec ==
  /\ Spec
  /\ WF_vars(ListenerThread)
  /\ WF_vars(WriterThread)
  /\ WF_vars(MainThread)
-----------------------------------------------------------------------------
(* Properties *)

\* The types of the state.
TypeOK ==
  /\ sent \in Nat
  /\ sock \in Seq(Message)
  /\ close_sock \in Nat
  /\ sub_running \in BOOLEAN
  /\ data_buffer \in Seq(Item)
  /\ unfinished \in Nat
  /\ lpc \in {"new", "start", "test", "poll", "put", "exit", "ended", "raised"}
  /\ received \in Seq(Message)
  /\ running \in BOOLEAN
  /\ stopping \in BOOLEAN
  /\ wpc \in {"start", "started", "test", "get", "done", "none", "write", "ended", "raised"}
  /\ data \in Item
  /\ written \in Seq(Message)
  /\ mpc \in {"idle", "stopping", "check", "send", "clear", "empty", "drain",
              "drained", "joinqueue", "join", "closed", "raised"}
  /\ hard \in BOOLEAN
  /\ before \in Nat

Messages(s) == Range(s) \ {None}

\* The messages in s are in the order of their publication, none of them twice.
InOrder(s) ==
  \A i, j \in DOMAIN s : i < j /\ s[i] # None /\ s[j] # None => s[i] < s[j]

\* The message the writer thread holds, as a sequence of at most one
InHand == IF wpc \in {"done", "write"} /\ data # None THEN <<data>> ELSE << >>

\* The message on which write raised, as a sequence of at most one
Failed == IF wpc = "raised" THEN <<data>> ELSE << >>

\* What the listener has put in the queue, from the end in the file
Path == written \o (Failed \o InHand) \o data_buffer

\* Until a hard close nothing is doubled or reordered between the listener's socket and
\* the file, however the threads interleave, and nothing is lost but the one message
\* on which write raises: those before it were written, those behind it stay in the
\* buffer.
Pipeline == ~ hard => Messages(Path) = Range(received) /\ InOrder(Path)

\* queue.task_done is called at most once for each item, by the writer and the
\* closing thread together, although both take items: it never raises, and
\* join waits for exactly the items that somebody still owes.
TasksAccounted ==
  unfinished = Len(data_buffer) + (IF wpc = "done" THEN 1 ELSE 0)
                                + (IF mpc = "drained" THEN 1 ELSE 0)

\* Messages are written in the order they came, even when a hard close takes
\* some of them from under the writer.
WrittenInOrder == InOrder(written)

\* A None read from the queue means that "the listener thread has been closed"
\* (docs/source/subs.rst:37): it is the last item, and the listener is past its loop.
NothingAfterNone ==
  \A i \in DOMAIN data_buffer :
    data_buffer[i] = None => i = Len(data_buffer) /\ lpc \in {"exit", "ended"}

\* A soft close that returns has written everything that had reached the subscriber when
\* close was called, the messages still in the socket included, if no message unpacks to
\* None and write did not raise.  If it did, the close returns as well, and what was
\* written is everything that was published before the message it raised on.
SoftCloseKeepsAll ==
  mpc = "closed" /\ ~ hard =>
    IF wpc = "raised"
    THEN Range(written) = 1 .. data - 1
    ELSE /\ written = received
         /\ \A m \in 1 .. before : Contains(written, m)

\* The file is closed when close returns: no thread writes to it afterwards.
ClosedIsQuiet == [][mpc = "closed" => UNCHANGED written]_vars

\* A listener that got the close message ends the soft close, whatever else
\* arrives: the writer cannot miss the sentinel, or has ended on a write that raised.
NoneEndsSoftClose ==
  Contains(data_buffer, None) ~> mpc \in {"closed", "raised"} \/ hard

\* bin/writers.py:40 tells the user that "`Ctrl-C` will empty the buffers and
\* close the file immediately.": a hard close that began ends.
HardCloseReturns == hard /\ mpc = "stopping" ~> mpc \in {"closed", "raised"}
=============================================================================
