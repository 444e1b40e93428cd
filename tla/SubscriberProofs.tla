-------------------------- MODULE SubscriberProofs --------------------------
(***************************************************************************)
(* Theorems about the threads of a file writer application (Subscriber),   *)
(* for every number of messages and every set of malformed, rejected and   *)
(* unwritable ones, however the threads and the user interleave.           *)
(***************************************************************************)
EXTENDS Subscriber, NumberLemmas, SequenceTheorems, TLAPS

\* The message in the hand of the writer thread, or that on which its write raised
Held == IF wpc \in {"done", "write", "raised"} /\ data # None THEN {data} ELSE {}

Below(S, T) == \A a \in S, b \in T : a < b

\* A message is in one place, and those nearer to the file are older.
Ordered ==
  /\ InOrder(written) /\ InOrder(data_buffer) /\ InOrder(sock) /\ InOrder(received)
  /\ Below(Range(written), Held)
  /\ Below(Range(written), Messages(data_buffer))
  /\ Below(Range(written), Range(sock))
  /\ Below(Held, Messages(data_buffer))
  /\ Below(Held, Range(sock))
  /\ Below(Messages(data_buffer), Range(sock))
  /\ Below(Range(received), Range(sock))
  /\ Range(written) \union Held \union Messages(data_buffer) \subseteq 1 .. sent
  /\ Range(received) \union Range(sock) \subseteq 1 .. sent

\* Where the threads and the flags agree.
Control ==
  /\ wpc = "start" <=> lpc = "new"
  /\ lpc = "put" => sock # << >>
  /\ wpc \in {"write", "raised"} => data # None
  /\ wpc = "none" => data = None
  /\ hard \/ close_sock > 0 => mpc # "idle"
  /\ mpc \in {"empty", "drain", "drained", "joinqueue"} => hard
  /\ mpc = "closed" => wpc \in {"ended", "raised"}
  /\ ~ hard /\ wpc \notin {"start", "started"} => running
  /\ before <= sent

\* Nothing is lost before a hard close but the message on which write raised, which
\* Held counts in.
Conserved == ~ hard => Range(written) \union Held \union Messages(data_buffer) = Range(received)

SInv ==
  /\ TypeOK
  /\ TasksAccounted
  /\ Ordered
  /\ Control
  /\ Conserved

\* The writer has the sentinel in its hand, or it has ended on it.
SentinelTaken == (data = None /\ wpc \in {"done", "none"}) \/ (~ hard /\ wpc = "ended")

Sentinel == SentinelTaken \/ None \in Range(data_buffer)

NoneIsLast(s) == \A i \in DOMAIN s : s[i] = None => i = Len(s)

\* After the sentinel nothing comes.
EndsOnSentinel ==
  /\ NoneIsLast(data_buffer)
  /\ SentinelTaken => data_buffer = << >>
  /\ Sentinel => lpc \in {"exit", "ended"}

\* The listener puts the sentinel when all that had arrived is in the queue.
AllPut == Sentinel /\ ~ hard => mpc # "idle" /\ 1 .. before \subseteq Range(received)

\* If no message is rejected those that arrived are in the socket or were put.
Arrived == Range(received) \union Range(sock) = 1 .. sent

SentinelInv ==
  /\ EndsOnSentinel
  /\ AllPut
  /\ Arrived

-----------------------------------------------------------------------------
(* Sequences of messages *)

\* Items are numbers, and None is not a message.
LEMMA ItemsAreNumbers == Item = Nat /\ None \in Nat /\ Message \subseteq Nat /\ None \notin Message
BY DEF Item, Message, None

\* A sequence of messages is one of items without None.
LEMMA OnlyMessages ==
  ASSUME NEW s \in Seq(Message)
  PROVE  /\ s \in Seq(Item)
         /\ Range(s) \subseteq Message
         /\ Messages(s) = Range(s)
<1>1. s \in Seq(Item)
  BY SeqMonotonic, ItemsAreNumbers
<1>2. Range(s) \subseteq Message
  BY LenProperties, ElementOfSeq DEF Range
<1>3. QED
  BY <1>1, <1>2, ItemsAreNumbers DEF Messages

\* Nothing is in the empty sequence.
LEMMA EmptyFacts == Range(<< >>) = {} /\ Messages(<< >>) = {} /\ InOrder(<< >>)
BY DEF Range, Messages, InOrder

\* Taking the head of a queue takes its oldest message.
LEMMA TailFacts ==
  ASSUME NEW s \in Seq(Item), s # << >>
  PROVE  /\ Head(s) \in Item
         /\ Range(s) = {Head(s)} \union Range(Tail(s))
         /\ Messages(s) = ({Head(s)} \ {None}) \union Messages(Tail(s))
         /\ InOrder(s) => /\ InOrder(Tail(s))
                          /\ Head(s) # None => Below({Head(s)}, Messages(Tail(s)))
<1> DEFINE t == Tail(s)
<1>1. /\ Head(s) = s[1]
      /\ Head(s) \in Item
      /\ Len(s) \in Nat \ {0}
      /\ DOMAIN s = 1 .. Len(s)
      /\ t \in Seq(Item)
      /\ Len(t) = Len(s) - 1
      /\ DOMAIN t = 1 .. Len(t)
      /\ \A i \in 1 .. Len(t) : t[i] = s[i + 1]
  BY HeadTailProperties, LenProperties, EmptySeq
<1>2. Range(s) = {Head(s)} \union Range(t)
  <2>1. ASSUME NEW i \in DOMAIN s PROVE s[i] \in {Head(s)} \union Range(t)
    <3>1. CASE i = 1
      BY <1>1, <3>1
    <3>2. CASE i # 1
      <4>1. i - 1 \in DOMAIN t /\ t[i - 1] = s[i]
        BY <1>1, <3>2
      <4>2. QED
        BY <4>1 DEF Range
    <3>3. QED
      BY <3>1, <3>2
  <2>2. ASSUME NEW i \in DOMAIN t PROVE t[i] \in Range(s)
    <3>1. i + 1 \in DOMAIN s /\ t[i] = s[i + 1]
      BY <1>1
    <3>2. QED
      BY <3>1 DEF Range
  <2>3. 1 \in DOMAIN s
    BY <1>1
  <2>4. QED
    BY <1>1, <2>1, <2>2, <2>3 DEF Range
<1>3. ASSUME InOrder(s) PROVE InOrder(t)
  BY <1>1, <1>3 DEF InOrder
<1>4. ASSUME InOrder(s), Head(s) # None PROVE Below({Head(s)}, Messages(t))
  BY <1>1, <1>4 DEF InOrder, Below, Messages, Range
<1>5. QED
  BY <1>1, <1>2, <1>3, <1>4 DEF Messages

\* Appending the newest message, or None, keeps the order.
LEMMA AppendFacts ==
  ASSUME NEW s \in Seq(Item), NEW e \in Item
  PROVE  /\ Append(s, e) \in Seq(Item)
         /\ Range(Append(s, e)) = Range(s) \union {e}
         /\ Messages(Append(s, e)) = Messages(s) \union ({e} \ {None})
         /\ InOrder(s) /\ (e # None => Below(Messages(s), {e})) => InOrder(Append(s, e))
<1> DEFINE t == Append(s, e)
<1>1. /\ t \in Seq(Item)
      /\ Len(s) \in Nat
      /\ DOMAIN s = 1 .. Len(s)
      /\ Len(t) = Len(s) + 1
      /\ DOMAIN t = 1 .. Len(t)
      /\ \A i \in 1 .. Len(s) : t[i] = s[i]
      /\ t[Len(s) + 1] = e
  BY AppendProperties, LenProperties
<1>2. Range(t) = Range(s) \union {e}
  BY <1>1 DEF Range
<1>3. ASSUME InOrder(s), e # None => Below(Messages(s), {e})
      PROVE  InOrder(t)
  BY <1>1, <1>3 DEF InOrder, Below, Messages, Range
<1>4. QED
  BY <1>1, <1>2, <1>3 DEF Messages

\* A file in order with newer messages behind it is in order.
LEMMA ConcatFacts ==
  ASSUME NEW s \in Seq(Item), NEW t \in Seq(Item)
  PROVE  /\ s \o t \in Seq(Item)
         /\ Messages(s \o t) = Messages(s) \union Messages(t)
         /\ InOrder(s) /\ InOrder(t) /\ Below(Messages(s), Messages(t)) => InOrder(s \o t)
<1> DEFINE u == s \o t
<1>1. /\ u \in Seq(Item)
      /\ Len(s) \in Nat /\ Len(t) \in Nat
      /\ DOMAIN s = 1 .. Len(s) /\ DOMAIN t = 1 .. Len(t)
      /\ Len(u) = Len(s) + Len(t)
      /\ DOMAIN u = 1 .. Len(u)
      /\ \A i \in 1 .. Len(s) : u[i] = s[i]
      /\ \A i \in 1 .. Len(t) : u[Len(s) + i] = t[i]
      /\ \A i \in DOMAIN u : i \in DOMAIN s \/ (i - Len(s) \in DOMAIN t /\ u[i] = t[i - Len(s)])
  BY ConcatProperties, LenProperties
<1>2. Range(u) = Range(s) \union Range(t)
  <2>1. Range(u) \subseteq Range(s) \union Range(t)
    BY <1>1 DEF Range
  <2>2. Range(s) \subseteq Range(u)
    BY <1>1 DEF Range
  <2>3. ASSUME NEW i \in DOMAIN t PROVE t[i] \in Range(u)
    <3>1. Len(s) + i \in DOMAIN u /\ u[Len(s) + i] = t[i]
      BY <1>1
    <3>2. QED
      BY <3>1 DEF Range
  <2>4. QED
    BY <2>1, <2>2, <2>3 DEF Range
<1>3. ASSUME InOrder(s), InOrder(t), Below(Messages(s), Messages(t)) PROVE InOrder(u)
  <2>1. SUFFICES ASSUME NEW i \in DOMAIN u, NEW j \in DOMAIN u,
                        i < j, u[i] # None, u[j] # None
                 PROVE  u[i] < u[j]
    BY DEF InOrder
  <2>2. CASE j \in DOMAIN s
    BY <1>1, <1>3, <2>1, <2>2 DEF InOrder
  <2>3. CASE i \notin DOMAIN s
    <3>1. /\ i - Len(s) \in DOMAIN t /\ u[i] = t[i - Len(s)]
          /\ j - Len(s) \in DOMAIN t /\ u[j] = t[j - Len(s)]
          /\ i - Len(s) < j - Len(s)
      BY <1>1, <2>1, <2>3
    <3>2. QED
      BY <1>3, <2>1, <3>1 DEF InOrder
  <2>4. CASE i \in DOMAIN s /\ j \notin DOMAIN s
    <3>1. u[i] \in Messages(s) /\ u[j] \in Messages(t)
      BY <1>1, <2>1, <2>4 DEF Messages, Range
    <3>2. QED
      BY <1>3, <3>1 DEF Below
  <2>5. QED
    BY <2>2, <2>3, <2>4
<1>4. QED
  BY <1>1, <1>2, <1>3 DEF Messages

\* Two sequences in order agree up to where the first of them ends.
LEMMA SameBeginning ==
  ASSUME NEW s \in Seq(Message), NEW t \in Seq(Message),
         InOrder(s), InOrder(t), Range(s) = Range(t)
  PROVE  \A i \in DOMAIN s : i \in DOMAIN t /\ s[i] = t[i]
<1> DEFINE Wrong == {i \in DOMAIN s : ~ (i \in DOMAIN t /\ s[i] = t[i])}
<1>1. /\ Len(s) \in Nat /\ Len(t) \in Nat
      /\ DOMAIN s = 1 .. Len(s) /\ DOMAIN t = 1 .. Len(t)
      /\ \A i \in DOMAIN s : s[i] \in Nat /\ s[i] # None
      /\ \A i \in DOMAIN t : t[i] \in Nat /\ t[i] # None
  <2>1. /\ Len(s) \in Nat /\ Len(t) \in Nat
        /\ DOMAIN s = 1 .. Len(s) /\ DOMAIN t = 1 .. Len(t)
    BY LenProperties
  <2>2. \A i \in DOMAIN s : s[i] \in Message
    BY <2>1, ElementOfSeq
  <2>3. \A i \in DOMAIN t : t[i] \in Message
    BY <2>1, ElementOfSeq
  <2>4. QED
    BY <2>1, <2>2, <2>3, ItemsAreNumbers
<1>2. SUFFICES ASSUME Wrong # {} PROVE FALSE
  OBVIOUS
<1>3. PICK n \in Wrong : \A m \in Wrong : n <= m
  <2>1. Wrong \subseteq Nat
    BY <1>1
  <2>2. QED
    BY <1>2, <2>1, LeastNumber, Zenon
<1>4. \A i \in 1 .. n - 1 : i \in DOMAIN s /\ i \in DOMAIN t /\ s[i] = t[i]
  BY <1>1, <1>3
<1>5. PICK j \in DOMAIN t : t[j] = s[n]
  BY <1>3 DEF Range
<1>6. j > n
  <2>1. j # n
    BY <1>3, <1>5
  <2>2. ~ j < n
    <3>1. ASSUME j < n PROVE FALSE
      <4>1. j \in DOMAIN s /\ s[j] = s[n] /\ n \in DOMAIN s
        BY <1>1, <1>3, <1>4, <1>5, <3>1
      <4>2. s[j] < s[n]
        BY <1>1, <3>1, <4>1 DEF InOrder
      <4>3. QED
        BY <1>1, <4>1, <4>2
    <3>2. QED
      BY <3>1
  <2>3. QED
    BY <1>1, <1>3, <1>5, <2>1, <2>2
<1>7. n \in DOMAIN t /\ t[n] < s[n]
  <2>1. n \in DOMAIN t
    BY <1>1, <1>3, <1>5, <1>6
  <2>2. QED
    BY <1>1, <1>5, <1>6, <2>1 DEF InOrder
<1>8. PICK k \in DOMAIN s : s[k] = t[n]
  BY <1>7 DEF Range
<1>9. k < n
  <2>1. ASSUME n < k PROVE FALSE
    <3>1. s[n] < s[k]
      BY <1>1, <1>3, <2>1 DEF InOrder
    <3>2. QED
      BY <1>1, <1>3, <1>7, <1>8, <3>1
  <2>2. k # n
    BY <1>1, <1>3, <1>7, <1>8
  <2>3. QED
    BY <1>1, <1>3, <2>1, <2>2
<1>10. t[k] = s[k] /\ k \in DOMAIN t
  BY <1>1, <1>4, <1>9
<1>11. t[k] < t[n]
  BY <1>1, <1>7, <1>9, <1>10 DEF InOrder
<1>12. QED
  BY <1>1, <1>7, <1>8, <1>10, <1>11

\* What arrives in order is known by what it is made of.
LEMMA OrderedEqual ==
  ASSUME NEW s \in Seq(Message), NEW t \in Seq(Message),
         InOrder(s), InOrder(t), Range(s) = Range(t)
  PROVE  s = t
<1>1. /\ Len(s) \in Nat /\ Len(t) \in Nat
      /\ DOMAIN s = 1 .. Len(s) /\ DOMAIN t = 1 .. Len(t)
  BY LenProperties
<1>2. \A i \in DOMAIN s : i \in DOMAIN t /\ s[i] = t[i]
  BY SameBeginning
<1>3. \A i \in DOMAIN t : i \in DOMAIN s /\ t[i] = s[i]
  BY SameBeginning
<1>4. Len(s) = Len(t)
  <2>1. Len(s) <= Len(t)
    BY <1>1, <1>2
  <2>2. Len(t) <= Len(s)
    BY <1>1, <1>3
  <2>3. Len(s) \in Int /\ Len(t) \in Int
    BY LenProperties
  <2>4. QED
    BY <2>1, <2>2, <2>3
<1>5. QED
  BY <1>1, <1>2, <1>4, SeqEqual

-----------------------------------------------------------------------------
(* Types, the count of unfinished items, and the control of the threads *)

\* Every step keeps the types.  The count of unfinished items stays a number
\* since it counts items.
LEMMA TypeStep ==
  ASSUME TypeOK, TasksAccounted, Control, [Next]_vars
  PROVE  TypeOK'
<1> USE DEF TypeOK
<1>1. CASE Publish
  BY <1>1, AppendProperties DEF Publish, subVars, queueVars, writerVars, mainVars,
     Message
<1>2. CASE ListenerStarts
  BY <1>2 DEF ListenerStarts, Listener, queueVars, writerVars, mainVars
<1>3. CASE ListenerTests
  BY <1>3 DEF ListenerTests, Listener, subVars, queueVars, writerVars, mainVars
<1>4. CASE ListenerReceives
  BY <1>4 DEF ListenerReceives, Listener, subVars, queueVars, writerVars, mainVars
<1>5. CASE ListenerPuts
  <2> DEFINE item == Unpack(Head(sock))
  <2>1. sock # << >>
    BY <1>5 DEF Control, ListenerPuts, Listener
  <2>2. Head(sock) \in Message /\ Tail(sock) \in Seq(Message)
    BY <2>1, HeadTailProperties
  <2>3. item \in Item /\ (item # None => item \in Message)
    BY <2>2 DEF Unpack, Item
  <2>4. data_buffer' \in Seq(Item) /\ unfinished' \in Nat
    BY <1>5, <2>3, AppendProperties DEF ListenerPuts, Put
  <2>5. received' \in Seq(Message)
    BY <1>5, <2>3, AppendProperties DEF ListenerPuts
  <2>6. QED
    BY <1>5, <2>2, <2>4, <2>5 DEF ListenerPuts, Listener, subVars, writerVars, mainVars
<1>6. CASE ListenerStops
  BY <1>6, AppendProperties DEF ListenerStops, Listener, Put, subVars, writerVars,
     mainVars, Item
<1>7. CASE ListenerExits
  BY <1>7 DEF ListenerExits, Listener, queueVars, writerVars, mainVars
<1>8. CASE WriterStarts
  BY <1>8 DEF WriterStarts, Writer, subVars, queueVars, mainVars
<1>9. CASE WriterRuns
  BY <1>9 DEF WriterRuns, Writer, subVars, queueVars, listenVars, mainVars
<1>10. CASE WriterTests
  BY <1>10 DEF WriterTests, Writer, subVars, queueVars, listenVars, mainVars
<1>11. CASE WriterGets
  BY <1>11, HeadTailProperties DEF WriterGets, Writer, subVars, listenVars, mainVars
<1>12. CASE WriterTaskDone
  BY <1>12, LenProperties DEF WriterTaskDone, Writer, subVars, listenVars, mainVars,
     TasksAccounted
<1>13. CASE WriterGotNone
  BY <1>13 DEF WriterGotNone, Writer, subVars, queueVars, listenVars, mainVars
<1>14. CASE WriterWrites
  BY <1>14, AppendProperties DEF WriterWrites, Writer, subVars, queueVars, listenVars,
     mainVars, Control, Item
<1>15. CASE WriterRaises
  BY <1>15 DEF WriterRaises, Writer, subVars, queueVars, listenVars, mainVars
<1>16. CASE Close
  BY <1>16 DEF Close, BeginClose, subVars, queueVars, listenVars, writerVars
<1>17. CASE Interrupt
  BY <1>17 DEF Interrupt, BeginClose, subVars, queueVars, listenVars, writerVars
<1>18. CASE MainSetsStopping
  BY <1>18 DEF MainSetsStopping, Main, subVars, queueVars, listenVars, writerVars
<1>19. CASE MainChecks
  BY <1>19 DEF MainChecks, Main, AfterClose, subVars, queueVars, listenVars, writerVars
<1>20. CASE MainSends
  BY <1>20 DEF MainSends, Main, queueVars, listenVars, writerVars
<1>21. CASE MainClears
  BY <1>21 DEF MainClears, Main, AfterClose, queueVars, listenVars, writerVars
<1>22. CASE MainTestsEmpty
  BY <1>22 DEF MainTestsEmpty, Main, subVars, queueVars, listenVars, writerVars
<1>23. CASE MainDrains
  BY <1>23, HeadTailProperties DEF MainDrains, Main, subVars, listenVars, writerVars
<1>24. CASE MainTaskDone
  BY <1>24, LenProperties DEF MainTaskDone, Main, subVars, listenVars, writerVars,
     TasksAccounted
<1>25. CASE MainJoinsQueue
  BY <1>25 DEF MainJoinsQueue, Main, subVars, queueVars, listenVars, writerVars
<1>26. CASE MainJoins
  BY <1>26 DEF MainJoins, Main, subVars, queueVars, listenVars, writerVars
<1>27. CASE MainCloseRaises
  BY <1>27 DEF MainCloseRaises, Main, subVars, queueVars, listenVars, writerVars
<1>28. CASE UNCHANGED vars
  BY <1>28 DEF vars, subVars, queueVars, listenVars, writerVars, mainVars
<1>29. QED
  BY <1>1, <1>2, <1>3, <1>4, <1>5, <1>6, <1>7, <1>8, <1>9, <1>10, <1>11, <1>12, <1>13,
     <1>14, <1>15, <1>16, <1>17, <1>18, <1>19, <1>20, <1>21, <1>22, <1>23, <1>24,
     <1>25, <1>26, <1>27, <1>28 DEF Next, ListenerThread, WriterThread, MainThread

\* Every step keeps the account of unfinished items.
LEMMA CountStep ==
  ASSUME TypeOK, TasksAccounted, Control, [Next]_vars
  PROVE  TasksAccounted'
<1>1. Len(data_buffer) \in Nat /\ unfinished \in Nat
  BY LenProperties DEF TypeOK
<1>2. \A item \in Item : Len(Append(data_buffer, item)) = Len(data_buffer) + 1
  BY AppendProperties DEF TypeOK
<1>3. data_buffer # << >> => Len(Tail(data_buffer)) = Len(data_buffer) - 1
  BY HeadTailProperties DEF TypeOK
<1>put. ASSUME Len(data_buffer') = Len(data_buffer) + 1, unfinished' = unfinished + 1,
                wpc' = wpc, mpc' = mpc
         PROVE  TasksAccounted'
  <2>1. CASE wpc = "done" /\ mpc = "drained"
    BY <1>1, <1>put, <2>1 DEF TasksAccounted
  <2>2. CASE wpc = "done" /\ mpc # "drained"
    BY <1>1, <1>put, <2>2 DEF TasksAccounted
  <2>3. CASE wpc # "done" /\ mpc = "drained"
    BY <1>1, <1>put, <2>3 DEF TasksAccounted
  <2>4. CASE wpc # "done" /\ mpc # "drained"
    BY <1>1, <1>put, <2>4 DEF TasksAccounted
  <2>5. QED
    BY <2>1, <2>2, <2>3, <2>4
<1>4. CASE Publish
  BY <1>4, <1>1, <1>2, <1>3 DEF Publish, subVars, queueVars, writerVars, mainVars,
     TasksAccounted
<1>5. CASE ListenerStarts
  BY <1>5, <1>1, <1>2, <1>3 DEF ListenerStarts, Listener, queueVars, writerVars,
     mainVars, TasksAccounted
<1>6. CASE ListenerTests
  BY <1>6, <1>1, <1>2, <1>3 DEF ListenerTests, Listener, subVars, queueVars,
     writerVars, mainVars, TasksAccounted
<1>7. CASE ListenerReceives
  BY <1>7, <1>1, <1>2, <1>3 DEF ListenerReceives, Listener, subVars, queueVars,
     writerVars, mainVars, TasksAccounted
<1>8. CASE ListenerPuts
  <2>1. Head(sock) \in Message
    BY <1>8, HeadTailProperties DEF TypeOK, Control, ListenerPuts, Listener
  <2>2. Unpack(Head(sock)) \in Item
    BY <2>1 DEF Unpack, Item
  <2>3. Len(data_buffer') = Len(data_buffer) + 1 /\ unfinished' = unfinished + 1
    BY <1>8, <1>2, <2>2 DEF ListenerPuts, Put
  <2>4. wpc' = wpc /\ mpc' = mpc
    BY <1>8 DEF ListenerPuts, writerVars, mainVars
  <2>5. QED
    BY <1>put, <2>3, <2>4
<1>9. CASE ListenerStops
  <2>1. Len(data_buffer') = Len(data_buffer) + 1 /\ unfinished' = unfinished + 1
    BY <1>9, <1>2 DEF ListenerStops, Put, Item
  <2>2. wpc' = wpc /\ mpc' = mpc
    BY <1>9 DEF ListenerStops, writerVars, mainVars
  <2>3. QED
    BY <1>put, <2>1, <2>2
<1>10. CASE ListenerExits
  BY <1>10, <1>1, <1>2, <1>3 DEF ListenerExits, Listener, queueVars, writerVars,
     mainVars, TasksAccounted
<1>11. CASE WriterStarts
  BY <1>11, <1>1, <1>2, <1>3 DEF WriterStarts, Writer, subVars, queueVars, mainVars,
     TasksAccounted
<1>12. CASE WriterRuns
  BY <1>12, <1>1, <1>2, <1>3 DEF WriterRuns, Writer, subVars, queueVars, listenVars,
     mainVars, TasksAccounted
<1>13. CASE WriterTests
  BY <1>13, <1>1, <1>2, <1>3 DEF WriterTests, Writer, subVars, queueVars, listenVars,
     mainVars, TasksAccounted
<1>14. CASE WriterGets
  <2>1. Len(data_buffer') = Len(data_buffer) - 1 /\ unfinished' = unfinished
    BY <1>14, <1>3 DEF WriterGets
  <2>2. wpc = "get" /\ wpc' = "done" /\ mpc' = mpc
    BY <1>14 DEF WriterGets, Writer, mainVars
  <2>3. QED
    BY <1>1, <2>1, <2>2 DEF TasksAccounted
<1>15. CASE WriterTaskDone
  BY <1>15, <1>1, <1>2, <1>3 DEF WriterTaskDone, Writer, subVars, listenVars, mainVars,
     TasksAccounted
<1>16. CASE WriterGotNone
  BY <1>16, <1>1, <1>2, <1>3 DEF WriterGotNone, Writer, subVars, queueVars, listenVars,
     mainVars, TasksAccounted
<1>17. CASE WriterWrites
  BY <1>17, <1>1, <1>2, <1>3 DEF WriterWrites, Writer, subVars, queueVars, listenVars,
     mainVars, TasksAccounted
<1>18. CASE WriterRaises
  BY <1>18, <1>1, <1>2, <1>3 DEF WriterRaises, Writer, subVars, queueVars, listenVars,
     mainVars, TasksAccounted
<1>19. CASE Close
  BY <1>19, <1>1, <1>2, <1>3 DEF Close, BeginClose, subVars, queueVars, listenVars,
     writerVars, TasksAccounted
<1>20. CASE Interrupt
  BY <1>20, <1>1, <1>2, <1>3 DEF Interrupt, BeginClose, subVars, queueVars, listenVars,
     writerVars, TasksAccounted
<1>21. CASE MainSetsStopping
  BY <1>21, <1>1, <1>2, <1>3 DEF MainSetsStopping, Main, subVars, queueVars,
     listenVars, writerVars, TasksAccounted
<1>22. CASE MainChecks
  BY <1>22, <1>1, <1>2, <1>3 DEF MainChecks, Main, AfterClose, subVars, queueVars,
     listenVars, writerVars, TasksAccounted
<1>23. CASE MainSends
  BY <1>23, <1>1, <1>2, <1>3 DEF MainSends, Main, queueVars, listenVars, writerVars,
     TasksAccounted
<1>24. CASE MainClears
  BY <1>24, <1>1, <1>2, <1>3 DEF MainClears, Main, AfterClose, queueVars, listenVars,
     writerVars, TasksAccounted
<1>25. CASE MainTestsEmpty
  BY <1>25, <1>1, <1>2, <1>3 DEF MainTestsEmpty, Main, subVars, queueVars, listenVars,
     writerVars, TasksAccounted
<1>26. CASE MainDrains
  <2>1. Len(data_buffer') = Len(data_buffer) - 1 /\ unfinished' = unfinished
    BY <1>26, <1>3 DEF MainDrains
  <2>2. mpc = "drain" /\ mpc' = "drained" /\ wpc' = wpc
    BY <1>26 DEF MainDrains, Main, writerVars
  <2>3. QED
    BY <1>1, <2>1, <2>2 DEF TasksAccounted
<1>27. CASE MainTaskDone
  BY <1>27, <1>1, <1>2, <1>3 DEF MainTaskDone, Main, subVars, listenVars, writerVars,
     TasksAccounted
<1>28. CASE MainJoinsQueue
  BY <1>28, <1>1, <1>2, <1>3 DEF MainJoinsQueue, Main, subVars, queueVars, listenVars,
     writerVars, TasksAccounted
<1>29. CASE MainJoins
  BY <1>29, <1>1, <1>2, <1>3 DEF MainJoins, Main, subVars, queueVars, listenVars,
     writerVars, TasksAccounted
<1>30. CASE MainCloseRaises
  BY <1>30, <1>1, <1>2, <1>3 DEF MainCloseRaises, Main, subVars, queueVars, listenVars,
     writerVars, TasksAccounted
<1>31. CASE UNCHANGED vars
  BY <1>31 DEF TasksAccounted, vars, queueVars, writerVars, mainVars
<1>32. QED
  BY <1>4, <1>5, <1>6, <1>7, <1>8, <1>9, <1>10, <1>11, <1>12, <1>13, <1>14, <1>15,
     <1>16, <1>17, <1>18, <1>19, <1>20, <1>21, <1>22, <1>23, <1>24, <1>25, <1>26,
     <1>27, <1>28, <1>29, <1>30, <1>31 DEF Next, ListenerThread, WriterThread,
     MainThread

\* Every step keeps the threads and the flags in agreement.
LEMMA ControlStep ==
  ASSUME TypeOK, Control, [Next]_vars
  PROVE  Control'
<1> USE DEF TypeOK, Control
<1>1. CASE Publish
  BY <1>1 DEF Publish, subVars, queueVars, writerVars, mainVars
<1>2. CASE ListenerStarts
  BY <1>2 DEF ListenerStarts, Listener, queueVars, writerVars, mainVars
<1>3. CASE ListenerTests
  BY <1>3 DEF ListenerTests, Listener, subVars, queueVars, writerVars, mainVars
<1>4. CASE ListenerReceives
  BY <1>4 DEF ListenerReceives, Listener, subVars, queueVars, writerVars, mainVars
<1>5. CASE ListenerPuts
  BY <1>5 DEF ListenerPuts, Listener, Unpack, Put, subVars, writerVars, mainVars
<1>6. CASE ListenerStops
  BY <1>6 DEF ListenerStops, Listener, Put, subVars, writerVars, mainVars
<1>7. CASE ListenerExits
  BY <1>7 DEF ListenerExits, Listener, queueVars, writerVars, mainVars
<1>8. CASE WriterStarts
  BY <1>8 DEF WriterStarts, Writer, subVars, queueVars, mainVars
<1>9. CASE WriterRuns
  BY <1>9 DEF WriterRuns, Writer, subVars, queueVars, listenVars, mainVars
<1>10. CASE WriterTests
  BY <1>10 DEF WriterTests, Writer, subVars, queueVars, listenVars, mainVars
<1>11. CASE WriterGets
  BY <1>11 DEF WriterGets, Writer, subVars, listenVars, mainVars
<1>12. CASE WriterTaskDone
  BY <1>12 DEF WriterTaskDone, Writer, subVars, listenVars, mainVars
<1>13. CASE WriterGotNone
  BY <1>13 DEF WriterGotNone, Writer, subVars, queueVars, listenVars, mainVars
<1>14. CASE WriterWrites
  BY <1>14 DEF WriterWrites, Writer, subVars, queueVars, listenVars, mainVars
<1>15. CASE WriterRaises
  BY <1>15 DEF WriterRaises, Writer, subVars, queueVars, listenVars, mainVars
<1>16. CASE Close
  BY <1>16 DEF Close, BeginClose, subVars, queueVars, listenVars, writerVars
<1>17. CASE Interrupt
  BY <1>17 DEF Interrupt, BeginClose, subVars, queueVars, listenVars, writerVars
<1>18. CASE MainSetsStopping
  BY <1>18 DEF MainSetsStopping, Main, subVars, queueVars, listenVars, writerVars
<1>19. CASE MainChecks
  BY <1>19 DEF MainChecks, Main, AfterClose, subVars, queueVars, listenVars, writerVars
<1>20. CASE MainSends
  BY <1>20 DEF MainSends, Main, queueVars, listenVars, writerVars
<1>21. CASE MainClears
  BY <1>21 DEF MainClears, Main, AfterClose, queueVars, listenVars, writerVars
<1>22. CASE MainTestsEmpty
  BY <1>22 DEF MainTestsEmpty, Main, subVars, queueVars, listenVars, writerVars
<1>23. CASE MainDrains
  BY <1>23 DEF MainDrains, Main, subVars, listenVars, writerVars
<1>24. CASE MainTaskDone
  BY <1>24 DEF MainTaskDone, Main, subVars, listenVars, writerVars
<1>25. CASE MainJoinsQueue
  BY <1>25 DEF MainJoinsQueue, Main, subVars, queueVars, listenVars, writerVars
<1>26. CASE MainJoins
  BY <1>26 DEF MainJoins, Main, subVars, queueVars, listenVars, writerVars
<1>27. CASE MainCloseRaises
  BY <1>27 DEF MainCloseRaises, Main, subVars, queueVars, listenVars, writerVars
<1>28. CASE UNCHANGED vars
  BY <1>28 DEF vars, subVars, queueVars, listenVars, writerVars, mainVars
<1>29. QED
  BY <1>1, <1>2, <1>3, <1>4, <1>5, <1>6, <1>7, <1>8, <1>9, <1>10, <1>11, <1>12, <1>13,
     <1>14, <1>15, <1>16, <1>17, <1>18, <1>19, <1>20, <1>21, <1>22, <1>23, <1>24,
     <1>25, <1>26, <1>27, <1>28 DEF Next, ListenerThread, WriterThread, MainThread

-----------------------------------------------------------------------------
(* The order of the messages, and what is kept of them *)

\* What the sequences of the state hold.
LEMMA StateFacts ==
  ASSUME TypeOK
  PROVE  /\ sent \in Nat /\ data \in Nat
         /\ sock \in Seq(Item) /\ data_buffer \in Seq(Item)
         /\ received \in Seq(Item) /\ written \in Seq(Item)
         /\ Messages(sock) = Range(sock)
         /\ Messages(received) = Range(received)
         /\ Messages(written) = Range(written)
         /\ None \notin Range(sock) /\ None \notin Range(received) /\ None \notin Range(written)
BY OnlyMessages, ItemsAreNumbers DEF TypeOK

\* The steps that move no message
Still == UNCHANGED <<written, Held, data_buffer, sock, received, sent>>

\* Six actions move messages.
LEMMA MostStepsAreStill ==
  ASSUME Control, [Next]_vars
  PROVE  \/ Publish \/ ListenerPuts \/ ListenerStops
         \/ WriterGets \/ WriterWrites \/ MainDrains
         \/ Still
<1> USE DEF Still, Held
<1>1. ASSUME ListenerStarts PROVE Still
  BY <1>1 DEF ListenerStarts, Listener, queueVars, writerVars, mainVars
<1>2. ASSUME ListenerTests PROVE Still
  BY <1>2 DEF ListenerTests, Listener, subVars, queueVars, writerVars, mainVars
<1>3. ASSUME ListenerReceives PROVE Still
  BY <1>3 DEF ListenerReceives, Listener, subVars, queueVars, writerVars, mainVars
<1>4. ASSUME ListenerExits PROVE Still
  BY <1>4 DEF ListenerExits, Listener, queueVars, writerVars, mainVars
<1>5. ASSUME WriterStarts PROVE Still
  BY <1>5 DEF WriterStarts, Writer, subVars, queueVars, mainVars
<1>6. ASSUME WriterRuns PROVE Still
  BY <1>6 DEF WriterRuns, Writer, subVars, queueVars, listenVars, mainVars
<1>7. ASSUME WriterTests PROVE Still
  BY <1>7 DEF WriterTests, Writer, subVars, queueVars, listenVars, mainVars
<1>8. ASSUME WriterTaskDone PROVE Still
  BY <1>8 DEF WriterTaskDone, Writer, subVars, listenVars, mainVars, Control
<1>9. ASSUME WriterGotNone PROVE Still
  BY <1>9 DEF WriterGotNone, Writer, subVars, queueVars, listenVars, mainVars
<1>10. ASSUME WriterRaises PROVE Still
  BY <1>10 DEF WriterRaises, Writer, subVars, queueVars, listenVars, mainVars
<1>11. ASSUME Close PROVE Still
  BY <1>11 DEF Close, BeginClose, subVars, queueVars, listenVars, writerVars
<1>12. ASSUME Interrupt PROVE Still
  BY <1>12 DEF Interrupt, BeginClose, subVars, queueVars, listenVars, writerVars
<1>13. ASSUME MainSetsStopping PROVE Still
  BY <1>13 DEF MainSetsStopping, Main, subVars, queueVars, listenVars, writerVars
<1>14. ASSUME MainChecks PROVE Still
  BY <1>14 DEF MainChecks, Main, AfterClose, subVars, queueVars, listenVars, writerVars
<1>15. ASSUME MainSends PROVE Still
  BY <1>15 DEF MainSends, Main, queueVars, listenVars, writerVars
<1>16. ASSUME MainClears PROVE Still
  BY <1>16 DEF MainClears, Main, AfterClose, queueVars, listenVars, writerVars
<1>17. ASSUME MainTestsEmpty PROVE Still
  BY <1>17 DEF MainTestsEmpty, Main, subVars, queueVars, listenVars, writerVars
<1>18. ASSUME MainTaskDone PROVE Still
  BY <1>18 DEF MainTaskDone, Main, subVars, listenVars, writerVars
<1>19. ASSUME MainJoinsQueue PROVE Still
  BY <1>19 DEF MainJoinsQueue, Main, subVars, queueVars, listenVars, writerVars
<1>20. ASSUME MainJoins PROVE Still
  BY <1>20 DEF MainJoins, Main, subVars, queueVars, listenVars, writerVars
<1>21. ASSUME MainCloseRaises PROVE Still
  BY <1>21 DEF MainCloseRaises, Main, subVars, queueVars, listenVars, writerVars
<1>22. ASSUME UNCHANGED vars PROVE Still
  BY <1>22 DEF vars, queueVars, listenVars, writerVars
<1>23. QED
  BY <1>1, <1>2, <1>3, <1>4, <1>5, <1>6, <1>7, <1>8, <1>9, <1>10, <1>11, <1>12, <1>13,
     <1>14, <1>15, <1>16, <1>17, <1>18, <1>19, <1>20, <1>21, <1>22 DEF Next,
     ListenerThread, WriterThread, MainThread

\* A hard close stays one.
LEMMA HardStays ==
  ASSUME Control, [Next]_vars
  PROVE  /\ hard => hard'
         /\ ~ hard' /\ mpc # "idle" => UNCHANGED before
<1> USE DEF Control, Next, ListenerThread, WriterThread, MainThread, Main, mainVars
<1>1. CASE Publish
  BY <1>1 DEF Publish
<1>2. CASE ListenerThread
  BY <1>2 DEF ListenerStarts, ListenerTests, ListenerReceives, ListenerPuts,
     ListenerStops, ListenerExits
<1>3. CASE WriterThread
  BY <1>3 DEF WriterStarts, WriterRuns, WriterTests, WriterGets, WriterTaskDone,
     WriterGotNone, WriterWrites, WriterRaises
<1>4. CASE Close \/ Interrupt
  BY <1>4 DEF Close, Interrupt, BeginClose
<1>5. CASE MainThread
  BY <1>5 DEF MainSetsStopping, MainChecks, MainSends, MainClears, MainTestsEmpty,
     MainDrains, MainTaskDone, MainJoinsQueue, MainJoins, MainCloseRaises
<1>6. CASE UNCHANGED vars
  BY <1>6 DEF vars
<1>7. QED
  BY <1>1, <1>2, <1>3, <1>4, <1>5, <1>6

\* The listener does not come back to its loop, nor the main thread to before
\* close.
LEMMA StaysSo ==
  ASSUME Control, [Next]_vars
  PROVE  /\ lpc \in {"exit", "ended"} => lpc' \in {"exit", "ended"}
         /\ mpc # "idle" => mpc' # "idle"
<1> USE DEF Control, Next, ListenerThread, WriterThread, MainThread, Listener, Writer, Main,
            AfterClose, listenVars, mainVars
<1>1. CASE Publish
  BY <1>1 DEF Publish
<1>2. CASE ListenerThread
  BY <1>2 DEF ListenerStarts, ListenerTests, ListenerReceives, ListenerPuts,
     ListenerStops, ListenerExits
<1>3. CASE WriterThread
  BY <1>3 DEF WriterStarts, WriterRuns, WriterTests, WriterGets, WriterTaskDone,
     WriterGotNone, WriterWrites, WriterRaises
<1>4. CASE Close \/ Interrupt
  BY <1>4 DEF Close, Interrupt, BeginClose
<1>5. CASE MainThread
  BY <1>5 DEF MainSetsStopping, MainChecks, MainSends, MainClears, MainTestsEmpty,
     MainDrains, MainTaskDone, MainJoinsQueue, MainJoins, MainCloseRaises
<1>6. CASE UNCHANGED vars
  BY <1>6 DEF vars
<1>7. QED
  BY <1>1, <1>2, <1>3, <1>4, <1>5, <1>6

\* What was received stays received.
LEMMA ReceivedGrows ==
  ASSUME TypeOK, Control, [Next]_vars
  PROVE  Range(received) \subseteq Range(received')
<1> USE StateFacts
<1>1. CASE ListenerPuts
  <2> DEFINE item == Unpack(Head(sock))
  <2>1. /\ sock # << >>
        /\ received' = IF item = None THEN received ELSE Append(received, item)
    BY <1>1 DEF Control, ListenerPuts, Listener
  <2>2. item \in Item
    BY <2>1, TailFacts, ItemsAreNumbers DEF Unpack
  <2>3. CASE item = None
    BY <2>1, <2>3
  <2>4. CASE item # None
    <3>1. received' = Append(received, item)
      BY <2>1, <2>4
    <3>2. Range(received') = Range(received) \union {item}
      BY <2>2, <3>1, AppendFacts
    <3>3. QED
      BY <3>2
  <2>5. QED
    BY <2>3, <2>4
<1>2. CASE Publish \/ ListenerStops \/ WriterGets \/ WriterWrites \/ MainDrains \/ Still
  BY <1>2 DEF Publish, ListenerStops, WriterGets, WriterWrites, MainDrains, Still,
     listenVars
<1>3. QED
  BY <1>1, <1>2, MostStepsAreStill

\* Every step keeps the order of the messages.
LEMMA OrderedStep ==
  ASSUME TypeOK, Control, Ordered, [Next]_vars
  PROVE  Ordered'
<1> USE StateFacts
<1>1. CASE Publish
  <2>1. /\ sent' = sent + 1
        /\ sock' = Append(sock, sent + 1)
        /\ UNCHANGED <<written, Held, data_buffer, received>>
    BY <1>1 DEF Publish, queueVars, writerVars, Held
  <2>2. sent + 1 \in Item /\ sent + 1 # None
    BY ItemsAreNumbers DEF None
  <2>3. Range(sock') = Range(sock) \union {sent'}
    BY <2>1, <2>2, AppendFacts
  <2>4. InOrder(sock')
    <3>1. Below(Messages(sock), {sent + 1})
      BY DEF Ordered, Below
    <3>2. QED
      BY <2>1, <2>2, <3>1, AppendFacts DEF Ordered
  <2>5. QED
    BY <2>1, <2>3, <2>4 DEF Ordered, Below
<1>2. CASE ListenerPuts
  <2> DEFINE m == Head(sock)
             item == Unpack(m)
  <2>1. /\ sock # << >>
        /\ sock' = Tail(sock)
        /\ data_buffer' = Append(data_buffer, item)
        /\ received' = IF item = None THEN received ELSE Append(received, item)
        /\ UNCHANGED <<written, Held, sent>>
    BY <1>2 DEF Control, ListenerPuts, Listener, Put, writerVars, Held
  <2>2. /\ m \in Item /\ m # None
        /\ Range(sock) = {m} \union Range(sock')
        /\ InOrder(sock') /\ Below({m}, Range(sock'))
    <3>1. /\ m \in Item
          /\ Range(sock) = {m} \union Range(sock')
          /\ InOrder(sock') /\ (m # None => Below({m}, Messages(sock')))
      BY <2>1, TailFacts DEF Ordered
    <3>2. m # None /\ Messages(sock') = Range(sock')
      BY <3>1 DEF Messages
    <3>3. QED
      BY <3>1, <3>2
  <2>3. item \in Item /\ (item # None => item = m)
    BY <2>2, ItemsAreNumbers DEF Unpack
  <2>4. /\ Messages(data_buffer') = Messages(data_buffer) \union ({item} \ {None})
        /\ InOrder(data_buffer')
    <3>1. item # None => Below(Messages(data_buffer), {item})
      BY <2>2, <2>3 DEF Ordered, Below
    <3>2. QED
      BY <2>1, <2>3, <3>1, AppendFacts DEF Ordered
  <2>5. /\ Range(received') = Range(received) \union ({item} \ {None})
        /\ InOrder(received')
    <3>1. item # None => Below(Messages(received), {item})
      BY <2>2, <2>3 DEF Ordered, Below
    <3>2. CASE item = None
      BY <2>1, <3>2 DEF Ordered
    <3>3. CASE item # None
      BY <2>1, <2>3, <3>1, <3>3, AppendFacts DEF Ordered
    <3>4. QED
      BY <3>2, <3>3
  <2>6. /\ \A a \in Messages(data_buffer'), b \in Range(sock') : a < b
        /\ \A a \in Range(received'), b \in Range(sock') : a < b
    BY <2>2, <2>3, <2>4, <2>5 DEF Ordered, Below
  <2>7. QED
    BY <2>1, <2>2, <2>3, <2>4, <2>5, <2>6 DEF Ordered, Below
<1>3. CASE ListenerStops
  <2>1. /\ data_buffer' = Append(data_buffer, None)
        /\ UNCHANGED <<written, Held, sock, received, sent>>
    BY <1>3 DEF ListenerStops, Put, writerVars, Held
  <2>2. None \in Item
    BY ItemsAreNumbers
  <2>3. Messages(data_buffer') = Messages(data_buffer)
    <3>1. Messages(data_buffer') = Messages(data_buffer) \union ({None} \ {None})
      BY <2>1, <2>2, AppendFacts
    <3>2. QED
      BY <3>1
  <2>4. InOrder(data_buffer')
    BY <2>1, <2>2, AppendFacts DEF Ordered
  <2>5. QED
    BY <2>1, <2>3, <2>4 DEF Ordered
<1>4. CASE WriterGets
  <2>1. /\ data_buffer # << >>
        /\ Held = {}
        /\ Held' = {Head(data_buffer)} \ {None}
        /\ data_buffer' = Tail(data_buffer)
        /\ UNCHANGED <<written, sock, received, sent>>
    BY <1>4 DEF WriterGets, Writer, listenVars, Held
  <2>2. /\ Messages(data_buffer) = Held' \union Messages(data_buffer')
        /\ InOrder(data_buffer') /\ Below(Held', Messages(data_buffer'))
    BY <2>1, TailFacts DEF Ordered, Below
  <2>3. QED
    BY <2>1, <2>2 DEF Ordered, Below
<1>5. CASE WriterWrites
  <2>1. /\ data # None
        /\ Held = {data} /\ Held' = {}
        /\ written' = Append(written, data)
        /\ UNCHANGED <<data_buffer, sock, received, sent>>
    BY <1>5 DEF Control, WriterWrites, Writer, queueVars, listenVars, Held
  <2>2. Range(written') = Range(written) \union Held /\ InOrder(written')
    BY <2>1, AppendFacts, ItemsAreNumbers DEF Ordered
  <2>3. QED
    BY <2>1, <2>2 DEF Ordered, Below
<1>6. CASE MainDrains
  <2>1. /\ data_buffer # << >>
        /\ data_buffer' = Tail(data_buffer)
        /\ UNCHANGED <<written, Held, sock, received, sent>>
    BY <1>6 DEF MainDrains, listenVars, writerVars, Held
  <2>2. Messages(data_buffer') \subseteq Messages(data_buffer) /\ InOrder(data_buffer')
    BY <2>1, TailFacts DEF Ordered
  <2>3. QED
    BY <2>1, <2>2 DEF Ordered, Below
<1>7. CASE Still
  BY <1>7 DEF Still, Ordered
<1>8. QED
  BY <1>1, <1>2, <1>3, <1>4, <1>5, <1>6, <1>7, MostStepsAreStill

\* Every step before a hard close keeps the messages.
LEMMA ConservedStep ==
  ASSUME TypeOK, Control, Ordered, Conserved, [Next]_vars
  PROVE  Conserved'
<1> USE StateFacts
<1>1. CASE Publish
  BY <1>1 DEF Publish, queueVars, writerVars, mainVars, Held, Conserved
<1>2. CASE ListenerPuts
  <2> DEFINE item == Unpack(Head(sock))
  <2>1. /\ sock # << >>
        /\ data_buffer' = Append(data_buffer, item)
        /\ received' = IF item = None THEN received ELSE Append(received, item)
        /\ UNCHANGED <<written, Held, hard>>
    BY <1>2 DEF Control, ListenerPuts, Listener, Put, writerVars, mainVars, Held
  <2>2. item \in Item
    BY <2>1, TailFacts, ItemsAreNumbers DEF Unpack
  <2>3. Messages(data_buffer') = Messages(data_buffer) \union ({item} \ {None})
    BY <2>1, <2>2, AppendFacts
  <2>4. Range(received') = Range(received) \union ({item} \ {None})
    <3>1. CASE item = None
      BY <2>1, <3>1
    <3>2. CASE item # None
      <4>1. Range(received') = Range(received) \union {item}
        BY <2>1, <2>2, <3>2, AppendFacts
      <4>2. QED
        BY <3>2, <4>1
    <3>3. QED
      BY <3>1, <3>2
  <2>5. QED
    BY <2>1, <2>3, <2>4 DEF Conserved
<1>3. CASE ListenerStops
  <2>1. /\ data_buffer' = Append(data_buffer, None)
        /\ UNCHANGED <<written, Held, received, hard>>
    BY <1>3 DEF ListenerStops, Put, writerVars, mainVars, Held
  <2>2. None \in Item
    BY ItemsAreNumbers
  <2>3. Messages(data_buffer') = Messages(data_buffer)
    <3>1. Messages(data_buffer') = Messages(data_buffer) \union ({None} \ {None})
      BY <2>1, <2>2, AppendFacts
    <3>2. QED
      BY <3>1
  <2>4. QED
    BY <2>1, <2>3 DEF Conserved
<1>4. CASE WriterGets
  <2>1. /\ data_buffer # << >>
        /\ Held = {}
        /\ Held' = {Head(data_buffer)} \ {None}
        /\ data_buffer' = Tail(data_buffer)
        /\ UNCHANGED <<written, received, hard>>
    BY <1>4 DEF WriterGets, Writer, listenVars, mainVars, Held
  <2>2. Messages(data_buffer) = Held' \union Messages(data_buffer')
    BY <2>1, TailFacts
  <2>3. QED
    BY <2>1, <2>2 DEF Conserved
<1>5. CASE WriterWrites
  <2>1. /\ data # None
        /\ Held = {data} /\ Held' = {}
        /\ written' = Append(written, data)
        /\ UNCHANGED <<data_buffer, received, hard>>
    BY <1>5 DEF Control, WriterWrites, Writer, queueVars, listenVars, mainVars, Held
  <2>2. Range(written') = Range(written) \union Held
    BY <2>1, AppendFacts, ItemsAreNumbers
  <2>3. QED
    BY <2>1, <2>2 DEF Conserved
<1>6. CASE MainDrains
  BY <1>6 DEF MainDrains, Main, Control, Conserved
<1>7. CASE Still
  <2>1. hard => hard'
    BY HardStays
  <2>2. QED
    BY <1>7, <2>1 DEF Still, Conserved
<1>8. QED
  BY <1>1, <1>2, <1>3, <1>4, <1>5, <1>6, <1>7, MostStepsAreStill

\* The inductive invariant holds for all messages, rejected ones included.
THEOREM InvariantHolds == Spec => []SInv
<1>1. Init => SInv
  <2>1. SUFFICES ASSUME Init PROVE SInv
    OBVIOUS
  <2>2. TypeOK
    BY <2>1, EmptySeq DEF Init, TypeOK, Item
  <2>3. TasksAccounted
    BY <2>1, EmptySeq DEF Init, TasksAccounted
  <2>4. Ordered
    BY <2>1, EmptyFacts DEF Init, Ordered, Held, Below
  <2>5. Control
    BY <2>1 DEF Init, Control
  <2>6. Conserved
    BY <2>1, EmptyFacts DEF Init, Conserved, Held
  <2>7. QED
    BY <2>2, <2>3, <2>4, <2>5, <2>6 DEF SInv
<1>2. SInv /\ [Next]_vars => SInv'
  BY TypeStep, CountStep, ControlStep, OrderedStep, ConservedStep DEF SInv
<1>3. QED
  BY <1>1, <1>2, PTL DEF Spec

\* The types of the state (TypeOK).
THEOREM TypeCorrect == Spec => []TypeOK
<1>1. SInv => TypeOK
  BY DEF SInv
<1>2. QED
  BY <1>1, InvariantHolds, PTL

\* task_done is called exactly once for each item that was taken, by the writer
\* and the closing thread together (TasksAccounted).
THEOREM TasksAreAccounted == Spec => []TasksAccounted
<1>1. SInv => TasksAccounted
  BY DEF SInv
<1>2. QED
  BY <1>1, InvariantHolds, PTL

\* The file is in order of publication, whatever a hard close takes away
\* (WrittenInOrder).
THEOREM FileInOrder == Spec => []WrittenInOrder
<1>1. SInv => WrittenInOrder
  BY DEF SInv, Ordered, WrittenInOrder
<1>2. QED
  BY <1>1, InvariantHolds, PTL

\* A message is in the hand of the writer thread, or write raised on it.
LEMMA HandFacts ==
  ASSUME TypeOK, Control
  PROVE  /\ Failed \o InHand \in Seq(Item)
         /\ Messages(Failed \o InHand) = Held
         /\ InOrder(Failed \o InHand)
<1> DEFINE hand == Failed \o InHand
<1>1. CASE Held = {}
  <2>1. Failed = << >> /\ InHand = << >>
    BY <1>1 DEF Control, Held, Failed, InHand
  <2>2. hand = << >>
    BY <2>1
  <2>3. QED
    BY <1>1, <2>1, <2>2, EmptyFacts, EmptySeq
<1>2. CASE Held # {}
  <2>1. Held = {data} /\ data # None /\ data \in Item
    BY <1>2 DEF Held, TypeOK
  <2>2. \/ Failed = <<data>> /\ InHand = << >>
        \/ Failed = << >> /\ InHand = <<data>>
    BY <1>2 DEF Held, Failed, InHand
  <2>3. <<data>> \in Seq(Item) /\ Range(<<data>>) = {data} /\ InOrder(<<data>>)
    BY <2>1 DEF Range, InOrder
  <2>4. hand = <<data>>
    BY <2>2, <2>3, ConcatEmptySeq
  <2>5. QED
    BY <2>1, <2>2, <2>3, <2>4, EmptySeq DEF Messages
<1>3. QED
  BY <1>1, <1>2

\* The way from the socket to the file is in order and has every message once.
LEMMA PathFacts ==
  ASSUME TypeOK, Ordered, Control
  PROVE  /\ Messages(Path) = Range(written) \union Held \union Messages(data_buffer)
         /\ InOrder(Path)
<1> USE StateFacts
<1> DEFINE hand == Failed \o InHand
           front == written \o hand
<1>1. hand \in Seq(Item) /\ Messages(hand) = Held /\ InOrder(hand)
  BY HandFacts
<1>2. Path = front \o data_buffer
  BY DEF Path
<1> HIDE DEF hand
<1>3. /\ front \in Seq(Item)
      /\ Messages(front) = Range(written) \union Held
      /\ InOrder(front)
  BY <1>1, ConcatFacts DEF Ordered
<1>4. Below(Messages(front), Messages(data_buffer))
  BY <1>3 DEF Ordered, Below
<1> HIDE DEF front
<1>5. QED
  BY <1>2, <1>3, <1>4, ConcatFacts DEF Ordered

\* Before a hard close nothing is doubled or reordered, and nothing lost but the one
\* message on which write raised (Pipeline).
THEOREM NothingIsLost == Spec => []Pipeline
<1>1. SInv => Pipeline
  BY PathFacts DEF SInv, Conserved, Pipeline
<1>2. QED
  BY <1>1, InvariantHolds, PTL

\* No thread writes to the file after close has returned (ClosedIsQuiet).
THEOREM NoWriteAfterClose == Spec => ClosedIsQuiet
<1>1. SInv /\ [Next]_vars => [mpc = "closed" => UNCHANGED written]_vars
  <2>1. SUFFICES ASSUME SInv, Next, mpc = "closed"
                 PROVE  UNCHANGED written
    OBVIOUS
  <2>2. wpc \in {"ended", "raised"}
    BY <2>1 DEF SInv, Control
  <2>3. ~ WriterWrites
    BY <2>2 DEF WriterWrites, Writer
  <2>4. CASE Publish
    BY <2>4 DEF Publish, writerVars
  <2>5. CASE ListenerPuts
    BY <2>5 DEF ListenerPuts, writerVars
  <2>6. CASE ListenerStops
    BY <2>6 DEF ListenerStops, writerVars
  <2>7. CASE WriterGets
    BY <2>7 DEF WriterGets
  <2>8. CASE MainDrains
    BY <2>8 DEF MainDrains, writerVars
  <2>9. CASE Still
    BY <2>9 DEF Still
  <2>10. QED
    BY <2>1, <2>3, <2>4, <2>5, <2>6, <2>7, <2>8, <2>9, MostStepsAreStill DEF SInv
<1>2. QED
  BY <1>1, InvariantHolds, PTL DEF Spec, ClosedIsQuiet

-----------------------------------------------------------------------------
(* The sentinel and a soft close, if no message is rejected *)

\* Where None is in a queue that gets an item or loses one.
LEMMA NoneFacts ==
  ASSUME NEW s \in Seq(Item)
  PROVE  /\ Contains(s, None) <=> None \in Range(s)
         /\ None \notin Range(s) => NoneIsLast(s)
         /\ None \notin Range(s) => NoneIsLast(Append(s, None))
         /\ NoneIsLast(s) /\ s # << >> =>
              /\ NoneIsLast(Tail(s))
              /\ Head(s) = None => Tail(s) = << >>
<1>1. Len(s) \in Nat /\ DOMAIN s = 1 .. Len(s)
  BY LenProperties
<1>2. Contains(s, None) <=> None \in Range(s)
  BY <1>1 DEF Contains, Range
<1>3. None \notin Range(s) => NoneIsLast(s)
  BY DEF NoneIsLast, Range
<1>4. ASSUME None \notin Range(s) PROVE NoneIsLast(Append(s, None))
  <2> DEFINE t == Append(s, None)
  <2>1. /\ Len(t) = Len(s) + 1 /\ DOMAIN t = 1 .. Len(t)
        /\ \A i \in 1 .. Len(s) : t[i] = s[i]
    BY AppendProperties, LenProperties DEF Item
  <2> HIDE DEF t
  <2>2. ASSUME NEW i \in DOMAIN t, t[i] = None PROVE i = Len(t)
    <3>1. i \notin DOMAIN s
      BY <1>1, <1>4, <2>1, <2>2 DEF Range
    <3>2. QED
      BY <1>1, <2>1, <3>1
  <2>3. QED
    BY <2>2 DEF NoneIsLast, t
<1>5. ASSUME NoneIsLast(s), s # << >>
      PROVE  /\ NoneIsLast(Tail(s))
             /\ Head(s) = None => Tail(s) = << >>
  <2>1. /\ Head(s) = s[1] /\ Tail(s) \in Seq(Item)
        /\ Len(s) \in Nat \ {0} /\ Len(Tail(s)) = Len(s) - 1
        /\ DOMAIN Tail(s) = 1 .. Len(Tail(s))
        /\ \A i \in 1 .. Len(Tail(s)) : Tail(s)[i] = s[i + 1]
    BY <1>5, HeadTailProperties, LenProperties, EmptySeq
  <2>2. NoneIsLast(Tail(s))
    BY <1>1, <1>5, <2>1 DEF NoneIsLast
  <2>3. Head(s) = None => Len(Tail(s)) = 0
    BY <1>1, <1>5, <2>1 DEF NoneIsLast
  <2>4. QED
    BY <2>1, <2>2, <2>3, EmptySeq
<1>6. QED
  BY <1>2, <1>3, <1>4, <1>5

\* Every step keeps the messages that arrived, if none is rejected.
LEMMA ArrivedStep ==
  ASSUME Rejected = {}, TypeOK, Control, Arrived, [Next]_vars
  PROVE  Arrived'
<1> USE StateFacts
<1>1. CASE Publish
  <2>1. /\ sent' = sent + 1 /\ received' = received
        /\ sock' = Append(sock, sent + 1)
    BY <1>1 DEF Publish
  <2>2. Range(sock') = Range(sock) \union {sent + 1}
    <3>1. sent + 1 \in Item
      BY ItemsAreNumbers
    <3>2. QED
      BY <2>1, <3>1, AppendFacts
  <2>3. 1 .. sent' = (1 .. sent) \union {sent + 1}
    BY <2>1
  <2>4. QED
    BY <2>1, <2>2, <2>3 DEF Arrived
<1>2. CASE ListenerPuts
  <2> DEFINE m == Head(sock)
  <2>1. /\ sock # << >> /\ sock' = Tail(sock) /\ sent' = sent
        /\ received' = IF m = None THEN received ELSE Append(received, m)
    BY <1>2 DEF Control, ListenerPuts, Listener, Unpack
  <2>2. m \in Item /\ Range(sock) = {m} \union Range(sock')
    BY <2>1, TailFacts
  <2>3. m # None
    BY <2>2
  <2>4. Range(received') = Range(received) \union {m}
    BY <2>1, <2>2, <2>3, AppendFacts
  <2>5. QED
    BY <2>1, <2>2, <2>4 DEF Arrived
<1>3. CASE ListenerStops
  BY <1>3 DEF ListenerStops, Arrived
<1>4. CASE WriterGets
  BY <1>4 DEF WriterGets, listenVars, Arrived
<1>5. CASE WriterWrites
  BY <1>5 DEF WriterWrites, listenVars, Arrived
<1>6. CASE MainDrains
  BY <1>6 DEF MainDrains, listenVars, Arrived
<1>7. CASE Still
  BY <1>7 DEF Still, Arrived
<1>8. QED
  BY <1>1, <1>2, <1>3, <1>4, <1>5, <1>6, <1>7, MostStepsAreStill

\* Only ListenerStops makes a sentinel; the others leave it where it is, or
\* pass it on, or lose it in a hard close.
LEMMA SentinelOnlyFromStop ==
  ASSUME Rejected = {}, TypeOK, Control, EndsOnSentinel, AllPut, [Next]_vars,
     ~ ListenerStops
  PROVE  /\ SentinelTaken' => SentinelTaken \/ (None \in Range(data_buffer) /\ data_buffer' = << >>)
         /\ None \in Range(data_buffer') => None \in Range(data_buffer)
         /\ NoneIsLast(data_buffer')
<1> USE StateFacts DEF EndsOnSentinel
<1>1. CASE ListenerPuts
  <2>1. /\ sock # << >>
        /\ data_buffer' = Append(data_buffer, Head(sock))
        /\ lpc = "put" /\ UNCHANGED <<data, wpc, hard>>
    BY <1>1 DEF Control, ListenerPuts, Listener, Put, Unpack, writerVars, mainVars
  <2>2. Head(sock) \in Item /\ Head(sock) # None
    BY <2>1, TailFacts
  <2>3. None \notin Range(data_buffer)
    BY <2>1 DEF Sentinel
  <2>4. data_buffer' \in Seq(Item) /\ None \notin Range(data_buffer')
    <3>1. /\ data_buffer' \in Seq(Item)
          /\ Range(data_buffer') = Range(data_buffer) \union {Head(sock)}
      BY <2>1, <2>2, AppendFacts
    <3>2. QED
      BY <2>2, <2>3, <3>1
  <2>5. QED
    BY <2>1, <2>3, <2>4, NoneFacts DEF SentinelTaken
<1>2. CASE WriterGets
  <2>1. /\ data_buffer # << >>
        /\ data' = Head(data_buffer) /\ data_buffer' = Tail(data_buffer)
        /\ wpc' = "done"
    BY <1>2 DEF WriterGets, Writer
  <2>2. /\ Range(data_buffer) = {data'} \union Range(data_buffer')
        /\ NoneIsLast(data_buffer')
        /\ data' = None => data_buffer' = << >>
    BY <2>1, TailFacts, NoneFacts
  <2>3. QED
    BY <2>1, <2>2 DEF SentinelTaken
<1>3. CASE MainDrains
  <2>1. /\ data_buffer # << >> /\ data_buffer' = Tail(data_buffer)
        /\ UNCHANGED <<data, wpc, hard>>
    BY <1>3 DEF MainDrains, writerVars
  <2>2. /\ Range(data_buffer) = {Head(data_buffer)} \union Range(data_buffer')
        /\ NoneIsLast(data_buffer')
    BY <2>1, TailFacts, NoneFacts
  <2>3. QED
    BY <2>1, <2>2 DEF SentinelTaken
<1>4. CASE Publish
  BY <1>4 DEF Publish, queueVars, writerVars, mainVars, SentinelTaken
<1>5. CASE WriterWrites
  BY <1>5 DEF WriterWrites, Writer, queueVars, SentinelTaken
<1>6. CASE ListenerStarts
  BY <1>6, HardStays DEF ListenerStarts, Listener, queueVars, writerVars, mainVars,
     SentinelTaken, Control
<1>7. CASE ListenerTests
  BY <1>7, HardStays DEF ListenerTests, Listener, subVars, queueVars, writerVars,
     mainVars, SentinelTaken, Control
<1>8. CASE ListenerReceives
  BY <1>8, HardStays DEF ListenerReceives, Listener, subVars, queueVars, writerVars,
     mainVars, SentinelTaken, Control
<1>9. CASE ListenerExits
  BY <1>9, HardStays DEF ListenerExits, Listener, queueVars, writerVars, mainVars,
     SentinelTaken, Control
<1>10. CASE WriterStarts
  BY <1>10, HardStays DEF WriterStarts, Writer, subVars, queueVars, mainVars,
     SentinelTaken, Control
<1>11. CASE WriterRuns
  BY <1>11, HardStays DEF WriterRuns, Writer, subVars, queueVars, listenVars, mainVars,
     SentinelTaken, Control
<1>12. CASE WriterTests
  BY <1>12, HardStays DEF WriterTests, Writer, subVars, queueVars, listenVars,
     mainVars, SentinelTaken, Control
<1>13. CASE WriterTaskDone
  BY <1>13, HardStays DEF WriterTaskDone, Writer, subVars, listenVars, mainVars,
     SentinelTaken, Control
<1>14. CASE WriterGotNone
  BY <1>14, HardStays DEF WriterGotNone, Writer, subVars, queueVars, listenVars,
     mainVars, SentinelTaken, Control
<1>15. CASE WriterRaises
  BY <1>15, HardStays DEF WriterRaises, Writer, subVars, queueVars, listenVars,
     mainVars, SentinelTaken, Control
<1>16. CASE Close
  BY <1>16, HardStays DEF Close, BeginClose, subVars, queueVars, listenVars,
     writerVars, SentinelTaken, Control
<1>17. CASE Interrupt
  BY <1>17, HardStays DEF Interrupt, BeginClose, subVars, queueVars, listenVars,
     writerVars, SentinelTaken, Control
<1>18. CASE MainSetsStopping
  BY <1>18, HardStays DEF MainSetsStopping, Main, subVars, queueVars, listenVars,
     writerVars, SentinelTaken, Control
<1>19. CASE MainChecks
  BY <1>19, HardStays DEF MainChecks, Main, AfterClose, subVars, queueVars, listenVars,
     writerVars, SentinelTaken, Control
<1>20. CASE MainSends
  BY <1>20, HardStays DEF MainSends, Main, queueVars, listenVars, writerVars,
     SentinelTaken, Control
<1>21. CASE MainClears
  BY <1>21, HardStays DEF MainClears, Main, AfterClose, queueVars, listenVars,
     writerVars, SentinelTaken, Control
<1>22. CASE MainTestsEmpty
  BY <1>22, HardStays DEF MainTestsEmpty, Main, subVars, queueVars, listenVars,
     writerVars, SentinelTaken, Control
<1>23. CASE MainTaskDone
  BY <1>23, HardStays DEF MainTaskDone, Main, subVars, listenVars, writerVars,
     SentinelTaken, Control
<1>24. CASE MainJoinsQueue
  BY <1>24, HardStays DEF MainJoinsQueue, Main, subVars, queueVars, listenVars,
     writerVars, SentinelTaken, Control
<1>25. CASE MainJoins
  BY <1>25, HardStays DEF MainJoins, Main, subVars, queueVars, listenVars, writerVars,
     SentinelTaken, Control
<1>26. CASE MainCloseRaises
  BY <1>26, HardStays DEF MainCloseRaises, Main, subVars, queueVars, listenVars,
     writerVars, SentinelTaken, Control
<1>27. CASE UNCHANGED vars
  BY <1>27 DEF vars, queueVars, writerVars, mainVars, SentinelTaken
<1>28. QED
  BY <1>1, <1>2, <1>3, <1>4, <1>5, <1>6, <1>7, <1>8, <1>9, <1>10, <1>11, <1>12, <1>13,
     <1>14, <1>15, <1>16, <1>17, <1>18, <1>19, <1>20, <1>21, <1>22, <1>23, <1>24,
     <1>25, <1>26, <1>27 DEF Next, ListenerThread, WriterThread, MainThread

\* Every step keeps the sentinel last.
LEMMA EndsOnSentinelStep ==
  ASSUME Rejected = {}, TypeOK, Control, EndsOnSentinel, AllPut, [Next]_vars
  PROVE  EndsOnSentinel'
<1> USE StateFacts
<1>1. CASE ListenerStops
  <2>1. /\ lpc = "poll" /\ lpc' = "exit"
        /\ data_buffer' = Append(data_buffer, None)
        /\ UNCHANGED <<data, wpc, hard>>
    BY <1>1 DEF ListenerStops, Listener, Put, writerVars, mainVars
  <2>2. None \notin Range(data_buffer) /\ ~ SentinelTaken
    BY <2>1 DEF EndsOnSentinel, Sentinel
  <2>3. NoneIsLast(data_buffer')
    BY <2>1, <2>2, NoneFacts
  <2>4. ~ SentinelTaken'
    BY <2>1, <2>2 DEF SentinelTaken
  <2>5. QED
    BY <2>1, <2>3, <2>4 DEF EndsOnSentinel
<1>2. CASE ~ ListenerStops
  <2>1. /\ SentinelTaken' => SentinelTaken \/ (None \in Range(data_buffer) /\ data_buffer' = << >>)
        /\ None \in Range(data_buffer') => None \in Range(data_buffer)
        /\ NoneIsLast(data_buffer')
    BY <1>2, SentinelOnlyFromStop
  <2>2. lpc \in {"exit", "ended"} => lpc' \in {"exit", "ended"}
    BY StaysSo
  <2>3. Sentinel' => lpc' \in {"exit", "ended"}
    BY <2>1, <2>2 DEF EndsOnSentinel, Sentinel
  <2>4. ASSUME SentinelTaken PROVE data_buffer' = << >>
    <3>1. data_buffer = << >> /\ lpc \in {"exit", "ended"}
      BY <2>4 DEF EndsOnSentinel, Sentinel
    <3>2. ~ ListenerPuts
      BY <3>1 DEF ListenerPuts, Listener
    <3>3. ~ WriterGets /\ ~ MainDrains
      BY <3>1 DEF WriterGets, MainDrains
    <3>4. Publish \/ WriterWrites \/ Still
      BY <1>2, <3>2, <3>3, MostStepsAreStill
    <3>5. QED
      BY <3>1, <3>4 DEF Publish, WriterWrites, queueVars, Still
  <2>5. QED
    BY <2>1, <2>3, <2>4 DEF EndsOnSentinel
<1>3. QED
  BY <1>1, <1>2

\* When the listener puts the sentinel all that had arrived is in the queue,
\* and it stays there or goes to the file.
LEMMA AllPutStep ==
  ASSUME Rejected = {}, TypeOK, Control, SentinelInv, [Next]_vars
  PROVE  AllPut'
<1> USE StateFacts DEF SentinelInv
<1>1. SUFFICES ASSUME Sentinel', ~ hard'
               PROVE  mpc' # "idle" /\ 1 .. before' \subseteq Range(received')
  BY DEF AllPut
<1>2. ~ hard
  BY <1>1, HardStays
<1>3. CASE ListenerStops
  <2>1. /\ sock = << >> /\ close_sock > 0
        /\ UNCHANGED <<mpc, before, received>>
    BY <1>3 DEF ListenerStops, mainVars
  <2>2. mpc # "idle" /\ before <= sent /\ before \in Nat
    BY <2>1 DEF Control, TypeOK
  <2>3. Range(received) = 1 .. sent
    BY <2>1, EmptyFacts DEF Arrived
  <2>4. QED
    BY <2>1, <2>2, <2>3
<1>4. CASE ~ ListenerStops
  <2>1. Sentinel
    BY <1>1, <1>4, SentinelOnlyFromStop DEF Sentinel
  <2>2. mpc # "idle" /\ 1 .. before \subseteq Range(received)
    BY <1>2, <2>1 DEF AllPut
  <2>3. mpc' # "idle" /\ before' = before
    BY <1>1, <2>2, HardStays, StaysSo
  <2>4. Range(received) \subseteq Range(received')
    BY ReceivedGrows
  <2>5. QED
    BY <2>2, <2>3, <2>4
<1>5. QED
  BY <1>3, <1>4

\* A soft close of a listener that rejects nothing (SentinelInv).
THEOREM SentinelHolds ==
  ASSUME Rejected = {}
  PROVE  Spec => []SentinelInv
<1>1. Init => SentinelInv
  <2>1. SUFFICES ASSUME Init PROVE SentinelInv
    OBVIOUS
  <2>2. ~ SentinelTaken /\ ~ Sentinel
    BY <2>1, EmptyFacts DEF Init, SentinelTaken, Sentinel
  <2>3. NoneIsLast(data_buffer)
    BY <2>1, EmptyFacts, NoneFacts, EmptySeq DEF Init
  <2>4. Arrived
    BY <2>1, EmptyFacts DEF Init, Arrived
  <2>5. QED
    BY <2>2, <2>3, <2>4 DEF SentinelInv, EndsOnSentinel, AllPut
<1>2. SInv /\ SentinelInv /\ [Next]_vars => SentinelInv'
  BY ArrivedStep, EndsOnSentinelStep, AllPutStep DEF SInv, SentinelInv
<1>3. QED
  BY <1>1, <1>2, InvariantHolds, PTL DEF Spec

\* None is the last item of the queue, and the listener is past its loop
\* (NothingAfterNone), if no message is rejected.
THEOREM SentinelIsLast ==
  ASSUME Rejected = {}
  PROVE  Spec => []NothingAfterNone
<1>1. SentinelInv => NothingAfterNone
  <2>1. SUFFICES ASSUME SentinelInv, NEW i \in DOMAIN data_buffer, data_buffer[i] = None
                 PROVE  i = Len(data_buffer) /\ lpc \in {"exit", "ended"}
    BY DEF NothingAfterNone
  <2>2. None \in Range(data_buffer)
    BY <2>1 DEF Range
  <2>3. QED
    BY <2>1, <2>2 DEF SentinelInv, EndsOnSentinel, NoneIsLast, Sentinel
<1>2. QED
  BY <1>1, SentinelHolds, PTL

\* A soft close that returns has everything that had arrived in the file, or, if the
\* writer thread ended on a write that raised, everything that was published before
\* the message it raised on (SoftCloseKeepsAll).  No message is rejected.
THEOREM SoftCloseKeeps ==
  ASSUME Rejected = {}
  PROVE  Spec => []SoftCloseKeepsAll
<1>1. ASSUME SInv, SentinelInv, mpc = "closed", ~ hard, wpc # "raised"
      PROVE  /\ written = received
             /\ \A m \in 1 .. before : Contains(written, m)
  <2>1. wpc = "ended" /\ SentinelTaken
    BY <1>1 DEF SInv, Control, SentinelTaken
  <2>2. data_buffer = << >> /\ Held = {}
    BY <1>1, <2>1 DEF SentinelInv, EndsOnSentinel, Held
  <2>3. Range(written) = Range(received)
    BY <1>1, <2>2, EmptyFacts DEF SInv, Conserved
  <2>4. written = received
    BY <1>1, <2>3, OrderedEqual DEF SInv, TypeOK, Ordered
  <2>5. 1 .. before \subseteq Range(written)
    BY <1>1, <2>1, <2>3 DEF SentinelInv, AllPut, Sentinel
  <2>6. DOMAIN written = 1 .. Len(written)
    BY <1>1, LenProperties DEF SInv, TypeOK
  <2>7. \A m \in 1 .. before : Contains(written, m)
    BY <2>5, <2>6 DEF Contains, Range
  <2>8. QED
    BY <2>4, <2>7
<1>2. ASSUME SInv, SentinelInv, ~ hard, wpc = "raised"
      PROVE  Range(written) = 1 .. data - 1
  <2>1. Held = {data} /\ data # None
    BY <1>2 DEF SInv, Control, Held
  <2>2. Range(written) \union {data} \union Messages(data_buffer) \union Range(sock) = 1 .. sent
    BY <1>2, <2>1 DEF SInv, Conserved, SentinelInv, Arrived
  <2>3. /\ \A m \in Range(written) : m < data
        /\ \A m \in Messages(data_buffer) \union Range(sock) : data < m
    BY <1>2, <2>1 DEF SInv, Ordered, Below
  <2>4. sent \in Nat /\ data \in 1 .. sent
    BY <1>2, <2>2 DEF SInv, TypeOK
  <2>5. Range(written) \subseteq 1 .. data - 1
    BY <2>2, <2>3, <2>4
  <2>6. 1 .. data - 1 \subseteq Range(written)
    <3>1. SUFFICES ASSUME NEW m \in 1 .. data - 1 PROVE m \in Range(written)
      OBVIOUS
    <3>2. m \in 1 .. sent /\ m < data
      BY <2>4
    <3>3. QED
      BY <2>2, <2>3, <2>4, <3>2
  <2>7. QED
    BY <2>5, <2>6
<1>3. SInv /\ SentinelInv => SoftCloseKeepsAll
  BY <1>1, <1>2 DEF SoftCloseKeepsAll
<1>4. QED
  BY <1>3, InvariantHolds, SentinelHolds, PTL
=============================================================================
