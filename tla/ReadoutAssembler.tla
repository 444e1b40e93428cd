-------------------------- MODULE ReadoutAssembler --------------------------
(***************************************************************************)
(* The slow signal event builder of ssdaq/receivers/readout_assembler.py.  *)
(*                                                                         *)
(* Target modules (TMs) push UDP datagrams.  The protocol callback         *)
(* datagram_received checks each one and creates a task that puts it in an *)
(* unbounded asyncio queue.  One coroutine, ct_assembler, takes packets    *)
(* from that queue, groups them by timestamp ("tack") in a bounded deque   *)
(* of partial readouts, and assembles and publishes a partial readout once *)
(* the newest one is more than buffer_time ahead of it.                    *)
(*                                                                         *)
(* All of this runs on one event loop: a step below is what the loop       *)
(* executes between two suspension points, except that getting a packet,   *)
(* testing the deque and publishing are separate steps of the coroutine    *)
(* (a finer grain: only datagrams and put tasks come between them, and     *)
(* those touch nothing that the coroutine reads before its next get).      *)
(***************************************************************************)
EXTENDS Integers, Sequences

CONSTANTS
  NTM,           \* dc.N_TM, the number of target modules of the camera
  RelaxedIP,     \* relaxed_ip_range
  ReadoutTw,     \* readout_tw: packets closer than this belong together
  BufferTime,    \* buffer_time: age at which a partial readout is assembled
  BufferLen,     \* buffer_length: maxlen of the deque of partial readouts
  Datagrams,     \* the datagrams the network can deliver
  MaxDatagrams   \* bound on the number of datagrams delivered

TM == 0 .. NTM - 1

\* The last octet of the sender's address, whether the length is a multiple of
\* READOUT_LENGTH, and the tack of each of the readouts in the payload (none
\* for an empty payload).
DatagramType == [octet : 0 .. 255, whole : BOOLEAN, tacks : Seq(Nat)]

ASSUME NTMAssumption        == NTM \in Nat \ {0}
ASSUME RelaxedIPAssumption  == RelaxedIP \in BOOLEAN
ASSUME ReadoutTwAssumption  == ReadoutTw \in Nat \ {0}
ASSUME BufferTimeAssumption == BufferTime \in Nat
ASSUME BufferLenAssumption  == BufferLen \in Nat \ {0}
ASSUME DatagramsAssumption  == Datagrams \subseteq DatagramType
ASSUME MaxDatagramsAssumption == MaxDatagrams \in Nat

VARIABLES
  registered,       \* datagrams reported to the monitor sender so far
  puts,             \* put tasks created by datagram_received and not yet run
  queue,            \* ss_data_protocol._buffer
  pc,               \* where ct_assembler is suspended or about to continue
  got_packet,       \* the local of that name in the start-up drain
  partial_ro_buff,  \* partial readouts (MatchedPacket), oldest first
  readouts,         \* assembled readouts still to be published
  readout_count,    \* number given to the next readout
  published,        \* readouts handed to the publishers, in order
  taken             \* history: the packets taken since the drain ended

netVars  == <<registered, puts>>
buffVars == <<partial_ro_buff, readouts, readout_count, published>>
vars     == <<netVars, queue, pc, got_packet, buffVars, taken>>

-----------------------------------------------------------------------------
(* Packets, partial readouts and readouts *)

Abs(x) == IF x < 0 THEN -x ELSE x

\* What the protocol puts in the queue: the module number and the payload.
Packet == [tm : TM, tacks : Seq(Nat)]

\* A partial readout.  data[t] lists the tacks of the payload of module t, and
\* is empty (None in the code) when no packet of module t has been matched.
MatchedPacketType ==
  [tack : Nat, nreadouts : Nat \ {0}, data : [TM -> Seq(Nat)]]

\* A readout: its number, its time and, for each module, the tack of the row
\* of the payload that fills it, or NoRow when the row stays NaN.
NoRow == -1
ReadoutType == [iro : Nat \ {0}, tack : Nat, rows : [TM -> Nat \cup {NoRow}]]

MatchedPacket(p) ==
  [tack      |-> p.tacks[1],
   nreadouts |-> Len(p.tacks),
   data      |-> [t \in TM |-> IF t = p.tm THEN p.tacks ELSE << >>]]

\* Mutant: the payloads matched before are forgotten.
AddPartAlone(m, p) ==
  [m EXCEPT !.data = [t \in TM |-> IF t = p.tm THEN p.tacks ELSE << >>]]

AddPart(m, p) == [m EXCEPT !.data[p.tm] = p.tacks]

Tms(m) == {t \in TM : m.data[t] # << >>}

\* Appending to a deque with a maxlen drops the element at the other end.
DequeAppend(d, m) ==
  IF Len(d) < BufferLen THEN Append(d, m) ELSE Append(Tail(d), m)

Oldest(d) == d[1]
Newest(d) == d[Len(d)]

\* Mutant: one too early.
ExpiredEarly(d) == Abs(Newest(d).tack - Oldest(d).tack) >= BufferTime

Expired(d) == Abs(Newest(d).tack - Oldest(d).tack) > BufferTime

-----------------------------------------------------------------------------
(* The protocol: reception of datagrams *)

ModuleNr(d) == LET nr == d.octet % 100
               IN  IF nr > NTM - 1 /\ RelaxedIP THEN nr % NTM ELSE nr

\* A datagram of a wrong length, or of a module out of range, raises in the
\* callback: the loop logs it and goes on, the datagram is gone.
Accepted(d) == d.whole /\ ModuleNr(d) \in TM

DatagramReceived(d) ==
  /\ registered < MaxDatagrams
  /\ registered' = registered + 1
  /\ puts' = IF Accepted(d)
             THEN Append(puts, [tm |-> ModuleNr(d), tacks |-> d.tacks])
             ELSE puts
  /\ UNCHANGED <<queue, pc, got_packet, buffVars, taken>>

\* The event loop runs tasks in the order in which they were created.
PutTask ==
  /\ puts # << >>
  /\ queue' = Append(queue, Head(puts))
  /\ puts' = Tail(puts)
  /\ UNCHANGED <<registered, pc, got_packet, buffVars, taken>>

-----------------------------------------------------------------------------
(* ct_assembler: emptying the queue before the first packet *)

\* wait_for(get(), timeout=0) returns a packet (Python 3.6) ...
DrainGet ==
  /\ pc = "drain"
  /\ queue # << >>
  /\ queue' = Tail(queue)
  /\ got_packet' = TRUE
  /\ UNCHANGED <<netVars, pc, buffVars, taken>>

\* ... or times out, always so in Python 3.7.  The drain starts over as long
\* as it got something.
DrainTimeout ==
  /\ pc = "drain"
  /\ got_packet' = FALSE
  /\ pc' = IF got_packet THEN "drain" ELSE "first"
  /\ UNCHANGED <<netVars, queue, buffVars, taken>>

-----------------------------------------------------------------------------
(* ct_assembler: matching packets *)

\* The packet that a get returns, as a set: empty when the get would wait
NextPacket == IF queue = << >> THEN {} ELSE {Head(queue)}

\* await _buffer.get() in the states where the coroutine waits for a packet
Get(p) ==
  /\ p \in NextPacket
  /\ queue' = Tail(queue)

Take(p) == /\ Get(p)
           /\ p.tacks # << >>
           /\ taken' = Append(taken, p)

\* The difference that decides where packet p goes
Dt(p) == Newest(partial_ro_buff).tack - p.tacks[1]

FirstPacket(p) ==
  /\ pc = "first"
  /\ Take(p)
  /\ partial_ro_buff' = DequeAppend(partial_ro_buff, MatchedPacket(p))
  /\ pc' = "loop"
  /\ UNCHANGED <<netVars, got_packet, readouts, readout_count, published>>

\* Mutant: the time window is closed.
MatchNewestClosed(p) ==
  /\ pc = "loop"
  /\ Take(p)
  /\ Abs(Dt(p)) <= ReadoutTw
  /\ partial_ro_buff' =
       [partial_ro_buff EXCEPT ![Len(partial_ro_buff)] = AddPart(@, p)]
  /\ pc' = "assemble"
  /\ UNCHANGED <<netVars, got_packet, readouts, readout_count, published>>

MatchNewest(p) ==
  /\ pc = "loop"
  /\ Take(p)
  /\ Abs(Dt(p)) < ReadoutTw
  /\ partial_ro_buff' =
       [partial_ro_buff EXCEPT ![Len(partial_ro_buff)] = AddPart(@, p)]
  /\ pc' = "assemble"
  /\ UNCHANGED <<netVars, got_packet, readouts, readout_count, published>>

\* Mutant: the sign of the difference is not tested.
NewPartialUnordered(p) ==
  /\ pc = "loop"
  /\ Take(p)
  /\ Abs(Dt(p)) >= ReadoutTw
  /\ partial_ro_buff' = DequeAppend(partial_ro_buff, MatchedPacket(p))
  /\ pc' = "assemble"
  /\ UNCHANGED <<netVars, got_packet, readouts, readout_count, published>>

NewPartial(p) ==
  /\ pc = "loop"
  /\ Take(p)
  /\ Abs(Dt(p)) >= ReadoutTw
  /\ Dt(p) < 0
  /\ partial_ro_buff' = DequeAppend(partial_ro_buff, MatchedPacket(p))
  /\ pc' = "assemble"
  /\ UNCHANGED <<netVars, got_packet, readouts, readout_count, published>>

\* A packet older than the newest partial readout.  With one partial readout
\* the search loop is empty and the packet is dropped with a warning; with
\* more, its first iteration reads pro.timestamp, which MatchedPacket does not
\* have, and the exception ends the coroutine.
LatePacket(p) ==
  /\ pc = "loop"
  /\ Take(p)
  /\ Abs(Dt(p)) >= ReadoutTw
  /\ Dt(p) >= 0
  /\ pc' = IF Len(partial_ro_buff) >= 2 THEN "dead" ELSE "assemble"
  /\ UNCHANGED <<netVars, got_packet, buffVars>>

\* Reading the timestamp of an empty payload raises struct.error.
EmptyPacket(p) ==
  /\ pc \in {"first", "loop"}
  /\ Get(p)
  /\ p.tacks = << >>
  /\ pc' = "dead"
  /\ UNCHANGED <<netVars, got_packet, buffVars, taken>>

-----------------------------------------------------------------------------
(* ct_assembler: assembling and publishing *)

\* Every matched payload of m has at least k readouts.
HasReadouts(m, k) == \A t \in Tms(m) : k <= Len(m.data[t])

FirstTm(m) == CHOOSE t \in Tms(m) : \A u \in Tms(m) : t <= u

Readout(m, i, number) ==
  [iro  |-> number,
   tack |-> m.data[FirstTm(m)][i],
   rows |-> [t \in TM |-> IF t \in Tms(m) THEN m.data[t][i] ELSE NoRow]]

AssembleReadouts(m) ==
  [i \in 1 .. m.nreadouts |-> Readout(m, i, readout_count + i - 1)]

\* Mutant: the number advances once for each partial readout.
AssembleCountOnce ==
  /\ pc = "assemble"
  /\ Expired(partial_ro_buff)
  /\ LET m == Oldest(partial_ro_buff)
     IN  /\ HasReadouts(m, m.nreadouts)
         /\ readouts' = AssembleReadouts(m)
         /\ readout_count' = readout_count + 1
  /\ partial_ro_buff' = Tail(partial_ro_buff)
  /\ pc' = "publish"
  /\ UNCHANGED <<netVars, queue, got_packet, published, taken>>

Assemble ==
  /\ pc = "assemble"
  /\ Expired(partial_ro_buff)
  /\ LET m == Oldest(partial_ro_buff)
     IN  /\ HasReadouts(m, m.nreadouts)
         /\ readouts' = AssembleReadouts(m)
         /\ readout_count' = readout_count + m.nreadouts
  /\ partial_ro_buff' = Tail(partial_ro_buff)
  /\ pc' = "publish"
  /\ UNCHANGED <<netVars, queue, got_packet, published, taken>>

\* nreadouts is that of the first packet: a shorter packet of another module
\* makes unpack_from raise, after the partial readout has left the deque.
AssembleFails ==
  /\ pc = "assemble"
  /\ Expired(partial_ro_buff)
  /\ LET m == Oldest(partial_ro_buff)
     IN  \E k \in 0 .. m.nreadouts - 1 :
           /\ HasReadouts(m, k)
           /\ ~ HasReadouts(m, k + 1)
           /\ readout_count' = readout_count + k
  /\ partial_ro_buff' = Tail(partial_ro_buff)
  /\ pc' = "dead"
  /\ UNCHANGED <<netVars, queue, got_packet, readouts, published, taken>>

\* Mutant: the coroutine may go on with an expired partial readout.
AssembleLater ==
  /\ pc = "assemble"
  /\ pc' = "loop"
  /\ UNCHANGED <<netVars, queue, got_packet, buffVars, taken>>

\* Mutant: assembling is not set to False.
AssembleForever ==
  /\ pc = "assemble"
  /\ ~ Expired(partial_ro_buff)
  /\ UNCHANGED vars

AssembleNothing ==
  /\ pc = "assemble"
  /\ ~ Expired(partial_ro_buff)
  /\ pc' = "loop"
  /\ UNCHANGED <<netVars, queue, got_packet, buffVars, taken>>

\* Mutant: one partial readout is assembled for each packet (if, not while).
PublishThenLoop ==
  /\ pc = "publish"
  /\ published' = Append(published, Head(readouts))
  /\ readouts' = Tail(readouts)
  /\ pc' = IF Tail(readouts) = << >> THEN "loop" ELSE "publish"
  /\ UNCHANGED <<netVars, queue, got_packet, partial_ro_buff, readout_count, taken>>

\* await self.publish(readout.pack()), once for each readout
Publish ==
  /\ pc = "publish"
  /\ published' = Append(published, Head(readouts))
  /\ readouts' = Tail(readouts)
  /\ pc' = IF Tail(readouts) = << >> THEN "assemble" ELSE "publish"
  /\ UNCHANGED <<netVars, queue, got_packet, partial_ro_buff, readout_count, taken>>

-----------------------------------------------------------------------------

\* Mutant: the first readout gets number 0.
InitFromZero ==
  /\ registered = 0
  /\ puts = << >>
  /\ queue = << >>
  /\ pc = "drain"
  /\ got_packet = FALSE
  /\ partial_ro_buff = << >>
  /\ readouts = << >>
  /\ readout_count = 0
  /\ published = << >>
  /\ taken = << >>

Init ==
  /\ registered = 0
  /\ puts = << >>
  /\ queue = << >>
  /\ pc = "drain"
  /\ got_packet = FALSE
  /\ partial_ro_buff = << >>
  /\ readouts = << >>
  /\ readout_count = 1
  /\ published = << >>
  /\ taken = << >>

Network == \E d \in Datagrams : DatagramReceived(d)

Coroutine ==
  \/ DrainGet
  \/ DrainTimeout
  \/ \E p \in NextPacket : \/ FirstPacket(p)
                           \/ MatchNewest(p)
                           \/ NewPartial(p)
                           \/ LatePacket(p)
                           \/ EmptyPacket(p)
  \/ Assemble
  \/ AssembleFails
  \/ AssembleNothing
  \/ Publish

Next == Network \/ PutTask \/ Coroutine

Spec == Init /\ [][Next]_vars

\* The event loop runs every task that is ready: put tasks run and the
\* coroutine is resumed.  Nothing obliges the network to deliver a datagram.
FairSpec == Spec /\ WF_vars(PutTask) /\ WF_vars(Coroutine)
-----------------------------------------------------------------------------
(* Properties *)

\* The types of the state.
TypeOK ==
  /\ registered \in Nat
  /\ puts \in Seq(Packet)
  /\ queue \in Seq(Packet)
  /\ pc \in {"drain", "first", "loop", "assemble", "publish", "dead"}
  /\ got_packet \in BOOLEAN
  /\ partial_ro_buff \in Seq(MatchedPacketType)
  /\ readouts \in Seq(ReadoutType)
  /\ readout_count \in Nat \ {0}
  /\ published \in Seq(ReadoutType)
  /\ taken \in Seq(Packet)

(* The parts of the inductive invariant; d is a deque of partial readouts *)

\* Neighbours in the deque are at least readout_tw apart.
Spread(d) ==
  \A i, j \in 1 .. Len(d) :
    i <= j => d[j].tack - d[i].tack >= (j - i) * ReadoutTw

\* All but the newest partial readout are within buffer_time of the oldest.
SpanBounded(d) ==
  \A i \in 1 .. Len(d) : i < Len(d) => d[i].tack - d[1].tack <= BufferTime

\* Whatever is in a partial readout came within readout_tw of its first packet.
InWindow(m) ==
  /\ Tms(m) # {}
  /\ \A t \in Tms(m) : Abs(m.data[t][1] - m.tack) < ReadoutTw

PartsInWindow(d) == \A i \in 1 .. Len(d) : InWindow(d[i])

\* The deque is indexed at [-1] and [0] without a test: it is never empty once
\* the first packet is in, not even after popleft.
NeverIndexesEmpty ==
  /\ pc \in {"drain", "first"} => partial_ro_buff = << >>
  /\ pc \in {"loop", "assemble", "publish"} => partial_ro_buff # << >>

\* Assembling starts from an empty list: it overwrites no unpublished readout.
PendingWhilePublishing == (pc = "publish") <=> (readouts # << >>)

\* No packet's tack belongs to two partial readouts, the deque spans at most
\* buffer_time when the coroutine waits for a packet and is never indexed when
\* empty, and no assembled readout is overwritten before it is published:
\* whatever the network delivers and however short the deque is.
BufferInv ==
  /\ NeverIndexesEmpty
  /\ Spread(partial_ro_buff)
  /\ SpanBounded(partial_ro_buff)
  /\ PartsInWindow(partial_ro_buff)
  /\ pc = "loop" => ~ Expired(partial_ro_buff)
  /\ PendingWhilePublishing

\* With a deque as long as this, appending never throws a partial readout away.
LongEnough == BufferLen >= BufferTime \div ReadoutTw + 2

\* The number of partial readouts is bounded by the two times, whatever the
\* network delivers: every append is followed by the expiry test.
BufferBounded == Len(partial_ro_buff) <= BufferTime \div ReadoutTw + 2

\* A partial readout leaves the deque only when the newest one is more than
\* buffer_time ahead of it: the silent eviction of deque(maxlen) never happens.
OnlyExpiredLeave ==
  [][ \A i \in DOMAIN partial_ro_buff :
        (\A j \in DOMAIN partial_ro_buff' :
           partial_ro_buff'[j].tack # partial_ro_buff[i].tack)
        => Newest(partial_ro_buff).tack - partial_ro_buff[i].tack > BufferTime
    ]_partial_ro_buff

\* Readouts are published with consecutive numbers from 1: none is skipped,
\* repeated or reordered, packets with several readouts included.
ConsecutiveNumbers ==
  /\ \A i \in DOMAIN published : published[i].iro = i
  /\ \A i \in DOMAIN readouts : readouts[i].iro = Len(published) + i
  /\ pc # "dead" => readout_count = Len(published) + Len(readouts) + 1

(* Event building: what the assembler makes of inputs that are clearly apart *)

SameEvent(tack1, tack2) == Abs(tack1 - tack2) < ReadoutTw

\* One readout per packet, and being closer than readout_tw tells the triggers
\* of the camera apart: the modules' clocks agree well enough.
Separated ==
  /\ \A d \in Datagrams : Accepted(d) /\ Len(d.tacks) = 1
  /\ \A d, e, f \in Datagrams :
       /\ SameEvent(d.tacks[1], e.tacks[1])
       /\ SameEvent(e.tacks[1], f.tacks[1])
       => SameEvent(d.tacks[1], f.tacks[1])

\* What has been published, will be published next, and would be published if
\* the partial readouts were assembled now.
Stream ==
  published \o readouts \o
  [i \in DOMAIN partial_ro_buff |-> Readout(partial_ro_buff[i], 1, readout_count)]

Filled(r) == {t \in TM : r.rows[t] # NoRow}

\* A readout holds packets of one trigger only, and no trigger is spread over
\* two readouts, in whatever order the datagrams arrive.
EventBuilding ==
  \A i, j \in DOMAIN Stream :
    \A t \in Filled(Stream[i]), u \in Filled(Stream[j]) :
      SameEvent(Stream[i].rows[t], Stream[j].rows[u]) <=> i = j

\* Packet number i of those taken is on time when no packet of a later trigger
\* was taken before it.
OnTime(i) ==
  \A j \in 1 .. i - 1 : taken[j].tacks[1] - taken[i].tacks[1] < ReadoutTw

\* Every packet that was on time fills its module's row of the readout of its
\* trigger, before and after that readout is published.
OnTimeIsKept ==
  \A i \in DOMAIN taken :
    OnTime(i) => \E j \in DOMAIN Stream :
                   /\ taken[i].tm \in Filled(Stream[j])
                   /\ SameEvent(Stream[j].rows[taken[i].tm], taken[i].tacks[1])

\* Readouts go out in the order of their own tacks.  The tack of a readout is
\* that of its lowest module, not the one the deque was ordered by.
StreamInTimeOrder ==
  \A i, j \in DOMAIN Stream : i < j => Stream[i].tack < Stream[j].tack

(* Refinement *)

Members(d) == {d[i] : i \in 1 .. Len(d)}

Promised == INSTANCE EventBuilder WITH
              Module  <- TM,
              Window  <- ReadoutTw,
              Horizon <- BufferTime,
              events  <- Members(partial_ro_buff),
              stream  <- published \o readouts,
              alive   <- pc # "dead"

\* The assembler is an event builder: seen without its deque, queue and coroutine it
\* joins, opens and closes events as EventBuilder says, and every readout that leaves
\* it is made of one closed event.
BuildsEvents == Promised!Spec

(* Liveness *)

\* Everything the network delivered is taken, or the coroutine has ended.
QueueIsServed == []<>(pc = "dead" \/ (puts = << >> /\ queue = << >>))

\* Once the oldest partial readout has expired, another readout is published or
\* the coroutine has ended.
ExpiredIsPublished ==
  \A n \in 0 .. MaxDatagrams :
    /\ Len(published) = n
    /\ partial_ro_buff # << >>
    /\ Expired(partial_ro_buff)
    ~> Len(published) > n \/ pc = "dead"

\* The warning for a packet that matches nothing ("No matching packets found
\* for packet with timestamp", readout_assembler.py:212) says that the coroutine
\* survives late packets.
SurvivesLatePackets == pc # "dead"
=============================================================================
